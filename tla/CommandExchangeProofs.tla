----------------------- MODULE CommandExchangeProofs -----------------------
(***************************************************************************)
(* Proofs about CommandExchange for any set of calls, any telemetry and    *)
(* any bound: types, the lock and waiter discipline, and that every step   *)
(* is a step of the promise OneShot makes to the callers.                  *)
(***************************************************************************)
EXTENDS CommandExchange, GateStateProofs

\* A call's command is out exactly when its exchange passed the write.
SentByStage ==
  \A c \in Calls :
    /\ pc[c] \in {"idle", "queued", "publishing"} => published[c] = 0
    /\ pc[c] \in {"draining", "waiting"} => published[c] = 1

\* The inductive invariant.
IInv == TypeOK /\ LockDiscipline /\ OneWaiter /\ SentByStage

(***************************************************************************)
(* Helpers                                                                 *)
(***************************************************************************)

Queued == /\ queue \in Seq(Calls)
          /\ \A i \in DOMAIN queue : pc[queue[i]] = "queued"
          /\ \A i, j \in DOMAIN queue : queue[i] = queue[j] => i = j

LEMMA HeadLeaves ==
  ASSUME TypeOK, Queued, NEW c \in Calls, queue # <<>>, c = Head(queue),
         queue' = Tail(queue), NEW stage, pc' = [pc EXCEPT ![c] = stage]
  PROVE  Queued'
<1>1. queue' \in Seq(Calls) /\ Len(queue') = Len(queue) - 1
  BY DEF Queued
<1>2. \A i \in DOMAIN queue' : i + 1 \in DOMAIN queue /\ queue'[i] = queue[i + 1]
  BY <1>1 DEF Queued
<1>3. \A i \in DOMAIN queue' : queue'[i] # c
  BY <1>1, <1>2 DEF Queued
<1>4. \A i \in DOMAIN queue' : pc'[queue'[i]] = "queued"
  BY <1>1, <1>2, <1>3 DEF Queued, TypeOK
<1>5. \A i, j \in DOMAIN queue' : queue'[i] = queue'[j] => i = j
  BY <1>1, <1>2 DEF Queued
<1> QED
  BY <1>1, <1>4, <1>5 DEF Queued

LEMMA TailJoins ==
  ASSUME TypeOK, Queued, NEW c \in Calls, pc[c] = "idle",
         queue' = Append(queue, c), pc' = [pc EXCEPT ![c] = "queued"]
  PROVE  Queued'
<1>1. queue' \in Seq(Calls) /\ Len(queue') = Len(queue) + 1
  BY DEF Queued
<1>2. \A i \in DOMAIN queue : queue[i] # c /\ queue'[i] = queue[i]
  BY DEF Queued
<1>3. queue'[Len(queue) + 1] = c
  BY DEF Queued
<1>4. DOMAIN queue' = DOMAIN queue \cup {Len(queue) + 1}
  BY <1>1 DEF Queued
<1>5. \A i \in DOMAIN queue' : pc'[queue'[i]] = "queued"
  BY <1>2, <1>3, <1>4 DEF Queued, TypeOK
<1>6. \A i, j \in DOMAIN queue' : queue'[i] = queue'[j] => i = j
  BY <1>2, <1>3, <1>4 DEF Queued
<1> QED
  BY <1>1, <1>5, <1>6 DEF Queued

\* A step of a call that is not in the queue leaves the queue in order.
LEMMA OthersStayQueued ==
  ASSUME TypeOK, Queued, NEW c \in Calls, pc[c] # "queued", UNCHANGED queue,
         NEW stage, pc' = [pc EXCEPT ![c] = stage]
  PROVE  Queued'
BY DEF Queued, TypeOK

LEMMA QueuedIff == TypeOK => (LockDiscipline <=> Queued /\ \A c \in Calls : InExchange(c) <=> holder = c)
BY DEF TypeOK, LockDiscipline, Queued

(***************************************************************************)
(* The invariant                                                           *)
(***************************************************************************)

LEMMA UnknownState == Unknown \in State
BY DEF Unknown, State, ShownPositions, Movements, Operating

LEMMA InitInv == Init => IInv
<1> SUFFICES ASSUME Init PROVE IInv
  OBVIOUS
<1>1. TypeOK
  <2>1. /\ pc \in [Calls -> Stages] /\ queue \in Seq(Calls)
        /\ future \in [Calls -> Futures] /\ result \in [Calls -> Results]
    BY DEF Init, Stages, Futures, Results
  <2>2. connected \in BOOLEAN /\ online \in BOOLEAN /\ stopping \in BOOLEAN
    BY DEF Init
  <2>3. /\ tx \in Seq(Message) /\ hub \in State /\ begun \in State
        /\ noise \in 0..MaxNoise
    BY UnknownState, BoundsAssumption DEF Init
  <2>4. published \in [Calls -> 0..1]
    BY DEF Init
  <2> QED
    BY <2>1, <2>2, <2>3, <2>4 DEF Init, TypeOK
<1>2. LockDiscipline /\ OneWaiter /\ SentByStage
  BY CallsAssumption DEF Init, LockDiscipline, OneWaiter, SentByStage, InExchange
<1> QED
  BY <1>1, <1>2 DEF IInv

\* Leaving the exchange, by whatever exit.
LEMMA ReleaseInv ==
  ASSUME IInv, NEW c \in Calls, InExchange(c), NEW outcome \in Results,
         Release(c, outcome),
         UNCHANGED <<linkVars, begun, fresh, historyVars>>, hub' \in State
  PROVE  IInv'
<1> USE DEF IInv, Release, linkVars, historyVars
<1>1. TypeOK'
  BY DEF TypeOK, Stages, Futures
<1>2. holder = c /\ \A d \in Calls : InExchange(d) => d = c
  BY DEF LockDiscipline
<1>3. Queued'
  BY OthersStayQueued, QueuedIff DEF InExchange
<1>4. \A d \in Calls : InExchange(d)' <=> holder' = d
  BY <1>2, CallsAssumption DEF InExchange, TypeOK
<1>5. LockDiscipline'
  BY <1>3, <1>4 DEF LockDiscipline, Queued
<1>6. OneWaiter'
  BY <1>2 DEF OneWaiter, TypeOK
<1>7. SentByStage'
  BY DEF SentByStage, TypeOK, InExchange
<1> QED
  BY <1>1, <1>5, <1>6, <1>7

\* Resolving pending futures without touching the callers.
LEMMA ResolveInv ==
  ASSUME IInv, NEW calls \in SUBSET Calls, NEW outcome \in Futures \ {"pending"},
         Resolve(calls, outcome), UNCHANGED <<pc, queue, holder, published>>,
         waiters' = waiters \/ (waiters' = {} /\ calls = Waiting)
  PROVE  /\ future' \in [Calls -> Futures]
         /\ LockDiscipline' /\ OneWaiter' /\ SentByStage'
<1> USE DEF IInv, TypeOK, Resolve
<1>1. future' \in [Calls -> Futures]
  OBVIOUS
<1>2. LockDiscipline'
  BY DEF LockDiscipline, InExchange
<1>3. \A c \in Calls : future'[c] = "pending" => c \notin calls /\ future[c] = "pending"
  OBVIOUS
<1>4. OneWaiter'
  BY <1>3 DEF OneWaiter, InExchange, Waiting
<1>5. SentByStage'
  BY DEF SentByStage
<1> QED
  BY <1>1, <1>2, <1>4, <1>5

LEMMA NextInv == IInv /\ [Next]_vars => IInv'
<1> SUFFICES ASSUME IInv, [Next]_vars PROVE IInv'
  OBVIOUS
<1> USE DEF IInv
<1>1. ASSUME NEW c \in Calls, Ask(c) PROVE IInv'
  <2> USE <1>1 DEF Ask, linkVars, hubVars, historyVars
  <2>1. TypeOK'
    BY DEF TypeOK, Stages
  <2>2. Queued'
    BY TailJoins, QueuedIff
  <2>3. LockDiscipline'
    BY <2>2 DEF LockDiscipline, Queued, InExchange, TypeOK
  <2>4. OneWaiter' /\ SentByStage'
    BY DEF OneWaiter, SentByStage, InExchange, TypeOK
  <2> QED
    BY <2>1, <2>3, <2>4
<1>2. ASSUME NEW c \in Calls, Refused(c) PROVE IInv'
  <2> USE <1>2 DEF Refused, Granted, linkVars, hubVars, historyVars
  <2>1. TypeOK'
    BY DEF TypeOK, Stages, Results
  <2>2. Queued'
    BY HeadLeaves, QueuedIff
  <2>3. LockDiscipline'
    BY <2>2 DEF LockDiscipline, Queued, InExchange, TypeOK
  <2>4. OneWaiter' /\ SentByStage'
    BY DEF OneWaiter, SentByStage, InExchange, TypeOK
  <2> QED
    BY <2>1, <2>3, <2>4
<1>3. ASSUME NEW c \in Calls, Acquire(c) PROVE IInv'
  <2> USE <1>3 DEF Acquire, Granted, linkVars
  <2>1. TypeOK'
    <3>1. queue' \in Seq(Calls) /\ holder' \in Calls \cup {Nobody}
      BY DEF TypeOK
    <3>2. pc' \in [Calls -> Stages] /\ waiters' \in SUBSET Calls /\ future' \in [Calls -> Futures]
      BY DEF TypeOK, Stages, Futures
    <3>3. begun' \in State /\ fresh' \in SUBSET {"operating", "position"}
      BY DEF TypeOK
    <3> QED
      BY <3>1, <3>2, <3>3 DEF TypeOK
  <2>2. Queued'
    BY HeadLeaves, QueuedIff
  <2>3. \A d \in Calls : ~InExchange(d)
    BY CallsAssumption DEF LockDiscipline
  <2>4. \A d \in Calls : InExchange(d)' <=> holder' = d
    BY <2>3 DEF InExchange, TypeOK
  <2>5. LockDiscipline'
    BY <2>2, <2>4 DEF LockDiscipline, Queued
  <2>6. waiters = {} /\ \A d \in Calls : future[d] # "pending"
    BY <2>3 DEF OneWaiter, TypeOK
  <2>7. OneWaiter'
    BY <2>6 DEF OneWaiter, InExchange, TypeOK
  <2>8. SentByStage'
    BY DEF SentByStage, TypeOK
  <2> QED
    BY <2>1, <2>5, <2>7, <2>8
<1>4. ASSUME NEW c \in Calls, Write(c) PROVE IInv'
  <2> USE <1>4 DEF Write, hubVars
  <2>1. TypeOK'
    BY DEF TypeOK, Stages, SentByStage
  <2>2. Queued'
    BY OthersStayQueued, QueuedIff
  <2>3. LockDiscipline'
    BY <2>2 DEF LockDiscipline, Queued, InExchange, TypeOK
  <2>4. OneWaiter' /\ SentByStage'
    BY DEF OneWaiter, SentByStage, InExchange, TypeOK
  <2> QED
    BY <2>1, <2>3, <2>4
<1>5. ASSUME NEW c \in Calls, Drained(c) PROVE IInv'
  <2> USE <1>5 DEF Drained, linkVars, hubVars, historyVars
  <2>1. TypeOK'
    BY DEF TypeOK, Stages
  <2>2. Queued'
    BY OthersStayQueued, QueuedIff
  <2>3. LockDiscipline'
    BY <2>2 DEF LockDiscipline, Queued, InExchange, TypeOK
  <2>4. OneWaiter' /\ SentByStage'
    BY DEF OneWaiter, SentByStage, InExchange, TypeOK
  <2> QED
    BY <2>1, <2>3, <2>4
<1>6. ASSUME NEW c \in Calls, WriteFails(c) \/ DrainFails(c) PROVE IInv'
  BY <1>6, ReleaseInv DEF WriteFails, DrainFails, InExchange, Results, hubVars, TypeOK
<1>17. ASSUME NEW c \in Calls, PublishedUnanswered(c) PROVE IInv'
  <2>1. hub' \in State
    BY <1>17 DEF PublishedUnanswered, TypeOK, State
  <2> QED
    BY <1>17, <2>1, ReleaseInv DEF PublishedUnanswered, InExchange, Results
<1>7. ASSUME NEW c \in Calls, ResumeAcked(c) PROVE IInv'
  <2>1. hub' \in State
    BY <1>7, AfterCommandOK DEF ResumeAcked, TypeOK
  <2> QED
    BY <1>7, <2>1, ReleaseInv DEF ResumeAcked, InExchange, Results
<1>8. ASSUME NEW c \in Calls, ResumeFailed(c) PROVE IInv'
  BY <1>8, ReleaseInv DEF ResumeFailed, InExchange, Results, hubVars, TypeOK
<1>9. ASSUME NEW c \in Calls, Timeout(c) PROVE IInv'
  <2>1. hub' \in State
    BY <1>9, AfterCommandOK DEF Timeout, TypeOK, Commands
  <2>2. Release(c, "motion") \/ Release(c, "timeout")
    BY <1>9 DEF Timeout
  <2> QED
    BY <1>9, <2>1, <2>2, ReleaseInv DEF Timeout, InExchange, Results
<1>10. ASSUME NEW c \in Calls, Answer(c) PROVE IInv'
  <2> USE <1>10 DEF Answer, callVars, hubVars, historyVars
  <2>1. {[type |-> "ack", of |-> AskedFor[c]], [type |-> "nak"]} \subseteq Message
    BY CallsAssumption DEF Message
  <2>2. tx' \in Seq(Message)
    <3>1. tx \in Seq(Message)
      BY DEF TypeOK
    <3>2. \/ tx' = tx
          \/ \E m \in {[type |-> "ack", of |-> AskedFor[c]], [type |-> "nak"]} :
               tx' = Append(tx, m)
      OBVIOUS
    <3>3. \A m \in Message : Append(tx, m) \in Seq(Message)
      BY <3>1
    <3> QED
      BY <2>1, <3>1, <3>2, <3>3
  <2>3. TypeOK'
    BY <2>2 DEF TypeOK
  <2> QED
    BY <2>3 DEF LockDiscipline, OneWaiter, SentByStage, InExchange
<1>11. CASE Deliver
  <2> DEFINE m == Head(tx)
  <2> USE <1>11 DEF Deliver
  <2>1. m \in Message /\ tx' \in Seq(Message)
    BY DEF TypeOK
  <2>2. CASE AckArrives(m)
    <3> DEFINE matched == { c \in Waiting : AskedFor[c] = m.of }
    <3>1. Resolve(matched, "acked") /\ matched \in SUBSET Calls
      BY <2>2 DEF AckArrives, Waiting, TypeOK
    <3>2. future' \in [Calls -> Futures] /\ LockDiscipline' /\ OneWaiter' /\ SentByStage'
      BY <3>1, ResolveInv DEF Futures
    <3>3. TypeOK'
      BY <2>1, <2>2, <3>2 DEF AckArrives, hubVars, TypeOK
    <3> QED
      BY <3>2, <3>3
  <2>3. CASE NakArrives(m)
    <3>1. Resolve(Waiting, "rejected") /\ Waiting \in SUBSET Calls
      BY <2>3 DEF NakArrives, Waiting, TypeOK
    <3>2. future' \in [Calls -> Futures] /\ LockDiscipline' /\ OneWaiter' /\ SentByStage'
      BY <3>1, ResolveInv DEF Futures
    <3>3. TypeOK'
      BY <2>1, <2>3, <3>2 DEF NakArrives, hubVars, TypeOK
    <3> QED
      BY <3>2, <3>3
  <2>4. CASE StatusArrives(m)
    <3>1. m.frame \in StatusFrame
      BY <2>1, <2>4 DEF StatusArrives, Message
    <3>2. hub' \in State
      BY <2>4, <3>1, ApplyStatusOK DEF StatusArrives, TypeOK
    <3>3. fresh' \in SUBSET {"operating", "position"}
      BY <2>4, <3>1 DEF StatusArrives, TypeOK, StatusFrame, Movements
    <3>4. TypeOK'
      BY <2>1, <2>4, <3>2, <3>3 DEF StatusArrives, TypeOK
    <3> QED
      BY <2>4, <3>4 DEF StatusArrives, LockDiscipline, OneWaiter, SentByStage, InExchange
  <2>5. CASE LiveArrives(m)
    <3>1. m.position \in Percent
      BY <2>1, <2>5 DEF LiveArrives, Message
    <3>2. hub' \in State
      BY <2>5, <3>1, ApplyPositionOK DEF LiveArrives, TypeOK
    <3>3. Normalize(m.position) \in Int /\ hub.position \in Int /\ begun.position \in Int
      BY <3>1, NormalizeShown, ShownIsInt DEF TypeOK, State
    <3>4. fresh' \in SUBSET {"operating", "position"}
      BY <2>5, <3>3, TowardType DEF LiveArrives, TypeOK, Movements
    <3>5. TypeOK'
      BY <2>1, <2>5, <3>2, <3>4 DEF LiveArrives, TypeOK
    <3> QED
      BY <2>5, <3>5 DEF LiveArrives, LockDiscipline, OneWaiter, SentByStage, InExchange
  <2> QED
    BY <2>2, <2>3, <2>4, <2>5
<1>12. CASE Noise
  <2> USE <1>12 DEF Noise, callVars, hubVars
  <2>1. tx' \in Seq(Message) /\ noise' \in 0..MaxNoise
    BY CallsAssumption, FramesAssumption, BoundsAssumption DEF TypeOK, Message
  <2>2. TypeOK'
    BY <2>1 DEF TypeOK
  <2> QED
    BY <2>2 DEF LockDiscipline, OneWaiter, SentByStage, InExchange
<1>13. CASE Disconnect
  <2> USE <1>13 DEF Disconnect, hubVars, historyVars
  <2>1. Waiting \in SUBSET Calls
    BY DEF Waiting, TypeOK
  <2>2. future' \in [Calls -> Futures] /\ LockDiscipline' /\ OneWaiter' /\ SentByStage'
    BY <2>1, ResolveInv DEF Futures
  <2>3. connected' \in BOOLEAN /\ stopping' \in BOOLEAN /\ online' \in BOOLEAN
    BY DEF TypeOK
  <2>4. tx' \in Seq(Message)
    OBVIOUS
  <2>5. TypeOK'
    BY <2>2, <2>3, <2>4 DEF TypeOK
  <2> QED
    BY <2>2, <2>5
<1>14. CASE HubStops
  <2> USE <1>14 DEF HubStops, hubVars, historyVars
  <2>1. Waiting \in SUBSET Calls
    BY DEF Waiting, TypeOK
  <2>2. future' \in [Calls -> Futures] /\ LockDiscipline' /\ OneWaiter' /\ SentByStage'
    BY <2>1, ResolveInv DEF Futures
  <2>3. connected' \in BOOLEAN /\ stopping' \in BOOLEAN /\ online' \in BOOLEAN
    BY DEF TypeOK
  <2>4. tx' \in Seq(Message)
    OBVIOUS
  <2>5. TypeOK'
    BY <2>2, <2>3, <2>4 DEF TypeOK
  <2> QED
    BY <2>2, <2>5
<1>15. CASE Reconnect \/ Presence
  BY <1>15 DEF Reconnect, Presence, callVars, hubVars, historyVars, TypeOK,
               LockDiscipline, OneWaiter, SentByStage, InExchange
<1>16. CASE UNCHANGED vars
  BY <1>16 DEF vars, callVars, linkVars, hubVars, historyVars, TypeOK,
               LockDiscipline, OneWaiter, SentByStage, InExchange
<1> QED
  BY <1>1, <1>2, <1>3, <1>4, <1>5, <1>6, <1>7, <1>8, <1>9, <1>10, <1>11, <1>12,
     <1>13, <1>14, <1>15, <1>16, <1>17 DEF Next

LEMMA Invariance == SafetySpec => []IInv
BY InitInv, NextInv, PTL DEF SafetySpec

\* Every variable keeps its type; no command is published twice.
THEOREM TypeCorrect == SafetySpec => []TypeOK
BY Invariance, PTL DEF IInv

\* One exchange at a time, and no lock that is held by a finished one.
THEOREM LockIsDisciplined == SafetySpec => []LockDiscipline
BY Invariance, PTL DEF IInv

\* Only the running exchange has a waiter, and no exit leaves one behind.
THEOREM WaiterIsTheHolders == SafetySpec => []OneWaiter
BY Invariance, PTL DEF IInv

(***************************************************************************)
(* The promise to the callers                                              *)
(***************************************************************************)

phase == [c \in Calls |-> Phase(c)]

\* How a step of one call moves its phase and nobody else's.
LEMMA OnePhaseMoves ==
  ASSUME TypeOK, NEW c \in Calls, NEW stage, NEW outcome,
         pc' = [pc EXCEPT ![c] = stage],
         result' = result \/ result' = [result EXCEPT ![c] = outcome]
  PROVE  phase' = [phase EXCEPT ![c] = Phase(c)']
<1>1. \A d \in Calls : d # c => Phase(d)' = Phase(d)
  BY DEF TypeOK, Phase, InExchange
<1> QED
  BY <1>1 DEF phase

LEMMA NoPhaseMoves ==
  ASSUME UNCHANGED <<pc, result>>
  PROVE  phase' = phase
BY DEF phase, Phase, InExchange

LEMMA PhaseAt ==
  ASSUME NEW c \in Calls
  PROVE  /\ pc[c] = "idle" => Phase(c) = "new"
         /\ pc[c] = "queued" => Phase(c) = "asked"
         /\ InExchange(c) <=> Phase(c) = "open"
         /\ pc[c] = "done" => Phase(c) = IF result[c] \in {"acked", "motion", "published"}
                                        THEN "success" ELSE "failure"
         /\ phase[c] = Phase(c)
BY DEF Phase, InExchange, phase

LEMMA ReleaseCloses ==
  ASSUME IInv, NEW c \in Calls, InExchange(c), NEW outcome,
         Release(c, outcome), UNCHANGED published,
         outcome \in {"acked", "motion", "published"} => published[c] = 1
  PROVE  Promise!Next
<1> DEFINE verdict == IF outcome \in {"acked", "motion", "published"} THEN "success" ELSE "failure"
<1>1. phase' = [phase EXCEPT ![c] = Phase(c)']
  BY OnePhaseMoves DEF Release, IInv
<1>2. pc'[c] = "done" /\ result'[c] = outcome
  BY DEF Release, IInv, TypeOK
<1>3. Phase(c)' = verdict
  BY <1>2 DEF Phase, InExchange
<1>4. phase[c] = "open"
  BY PhaseAt
<1>5. Promise!Close(c, verdict)
  BY <1>1, <1>3, <1>4 DEF Promise!Close, phase
<1> QED
  BY <1>5 DEF Promise!Next, Promise!Verdicts

LEMMA PromiseStep == IInv /\ [Next]_vars => [Promise!Next]_(Promise!vars)
<1> SUFFICES ASSUME IInv, [Next]_vars PROVE [Promise!Next]_(Promise!vars)
  OBVIOUS
<1> USE DEF IInv
<1>1. ASSUME NEW c \in Calls, Ask(c) PROVE Promise!Next
  <2>1. phase' = [phase EXCEPT ![c] = Phase(c)'] /\ phase[c] = "new"
    BY <1>1, OnePhaseMoves, PhaseAt DEF Ask
  <2>2. Phase(c)' = "asked"
    BY <1>1 DEF Ask, Phase, InExchange, TypeOK
  <2>3. Promise!Ask(c)
    BY <1>1, <2>1, <2>2 DEF Promise!Ask, Ask, historyVars, phase
  <2> QED
    BY <2>3 DEF Promise!Next
<1>2. ASSUME NEW c \in Calls, Refused(c) PROVE Promise!Next
  <2>1. phase' = [phase EXCEPT ![c] = Phase(c)'] /\ phase[c] = "asked"
    BY <1>2, OnePhaseMoves, PhaseAt DEF Refused, Granted
  <2>2. Phase(c)' = "failure"
    BY <1>2 DEF Refused, Phase, InExchange, TypeOK
  <2>3. Promise!Refuse(c)
    BY <1>2, <2>1, <2>2 DEF Promise!Refuse, Refused, historyVars, phase
  <2> QED
    BY <2>3 DEF Promise!Next
<1>3. ASSUME NEW c \in Calls, Acquire(c) PROVE Promise!Next
  <2>1. phase' = [phase EXCEPT ![c] = Phase(c)'] /\ phase[c] = "asked"
    BY <1>3, OnePhaseMoves, PhaseAt DEF Acquire, Granted
  <2>2. Phase(c)' = "open"
    BY <1>3 DEF Acquire, Phase, InExchange, TypeOK
  <2>3. \A d \in Calls : phase[d] # "open"
    BY <1>3, CallsAssumption, PhaseAt DEF Acquire, Granted, LockDiscipline
  <2>4. Promise!Open(c)
    BY <1>3, <2>1, <2>2, <2>3 DEF Promise!Open, Acquire, phase
  <2> QED
    BY <2>4 DEF Promise!Next
<1>4. ASSUME NEW c \in Calls, Write(c) PROVE Promise!Next
  <2>1. phase' = [phase EXCEPT ![c] = Phase(c)'] /\ phase[c] = "open"
    BY <1>4, OnePhaseMoves, PhaseAt DEF Write, InExchange
  <2>2. Phase(c)' = "open"
    BY <1>4 DEF Write, Phase, InExchange, TypeOK
  <2>3. phase' = phase
    BY <2>1, <2>2 DEF phase
  <2>4. published[c] = 0
    BY <1>4 DEF Write, SentByStage
  <2>5. published' = [published EXCEPT ![c] = published[c] + 1]
    BY <1>4 DEF Write
  <2>6. published' = [published EXCEPT ![c] = 1]
    BY <2>4, <2>5
  <2>7. Promise!Send(c)
    BY <2>1, <2>3, <2>4, <2>6 DEF Promise!Send, phase
  <2> QED
    BY <2>7 DEF Promise!Next
<1>5. ASSUME NEW c \in Calls, Drained(c) PROVE UNCHANGED Promise!vars
  <2>1. phase' = [phase EXCEPT ![c] = Phase(c)'] /\ phase[c] = "open"
    BY <1>5, OnePhaseMoves, PhaseAt DEF Drained, InExchange
  <2>2. Phase(c)' = "open"
    BY <1>5 DEF Drained, Phase, InExchange, TypeOK
  <2>3. phase' = phase
    BY <2>1, <2>2 DEF phase
  <2> QED
    BY <1>5, <2>3 DEF Promise!vars, Drained, historyVars, phase
<1>6. ASSUME NEW c \in Calls, WriteFails(c) \/ DrainFails(c) PROVE Promise!Next
  BY <1>6, ReleaseCloses DEF WriteFails, DrainFails, InExchange, historyVars
<1>10. ASSUME NEW c \in Calls, PublishedUnanswered(c) PROVE Promise!Next
  BY <1>10, ReleaseCloses DEF PublishedUnanswered, InExchange, SentByStage, historyVars
<1>7. ASSUME NEW c \in Calls, ResumeAcked(c) \/ ResumeFailed(c) \/ Timeout(c)
      PROVE  Promise!Next
  <2>1. InExchange(c) /\ published[c] = 1 /\ UNCHANGED published
    BY <1>7 DEF ResumeAcked, ResumeFailed, Timeout, InExchange, SentByStage, historyVars
  <2>2. \E outcome \in Results : Release(c, outcome)
    BY <1>7 DEF ResumeAcked, ResumeFailed, Timeout, Results
  <2> QED
    BY <2>1, <2>2, ReleaseCloses
<1>8. ASSUME NEW c \in Calls, Answer(c) PROVE UNCHANGED Promise!vars
  BY <1>8, NoPhaseMoves DEF Answer, callVars, historyVars, Promise!vars, phase
<1>9. CASE Deliver \/ Noise \/ Disconnect \/ Reconnect \/ Presence \/ HubStops \/ UNCHANGED vars
  <2>1. UNCHANGED <<pc, result, published>>
    BY <1>9 DEF Deliver, Noise, Disconnect, Reconnect, Presence, HubStops, vars,
                callVars, historyVars
  <2> QED
    BY <2>1, NoPhaseMoves DEF Promise!vars, phase
<1> QED
  BY <1>1, <1>2, <1>3, <1>4, <1>5, <1>6, <1>7, <1>8, <1>9, <1>10 DEF Next

\* Commands go out one at a time and at most once each, and only a command that
\* went out is reported as successful, whatever the network, the gate and the
\* other clients do.
THEOREM KeepsThePromise == SafetySpec => OneShotSafety
<1>1. Init => Promise!Init
  <2> SUFFICES ASSUME Init PROVE Promise!Init
    OBVIOUS
  <2>1. \A c \in Calls : Phase(c) = "new"
    BY PhaseAt DEF Init
  <2> QED
    BY <2>1 DEF Init, Promise!Init
<1> QED
  BY <1>1, PromiseStep, Invariance, PTL DEF SafetySpec, OneShotSafety, Promise!SafetySpec

(***************************************************************************)
(* A lost acknowledgement                                                  *)
(***************************************************************************)

LEMMA MotionStep ==
  ASSUME IInv, [Next]_vars, NEW c \in Calls, result[c] = "none", result'[c] = "motion"
  PROVE  /\ begun.operating # "yes" /\ fresh # {} /\ MovesAsAsked(c)
         /\ [hub' EXCEPT !.pedAssumed = hub.pedAssumed] = hub
<1>1. ASSUME NEW d \in Calls, NEW outcome, Release(d, outcome), outcome # "motion"
      PROVE  FALSE
  BY <1>1 DEF Release, IInv, TypeOK
<1>2. ~UNCHANGED result
  OBVIOUS
<1>3. PICK d \in Calls : Timeout(d)
  <2>1. ~(\/ Deliver \/ Noise \/ Disconnect \/ Reconnect \/ Presence \/ HubStops
          \/ UNCHANGED vars)
    BY <1>2 DEF Deliver, Noise, Disconnect, Reconnect, Presence, HubStops, vars, callVars
  <2>2. PICK d \in Calls : \/ Ask(d) \/ Refused(d) \/ Acquire(d) \/ Write(d) \/ WriteFails(d)
                           \/ Drained(d) \/ DrainFails(d) \/ PublishedUnanswered(d)
                           \/ ResumeAcked(d) \/ ResumeFailed(d) \/ Timeout(d) \/ Answer(d)
    BY <2>1 DEF Next
  <2>3. ~(Ask(d) \/ Acquire(d) \/ Write(d) \/ Drained(d) \/ Answer(d))
    BY <1>2 DEF Ask, Acquire, Write, Drained, Answer, callVars
  <2>4. ~Refused(d)
    BY DEF Refused, IInv, TypeOK
  <2>5. ~(\/ WriteFails(d) \/ DrainFails(d) \/ PublishedUnanswered(d) \/ ResumeAcked(d)
          \/ ResumeFailed(d))
    BY <1>1 DEF WriteFails, DrainFails, PublishedUnanswered, ResumeAcked, ResumeFailed
  <2> QED
    BY <2>2, <2>3, <2>4, <2>5
<1>4. MotionConfirms(MotionOf(AskedFor[d])) /\ hub' = AfterMotionProof(hub, AskedFor[d])
  BY <1>1, <1>3 DEF Timeout
<1>c. d = c
  BY <1>1, <1>3 DEF Timeout, Release, IInv, TypeOK
<1>5. hub \in State
  BY DEF IInv, TypeOK
<1>6. [hub' EXCEPT !.pedAssumed = hub.pedAssumed] = hub
  BY <1>4, <1>5 DEF AfterMotionProof, State
<1> QED
  BY <1>4, <1>6, <1>c DEF MotionConfirms, MovesAsAsked

\* A call whose acknowledgement was lost succeeds only on telemetry newer than
\* its turn, by which the gate moves the way asked for or stands further that way,
\* and from a gate that stood still when it began (_motion_confirms_command).
THEOREM MotionIsProven == SafetySpec => MotionEvidence
<1>1. IInv /\ [Next]_vars =>
        [ \A c \in Calls : (result[c] = "none" /\ result'[c] = "motion") =>
            /\ begun.operating # "yes"
            /\ fresh # {} /\ MovesAsAsked(c)
            /\ [hub' EXCEPT !.pedAssumed = hub.pedAssumed] = hub ]_vars
  BY MotionStep
<1> QED
  BY <1>1, Invariance, PTL DEF SafetySpec, MotionEvidence

=============================================================================
