---------------------------- MODULE ParameterProofs ----------------------------
(***************************************************************************)
(* Proofs about the parameters.  First the exchanges, of                   *)
(* ParameterTransaction, for any number of writers, any frames and any     *)
(* bound: types, the lock, and, where the codec gives back what it was     *)
(* given, that no update is lost and no other field is touched.  Then what *)
(* the codecs give back, of ParameterCodec, for any models with well       *)
(* formed tables, any options and any frames of the app: decoding undoes   *)
(* encoding, and what a call changes on the board.                         *)
(*                                                                         *)
(* The provers cannot do induction over data.  A number has at most three  *)
(* digits and a value at most three bits: where the model recurs, a        *)
(* function spelled out for that length is shown to solve the recursion.   *)
(***************************************************************************)
EXTENDS ParameterTransaction, ParameterCodec, SequenceTheorems, TLAPS

(***************************************************************************)
(* The lock                                                                *)
(***************************************************************************)

InTransaction(c) == pc[c] \in {"reading", "writing", "verifying"}

Queued == /\ \A i \in DOMAIN queue : pc[queue[i]] = "queued"
          /\ \A i, j \in DOMAIN queue : queue[i] = queue[j] => i = j

\* The lock is held by the client in its transaction, and only a writer writes.
LockInv == /\ Queued
           /\ \A c \in Clients : InTransaction(c) <=> holder = c
           /\ pc[Loop] \in {"idle", "queued", "reading", "dead"}

\* What a writer wrote and verifies has the value it asked for.
BaseInv ==
  \A w \in Writers : pc[w] \in {"writing", "verifying"} =>
    base \in Frame /\ base[Asked[w].index] = Asked[w].value

----------------------------------------------------------------------------
(***************************************************************************)
(* Types                                                                   *)
(***************************************************************************)

LEMMA DecodedFrame ==
  ASSUME profile \in Profiles, NEW frame \in Frame
  PROVE  Decoded(frame) \in Frame
<1>1. \A v \in Value : ReadsBack(v) \in Value
  BY ValueAssumption DEF ReadsBack, Uart0ReadsBack
<1> QED
  BY <1>1 DEF Decoded, Frame

LEMMA ReplacedFrame ==
  ASSUME NEW c \in Writers, NEW frame \in Frame
  PROVE  Replaced(frame, c) \in Frame /\ Replaced(frame, c)[Asked[c].index] = Asked[c].value
BY AskedAssumption DEF Replaced, Frame

LEMMA MessageTypes ==
  /\ [type |-> "RP"] \in Request
  /\ \A f \in Frame : [type |-> "WP", frame |-> f] \in Request
  /\ \A f \in Frame : [type |-> "frame", frame |-> f] \in Answer
  /\ \A t \in {"garbled", "ack", "nak"} : [type |-> t] \in Answer
  /\ \A m \in Answer : m \in Outcome /\ (m.type = "frame" => m.frame \in Frame)
  /\ \A m \in Outcome : m.type = "frame" => m.frame \in Frame
  /\ \A r \in Request : r.type = "WP" => r.frame \in Frame
  /\ Pending \in Outcome /\ [type |-> "down"] \in Outcome
BY DEF Request, Answer, Outcome, Pending

LEMMA SequenceTypes ==
  /\ \A S : \A s \in Seq(S) : s # <<>> => Head(s) \in S /\ Tail(s) \in Seq(S)
  /\ \A S : \A s \in Seq(S), x \in S : Append(s, x) \in Seq(S)
  /\ \A S : <<>> \in Seq(S)
OBVIOUS

LEMMA EndsType ==
  ASSUME TypeOK, NEW c \in Clients, NEW stage \in {"failed", "done", "dead", "idle"}, Ends(c, stage)
  PROVE  /\ pc' \in [Clients -> Stages] /\ holder' \in Clients \cup {Nobody}
         /\ answer' \in Outcome /\ base' \in Frame \cup {NoFrame}
<1>1. pc' \in [Clients -> Stages]
  BY DEF Ends, TypeOK, Stages
<1> QED
  BY <1>1, MessageTypes DEF Ends

LEMMA ExchangeType ==
  ASSUME TypeOK, NEW c \in Clients, NEW stage \in {"reading", "writing", "verifying"},
         NEW request \in Request, NEW frame \in Frame \cup {NoFrame},
         Exchange(c, stage, request, frame)
  PROVE  /\ pc' \in [Clients -> Stages] /\ holder' \in Clients \cup {Nobody}
         /\ answer' \in Outcome /\ base' \in Frame \cup {NoFrame} /\ requests' \in Seq(Request)
<1>1. requests \in Seq(Request)
  BY DEF TypeOK
<1>2. CASE connected
  <2>1. pc' = [pc EXCEPT ![c] = stage] /\ requests' = Append(requests, request) /\ holder' = c
        /\ answer' = Pending /\ base' = frame
    BY <1>2 DEF Exchange
  <2>2. pc' \in [Clients -> Stages]
    BY <2>1 DEF TypeOK, Stages
  <2> QED
    BY <1>1, <2>1, <2>2, MessageTypes, SequenceTypes
<1>3. CASE ~connected
  <2>1. Ends(c, "failed") /\ requests' = requests
    BY <1>3 DEF Exchange
  <2> QED
    BY <1>1, <2>1, EndsType
<1> QED
  BY <1>2, <1>3

LEMMA FaultBound == ASSUME TypeOK, Fault PROVE faults' \in 0..MaxFaults
BY BoundsAssumption DEF Fault, TypeOK

LEMMA InitType == Init => TypeOK
<1> SUFFICES ASSUME Init PROVE TypeOK
  OBVIOUS
<1>1. gate \in Frame /\ answer \in Outcome /\ requests \in Seq(Request) /\ answers \in Seq(Answer)
  BY SetsAssumption, MessageTypes DEF Init
<1>2. pc \in [Clients -> Stages] /\ queue \in Seq(Clients)
  BY DEF Init, Stages
<1>3. faults \in 0..MaxFaults /\ foreign \in 0..MaxForeign
  BY BoundsAssumption DEF Init
<1>4. shadow \in Frame /\ origin \in Frame
  BY <1>1 DEF Init
<1> QED
  BY <1>1, <1>2, <1>3, <1>4 DEF Init, TypeOK

LEMMA NextType == TypeOK /\ [Next]_vars => TypeOK'
<1> SUFFICES ASSUME TypeOK, [Next]_vars PROVE TypeOK'
  OBVIOUS
<1> USE DEF netVars, envVars, historyVars, hubVars
<1>0. queue \in Seq(Clients) /\ requests \in Seq(Request) /\ answers \in Seq(Answer)
  BY DEF TypeOK
<1>1. ASSUME NEW c \in Clients, Ask(c) PROVE TypeOK'
  <2>1. pc' \in [Clients -> Stages]
    BY <1>1 DEF Ask, TypeOK, Stages
  <2>2. queue' \in Seq(Clients)
    <3>1. queue' = queue \/ queue' = Append(queue, c)
      BY <1>1 DEF Ask
    <3> QED
      BY <1>0, <3>1, SequenceTypes
  <2> QED
    BY <1>1, <2>1, <2>2 DEF Ask, TypeOK
<1>2. ASSUME NEW c \in Clients, Acquire(c) PROVE TypeOK'
  <2>1. queue' \in Seq(Clients)
    BY <1>0, <1>2, SequenceTypes DEF Acquire
  <2>2. Exchange(c, "reading", [type |-> "RP"], NoFrame)
    BY <1>2 DEF Acquire
  <2> QED
    BY <1>2, <2>1, <2>2, ExchangeType, MessageTypes DEF Acquire, TypeOK
<1>3. ASSUME NEW c \in Clients, WriteFrame(c) PROVE TypeOK'
  <2> DEFINE frame == Replaced(Decoded(answer.frame), c)
  <2>1. frame \in Frame /\ [type |-> "WP", frame |-> frame] \in Request
    BY <1>3, DecodedFrame, ReplacedFrame, MessageTypes DEF WriteFrame, TypeOK
  <2>2. Exchange(c, "writing", [type |-> "WP", frame |-> frame], frame)
        \/ (Ends(c, "failed") /\ requests' = requests)
    BY <1>3 DEF WriteFrame
  <2>3. /\ pc' \in [Clients -> Stages] /\ holder' \in Clients \cup {Nobody}
        /\ answer' \in Outcome /\ base' \in Frame \cup {NoFrame} /\ requests' \in Seq(Request)
    <3> HIDE DEF frame
    <3> QED
      BY <1>0, <2>1, <2>2, ExchangeType, EndsType
  <2> QED
    BY <1>3, <2>3 DEF WriteFrame, TypeOK
<1>4. ASSUME NEW c \in Clients, ReadBack(c) PROVE TypeOK'
  <2>1. Exchange(c, "verifying", [type |-> "RP"], base) /\ base \in Frame \cup {NoFrame}
    BY <1>4 DEF ReadBack, TypeOK
  <2> QED
    BY <1>4, <2>1, ExchangeType, MessageTypes DEF ReadBack, TypeOK
<1>5. ASSUME NEW c \in Clients, Verify(c) PROVE TypeOK'
  <2>1. Decoded(answer.frame) \in Frame
    BY <1>5, DecodedFrame, MessageTypes DEF Verify, TypeOK
  <2>2. (Ends(c, "done") \/ Ends(c, "failed")) /\ shown' \in Frame \cup {NoFrame}
    BY <1>5, <2>1 DEF Verify, TypeOK
  <2> QED
    BY <1>5, <2>2, EndsType DEF Verify, TypeOK
<1>6. CASE Refreshed
  <2>1. Decoded(answer.frame) \in Frame
    BY <1>6, DecodedFrame, MessageTypes DEF Refreshed, TypeOK
  <2>2. Loop \in Clients
    BY DEF Clients
  <2> QED
    BY <1>6, <2>1, <2>2, EndsType DEF Refreshed, TypeOK
<1>7. ASSUME NEW c \in Clients, ExchangeFails(c) PROVE TypeOK'
  BY <1>7, EndsType DEF ExchangeFails, TypeOK
<1>8. ASSUME NEW c \in Clients, Timeout(c) PROVE TypeOK'
  <2>1. faults' \in 0..MaxFaults
    BY <1>8, FaultBound DEF Timeout, TypeOK
  <2> QED
    BY <1>8, <2>1, EndsType DEF Timeout, TypeOK
<1>9. ASSUME NEW c \in Clients, DrainBreaks(c) PROVE TypeOK'
  BY <1>9, FaultBound, EndsType DEF DrainBreaks, TypeOK
<1>10. CASE Wakes
  <2>1. pc' \in [Clients -> Stages] /\ queue' \in Seq(Clients)
    BY <1>0, <1>10, SequenceTypes DEF Wakes, TypeOK, Stages, Clients
  <2> QED
    BY <1>10, <2>1 DEF Wakes, TypeOK
<1>11. CASE Deliver
  <2>1. Head(answers) \in Answer /\ answers' \in Seq(Answer)
    BY <1>0, <1>11, SequenceTypes DEF Deliver
  <2>2. Head(answers).type = "frame" => Decoded(Head(answers).frame) \in Frame
    BY <2>1, DecodedFrame, MessageTypes DEF TypeOK
  <2>3. shown' \in Frame \cup {NoFrame} /\ answer' \in Outcome
    BY <1>11, <2>1, <2>2, MessageTypes DEF Deliver, TypeOK
  <2> QED
    BY <1>11, <2>1, <2>3 DEF Deliver, TypeOK
<1>12. CASE ShadowArrives
  BY <1>12, DecodedFrame DEF ShadowArrives, TypeOK
<1>13. CASE GateServes
  <2>1. Head(requests) \in Request /\ requests' \in Seq(Request)
    BY <1>0, <1>13, SequenceTypes DEF GateServes
  <2>2. gate \in Frame
    BY DEF TypeOK
  <2>3. answers' \in Seq(Answer) /\ gate' \in Frame
    BY <1>0, <1>13, <2>1, <2>2, SequenceTypes, MessageTypes DEF GateServes
  <2>4. faults' \in 0..MaxFaults
    BY <1>13, FaultBound DEF GateServes, TypeOK
  <2> QED
    BY <1>13, <2>1, <2>3, <2>4 DEF GateServes, TypeOK
<1>14. CASE LoseRequest
  <2>1. requests' \in Seq(Request)
    BY <1>0, <1>14, SequenceTypes DEF LoseRequest
  <2> QED
    BY <1>14, <2>1, FaultBound DEF LoseRequest, TypeOK
<1>15. CASE LoseAnswer
  <2>1. [answers EXCEPT ![1] = [type |-> "garbled"]] \in Seq(Answer)
    <3>1. 1 \in 1..Len(answers)
      BY <1>0, <1>15 DEF LoseAnswer
    <3>2. [type |-> "garbled"] \in Answer
      BY MessageTypes
    <3> QED
      BY <1>0, <3>1, <3>2, ExceptSeq
  <2>2. answers' \in Seq(Answer)
    BY <1>0, <1>15, <2>1, SequenceTypes DEF LoseAnswer
  <2> QED
    BY <1>15, <2>2, FaultBound DEF LoseAnswer, TypeOK
<1>16. CASE Disconnect
  <2>1. requests' \in Seq(Request) /\ answers' \in Seq(Answer)
    BY <1>16, SequenceTypes DEF Disconnect
  <2>2. answer' \in Outcome
    BY <1>16, MessageTypes DEF Disconnect, TypeOK
  <2> QED
    BY <1>16, <2>1, <2>2, FaultBound DEF Disconnect, TypeOK
<1>17. CASE Reconnect \/ Report
  BY <1>17 DEF Reconnect, Report, TypeOK
<1>18. CASE ForeignClient
  <2>1. gate' \in Frame /\ tampered' \in BOOLEAN
    BY <1>18, SetsAssumption DEF ForeignClient, TypeOK
  <2>2. gate \in Frame
    BY DEF TypeOK
  <2>3. answers' \in Seq(Answer)
    BY <1>0, <1>18, <2>2, SequenceTypes, MessageTypes DEF ForeignClient
  <2>4. foreign' \in 0..MaxForeign
    BY <1>18, BoundsAssumption DEF ForeignClient, TypeOK
  <2> QED
    BY <1>18, <2>1, <2>3, <2>4 DEF ForeignClient, TypeOK
<1>19. CASE ReadyChanges
  BY <1>19 DEF ReadyChanges, TypeOK
<1>20. CASE UNCHANGED vars
  BY <1>20 DEF vars, TypeOK
<1> QED
  BY <1>1, <1>2, <1>3, <1>4, <1>5, <1>6, <1>7, <1>8, <1>9, <1>10, <1>11, <1>12, <1>13, <1>14,
     <1>15, <1>16, <1>17, <1>18, <1>19, <1>20 DEF Next, Resume

\* Every variable keeps its type: in particular nothing but a frame that was
\* decoded is ever shown as the parameters (hub.py, _async_message).
THEOREM TypeCorrect == SafetySpec => []TypeOK
BY InitType, NextType, PTL DEF SafetySpec

----------------------------------------------------------------------------
(***************************************************************************)
(* The lock                                                                *)
(***************************************************************************)

LEMMA HeadLeaves ==
  ASSUME TypeOK, Queued, NEW c \in Clients, queue # <<>>, c = Head(queue),
         queue' = Tail(queue), NEW stage, pc' = [pc EXCEPT ![c] = stage]
  PROVE  Queued' /\ pc[c] = "queued"
<1>1. queue \in Seq(Clients) /\ Len(queue') = Len(queue) - 1 /\ Len(queue) > 0
  BY DEF TypeOK
<1>2. \A i \in DOMAIN queue' : i + 1 \in DOMAIN queue /\ queue'[i] = queue[i + 1]
  BY <1>1
<1>3. 1 \in DOMAIN queue /\ queue[1] = c
  BY <1>1
<1>4. \A i \in DOMAIN queue' : queue'[i] # c /\ queue'[i] \in Clients
  BY <1>1, <1>2, <1>3 DEF Queued
<1>5. \A i \in DOMAIN queue' : pc'[queue'[i]] = "queued"
  BY <1>2, <1>4 DEF Queued, TypeOK
<1>6. \A i, j \in DOMAIN queue' : queue'[i] = queue'[j] => i = j
  BY <1>1, <1>2 DEF Queued
<1> QED
  BY <1>3, <1>5, <1>6 DEF Queued

LEMMA TailJoins ==
  ASSUME TypeOK, Queued, NEW c \in Clients, pc[c] = "idle",
         queue' = Append(queue, c), pc' = [pc EXCEPT ![c] = "queued"]
  PROVE  Queued'
<1>1. queue \in Seq(Clients) /\ Len(queue') = Len(queue) + 1
  BY DEF TypeOK
<1>2. \A i \in DOMAIN queue : queue[i] # c /\ queue'[i] = queue[i] /\ queue[i] \in Clients
  BY <1>1 DEF Queued
<1>3. queue'[Len(queue) + 1] = c
  BY <1>1
<1>4. DOMAIN queue' = DOMAIN queue \cup {Len(queue) + 1}
  BY <1>1
<1>5. \A i \in DOMAIN queue' : pc'[queue'[i]] = "queued"
  BY <1>2, <1>3, <1>4 DEF Queued, TypeOK
<1>6. \A i, j \in DOMAIN queue' : queue'[i] = queue'[j] => i = j
  BY <1>2, <1>3, <1>4 DEF Queued
<1> QED
  BY <1>5, <1>6 DEF Queued

\* A step of a client that is not in the queue leaves the queue in order.
LEMMA OthersStayQueued ==
  ASSUME TypeOK, Queued, NEW c \in Clients, pc[c] # "queued", UNCHANGED queue,
         NEW stage, pc' = [pc EXCEPT ![c] = stage]
  PROVE  Queued'
<1>1. \A i \in DOMAIN queue : queue[i] \in Clients
  BY DEF TypeOK
<1> QED
  BY <1>1 DEF Queued, TypeOK

LEMMA EndsLock ==
  ASSUME TypeOK, LockInv, NEW c \in Clients, holder = c, UNCHANGED queue,
         NEW stage \in {"failed", "done", "dead", "idle"}, Ends(c, stage)
  PROVE  LockInv'
<1>1. InTransaction(c) /\ pc[c] # "queued"
  BY DEF LockInv, InTransaction
<1>2. Queued'
  BY <1>1, OthersStayQueued DEF LockInv, Ends
<1>3. \A d \in Clients : InTransaction(d)' <=> holder' = d
  BY ClientsAssumption DEF LockInv, InTransaction, Ends, TypeOK
<1>4. pc'[Loop] \in {"idle", "queued", "reading", "dead"}
  BY DEF LockInv, Ends, TypeOK, Clients
<1> QED
  BY <1>2, <1>3, <1>4 DEF LockInv

LEMMA ExchangeLock ==
  ASSUME TypeOK, LockInv, NEW c \in Writers, holder = c, UNCHANGED queue,
         NEW stage \in {"writing", "verifying"}, NEW request, NEW frame,
         Exchange(c, stage, request, frame)
  PROVE  LockInv'
<1>1. c \in Clients /\ c # Loop
  BY ClientsAssumption DEF Clients
<1>2. CASE ~connected
  <2>1. Ends(c, "failed")
    BY <1>2 DEF Exchange
  <2> QED
    BY <1>1, <2>1, EndsLock
<1>3. CASE connected
  <2>1. pc' = [pc EXCEPT ![c] = stage] /\ holder' = c
    BY <1>3 DEF Exchange
  <2>2. pc[c] # "queued"
    BY <1>1 DEF LockInv, InTransaction
  <2>3. Queued'
    BY <1>1, <2>1, <2>2, OthersStayQueued DEF LockInv
  <2>4. \A d \in Clients : InTransaction(d)' <=> holder' = d
    BY <1>1, <2>1 DEF LockInv, InTransaction, TypeOK
  <2>5. pc'[Loop] \in {"idle", "queued", "reading", "dead"}
    BY <1>1, <2>1 DEF LockInv, TypeOK, Clients
  <2> QED
    BY <2>3, <2>4, <2>5 DEF LockInv
<1> QED
  BY <1>2, <1>3

LEMMA InitLock == Init => LockInv
BY ClientsAssumption DEF Init, LockInv, Queued, InTransaction, Clients

LEMMA NextLock == TypeOK /\ LockInv /\ [Next]_vars => LockInv'
<1> SUFFICES ASSUME TypeOK, LockInv, [Next]_vars PROVE LockInv'
  OBVIOUS
<1>0. Loop \in Clients
  BY DEF Clients
<1>1. ASSUME NEW c \in Clients, Ask(c) PROVE LockInv'
  <2>1. c # Loop
    BY <1>1, ClientsAssumption DEF Ask
  <2>2. Queued'
    BY <1>1, TailJoins, OthersStayQueued DEF Ask, LockInv
  <2>3. \E stage \in {"queued", "failed"} : pc' = [pc EXCEPT ![c] = stage]
    BY <1>1 DEF Ask
  <2>4. \A d \in Clients : InTransaction(d)' <=> holder' = d
    BY <1>1, <2>3 DEF Ask, LockInv, InTransaction, TypeOK
  <2> QED
    BY <1>0, <2>1, <2>2, <2>3, <2>4 DEF LockInv, TypeOK
<1>2. ASSUME NEW c \in Clients, Acquire(c) PROVE LockInv'
  <2>1. \E stage \in {"reading", "failed", "idle"} :
          /\ pc' = [pc EXCEPT ![c] = stage]
          /\ c = Loop => stage # "failed"
          /\ holder' = IF stage = "reading" THEN c ELSE Nobody
    BY <1>2 DEF Acquire, Exchange, Ends
  <2>2. Queued' /\ pc[c] = "queued"
    BY <1>2, <2>1, HeadLeaves DEF Acquire, LockInv
  <2>3. \A d \in Clients : ~InTransaction(d)
    BY <1>2, ClientsAssumption DEF Acquire, LockInv
  <2>4. \A d \in Clients : InTransaction(d)' <=> holder' = d
    BY <2>1, <2>3, ClientsAssumption DEF InTransaction, TypeOK
  <2>5. pc'[Loop] \in {"idle", "queued", "reading", "dead"}
    BY <1>0, <2>1 DEF LockInv, TypeOK
  <2> QED
    BY <2>2, <2>4, <2>5 DEF LockInv
<1>3. ASSUME NEW c \in Clients, WriteFrame(c) PROVE LockInv'
  BY <1>3, ExchangeLock, EndsLock DEF WriteFrame
<1>4. ASSUME NEW c \in Clients, ReadBack(c) PROVE LockInv'
  <2>1. c \in Writers
    BY <1>4 DEF ReadBack, LockInv, Clients
  <2> QED
    BY <1>4, <2>1, ExchangeLock DEF ReadBack
<1>5. ASSUME NEW c \in Clients, Verify(c) PROVE LockInv'
  BY <1>5, EndsLock DEF Verify
<1>6. CASE Refreshed
  BY <1>0, <1>6, EndsLock DEF Refreshed
<1>7. ASSUME NEW c \in Clients, ExchangeFails(c) PROVE LockInv'
  BY <1>7, EndsLock DEF ExchangeFails
<1>8. ASSUME NEW c \in Clients, Timeout(c) PROVE LockInv'
  BY <1>8, EndsLock DEF Timeout
<1>9. ASSUME NEW c \in Clients, DrainBreaks(c) PROVE LockInv'
  BY <1>9, EndsLock DEF DrainBreaks
<1>10. CASE Wakes
  <2>1. Queued'
    BY <1>0, <1>10, TailJoins DEF Wakes, LockInv
  <2>2. \A d \in Clients : InTransaction(d)' <=> holder' = d
    BY <1>0, <1>10 DEF Wakes, LockInv, InTransaction, TypeOK
  <2> QED
    BY <1>0, <1>10, <2>1, <2>2 DEF Wakes, LockInv, TypeOK
<1>11. CASE UNCHANGED <<pc, queue, holder>>
  BY <1>11 DEF LockInv, Queued, InTransaction
<1>12. Deliver \/ ShadowArrives \/ GateServes \/ LoseRequest \/ LoseAnswer \/ Disconnect \/ Reconnect
       \/ Report \/ ForeignClient \/ ReadyChanges \/ UNCHANGED vars => UNCHANGED <<pc, queue, holder>>
  BY DEF Deliver, ShadowArrives, GateServes, LoseRequest, LoseAnswer, Disconnect, Reconnect,
         Report, ForeignClient, ReadyChanges, vars, hubVars
<1> QED
  BY <1>1, <1>2, <1>3, <1>4, <1>5, <1>6, <1>7, <1>8, <1>9, <1>10, <1>11, <1>12 DEF Next, Resume

----------------------------------------------------------------------------
(***************************************************************************)
(* The frames under way                                                    *)
(*                                                                         *)
(* The frames of the answers, of the gate and of the requests are, in this *)
(* order, older and newer images of the gate.  A field nobody changes is   *)
(* the same in all of them.  A field that one writer changes has, while    *)
(* it writes, its old value up to some point of that order and the new one *)
(* from there on; a frame that proves the new value has therefore nothing  *)
(* but the new value after it.                                             *)
(***************************************************************************)

\* The codec gives back what it was given.
ExactCodec == \A p \in Profiles, v \in Value : p.codec = "uart0" => Uart0ReadsBack(v) = v

Writes(i, v) == \A k \in DOMAIN requests : requests[k].type = "WP" => requests[k].frame[i] = v
Tells(i, v)  == \A k \in DOMAIN answers : answers[k].type = "frame" => answers[k].frame[i] = v
Read(i, v)   == answer.type = "frame" /\ answer.frame[i] = v

\* Every frame has v at i.
Same(i, v) == /\ gate[i] = v
              /\ Writes(i, v)
              /\ Tells(i, v)
              /\ answer.type = "frame" => Read(i, v)

\* From the first frame that has v at i, all have: those the gate is yet to be
\* sent, and those it has answered.
Ahead(i, v) ==
  /\ \A j, k \in DOMAIN requests :
       (j < k /\ requests[j].type = "WP" /\ requests[k].type = "WP" /\ requests[j].frame[i] = v) =>
         requests[k].frame[i] = v
  /\ gate[i] = v => Writes(i, v)

Behind(i, v) ==
  /\ \A j \in DOMAIN answers : (answers[j].type = "frame" /\ answers[j].frame[i] = v) =>
       /\ gate[i] = v
       /\ \A k \in DOMAIN answers : (j < k /\ answers[k].type = "frame") => answers[k].frame[i] = v
  /\ Read(i, v) => gate[i] = v /\ Tells(i, v)

From(i, v) == Ahead(i, v) /\ Behind(i, v)

\* The fields nobody asks to be changed, or only to what they are.
Constant == { i \in Index : \A c \in Writers : Asked[c].index = i => Asked[c].value = origin[i] }

Goal(w)  == Asked[w].value
Field(w) == Asked[w].index

\* What the frames hold of the field of a writer that is alone with it.
WriterInv(w) ==
  /\ pc[w] \in {"idle", "queued", "reading"} => Same(Field(w), origin[Field(w)])
  /\ pc[w] \in {"writing", "verifying"} => From(Field(w), Goal(w))
  /\ pc[w] = "done" => Same(Field(w), Goal(w))

PipeInv ==
  ~tampered => /\ \A i \in Constant : Same(i, origin[i])
               /\ \A w \in Writers : Alone(w) /\ Field(w) \notin Constant => WriterInv(w)

\* What a step does to either half of that order.
KeepsAhead == \A i, v : /\ Writes(i, v) => Writes(i, v)'
                        /\ Ahead(i, v) => Ahead(i, v)'
KeepsBehind == \A i, v : /\ (gate[i] = v /\ Tells(i, v)) => Tells(i, v)'
                         /\ Tells(i, v) /\ (answer.type = "frame" => Read(i, v)) =>
                              (answer.type = "frame" => Read(i, v))'
                         /\ Behind(i, v) => Behind(i, v)'

LEMMA AheadSame == ASSUME UNCHANGED <<gate, requests>> PROVE KeepsAhead
BY DEF KeepsAhead, Ahead, Writes

LEMMA AheadLeave ==
  ASSUME TypeOK, requests # <<>>, requests' = Tail(requests), UNCHANGED gate
  PROVE  KeepsAhead
<1>1. \A k \in DOMAIN requests' : k + 1 \in DOMAIN requests /\ requests'[k] = requests[k + 1]
  BY DEF TypeOK
<1>2. \A i, v : Writes(i, v) => Writes(i, v)'
  BY <1>1 DEF Writes
<1>3. \A j, k \in DOMAIN requests' : j < k => j + 1 < k + 1
  BY DEF TypeOK
<1> QED
  BY <1>1, <1>2, <1>3 DEF KeepsAhead, Ahead

LEMMA AheadServed ==
  ASSUME TypeOK, requests # <<>>, requests' = Tail(requests),
         Head(requests).type = "WP", gate' = Head(requests).frame
  PROVE  \A i, v : /\ Writes(i, v) => gate'[i] = v /\ Writes(i, v)'
                   /\ Ahead(i, v) => Ahead(i, v)'
<1>1. \A k \in DOMAIN requests' : k \in Nat /\ k + 1 > 1 /\ k + 1 \in DOMAIN requests
                                 /\ requests'[k] = requests[k + 1]
  BY DEF TypeOK
<1>2. 1 \in DOMAIN requests /\ Head(requests) = requests[1]
  BY DEF TypeOK
<1>3. \A j, k \in DOMAIN requests' : j < k => j + 1 < k + 1
  BY DEF TypeOK
<1>4. ASSUME NEW i, NEW v, Ahead(i, v), gate'[i] = v PROVE Writes(i, v)'
  BY <1>1, <1>2, <1>4 DEF Ahead, Writes
<1>5. \A i, v : Writes(i, v) => gate'[i] = v /\ Writes(i, v)'
  BY <1>1, <1>2 DEF Writes
<1>6. ASSUME NEW i, NEW v, Ahead(i, v) PROVE Ahead(i, v)'
  BY <1>1, <1>3, <1>4, <1>6 DEF Ahead
<1> QED
  BY <1>5, <1>6

LEMMA AheadJoins ==
  ASSUME TypeOK, requests' = Append(requests, [type |-> "RP"]), UNCHANGED gate
  PROVE  KeepsAhead
<1>1. \A k \in DOMAIN requests' : requests'[k].type = "WP" =>
        k \in DOMAIN requests /\ requests'[k] = requests[k]
  BY DEF TypeOK
<1>2. \A i, v : Writes(i, v) => Writes(i, v)'
  BY <1>1 DEF Writes
<1> QED
  BY <1>1, <1>2 DEF KeepsAhead, Ahead

LEMMA AheadGone ==
  ASSUME requests' = <<>>, UNCHANGED gate
  PROVE  KeepsAhead
BY DEF KeepsAhead, Ahead, Writes

LEMMA BehindSame ==
  ASSUME UNCHANGED <<gate, answers>>, answer' = answer \/ answer'.type # "frame"
  PROVE  KeepsBehind
BY DEF KeepsBehind, Behind, Tells, Read

LEMMA BehindGone ==
  ASSUME answers' = <<>>, UNCHANGED gate, answer' = answer \/ answer'.type # "frame"
  PROVE  KeepsBehind
BY DEF KeepsBehind, Behind, Tells, Read

LEMMA BehindLeave ==
  ASSUME TypeOK, answers # <<>>, answers' = Tail(answers), UNCHANGED gate,
         answer' = answer \/ answer' = Head(answers)
  PROVE  KeepsBehind
<1>0. 1 \in DOMAIN answers /\ Head(answers) = answers[1]
  BY DEF TypeOK
<1>1. \A k \in DOMAIN answers' :
        k \in Nat /\ 1 < k + 1 /\ k + 1 \in DOMAIN answers /\ answers'[k] = answers[k + 1]
  BY DEF TypeOK
<1>2. \A i, v : Tells(i, v) => Tells(i, v)'
  BY <1>1 DEF Tells
<1>3. ASSUME NEW i, NEW v, Tells(i, v), answer.type = "frame" => Read(i, v)
      PROVE  (answer.type = "frame" => Read(i, v))'
  BY <1>0, <1>3 DEF Tells, Read
<1>4. ASSUME NEW i, NEW v, Behind(i, v) PROVE Behind(i, v)'
  <2>1. ASSUME NEW j \in DOMAIN answers', answers'[j].type = "frame", answers'[j].frame[i] = v
        PROVE  /\ gate[i] = v
               /\ \A k \in DOMAIN answers' : (j < k /\ answers'[k].type = "frame") => answers'[k].frame[i] = v
    <3>1. \A k \in DOMAIN answers' : j < k => j + 1 < k + 1
      BY <1>1
    <3> QED
      BY <1>1, <1>4, <2>1, <3>1 DEF Behind
  <2>2. Read(i, v)' => gate'[i] = v /\ Tells(i, v)'
    <3>1. CASE answer' = answer
      BY <1>2, <1>4, <3>1 DEF Behind, Read
    <3>2. CASE answer' = Head(answers)
      BY <1>0, <1>1, <1>4, <3>2 DEF Behind, Read, Tells
    <3> QED
      BY <3>1, <3>2
  <2> QED
    BY <2>1, <2>2 DEF Behind
<1> QED
  BY <1>2, <1>3, <1>4 DEF KeepsBehind

LEMMA BehindJoins ==
  ASSUME TypeOK, NEW m \in Answer, answers' = Append(answers, m),
         m.type = "frame" => m.frame = gate,
         UNCHANGED gate, answer' = answer
  PROVE  KeepsBehind
<1>1. \A k \in DOMAIN answers' : \/ k \in DOMAIN answers /\ answers'[k] = answers[k]
                                 \/ k = Len(answers) + 1 /\ answers'[k] = m
  BY DEF TypeOK
<1>2. ASSUME NEW i, NEW v, gate[i] = v, Tells(i, v) PROVE Tells(i, v)'
  BY <1>1, <1>2 DEF Tells
<1>3. ASSUME NEW i, NEW v, Behind(i, v) PROVE Behind(i, v)'
  <2>1. ASSUME NEW j \in DOMAIN answers', answers'[j].type = "frame", answers'[j].frame[i] = v
        PROVE  /\ gate[i] = v
               /\ \A k \in DOMAIN answers' : (j < k /\ answers'[k].type = "frame") => answers'[k].frame[i] = v
    <3>1. j \in DOMAIN answers => j < Len(answers) + 1
      BY DEF TypeOK
    <3>2. \A k \in DOMAIN answers' : k \in Nat /\ k <= Len(answers) + 1
      BY DEF TypeOK
    <3> QED
      BY <1>1, <1>3, <2>1, <3>1, <3>2 DEF Behind
  <2>2. Read(i, v)' => gate'[i] = v /\ Tells(i, v)'
    BY <1>2, <1>3 DEF Behind, Read
  <2> QED
    BY <2>1, <2>2 DEF Behind
<1> QED
  BY <1>2, <1>3 DEF KeepsBehind, Read

\* The gate took a frame, and acknowledges it.
LEMMA BehindWritten ==
  ASSUME TypeOK, answers' = Append(answers, [type |-> "ack"]), answer' = answer
  PROVE  \A i, v : /\ Tells(i, v) => Tells(i, v)'
                   /\ Behind(i, v) /\ (gate[i] = v => gate'[i] = v) => Behind(i, v)'
<1>1. \A k \in DOMAIN answers' : answers'[k].type = "frame" =>
        k \in DOMAIN answers /\ answers'[k] = answers[k]
  BY DEF TypeOK
<1>2. \A i, v : Tells(i, v) => Tells(i, v)'
  BY <1>1 DEF Tells
<1> QED
  BY <1>1, <1>2 DEF Behind, Read

LEMMA BehindGarbled ==
  ASSUME TypeOK, answers # <<>>, answers' = [answers EXCEPT ![1] = [type |-> "garbled"]],
         UNCHANGED gate, answer' = answer
  PROVE  KeepsBehind
<1>1. DOMAIN answers' = DOMAIN answers
  BY DEF TypeOK
<1>2. \A k \in DOMAIN answers : answers'[k].type = "frame" => answers'[k] = answers[k]
  BY DEF TypeOK
<1>3. \A i, v : Tells(i, v) => Tells(i, v)'
  BY <1>1, <1>2 DEF Tells
<1> QED
  BY <1>1, <1>2, <1>3 DEF KeepsBehind, Behind, Read

LEMMA Keeps ==
  ASSUME KeepsAhead, KeepsBehind, UNCHANGED gate, NEW i, NEW v
  PROVE  (Same(i, v) => Same(i, v)') /\ (From(i, v) => From(i, v)')
BY DEF KeepsAhead, KeepsBehind, Same, From

\* A step that sends no frame and in which the other client does not write.
LEMMA UnwrittenKeeps ==
  ASSUME TypeOK, [Next]_vars, ~tampered, ~tampered', \A c \in Clients : ~WriteFrame(c)
  PROVE  \A i, v : (Same(i, v) => Same(i, v)') /\ (From(i, v) => From(i, v)')
<1> USE DEF netVars, envVars, historyVars, hubVars
<1> DEFINE Kept == \A i, v : (Same(i, v) => Same(i, v)') /\ (From(i, v) => From(i, v)')
<1> SUFFICES Kept
  OBVIOUS
<1>1. CASE UNCHANGED <<gate, requests, answers>> /\ (answer' = answer \/ answer'.type # "frame")
  BY <1>1, AheadSame, BehindSame, Keeps
<1>2. ASSUME NEW c \in Clients, Acquire(c) \/ ReadBack(c) PROVE Kept
  <2>1. /\ requests' = requests \/ requests' = Append(requests, [type |-> "RP"])
        /\ UNCHANGED <<gate, answers>> /\ answer'.type # "frame"
    BY <1>2 DEF Acquire, ReadBack, Exchange, Ends, Pending
  <2> QED
    BY <2>1, AheadSame, AheadJoins, BehindSame, Keeps
<1>3. ASSUME NEW c \in Clients,
             Ask(c) \/ Verify(c) \/ ExchangeFails(c) \/ Timeout(c) \/ DrainBreaks(c)
      PROVE  Kept
  BY <1>1, <1>3 DEF Ask, Verify, ExchangeFails, Timeout, DrainBreaks, Ends, Pending
<1>4. CASE Refreshed \/ Wakes \/ ShadowArrives \/ Reconnect \/ Report \/ ReadyChanges
  BY <1>1, <1>4 DEF Refreshed, Wakes, ShadowArrives, Reconnect, Report, ReadyChanges, Ends, Pending
<1>5. CASE Deliver
  <2>1. /\ answers # <<>> /\ answers' = Tail(answers) /\ UNCHANGED <<gate, requests>>
        /\ answer' = answer \/ answer' = Head(answers)
    BY <1>5 DEF Deliver
  <2> QED
    BY <2>1, AheadSame, BehindLeave, Keeps
<1>6. CASE GateServes
  <2>1. requests # <<>> /\ requests' = Tail(requests) /\ answer' = answer /\ gate \in Frame
    BY <1>6 DEF GateServes, TypeOK
  <2>2. CASE Head(requests).type = "WP" /\ gate' = Head(requests).frame
             /\ answers' = Append(answers, [type |-> "ack"])
    <3>1. \A i, v : Ahead(i, v) /\ gate[i] = v => gate'[i] = v
      BY <2>1, <2>2, AheadServed DEF Ahead
    <3>2. \A i, v : From(i, v) => From(i, v)'
      BY <2>1, <2>2, <3>1, AheadServed, BehindWritten DEF From
    <3>3. \A i, v : Same(i, v) => Same(i, v)'
      BY <2>1, <2>2, AheadServed, BehindWritten DEF Same, Read
    <3> QED
      BY <3>2, <3>3
  <2>3. CASE gate' = gate /\ \E m \in {[type |-> "frame", frame |-> gate], [type |-> "nak"]} :
                               answers' = Append(answers, m)
    <3>1. PICK m \in {[type |-> "frame", frame |-> gate], [type |-> "nak"]} :
            answers' = Append(answers, m)
      BY <2>3
    <3>2. m \in Answer /\ (m.type = "frame" => m.frame = gate)
      BY <2>1, <3>1, MessageTypes
    <3> QED
      BY <2>1, <2>3, <3>1, <3>2, AheadLeave, BehindJoins, Keeps
  <2> QED
    BY <1>6, <2>2, <2>3 DEF GateServes
<1>7. CASE LoseRequest
  BY <1>7, AheadLeave, BehindSame, Keeps DEF LoseRequest
<1>8. CASE LoseAnswer
  <2>1. /\ answers # <<>> /\ UNCHANGED <<gate, requests, answer>>
        /\ \/ answers' = Tail(answers)
           \/ answers' = [answers EXCEPT ![1] = [type |-> "garbled"]]
    BY <1>8 DEF LoseAnswer
  <2> QED
    BY <2>1, AheadSame, BehindLeave, BehindGarbled, Keeps
<1>9. CASE Disconnect
  <2>1. answer' = answer \/ answer'.type # "frame"
    BY <1>9 DEF Disconnect
  <2> QED
    BY <1>9, <2>1, AheadGone, BehindGone, Keeps DEF Disconnect
<1>10. CASE ForeignClient
  <2>1. /\ UNCHANGED <<gate, requests, answer>>
        /\ answers' = Append(answers, [type |-> "frame", frame |-> gate])
    BY <1>10 DEF ForeignClient
  <2>2. [type |-> "frame", frame |-> gate] \in Answer
    BY MessageTypes DEF TypeOK
  <2> QED
    BY <2>1, <2>2, AheadSame, BehindJoins, Keeps
<1>11. CASE UNCHANGED vars
  BY <1>1, <1>11 DEF vars
<1> QED
  BY <1>2, <1>3, <1>4, <1>5, <1>6, <1>7, <1>8, <1>9, <1>10, <1>11 DEF Next, Resume

\* A frame is sent: at its end of the order, with what was read.
LEMMA FrameSent ==
  ASSUME TypeOK, ExactCodec, NEW c \in Writers, WriteFrame(c)
  PROVE  /\ UNCHANGED <<gate, answers>> /\ answer'.type # "frame"
         /\ \/ requests' = requests
            \/ \E f \in Frame :
                 /\ requests' = Append(requests, [type |-> "WP", frame |-> f])
                 /\ f[Field(c)] = Goal(c)
                 /\ \A i \in Index \ {Field(c)} : Read(i, f[i])
<1> DEFINE f == Replaced(Decoded(answer.frame), c)
<1>1. answer.type = "frame" /\ answer.frame \in Frame
  BY MessageTypes DEF WriteFrame, TypeOK
<1>2. Decoded(answer.frame) \in Frame
  BY <1>1, DecodedFrame DEF TypeOK
<1>3. f \in Frame /\ f[Field(c)] = Goal(c)
  BY <1>2, ReplacedFrame DEF Field, Goal
<1>4. \A i \in Index \ {Field(c)} : f[i] = answer.frame[i]
  <2>1. \A v \in Value : ReadsBack(v) = v
    BY DEF ExactCodec, ReadsBack, TypeOK
  <2>2. \A i \in Index : Decoded(answer.frame)[i] = answer.frame[i]
    BY <1>1, <2>1 DEF Decoded, Frame
  <2> QED
    BY <1>2, <2>2 DEF Replaced, Field, Frame
<1>5. \/ requests' = requests
      \/ requests' = Append(requests, [type |-> "WP", frame |-> f])
  BY DEF WriteFrame, Exchange
<1>6. UNCHANGED <<gate, answers>> /\ answer'.type # "frame"
  BY DEF WriteFrame, Exchange, Ends, Pending, envVars
<1> HIDE DEF f
<1> QED
  BY <1>1, <1>3, <1>4, <1>5, <1>6 DEF Read

LEMMA WriteKeeps ==
  ASSUME TypeOK, ExactCodec, NEW c \in Writers, WriteFrame(c), NEW i \in Index, NEW v,
         Same(i, v), i = Field(c) => v = Goal(c)
  PROVE  Same(i, v)'
<1>1. UNCHANGED <<gate, answers>> /\ answer'.type # "frame"
  BY FrameSent
<1>2. Writes(i, v)'
  <2>1. CASE requests' = requests
    BY <2>1 DEF Same, Writes
  <2>2. ASSUME NEW f \in Frame, requests' = Append(requests, [type |-> "WP", frame |-> f]),
               f[Field(c)] = Goal(c), \A j \in Index \ {Field(c)} : Read(j, f[j])
        PROVE  Writes(i, v)'
    <3>1. f[i] = v
      BY <2>2 DEF Same, Read
    <3>2. \A k \in DOMAIN requests' : \/ k \in DOMAIN requests /\ requests'[k] = requests[k]
                                      \/ requests'[k] = [type |-> "WP", frame |-> f]
      BY <2>2 DEF TypeOK
    <3> QED
      BY <3>1, <3>2 DEF Same, Writes
  <2> QED
    BY <2>1, <2>2, FrameSent
<1> QED
  BY <1>1, <1>2 DEF Same, Tells, Read

LEMMA WriteStarts ==
  ASSUME TypeOK, ExactCodec, NEW c \in Writers, WriteFrame(c), NEW u,
         Same(Field(c), u), u # Goal(c)
  PROVE  From(Field(c), Goal(c))'
<1> DEFINE i == Field(c)
<1>1. gate'[i] # Goal(c) /\ answer'.type # "frame"
  BY FrameSent DEF Same
<1>2. \A k \in DOMAIN answers' : answers'[k].type = "frame" => answers'[k].frame[i] # Goal(c)
  BY FrameSent DEF Same, Tells
<1>3. \A j, k \in DOMAIN requests' :
        (j < k /\ requests'[j].type = "WP") => requests'[j].frame[i] # Goal(c)
  <2>1. CASE requests' = requests
    BY <2>1 DEF Same, Writes
  <2>2. ASSUME NEW m, requests' = Append(requests, m)
        PROVE  \A j, k \in DOMAIN requests' :
                 (j < k /\ requests'[j].type = "WP") => requests'[j].frame[i] # Goal(c)
    <3>1. \A j, k \in DOMAIN requests' : j < k => j \in DOMAIN requests /\ requests'[j] = requests[j]
      BY <2>2 DEF TypeOK
    <3> QED
      BY <3>1 DEF Same, Writes
  <2> QED
    BY <2>1, <2>2, FrameSent
<1> QED
  BY <1>1, <1>2, <1>3 DEF From, Ahead, Behind, Read

LEMMA ProofIsLast ==
  ASSUME NEW c \in Writers, From(Field(c), Goal(c)), Read(Field(c), Goal(c))
  PROVE  Same(Field(c), Goal(c))
BY DEF From, Ahead, Behind, Read, Same

----------------------------------------------------------------------------
(***************************************************************************)
(* The invariant                                                           *)
(***************************************************************************)

IInv == TypeOK /\ LockInv /\ BaseInv /\ PipeInv

\* Only the client in its transaction moves on in it.
LEMMA OnlyTheHolder ==
  ASSUME TypeOK, LockInv, NEW c \in Clients, NEW d \in Clients, holder = c, d # c
  PROVE  ~InTransaction(d)
BY DEF LockInv

LEMMA InitRest == Init => BaseInv /\ PipeInv
<1> SUFFICES ASSUME Init PROVE BaseInv /\ PipeInv
  OBVIOUS
<1>1. \A w \in Writers : pc[w] = "idle"
  BY DEF Init, Clients
<1>2. \A i : Same(i, origin[i])
  BY DEF Init, Same, Writes, Tells, Read, Pending
<1> QED
  BY <1>1, <1>2 DEF BaseInv, PipeInv, WriterInv

LEMMA NextBase == TypeOK /\ LockInv /\ BaseInv /\ [Next]_vars => BaseInv'
<1> SUFFICES ASSUME TypeOK, LockInv, BaseInv, [Next]_vars,
                    NEW w \in Writers, pc'[w] \in {"writing", "verifying"}
             PROVE  base' \in Frame /\ base'[Asked[w].index] = Asked[w].value
  BY DEF BaseInv
<1> USE DEF netVars, envVars, historyVars, hubVars
<1>0. w \in Clients /\ w # Loop
  BY ClientsAssumption DEF Clients
<1>1. ASSUME NEW c \in Clients, WriteFrame(c) PROVE base' \in Frame /\ base'[Asked[w].index] = Asked[w].value
  <2>1. c = w
    BY <1>0, <1>1, OnlyTheHolder DEF WriteFrame, Exchange, Ends, InTransaction, TypeOK
  <2>2. base' = Replaced(Decoded(answer.frame), w)
    BY <1>0, <1>1, <2>1 DEF WriteFrame, Exchange, Ends, TypeOK
  <2>3. Decoded(answer.frame) \in Frame
    BY <1>1, DecodedFrame, MessageTypes DEF WriteFrame, TypeOK
  <2> QED
    BY <2>2, <2>3, ReplacedFrame
<1>2. ASSUME NEW c \in Clients, ReadBack(c) PROVE base' \in Frame /\ base'[Asked[w].index] = Asked[w].value
  <2>1. c = w
    BY <1>0, <1>2, OnlyTheHolder DEF ReadBack, Exchange, Ends, InTransaction, TypeOK
  <2>2. base' = base /\ pc[w] = "writing"
    BY <1>0, <1>2, <2>1 DEF ReadBack, Exchange, Ends, TypeOK
  <2> QED
    BY <2>2 DEF BaseInv
<1>3. ASSUME NEW c \in Clients, Acquire(c) PROVE FALSE
  <2>1. \A d \in Clients : ~InTransaction(d)
    BY <1>3, ClientsAssumption DEF Acquire, LockInv
  <2> QED
    BY <1>0, <1>3, <2>1 DEF Acquire, Exchange, Ends, InTransaction, TypeOK
<1>4. ASSUME NEW c \in Clients, NEW stage \in {"failed", "done", "dead", "idle"},
             holder = c, Ends(c, stage)
      PROVE  FALSE
  BY <1>0, <1>4, OnlyTheHolder DEF Ends, InTransaction, TypeOK
<1>5. ASSUME NEW c \in Clients,
             Verify(c) \/ Timeout(c) \/ DrainBreaks(c) \/ ExchangeFails(c) \/ (c = Loop /\ Refreshed)
      PROVE  FALSE
  BY <1>4, <1>5 DEF Verify, Timeout, DrainBreaks, ExchangeFails, Refreshed
<1>6. CASE base' = base /\ pc'[w] = pc[w]
  BY <1>6 DEF BaseInv
<1>7. ASSUME NEW c \in Clients, Ask(c) PROVE base' = base /\ pc'[w] = pc[w]
  BY <1>0, <1>7 DEF Ask, TypeOK
<1>8. Wakes => base' = base /\ pc'[w] = pc[w]
  BY <1>0 DEF Wakes, TypeOK
<1>9. Deliver \/ ShadowArrives \/ GateServes \/ LoseRequest \/ LoseAnswer \/ Disconnect \/ Reconnect
      \/ Report \/ ForeignClient \/ ReadyChanges \/ UNCHANGED vars => base' = base /\ pc' = pc
  BY DEF Deliver, ShadowArrives, GateServes, LoseRequest, LoseAnswer, Disconnect, Reconnect,
         Report, ForeignClient, ReadyChanges, vars
<1> QED
  BY <1>1, <1>2, <1>3, <1>5, <1>6, <1>7, <1>8, <1>9 DEF Next, Resume, Clients

\* How a writer moves on when no frame is sent.
LEMMA StageMoves ==
  ASSUME TypeOK, LockInv, [Next]_vars, NEW w \in Writers, \A c \in Clients : ~WriteFrame(c)
  PROVE  /\ pc'[w] \in {"idle", "queued", "reading"} => pc[w] \in {"idle", "queued", "reading"}
         /\ pc'[w] \in {"writing", "verifying"} => pc[w] \in {"writing", "verifying"}
         /\ pc'[w] = "done" => \/ pc[w] = "done"
                               \/ /\ pc[w] = "verifying" /\ answer.type = "frame"
                                  /\ Verified(w, Decoded(answer.frame))
<1> USE DEF netVars, envVars, historyVars, hubVars
<1>0. w \in Clients /\ w # Loop
  BY ClientsAssumption DEF Clients
<1>1. ASSUME NEW c \in Clients, Ask(c) \/ Acquire(c) \/ ReadBack(c) \/ ExchangeFails(c) \/ Timeout(c)
             \/ DrainBreaks(c) \/ (c = Loop /\ Refreshed)
      PROVE  /\ pc'[w] \in {"idle", "queued", "reading"} => pc[w] \in {"idle", "queued", "reading"}
             /\ pc'[w] \in {"writing", "verifying"} => pc[w] \in {"writing", "verifying"}
             /\ pc'[w] = "done" => pc[w] = "done"
  <2>1. CASE c # w
    BY <1>0, <1>1, <2>1 DEF Ask, Acquire, ReadBack, ExchangeFails, Timeout, DrainBreaks, Refreshed,
                             Exchange, Ends, TypeOK
  <2>2. CASE c = w /\ Ask(c)
    BY <1>0, <2>2 DEF Ask, TypeOK
  <2>3. CASE c = w /\ Acquire(c)
    <3>1. pc[w] = "queued"
      <4>1. queue[1] = w /\ 1 \in DOMAIN queue
        BY <2>3 DEF Acquire, TypeOK
      <4> QED
        BY <4>1 DEF LockInv, Queued
    <3> QED
      BY <1>0, <2>3, <3>1 DEF Acquire, Exchange, Ends, TypeOK
  <2>4. CASE c = w /\ ReadBack(c)
    BY <1>0, <2>4 DEF ReadBack, Exchange, Ends, TypeOK
  <2>5. CASE c = w /\ (ExchangeFails(c) \/ Timeout(c) \/ DrainBreaks(c))
    BY <1>0, <2>5 DEF ExchangeFails, Timeout, DrainBreaks, Ends, TypeOK
  <2> QED
    BY <1>0, <1>1, <2>1, <2>2, <2>3, <2>4, <2>5
<1>2. ASSUME NEW c \in Clients, Verify(c)
      PROVE  /\ pc'[w] = pc[w]
                \/ (c = w /\ pc'[w] = "failed")
                \/ (c = w /\ pc[w] = "verifying" /\ answer.type = "frame" /\ pc'[w] = "done"
                    /\ Verified(w, Decoded(answer.frame)))
  BY <1>0, <1>2 DEF Verify, Ends, TypeOK
<1>3. Wakes => pc'[w] = pc[w]
  BY <1>0 DEF Wakes, TypeOK
<1>4. Deliver \/ ShadowArrives \/ GateServes \/ LoseRequest \/ LoseAnswer \/ Disconnect \/ Reconnect
      \/ Report \/ ForeignClient \/ ReadyChanges \/ UNCHANGED vars => pc' = pc
  BY DEF Deliver, ShadowArrives, GateServes, LoseRequest, LoseAnswer, Disconnect, Reconnect,
         Report, ForeignClient, ReadyChanges, vars
<1> QED
  BY <1>1, <1>2, <1>3, <1>4 DEF Next, Resume

\* What was verified is what was asked for.
LEMMA VerifiedReads ==
  ASSUME TypeOK, BaseInv, ExactCodec, NEW w \in Writers, pc[w] = "verifying",
         answer.type = "frame", Verified(w, Decoded(answer.frame))
  PROVE  Read(Field(w), Goal(w))
<1>1. answer.frame \in Frame /\ Field(w) \in Index
  BY MessageTypes, AskedAssumption DEF TypeOK, Field
<1>2. \A v \in Value : ReadsBack(v) = v
  BY DEF ExactCodec, ReadsBack, TypeOK
<1>3. Decoded(answer.frame)[Field(w)] = answer.frame[Field(w)]
  BY <1>1, <1>2 DEF Decoded, Frame
<1>4. Decoded(answer.frame)[Field(w)] = Goal(w)
  BY DEF Verified, BaseInv, Field, Goal
<1> QED
  BY <1>3, <1>4 DEF Read

LEMMA HistoryMoves == [Next]_vars => origin' = origin /\ (tampered => tampered')
<1> USE DEF envVars, historyVars
<1>1. ASSUME NEW c \in Clients, Ask(c) \/ Acquire(c) \/ Resume(c) \/ Timeout(c) \/ DrainBreaks(c)
      PROVE  origin' = origin /\ tampered' = tampered
  BY <1>1 DEF Ask, Acquire, Resume, WriteFrame, ReadBack, Verify, Refreshed, ExchangeFails, Timeout,
              DrainBreaks
<1>2. Wakes \/ Deliver \/ ShadowArrives \/ GateServes \/ LoseRequest \/ LoseAnswer \/ Disconnect
      \/ Reconnect \/ Report \/ ReadyChanges \/ UNCHANGED vars
      => origin' = origin /\ tampered' = tampered
  BY DEF Wakes, Deliver, ShadowArrives, GateServes, LoseRequest, LoseAnswer, Disconnect, Reconnect,
         Report, ReadyChanges, vars
<1>3. ForeignClient => origin' = origin /\ (tampered => tampered')
  BY DEF ForeignClient
<1> QED
  BY <1>1, <1>2, <1>3 DEF Next

LEMMA NextPipe ==
  ASSUME ExactCodec, IInv, [Next]_vars
  PROVE  PipeInv'
<1> USE DEF IInv
<1>1. SUFFICES ASSUME ~tampered'
               PROVE  /\ \A i \in Constant : Same(i, origin[i])'
                      /\ \A w \in Writers : Alone(w) /\ Field(w) \notin Constant => WriterInv(w)'
  <2>1. Constant' = Constant
    BY HistoryMoves DEF Constant
  <2> QED
    BY <2>1 DEF PipeInv
<1>2. ~tampered /\ origin' = origin
  BY <1>1, HistoryMoves
<1>3. \A w \in Writers : Alone(w) /\ Field(w) \notin Constant => origin[Field(w)] # Goal(w)
  BY AskedAssumption DEF Alone, Constant, Field, Goal
<1>4. CASE \A c \in Clients : ~WriteFrame(c)
  <2>1. \A i, v : (Same(i, v) => Same(i, v)') /\ (From(i, v) => From(i, v)')
    BY <1>1, <1>2, <1>4, UnwrittenKeeps
  <2>2. ASSUME NEW w \in Writers, Alone(w), Field(w) \notin Constant PROVE WriterInv(w)'
    <3>1. WriterInv(w)
      BY <1>2, <2>2 DEF PipeInv
    <3>2. pc'[w] = "done" => Same(Field(w), Goal(w))
      BY <1>4, <3>1, StageMoves, VerifiedReads, ProofIsLast DEF WriterInv
    <3> QED
      BY <1>2, <1>4, <2>1, <3>1, <3>2, StageMoves DEF WriterInv
  <2> QED
    BY <1>2, <2>1, <2>2 DEF PipeInv
<1>5. ASSUME NEW c \in Clients, WriteFrame(c)
      PROVE  /\ \A i \in Constant : Same(i, origin[i])'
             /\ \A w \in Writers : Alone(w) /\ Field(w) \notin Constant => WriterInv(w)'
  <2>1. c \in Writers /\ holder = c /\ pc[c] = "reading"
    BY <1>5 DEF WriteFrame
  <2>2. \A i \in Constant : Same(i, origin[i])'
    <3>1. \A i \in Constant : i \in Index /\ (i = Field(c) => origin[i] = Goal(c))
      BY <2>1 DEF Constant, Field, Goal
    <3> QED
      BY <1>2, <1>5, <2>1, <3>1, WriteKeeps DEF PipeInv
  <2>3. ASSUME NEW w \in Writers, Alone(w), Field(w) \notin Constant, w # c PROVE WriterInv(w)'
    <3>1. WriterInv(w) /\ Field(w) # Field(c) /\ Field(w) \in Index
      BY <1>2, <2>1, <2>3, AskedAssumption DEF PipeInv, Alone, Field
    <3>2. pc'[w] = pc[w] /\ ~InTransaction(w)
      BY <1>5, <2>1, <2>3, OnlyTheHolder DEF WriteFrame, Exchange, Ends, TypeOK, Clients
    <3> QED
      BY <1>2, <1>5, <2>1, <3>1, <3>2, WriteKeeps DEF WriterInv, InTransaction
  <2>4. ASSUME Alone(c), Field(c) \notin Constant PROVE WriterInv(c)'
    <3>1. Same(Field(c), origin[Field(c)])
      BY <1>2, <2>1, <2>4 DEF PipeInv, WriterInv
    <3>2. From(Field(c), Goal(c))'
      BY <1>3, <1>5, <2>1, <2>4, <3>1, WriteStarts
    <3>3. pc'[c] \in {"writing", "failed"}
      BY <1>5, <2>1, ClientsAssumption DEF WriteFrame, Exchange, Ends, TypeOK
    <3> QED
      BY <3>2, <3>3 DEF WriterInv
  <2> QED
    BY <2>1, <2>2, <2>3, <2>4
<1> QED
  BY <1>4, <1>5

LEMMA Invariance == ExactCodec /\ SafetySpec => [](ExactCodec /\ IInv)
<1>1. ExactCodec /\ Init => ExactCodec /\ IInv
  BY InitType, InitLock, InitRest DEF IInv
<1>2. ExactCodec /\ IInv /\ [Next]_vars => (ExactCodec /\ IInv)'
  <2>1. ExactCodec => ExactCodec'
    BY DEF ExactCodec
  <2> QED
    BY <2>1, NextType, NextLock, NextBase, NextPipe DEF IInv
<1> QED
  BY <1>1, <1>2, PTL DEF SafetySpec

\* However the answers are lost, late, garbled or refused and whoever else writes
\* through the hub, the gate keeps what every call that ended well asked for
\* (hub.py, async_set_parameter).
THEOREM UpdatesAreKept == ExactCodec /\ SafetySpec => []NoLostUpdate
<1>1. IInv => NoLostUpdate
  BY DEF IInv, PipeInv, NoLostUpdate, WriterInv, Same, Constant, Alone, Field, Goal
<1> QED
  BY <1>1, Invariance, PTL

\* A field nobody asked for is never touched by the frames that are written back.
THEOREM OthersUntouched == ExactCodec /\ SafetySpec => []UntouchedFields
<1>1. IInv => UntouchedFields
  BY DEF IInv, PipeInv, UntouchedFields, AskedFields, Same, Constant
<1> QED
  BY <1>1, Invariance, PTL


----------------------------------------------------------------------------
(***************************************************************************)
(* Numbers and digits                                                      *)
(***************************************************************************)

UpTo(radix, token) ==
  CHOOSE upTo : upTo = [k \in 0..Len(token) |->
                          IF k = 0 THEN 0 ELSE (upTo[k-1] * radix) + token[k]]

\* The recursive function of Number, by a name of its own, satisfies its equation as soon

\* as any function does.
LEMMA NumberUpTo == \A radix, token : Number(radix, token) = UpTo(radix, token)[Len(token)]
BY DEF Number, UpTo

LEMMA UpToExists ==
  ASSUME NEW radix, NEW token, NEW f,
         f = [k \in 0..Len(token) |-> IF k = 0 THEN 0 ELSE (f[k-1] * radix) + token[k]]
  PROVE  LET g == UpTo(radix, token)
         IN  g = [k \in 0..Len(token) |-> IF k = 0 THEN 0 ELSE (g[k-1] * radix) + token[k]]
BY Zenon DEF UpTo

Bases == {2, 10, 16}

\* Numbers scaled and added are numbers.
LEMMA Scaled == \A radix \in Bases, x, y \in Nat : (x * radix) + y \in Nat
BY DEF Bases

Digits(t) == \A k \in 1..Len(t) : t[k] \in Nat

\* What Number makes of one, two and three digits.
LEMMA NumberIs ==
  ASSUME NEW radix \in Bases, NEW t, Len(t) \in 1..3, Digits(t)
  PROVE  /\ Number(radix, t) \in Nat
         /\ Len(t) = 1 => Number(radix, t) = t[1]
         /\ Len(t) = 2 => Number(radix, t) = (t[1] * radix) + t[2]
         /\ Len(t) = 3 => Number(radix, t) = (((t[1] * radix) + t[2]) * radix) + t[3]
<1> DEFINE n == Len(t)
           one == t[1]
           two == (one * radix) + t[2]
           three == (two * radix) + t[3]
           f == [k \in 0..n |-> IF k = 0 THEN 0 ELSE IF k = 1 THEN one ELSE IF k = 2 THEN two ELSE three]
           g == UpTo(radix, t)
<1>1. n \in 1..3
  OBVIOUS
<1>2. one \in Nat /\ (n > 1 => two \in Nat) /\ (n > 2 => three \in Nat)
  <2>1. one \in Nat /\ (n > 1 => t[2] \in Nat) /\ (n > 2 => t[3] \in Nat)
    BY <1>1 DEF Digits
  <2>2. n > 1 => two \in Nat
    BY <2>1, Scaled
  <2> HIDE DEF two
  <2>3. n > 2 => n > 1
    BY <1>1
  <2>4. n > 2 => three \in Nat
    BY <2>1, <2>2, <2>3, Scaled
  <2> QED
    BY <2>1, <2>2, <2>4
<1>3. two = (one * radix) + t[2] /\ three = (two * radix) + t[3] /\ (0 * radix) + t[1] = t[1]
  BY <1>2 DEF Bases
<1>4. one = t[1]
  OBVIOUS
<1> HIDE DEF two, three, one
<1>5. \A k \in 1..n : f[k] = (f[k-1] * radix) + t[k]
  <2>1. f[0] = 0 /\ f[1] = one /\ (n > 1 => f[2] = two) /\ (n > 2 => f[3] = three)
    BY <1>1
  <2> HIDE DEF f, n
  <2>2. f[1] = (f[0] * radix) + t[1]
    BY <1>3, <1>4, <2>1
  <2>3. n > 1 => f[2] = (f[1] * radix) + t[2]
    BY <1>3, <2>1
  <2>4. n > 2 => f[3] = (f[2] * radix) + t[3]
    BY <1>1, <1>3, <2>1
  <2> QED
    BY <1>1, <2>2, <2>3, <2>4
<1>6. f = [k \in 0..Len(t) |-> IF k = 0 THEN 0 ELSE (f[k-1] * radix) + t[k]]
  <2>1. \A k \in 0..n : f[k] = IF k = 0 THEN 0 ELSE (f[k-1] * radix) + t[k]
    <3>1. f[0] = 0
      BY <1>1
    <3> HIDE DEF f, n
    <3> QED
      BY <1>1, <1>5, <3>1
  <2>2. f = [k \in 0..n |-> f[k]]
    OBVIOUS
  <2> HIDE DEF f
  <2> QED
    BY <2>1, <2>2
<1> HIDE DEF f
<1>7. g = [k \in 0..n |-> IF k = 0 THEN 0 ELSE (g[k-1] * radix) + t[k]]
  BY <1>6, UpToExists
<1> HIDE DEF g
<1>8. g[0] = 0 /\ \A k \in 1..n : g[k] = (g[k-1] * radix) + t[k]
  <2>1. \A k \in 0..n : g[k] = IF k = 0 THEN 0 ELSE (g[k-1] * radix) + t[k]
    BY Zenon, <1>7
  <2> HIDE DEF n
  <2> QED
    BY <1>1, <2>1
<1>9. g[1] = one
  BY <1>1, <1>3, <1>4, <1>8
<1>10. (n > 1 => g[2] = two) /\ (n > 2 => g[3] = three)
  BY <1>1, <1>8, <1>9, <1>3
<1>11. Number(radix, t) = g[n]
  BY NumberUpTo DEF g
<1> HIDE DEF n
<1>12. /\ g[n] \in Nat /\ (n = 1 => g[n] = one) /\ (n = 2 => g[n] = two) /\ (n = 3 => g[n] = three)
  BY <1>1, <1>2, <1>9, <1>10
<1> QED
  BY <1>12, <1>11, <1>4, <1>3 DEF n

\* Number, spelled out for tokens of one, two and three digits.
LEMMA OneDigit ==
  ASSUME NEW radix \in Bases, NEW a \in Nat
  PROVE  Number(radix, <<a>>) = a
<1> DEFINE t == <<a>>
<1>1. Len(t) = 1 /\ t[1] = a
  OBVIOUS
<1> HIDE DEF t
<1> QED
  BY <1>1, NumberIs DEF Digits, t

LEMMA TwoDigits ==
  ASSUME NEW radix \in Bases, NEW a \in Nat, NEW b \in Nat
  PROVE  Number(radix, <<a, b>>) = (a * radix) + b
<1> DEFINE t == <<a, b>>
<1>1. Len(t) = 2 /\ t[1] = a /\ t[2] = b
  OBVIOUS
<1> HIDE DEF t
<1>2. Digits(t)
  BY <1>1 DEF Digits
<1> QED
  BY <1>1, <1>2, NumberIs DEF t

LEMMA ThreeDigits ==
  ASSUME NEW radix \in Bases, NEW a \in Nat, NEW b \in Nat, NEW c \in Nat
  PROVE  Number(radix, <<a, b, c>>) = (((a * radix) + b) * radix) + c
<1> DEFINE t == <<a, b, c>>
<1>1. Len(t) = 3 /\ t[1] = a /\ t[2] = b /\ t[3] = c
  OBVIOUS
<1> HIDE DEF t
<1>2. Digits(t)
  BY <1>1 DEF Digits
<1> QED
  BY <1>1, <1>2, NumberIs DEF t

\* The digits written are the digits of the number.
LEMMA DecimalBack == \A n \in 0..255 : Number(10, Dec(n)) = n /\ Decimal(Dec(n))
<1> SUFFICES ASSUME NEW n \in 0..255 PROVE Number(10, Dec(n)) = n /\ Decimal(Dec(n))
  OBVIOUS
<1> DEFINE h == n \div 100  t == (n \div 10) % 10  u == n % 10
<1>1. 10 \in Bases
  BY DEF Bases
<1>2. h \in 0..9 /\ t \in 0..9 /\ u \in 0..9 /\ n = (((h * 10) + t) * 10) + u
  OBVIOUS
<1>3. n < 100 => n \div 10 \in 0..9 /\ n = ((n \div 10) * 10) + u
  OBVIOUS
<1>4. Dec(n) = IF n < 10 THEN <<n>> ELSE IF n < 100 THEN <<n \div 10, u>> ELSE <<h, t, u>>
  BY DEF Dec
<1> DEFINE q == n \div 10
<1> HIDE DEF h, t, u, q
<1>5. CASE n < 10
  <2>1. Dec(n) = <<n>> /\ n \in 0..9
    BY <1>4, <1>5
  <2>2. Decimal(<<n>>)
    BY <2>1 DEF Decimal
  <2> QED
    BY <2>1, <2>2, <1>1, OneDigit
<1>6. CASE n >= 10 /\ n < 100
  <2>1. Dec(n) = <<q, u>> /\ q \in 0..9 /\ n = (q * 10) + u
    BY <1>3, <1>4, <1>6 DEF q
  <2>2. Decimal(<<q, u>>)
    BY <1>2, <2>1 DEF Decimal
  <2> QED
    BY <1>1, <1>2, <2>1, <2>2, TwoDigits
<1>7. CASE n >= 100
  <2>1. Dec(n) = <<h, t, u>>
    BY <1>4, <1>7
  <2>2. Decimal(<<h, t, u>>)
    BY <1>2 DEF Decimal
  <2> QED
    BY <1>1, <1>2, <2>1, <2>2, ThreeDigits
<1> QED
  BY <1>5, <1>6, <1>7

\* So do two hexadecimal digits.
LEMMA HexadecimalBack == \A n \in 0..255 : Number(16, Hex2(n)) = n
<1> SUFFICES ASSUME NEW n \in 0..255 PROVE Number(16, Hex2(n)) = n
  OBVIOUS
<1>1. n \div 16 \in 0..15 /\ n % 16 \in 0..15 /\ ((n \div 16) * 16) + (n % 16) = n
  OBVIOUS
<1> QED
  BY <1>1, TwoDigits DEF Bases, Hex2

\* A single digit is the same in both bases.
LEMMA DigitBack == \A n \in 0..9 : Number(16, Dec(n)) = n
<1>1. \A n \in 0..9 : Dec(n) = <<n>>
  BY DEF Dec
<1> QED
  BY <1>1, OneDigit DEF Bases

(***************************************************************************)
(* Bits                                                                    *)
(***************************************************************************)

\* The three low bits of a number.
LEMMA BitIs ==
  \A v \in Nat : /\ Bit(v, 0) = v % 2 /\ Bit(v, 1) = (v \div 2) % 2 /\ Bit(v, 2) = (v \div 4) % 2
                 /\ \A k \in 0..2 : Bit(v, k) \in 0..1
<1>1. 2^0 = 1 /\ 2^1 = 2 /\ 2^2 = 4
  OBVIOUS
<1>2. \A v \in Nat : Bit(v, 0) = v % 2 /\ Bit(v, 1) = (v \div 2) % 2 /\ Bit(v, 2) = (v \div 4) % 2
  <2>1. \A v \in Nat : v \div 1 = v
    OBVIOUS
  <2> QED
    BY <1>1, <2>1 DEF Bit
<1>3. \A v \in Nat : v % 2 \in 0..1 /\ (v \div 2) % 2 \in 0..1 /\ (v \div 4) % 2 \in 0..1
  OBVIOUS
<1>4. 0..2 = {0, 1, 2}
  OBVIOUS
<1> QED
  BY <1>2, <1>3, <1>4

LEMMA BitRange ==
  \A v \in Nat, k \in 0..2 : Bit(v, k) \in 0..1 /\ Bit(v, k) % 2 = Bit(v, k)
<1>1. \A b \in 0..1 : b % 2 = b
  OBVIOUS
<1> QED
  BY <1>1, BitIs

\* Two and three bits make up the number.
LEMMA BitsMake ==
  /\ \A v \in 0..3 : (2 * Bit(v, 1)) + Bit(v, 0) = v
  /\ \A v \in 0..7 : (4 * Bit(v, 2)) + (2 * Bit(v, 1)) + Bit(v, 0) = v
  /\ \A v \in 0..1 : v % 2 = v
BY BitIs

\* What an entry adds to the value it carries a bit of.
Weight(m, raw, j) == (raw[j] % 2) * 2^(m.entries[j].bit)

AnyOf(s) == CHOOSE x \in s : TRUE

Sums(m, raw, S, iter) ==
  iter = [s \in SUBSET S |->
            IF s = {} THEN 0 ELSE Weight(m, raw, AnyOf(s)) + iter[s \ {AnyOf(s)}]]

Iter(m, raw, S) == CHOOSE iter : Sums(m, raw, S, iter)

\* A sum over a set is recursive in an order nobody knows: its function by a name of

\* its own.
LEMMA LogicalIs ==
  \A m, raw :
    LogicalValues(m, raw) =
      LET value == [i \in Indexes(m) |->
                      IF OwnerOf(m, i) # i THEN 0
                      ELSE IF m.entries[i].bit < 0 THEN raw[i]
                      ELSE Iter(m, raw, Group(m, i))[Group(m, i)]]
      IN IF m.codec = "swap"
           THEN [value EXCEPT ![9] = (2 * Bit(value[9], 0)) + Bit(value[9], 1)]
           ELSE value
BY DEF LogicalValues, Group, MapThenSumSet, MapThenFoldSet, Iter, Sums, Weight, AnyOf

LEMMA IterExists ==
  ASSUME NEW m, NEW raw, NEW S, NEW f, Sums(m, raw, S, f)
  PROVE  Sums(m, raw, S, Iter(m, raw, S))
BY Zenon DEF Iter

\* The sum over at most three entries.
LEMMA SumIs ==
  ASSUME NEW m, NEW raw, NEW a, NEW b, NEW c, a # b, a # c, b # c,
         NEW S \in SUBSET {a, b, c}, \A j \in S : Weight(m, raw, j) \in Nat
  PROVE  Iter(m, raw, S)[S] =
           (IF a \in S THEN Weight(m, raw, a) ELSE 0)
           + (IF b \in S THEN Weight(m, raw, b) ELSE 0)
           + (IF c \in S THEN Weight(m, raw, c) ELSE 0)
<1> DEFINE W(j) == Weight(m, raw, j)
           A(s) == IF a \in s THEN W(a) ELSE 0
           B(s) == IF b \in s THEN W(b) ELSE 0
           C(s) == IF c \in s THEN W(c) ELSE 0
           f == [s \in SUBSET S |-> A(s) + B(s) + C(s)]
           g == Iter(m, raw, S)
<1>1. \A s \in SUBSET S : A(s) \in Nat /\ B(s) \in Nat /\ C(s) \in Nat
  OBVIOUS
<1>2. \A s \in SUBSET S : s # {} =>
        /\ AnyOf(s) \in s /\ s \ {AnyOf(s)} \in SUBSET S
        /\ A(s) + B(s) + C(s) = W(AnyOf(s)) + (A(s \ {AnyOf(s)}) + B(s \ {AnyOf(s)}) + C(s \ {AnyOf(s)}))
  <2> SUFFICES ASSUME NEW s \in SUBSET S, s # {}
               PROVE  /\ AnyOf(s) \in s /\ s \ {AnyOf(s)} \in SUBSET S
                      /\ A(s) + B(s) + C(s)
                         = W(AnyOf(s)) + (A(s \ {AnyOf(s)}) + B(s \ {AnyOf(s)}) + C(s \ {AnyOf(s)}))
    OBVIOUS
  <2> DEFINE x == AnyOf(s)
             t == s \ {x}
  <2>1. x \in s
    BY DEF AnyOf
  <2> HIDE DEF x
  <2>2. t \in SUBSET S /\ x \in {a, b, c}
    BY <2>1
  <2>3. CASE x = a
    <3>1. A(s) = W(a) /\ A(t) = 0 /\ B(t) = B(s) /\ C(t) = C(s) /\ W(x) = W(a)
      BY <2>1, <2>3
    <3> HIDE DEF A, B, C, W, t
    <3> QED
      BY <3>1, <2>1, <2>2, <1>1 DEF x, t
  <2>4. CASE x = b
    <3>1. B(s) = W(b) /\ B(t) = 0 /\ A(t) = A(s) /\ C(t) = C(s) /\ W(x) = W(b)
      BY <2>1, <2>4
    <3> HIDE DEF A, B, C, W, t
    <3> QED
      BY <3>1, <2>1, <2>2, <1>1 DEF x, t
  <2>5. CASE x = c
    <3>1. C(s) = W(c) /\ C(t) = 0 /\ A(t) = A(s) /\ B(t) = B(s) /\ W(x) = W(c)
      BY <2>1, <2>5
    <3> HIDE DEF A, B, C, W, t
    <3> QED
      BY <3>1, <2>1, <2>2, <1>1 DEF x, t
  <2> QED
    BY <2>2, <2>3, <2>4, <2>5
<1>3. A({}) + B({}) + C({}) = 0
  OBVIOUS
<1> HIDE DEF A, B, C, W
<1>4. \A s \in SUBSET S : f[s] = A(s) + B(s) + C(s)
  OBVIOUS
<1>5. \A s \in SUBSET S : f[s] = IF s = {} THEN 0 ELSE W(AnyOf(s)) + f[s \ {AnyOf(s)}]
  <2> HIDE DEF f
  <2>1. {} \in SUBSET S => f[{}] = 0
    BY <1>3, <1>4
  <2>2. ASSUME NEW s \in SUBSET S, s # {} PROVE f[s] = W(AnyOf(s)) + f[s \ {AnyOf(s)}]
    <3> DEFINE t == s \ {AnyOf(s)}
    <3>1. t \in SUBSET S /\ A(s) + B(s) + C(s) = W(AnyOf(s)) + (A(t) + B(t) + C(t))
      BY <1>2, <2>2
    <3> HIDE DEF t
    <3>2. f[s] = A(s) + B(s) + C(s) /\ f[t] = A(t) + B(t) + C(t)
      BY <1>4, <3>1
    <3> QED
      BY <3>1, <3>2 DEF t
  <2> TAKE s \in SUBSET S
  <2>3. CASE s = {}
    BY <2>1, <2>3
  <2>4. CASE s # {}
    BY Zenon, <2>2, <2>4
  <2> QED
    BY <2>3, <2>4
<1>6. f = [s \in SUBSET S |-> f[s]]
  OBVIOUS
<1> HIDE DEF f
<1>7. f = [s \in SUBSET S |-> IF s = {} THEN 0 ELSE W(AnyOf(s)) + f[s \ {AnyOf(s)}]]
  BY <1>5, <1>6
<1>8. g = [s \in SUBSET S |-> IF s = {} THEN 0 ELSE W(AnyOf(s)) + g[s \ {AnyOf(s)}]]
  <2>1. Sums(m, raw, S, f)
    BY <1>7 DEF Sums, W
  <2>2. Sums(m, raw, S, g)
    BY <2>1, IterExists
  <2> QED
    BY <2>2 DEF Sums, W
<1> HIDE DEF g
<1>9. \A s \in SUBSET S : g[s] = IF s = {} THEN 0 ELSE W(AnyOf(s)) + g[s \ {AnyOf(s)}]
  BY Zenon, <1>8
<1> DEFINE ok(s) == g[s] = f[s]
<1>10. ok({})
  BY <1>5, <1>9
<1>11. \A s \in SUBSET S : s # {} /\ ok(s \ {AnyOf(s)}) => ok(s)
  BY <1>5, <1>9
<1>12. \A s \in SUBSET S : s # {} => AnyOf(s) \in s
  BY <1>2
<1> HIDE DEF ok
<1>13. \A s \in SUBSET S : \A x : s = {x} => ok(s)
  BY <1>10, <1>11, <1>12
<1>14. \A s \in SUBSET S : \A x, y : s = {x, y} => ok(s)
  <2> SUFFICES ASSUME NEW s \in SUBSET S, NEW x, NEW y, s = {x, y}, x # y PROVE ok(s)
    BY <1>13
  <2>1. s \ {AnyOf(s)} = {x} \/ s \ {AnyOf(s)} = {y}
    BY <1>12
  <2> QED
    BY <2>1, <1>11, <1>13
<1>15. ok(S)
  <2>1. S \in {{}, {a}, {b}, {c}, {a, b}, {a, c}, {b, c}, {a, b, c}}
    OBVIOUS
  <2>2. CASE S = {a, b, c}
    <3>1. S \ {AnyOf(S)} \in {{a, b}, {a, c}, {b, c}}
      BY <1>12, <2>2
    <3> QED
      BY <3>1, <2>2, <1>11, <1>14
  <2> QED
    BY <2>1, <2>2, <1>10, <1>13, <1>14
<1> QED
  BY <1>15, <1>4 DEF ok, g, A, B, C, W

(***************************************************************************)
(* Entries and fields                                                      *)
(***************************************************************************)

\* The Hall currents' entry.
LEMMA HallIs ==
  HallCurrent = [values |-> 0..35, off |-> 5, wide |-> TRUE, kind |-> "edit",
                 owner |-> 0, bit |-> -1, bits |-> 0, big |-> FALSE]
<1>1. (99 > 9) = TRUE /\ 36 - 1 = 35
  OBVIOUS
<1> QED
  BY <1>1 DEF HallCurrent, OptFrom, Entry

\* A number that fits its field reads as it was written, unless the field is one of those

\* whose hexadecimal digits are read as decimal.
LEMMA FieldBack ==
  ASSUME NEW m, m.uart \in {0, 1}, m.uart = 0 => m.codec \in {"plain", "phase1", "named"},
         NEW e \in Entries, m.uart = 0 => e.kind # "number",
         ~(m.uart = 0 /\ m.codec = "plain" /\ e.wide),
         NEW n \in 0..255, m.codec = "named" /\ ~e.wide => n < 10
  PROVE  Parse(m, e, Format(m, e, n)) = n
<1>1. e.wide \in BOOLEAN
  BY DEF Entries
<1>2. Number(10, Dec(n)) = n /\ Decimal(Dec(n)) /\ Number(16, Hex2(n)) = n
  BY DecimalBack, HexadecimalBack
<1>3. CASE m.uart = 1
  BY <1>2, <1>3 DEF Parse, Format
<1>4. CASE m.uart = 0 /\ e.wide
  BY <1>2, <1>4 DEF Parse, Format
<1>5. CASE m.uart = 0 /\ ~e.wide
  <2>1. m.codec = "named" => Number(16, Dec(n)) = n
    BY <1>5, DigitBack
  <2> QED
    BY <1>2, <1>5, <2>1 DEF Parse, Format
<1> QED
  BY <1>1, <1>3, <1>4, <1>5

\* The entry that reads a value is one of its model, or the Hall currents'.
LEMMA ActiveFits ==
  ASSUME NEW m, WellFormed(m), NEW vs, NEW i \in Indexes(m)
  PROVE  LET e == Active(m, vs, i)
             f == m.entries[i]
         IN  /\ Fits(m, e) /\ e \in Entries
             /\ e.kind = f.kind /\ e.bits = f.bits
             /\ ~HasModes(m) \/ i \notin {2, 3} => e = f
<1>1. Fits(m, m.entries[i])
  BY DEF WellFormed
<1>2. CASE ~HasModes(m) \/ i \notin {2, 3} \/ vs[1] # HallMode
  <2>1. Active(m, vs, i) = m.entries[i]
    BY <1>2 DEF Active
  <2> QED
    BY <1>1, <2>1 DEF Fits
<1>3. CASE HasModes(m) /\ i \in {2, 3} /\ vs[1] = HallMode
  <2>1. Active(m, vs, i) = HallCurrent
    BY <1>3 DEF Active
  <2>2. m.codec \in {"named", "bytes"} /\ i \in Writable(m)
    BY <1>3 DEF WellFormed, HasModes
  <2>3. m.entries[i].kind = "edit" /\ m.entries[i].bits = 0
    BY <1>1, <2>2 DEF Fits, Writable, Entries
  <2>4. HallCurrent \in Entries
    BY HallIs DEF Entries
  <2>5. \A v \in 0..35 : v + 5 \in 0..255
    OBVIOUS
  <2>6. Fits(m, HallCurrent)
    BY <2>2, <2>4, <2>5, HallIs DEF Fits
  <2> QED
    BY <1>3, <2>1, <2>3, <2>4, <2>6, HallIs
<1> QED
  BY <1>2, <1>3

\* Entries whose values come back as they were sent.
Kept(m) == {i \in Writable(m) : ~Inexact(m, i)} \cup {i \in Indexes(m) : m.entries[i].kind = "fixed"}

\* Which entries come back: all that can be written but the inexact ones, and every

\* entry of the models verified on hardware.
LEMMA KeptIs ==
  ASSUME NEW m, WellFormed(m)
  PROVE  /\ Kept(m) \subseteq Indexes(m) /\ Writable(m) \subseteq Indexes(m)
         /\ \A i \in Writable(m) : i \in Kept(m) \/ Inexact(m, i)
         /\ \A i \in Kept(m) : ~(m.uart = 0 /\ m.codec = "plain" /\ m.entries[i].wide)
         /\ \A i \in Kept(m) : m.entries[i].kind = "fixed" => m.codec = "reserved"
         /\ \A i \in Kept(m) : i \in Writable(m) \/ m.entries[i].kind = "fixed"
         /\ m.codec \in {"named", "bytes", "reserved", "index"} => Indexes(m) = Kept(m)
<1>1. \A i \in Indexes(m) : Fits(m, m.entries[i])
  BY DEF WellFormed
<1>2. \A i \in Indexes(m) : m.entries[i].kind = "fixed" => m.codec = "reserved"
  BY <1>1 DEF Fits
<1>3. ASSUME m.codec \in {"named", "bytes", "reserved", "index"}, NEW i \in Indexes(m)
      PROVE  i \in Kept(m)
  <2>1. m.entries[i].kind \in {"edit", "fixed"} /\ m.entries[i].bit = -1
    BY <1>1, <1>3 DEF Fits
  <2>2. 0..(m.entries[i].bit - 1) = {}
    BY <2>1
  <2>3. ~Inexact(m, i)
    BY <1>3, <2>2 DEF Inexact
  <2> QED
    BY <2>1, <2>3 DEF Kept, Writable
<1>4. \A i \in Writable(m) : ~Inexact(m, i) => ~(m.uart = 0 /\ m.codec = "plain" /\ m.entries[i].wide)
  BY DEF Inexact
<1>5. m.codec = "reserved" => m.uart = 1
  BY DEF WellFormed
<1> QED
  BY <1>2, <1>3, <1>4, <1>5 DEF Kept, Writable

\* A vector of values by the tables of its own mode, as far as it comes back.
Legal(m, vs) ==
  /\ DOMAIN vs = Indexes(m)
  /\ \A i \in Kept(m) :
       /\ vs[i] \in Int
       /\ IF m.codec = "reserved" THEN vs[i] \in 0..255
          ELSE Option(m, vs, i) \in Active(m, vs, i).values

\* What of a legal vector the codecs rest on.
LEMMA LegalIs ==
  ASSUME NEW m, WellFormed(m), NEW vs, Legal(m, vs), NEW i \in Kept(m)
  PROVE  LET e == Active(m, vs, i)
         IN  /\ vs[i] \in 0..255
             /\ m.codec \in {"bytes", "reserved"} \/ vs[i] + e.off \in 0..255
             /\ m.codec = "named" /\ ~e.wide => vs[i] + e.off < 10
             /\ e.bits > 0 => vs[i] \in 0..2^e.bits - 1 /\ e.off = 0
             /\ m.codec \notin {"reserved"} => Option(m, vs, i) \in e.values
<1> DEFINE e == Active(m, vs, i)
<1>1. Fits(m, e) /\ e \in Entries
  BY ActiveFits, KeptIs
<1>2. e.values \subseteq 0..255 /\ e.off \in Nat
  BY <1>1 DEF Entries
<1>3. vs[i] \in Int
  BY DEF Legal
<1>4. CASE m.codec = "reserved"
  <2>1. vs[i] \in 0..255 /\ ~(e.bits > 0)
    BY <1>1, <1>4 DEF Legal, Fits
  <2> QED
    BY <1>4, <2>1
<1>5. CASE m.codec = "bytes"
  <2>1. vs[i] - e.off \in e.values /\ Option(m, vs, i) = vs[i] - e.off
    BY <1>5 DEF Legal, Option, ByteOffset
  <2>2. (vs[i] - e.off) + e.off \in 0..255 /\ ~(e.bits > 0)
    BY <1>1, <1>5, <2>1 DEF Fits
  <2>3. (vs[i] - e.off) + e.off = vs[i]
    BY <1>2, <1>3
  <2> QED
    BY <1>5, <2>1, <2>2, <2>3
<1>6. CASE m.codec \notin {"reserved", "bytes"}
  <2>1. vs[i] \in e.values /\ Option(m, vs, i) = vs[i]
    BY <1>3, <1>6 DEF Legal, Option, ByteOffset
  <2>2. vs[i] + e.off \in 0..255 /\ (m.codec = "named" /\ ~e.wide => vs[i] + e.off < 10)
    BY <1>1, <2>1 DEF Fits
  <2>3. e.bits > 0 => vs[i] \in 0..2^e.bits - 1 /\ e.off = 0
    BY <1>1, <2>1 DEF Fits
  <2> QED
    BY <1>2, <1>6, <2>1, <2>2, <2>3
<1> QED
  BY <1>4, <1>5, <1>6

(***************************************************************************)
(* What an entry sends and reads                                           *)
(***************************************************************************)

\* Digits of a number in bits, the first or the last field the highest.
LEMMA BitFields ==
  ASSUME NEW width \in 1..3, NEW v \in 0..2^width - 1, NEW ws,
         \/ ws = [k \in 1..width |-> Bit(v, width - k)]
         \/ ws = Reverse([k \in 1..width |-> Bit(v, k - 1)])
  PROVE  Number(2, ws) = v
<1>1. v \in Nat /\ (width = 1 => v \in 0..1) /\ (width = 2 => v \in 0..3) /\ (width = 3 => v \in 0..7)
  <2>1. 2^1 = 2 /\ 2^2 = 4 /\ 2^3 = 8
    OBVIOUS
  <2>2. width = 1 \/ width = 2 \/ width = 3
    OBVIOUS
  <2>3. CASE width = 1
    BY <2>1, <2>3
  <2>4. CASE width = 2
    BY <2>1, <2>4
  <2>5. CASE width = 3
    BY <2>1, <2>5
  <2> QED
    BY <2>2, <2>3, <2>4, <2>5
<1>2. Len(ws) = width /\ \A k \in 1..width : ws[k] = Bit(v, width - k)
  <2>1. CASE ws = [k \in 1..width |-> Bit(v, width - k)]
    BY <2>1
  <2>2. CASE ws = Reverse([k \in 1..width |-> Bit(v, k - 1)])
    <3> DEFINE us == [k \in 1..width |-> Bit(v, k - 1)]
    <3>1. Len(us) = width /\ \A k \in 1..width : us[k] = Bit(v, k - 1)
      OBVIOUS
    <3> HIDE DEF us
    <3>2. ws = [k \in 1..width |-> us[width - k + 1]]
      BY <2>2, <3>1 DEF Reverse, us
    <3>3. \A k \in 1..width : width - k + 1 \in 1..width /\ (width - k + 1) - 1 = width - k
      OBVIOUS
    <3>4. \A k \in 1..width : us[width - k + 1] = Bit(v, width - k)
      BY <3>1, <3>3
    <3> QED
      BY <3>2, <3>4
  <2> QED
    BY <2>1, <2>2
<1>3. Digits(ws) /\ 2 \in Bases /\ Len(ws) \in 1..3
  <2>1. \A k \in 1..width : width - k \in 0..2
    OBVIOUS
  <2> QED
    BY <1>1, <1>2, <2>1, BitRange DEF Digits, Bases
<1>4. CASE width = 1
  <2>1. Len(ws) = 1 /\ ws[1] = Bit(v, 0)
    BY <1>1, <1>2, <1>4
  <2>2. Bit(v, 0) = v
    BY <1>1, <1>4, BitIs, BitsMake
  <2> QED
    BY <1>3, <2>1, <2>2, NumberIs
<1>5. CASE width = 2
  <2>1. Len(ws) = 2 /\ ws[1] = Bit(v, 1) /\ ws[2] = Bit(v, 0) /\ v \in 0..3
    BY <1>1, <1>2, <1>5
  <2>2. (ws[1] * 2) + ws[2] = v
    BY <1>1, <2>1, BitRange, BitsMake
  <2> QED
    BY <1>3, <2>1, <2>2, NumberIs
<1>6. CASE width = 3
  <2>1. Len(ws) = 3 /\ ws[1] = Bit(v, 2) /\ ws[2] = Bit(v, 1) /\ ws[3] = Bit(v, 0) /\ v \in 0..7
    BY <1>1, <1>2, <1>6
  <2>2. Bit(v, 2) \in 0..1 /\ Bit(v, 1) \in 0..1 /\ Bit(v, 0) \in 0..1
    BY <1>1, BitIs
  <2>3. (((ws[1] * 2) + ws[2]) * 2) + ws[3] = v
    BY <2>1, <2>2, BitsMake
  <2> QED
    BY <1>3, <2>1, <2>3, NumberIs
<1> QED
  BY <1>4, <1>5, <1>6

\* What the fields of a frame are made from.
Sent(m, vs) == IF m.codec \in {"converted", "swap"} THEN RawValues(m, vs) ELSE vs

\* Only a swapped vector is sent otherwise than it is held.
LEMMA SentIs ==
  ASSUME NEW m, WellFormed(m), NEW vs, NEW i \in Indexes(m)
  PROVE  /\ m.codec # "swap" => Sent(m, vs)[i] = vs[i]
         /\ Active(m, Sent(m, vs), i) = Active(m, vs, i)
<1>1. ASSUME m.codec = "converted" PROVE RawValues(m, vs)[i] = vs[i]
  <2>1. m.entries[i].owner = 0 /\ m.entries[i].bit = -1
    BY <1>1 DEF WellFormed, Fits
  <2>2. OwnerOf(m, i) = i
    BY <2>1 DEF OwnerOf
  <2> QED
    BY <1>1, <2>1, <2>2 DEF RawValues
<1>2. m.codec \in {"converted", "swap"} => ~HasModes(m)
  BY DEF HasModes
<1> QED
  BY <1>1, <1>2 DEF Sent, Active

\* An entry of one field, or two, or as many as it has bits.
LEMMA CountIs ==
  ASSUME NEW m, WellFormed(m), NEW i \in Kept(m)
  PROVE  LET e == m.entries[i]
         IN  /\ e.bits > 0 => WireCount(m, i) = e.bits /\ e.bits \in 1..3
             /\ e.kind \in {"split", "spaced"} => WireCount(m, i) = 2 /\ e.bits = 0
             /\ e.bits = 0 /\ e.kind \notin {"split", "spaced"} => WireCount(m, i) = 1
             /\ e.bits \in 0..3 /\ e.kind \in {"edit", "number", "split", "spaced", "fixed"}
<1>1. m.entries[i] \in Entries /\ Fits(m, m.entries[i])
  BY KeptIs DEF WellFormed, Fits
<1>2. m.entries[i].kind \in {"edit", "number", "split", "spaced", "fixed"}
  BY KeptIs DEF Writable
<1>3. m.entries[i].bits \in 0..3
  BY <1>1 DEF Entries
<1>4. m.entries[i].bits > 0 => m.entries[i].kind = "edit"
  BY <1>1 DEF Fits
<1> QED
  BY <1>2, <1>3, <1>4 DEF WireCount

\* The numbers of an entry fit their fields and give its value back.
LEMMA WiresBack ==
  ASSUME NEW m, WellFormed(m), m.codec # "swap", NEW vs, Legal(m, vs), NEW i \in Kept(m)
  PROVE  LET e == Active(m, vs, i)
             ws == WireValues(m, Sent(m, vs), i)
             n == WireCount(m, i)
         IN  /\ \A k \in 1..n : ws[k] \in 0..255 /\ (m.codec = "named" /\ ~e.wide => ws[k] < 10)
             /\ ValueOf(m, e, [k \in 1..n |-> ws[k]]) = vs[i]
<1> DEFINE e == Active(m, vs, i)
           raw == Sent(m, vs)
           ws == WireValues(m, raw, i)
           n == WireCount(m, i)
           v == vs[i] + e.off
           us == [k \in 1..n |-> ws[k]]
<1>1. /\ raw[i] = vs[i] /\ Active(m, raw, i) = e /\ i \in Indexes(m)
  BY SentIs, KeptIs
<1>2. /\ Fits(m, e) /\ e \in Entries /\ e.kind = m.entries[i].kind /\ e.bits = m.entries[i].bits
  BY <1>1, ActiveFits
<1>3. /\ vs[i] \in 0..255
      /\ m.codec \in {"bytes", "reserved"} \/ v \in 0..255
      /\ m.codec = "named" /\ ~e.wide => v < 10
      /\ e.bits > 0 => vs[i] \in 0..2^e.bits - 1 /\ e.off = 0
  BY LegalIs
<1>4. /\ e.bits > 0 => n = e.bits /\ e.bits \in 1..3
      /\ e.kind \in {"split", "spaced"} => n = 2 /\ e.bits = 0
      /\ e.bits = 0 /\ e.kind \notin {"split", "spaced"} => n = 1
      /\ e.bits \in 0..3 /\ e.kind \in {"edit", "number", "split", "spaced", "fixed"}
  BY <1>2, CountIs
<1>5. e.off \in Nat /\ e.big \in BOOLEAN
  BY <1>2 DEF Entries
<1> SUFFICES /\ \A k \in 1..n : ws[k] \in 0..255 /\ (m.codec = "named" /\ ~e.wide => ws[k] < 10)
             /\ ValueOf(m, e, us) = vs[i]
  OBVIOUS
<1> HIDE DEF e, raw, n
<1>6. CASE e.bits > 0
  <2>1. e.kind = "edit" /\ m.codec = "phase1"
    BY <1>2, <1>6 DEF Fits
  <2>2. vs[i] \in Nat /\ v = vs[i] /\ vs[i] \in 0..2^n - 1 /\ n \in 1..3
    BY <1>3, <1>4, <1>6
  <2>3. CASE e.big
    <3>1. ws = [k \in 1..n |-> Bit(vs[i], n - k)]
      BY <1>1, <1>4, <1>6, <2>1, <2>2, <2>3 DEF WireValues
    <3>2. \A k \in 1..n : ws[k] \in 0..1 /\ ws[k] % 2 = ws[k]
      <4>1. \A k \in 1..n : n - k \in 0..2 /\ k - 1 \in 0..2
        BY <2>2
      <4> QED
        BY <2>2, <3>1, <4>1, BitRange
    <3> HIDE DEF ws
    <3>3. [k \in DOMAIN us |-> us[k] % 2] = [k \in 1..n |-> Bit(vs[i], n - k)]
      BY <3>1, <3>2
    <3>4. ValueOf(m, e, us) = Number(2, [k \in DOMAIN us |-> us[k] % 2])
      BY <1>6, <2>1, <2>3 DEF ValueOf
    <3>5. Number(2, [k \in 1..n |-> Bit(vs[i], n - k)]) = vs[i]
      BY <2>2, BitFields
    <3>6. ValueOf(m, e, us) = vs[i]
      BY Zenon, <3>3, <3>4, <3>5
    <3>7. \A k \in 1..n : ws[k] \in 0..255
      BY <3>2
    <3> QED
      BY <2>1, <3>6, <3>7
  <2>4. CASE ~e.big
    <3>1. ws = [k \in 1..n |-> Bit(vs[i], k - 1)]
      BY <1>1, <1>4, <1>6, <2>1, <2>2, <2>4 DEF WireValues
    <3>2. \A k \in 1..n : ws[k] \in 0..1 /\ ws[k] % 2 = ws[k]
      <4>1. \A k \in 1..n : n - k \in 0..2 /\ k - 1 \in 0..2
        BY <2>2
      <4> QED
        BY <2>2, <3>1, <4>1, BitRange
    <3> HIDE DEF ws
    <3>3. [k \in DOMAIN us |-> us[k] % 2] = [k \in 1..n |-> Bit(vs[i], k - 1)]
      BY <3>1, <3>2
    <3>4. ValueOf(m, e, us) = Number(2, Reverse([k \in DOMAIN us |-> us[k] % 2]))
      BY <1>6, <2>1, <2>4 DEF ValueOf
    <3>5. Number(2, Reverse([k \in 1..n |-> Bit(vs[i], k - 1)])) = vs[i]
      BY <2>2, BitFields
    <3>6. ValueOf(m, e, us) = vs[i]
      BY Zenon, <3>3, <3>4, <3>5
    <3>7. \A k \in 1..n : ws[k] \in 0..255
      BY <3>2
    <3> QED
      BY <2>1, <3>6, <3>7
  <2> QED
    BY <1>5, <2>3, <2>4
<1>7. CASE e.bits = 0 /\ e.kind \in {"split", "spaced"}
  <2>1. m.codec \in {"plain", "phase1"}
    BY <1>2, <1>7 DEF Fits
  <2>2. v \in 0..255 /\ n = 2 /\ v - e.off = vs[i]
    BY <1>3, <1>4, <1>5, <1>7, <2>1
  <2>3. CASE e.kind = "split"
    <3>1. ws = <<v \div 2, v % 2>>
      BY <1>1, <1>7, <2>1, <2>3 DEF WireValues, SplitFields
    <3>2. ws[1] = v \div 2 /\ ws[2] = v % 2 /\ us[1] = ws[1] /\ us[2] = ws[2]
      BY <2>2, <3>1
    <3>3. v \div 2 \in 0..255 /\ v % 2 \in 0..255 /\ (2 * (v \div 2)) + (v % 2) = v
      BY <2>2
    <3>4. ValueOf(m, e, us) = (2 * us[1]) + us[2] - e.off
      BY <1>7, <2>1, <2>3 DEF ValueOf, SplitValue
    <3> HIDE DEF ws, us, v
    <3>5. ValueOf(m, e, us) = vs[i]
      <4>1. us[1] = v \div 2 /\ us[2] = v % 2
        BY <3>2
      <4>2. (2 * us[1]) + us[2] = v
        BY Zenon, <3>3, <4>1
      <4>3. us[1] \in Int /\ us[2] \in Int
        BY <3>3, <4>1
      <4> QED
        BY <1>5, <2>2, <3>4, <4>2, <4>3
    <3>6. \A k \in 1..n : ws[k] \in 0..255
      BY <2>2, <3>2, <3>3
    <3> QED
      BY <2>1, <3>5, <3>6
  <2>4. CASE e.kind = "spaced"
    <3>1. ws = <<1, v>>
      BY <1>1, <1>7, <2>1, <2>4 DEF WireValues
    <3>2. ws[1] = 1 /\ ws[2] = v /\ us[2] = ws[2]
      BY <2>2, <3>1
    <3>3. ValueOf(m, e, us) = us[2] - e.off
      BY <1>7, <2>1, <2>4 DEF ValueOf, SpacedValue
    <3> HIDE DEF ws, us, v
    <3>4. \A k \in 1..n : ws[k] \in 0..255
      BY <2>2, <3>2
    <3> QED
      BY <2>1, <2>2, <3>2, <3>3, <3>4
  <2> QED
    BY <1>7, <2>3, <2>4
<1>8. CASE e.bits = 0 /\ e.kind \in {"edit", "number", "fixed"}
  <2>1. n = 1 /\ m.codec \in {"reserved", "index"} => e.off = 0
    BY <1>2, <1>4, <1>8 DEF Fits
  <2>2. CASE m.codec \in {"bytes", "reserved", "index"}
    <3>1. ws = <<vs[i]>>
      BY <1>1, <1>8, <2>2 DEF WireValues
    <3>2. ws[1] = vs[i] /\ us[1] = ws[1] /\ n = 1
      BY <1>4, <1>8, <3>1
    <3>3. ValueOf(m, e, us) = IF m.codec = "bytes" THEN us[1] ELSE us[1] - e.off
      BY <1>8 DEF ValueOf
    <3> HIDE DEF ws, us
    <3>4. ValueOf(m, e, us) = vs[i]
      BY <1>3, <2>1, <2>2, <3>2, <3>3
    <3> QED
      BY <1>3, <2>2, <3>2, <3>4
  <2>3. CASE m.codec \notin {"bytes", "reserved", "index"}
    <3>1. ws = <<v>>
      BY <1>1, <1>8, <2>3 DEF WireValues
    <3>2. ws[1] = v /\ us[1] = ws[1] /\ n = 1
      BY <1>4, <1>8, <3>1
    <3>3. ValueOf(m, e, us) = us[1] - e.off
      BY <1>8, <2>3 DEF ValueOf
    <3>4. v - e.off = vs[i]
      BY <1>3, <1>5
    <3> HIDE DEF ws, us, v
    <3>5. ValueOf(m, e, us) = vs[i]
      BY <3>2, <3>3, <3>4
    <3> QED
      BY <1>3, <2>3, <3>2, <3>5
  <2> QED
    BY <2>2, <2>3
<1> QED
  BY <1>4, <1>6, <1>7, <1>8

(***************************************************************************)
(* Frames                                                                  *)
(***************************************************************************)

\* The numbers an entry finds in its fields.
Numbers(m, frame, e, i) == [k \in DOMAIN m.places[i] |-> Parse(m, e, frame[m.places[i][k]])]

\* Every field of an entry carries the entry's number that belongs there.
LEMMA FieldSent ==
  ASSUME NEW m, WellFormed(m), NEW vs, NEW i \in Indexes(m), NEW k \in 1..WireCount(m, i)
  PROVE  /\ k \in DOMAIN m.places[i]
         /\ Encode(m, vs)[m.places[i][k]]
            = Format(m, Active(m, vs, i), WireValues(m, Sent(m, vs), i)[k])
<1> DEFINE p == m.places[i][k]
<1>1. /\ m.places[i] \in [1..WireCount(m, i) -> DOMAIN m.sources] /\ m.sources[p] = <<i, k>>
  BY DEF WellFormed, Placed
<1>2. k \in DOMAIN m.places[i] /\ p \in DOMAIN m.sources
  BY <1>1
<1>3. m.sources[p][1] = i /\ m.sources[p][2] = k
  BY <1>1
<1>4. i # 0
  BY DEF WellFormed
<1> HIDE DEF p
<1> QED
  BY <1>2, <1>3, <1>4 DEF Encode, Sent, p

\* The numbers of an entry that fit their fields are what the decoder finds there.
LEMMA FieldsRead ==
  ASSUME NEW m, WellFormed(m), NEW vs, NEW i \in Indexes(m),
         ~(m.uart = 0 /\ m.codec = "plain" /\ Active(m, vs, i).wide),
         \A k \in 1..WireCount(m, i) :
           /\ WireValues(m, Sent(m, vs), i)[k] \in 0..255
           /\ m.codec = "named" /\ ~Active(m, vs, i).wide => WireValues(m, Sent(m, vs), i)[k] < 10
  PROVE  Numbers(m, Encode(m, vs), Active(m, vs, i), i)
         = [k \in 1..WireCount(m, i) |-> WireValues(m, Sent(m, vs), i)[k]]
<1> DEFINE e == Active(m, vs, i)
           ws == WireValues(m, Sent(m, vs), i)
           n == WireCount(m, i)
           frame == Encode(m, vs)
<1>1. e \in Entries /\ Fits(m, e)
  BY ActiveFits
<1>2. m.uart \in {0, 1} /\ (m.uart = 0 => m.codec \in {"plain", "phase1", "named"})
      /\ DOMAIN m.places[i] = 1..n
  BY DEF WellFormed, Placed
<1>3. m.uart = 0 => e.kind # "number"
  BY <1>1 DEF Fits
<1>4. \A k \in 1..n : frame[m.places[i][k]] = Format(m, e, ws[k])
  BY FieldSent
<1>5. /\ \A k \in 1..n : ws[k] \in 0..255 /\ (m.codec = "named" /\ ~e.wide => ws[k] < 10)
      /\ ~(m.uart = 0 /\ m.codec = "plain" /\ e.wide)
  OBVIOUS
<1> HIDE DEF e, ws, n, frame
<1>6. \A k \in 1..n : Parse(m, e, Format(m, e, ws[k])) = ws[k]
  <2> TAKE k \in 1..n
  <2> DEFINE x == ws[k]
  <2>1. x \in 0..255 /\ (m.codec = "named" /\ ~e.wide => x < 10)
    BY <1>5
  <2> HIDE DEF x
  <2>2. Parse(m, e, Format(m, e, x)) = x
    <3>1. \A q \in 0..255 : (m.codec = "named" /\ ~e.wide => q < 10) => Parse(m, e, Format(m, e, q)) = q
      <4>1. /\ m.uart \in {0, 1} /\ (m.uart = 0 => m.codec \in {"plain", "phase1", "named"})
            /\ (m.uart = 0 => e.kind # "number") /\ e \in Entries
            /\ ~(m.uart = 0 /\ m.codec = "plain" /\ e.wide)
        BY <1>1, <1>2, <1>3, <1>5
      <4> QED
        BY ONLY <4>1, FieldBack
    <3> QED
      BY ONLY <3>1, <2>1
  <2> QED
    BY <2>2 DEF x
<1> QED
  BY <1>2, <1>4, <1>6 DEF Numbers, e, ws, n, frame

\* The table the decoder reads with.
First(m, frame) == ValueOf(m, m.entries[1], Numbers(m, frame, m.entries[1], 1))

ValuesRead(m, frame) ==
  [i \in Indexes(m) |->
     ValueOf(m, Active(m, <<First(m, frame)>>, i),
             Numbers(m, frame, Active(m, <<First(m, frame)>>, i), i))]

\* Decode by parts: the values read, then what the codec makes of them.
LEMMA DecodeIs ==
  \A m, frame :
    Decode(m, frame) =
      LET logical == IF m.codec \in {"converted", "swap"}
                       THEN LogicalValues(m, ValuesRead(m, frame)) ELSE ValuesRead(m, frame)
      IN  IF Acceptable(m, logical) THEN logical ELSE None
BY DEF Decode, ValuesRead, First, Numbers

\* The first entry tells by which table the currents are read.
LEMMA ModeRead ==
  ASSUME NEW m, WellFormed(m), NEW vs, Legal(m, vs), NEW i \in Indexes(m)
  PROVE  Active(m, <<First(m, Encode(m, vs))>>, i) = Active(m, vs, i)
<1>1. CASE HasModes(m)
  <2>1. m.codec \in {"named", "bytes"} /\ 1 \in Kept(m)
    BY <1>1, KeptIs DEF HasModes, WellFormed
  <2>2. Active(m, vs, 1) = m.entries[1] /\ 1 \in Indexes(m)
    BY <2>1, KeptIs DEF Active
  <2> DEFINE ws == WireValues(m, Sent(m, vs), 1)
             n == WireCount(m, 1)
  <2>3. /\ \A k \in 1..n : ws[k] \in 0..255 /\ (m.codec = "named" /\ ~m.entries[1].wide => ws[k] < 10)
        /\ ValueOf(m, m.entries[1], [k \in 1..n |-> ws[k]]) = vs[1]
    BY <2>1, <2>2, WiresBack
  <2>4. Numbers(m, Encode(m, vs), m.entries[1], 1) = [k \in 1..n |-> ws[k]]
    <3>1. ~(m.uart = 0 /\ m.codec = "plain" /\ Active(m, vs, 1).wide)
      BY <2>1
    <3>2. \A k \in 1..n :
            ws[k] \in 0..255 /\ (m.codec = "named" /\ ~Active(m, vs, 1).wide => ws[k] < 10)
      BY <2>2, <2>3
    <3>3. Numbers(m, Encode(m, vs), Active(m, vs, 1), 1) = [k \in 1..n |-> ws[k]]
      BY <2>2, <3>1, <3>2, FieldsRead
    <3> QED
      BY <2>2, <3>3
  <2>5. First(m, Encode(m, vs)) = vs[1]
    BY <2>3, <2>4 DEF First
  <2>6. <<First(m, Encode(m, vs))>>[1] = vs[1]
    BY <2>5
  <2> QED
    BY <2>6 DEF Active
<1>2. CASE ~HasModes(m)
  BY <1>2 DEF Active
<1> QED
  BY <1>1, <1>2

\* An entry that comes back is read as it was sent.
LEMMA ValueRead ==
  ASSUME NEW m, WellFormed(m), m.codec # "swap", NEW vs, Legal(m, vs), NEW i \in Kept(m)
  PROVE  ValuesRead(m, Encode(m, vs))[i] = vs[i]
<1> DEFINE e == Active(m, vs, i)
           ws == WireValues(m, Sent(m, vs), i)
           n == WireCount(m, i)
<1>1. i \in Indexes(m)
  BY KeptIs
<1>2. /\ \A k \in 1..n : ws[k] \in 0..255 /\ (m.codec = "named" /\ ~e.wide => ws[k] < 10)
      /\ ValueOf(m, e, [k \in 1..n |-> ws[k]]) = vs[i]
  BY WiresBack
<1>3. ~(m.uart = 0 /\ m.codec = "plain" /\ e.wide)
  BY <1>1, KeptIs, ActiveFits DEF HasModes
<1>4. Numbers(m, Encode(m, vs), e, i) = [k \in 1..n |-> ws[k]]
  BY <1>1, <1>2, <1>3, FieldsRead
<1>5. Active(m, <<First(m, Encode(m, vs))>>, i) = e
  BY <1>1, ModeRead
<1> QED
  BY <1>1, <1>2, <1>4, <1>5 DEF ValuesRead

(***************************************************************************)
(* Pairs and triples of bits                                               *)
(***************************************************************************)

\* What a bit contributes to the value it belongs to.
LEMMA Weights ==
  ASSUME NEW m, NEW raw, NEW j, raw[j] \in 0..1
  PROVE  /\ m.entries[j].bit = 0 => Weight(m, raw, j) = raw[j]
         /\ m.entries[j].bit = 1 => Weight(m, raw, j) = 2 * raw[j]
         /\ m.entries[j].bit = 2 => Weight(m, raw, j) = 4 * raw[j]
<1>1. 2^0 = 1 /\ 2^1 = 2 /\ 2^2 = 4 /\ raw[j] % 2 = raw[j]
  OBVIOUS
<1>2. \A b \in 0..1 : b * 1 = b /\ b * 2 = 2 * b /\ b * 4 = 4 * b
  OBVIOUS
<1>3. Weight(m, raw, j) = raw[j] * 2^(m.entries[j].bit)
  BY <1>1 DEF Weight
<1>4. CASE m.entries[j].bit = 0
  BY <1>1, <1>2, <1>3, <1>4
<1>5. CASE m.entries[j].bit = 1
  BY <1>1, <1>2, <1>3, <1>5
<1>6. CASE m.entries[j].bit = 2
  BY <1>1, <1>2, <1>3, <1>6
<1> QED
  BY <1>4, <1>5, <1>6

\* The values of a pair and of a triple of bits.
LEMMA SumOfTwo ==
  ASSUME NEW m, NEW raw, NEW i, NEW j, i # j,
         m.entries[i].bit = 1, m.entries[j].bit = 0, raw[i] \in 0..1, raw[j] \in 0..1,
         NEW S, S = {i, j}
  PROVE  Iter(m, raw, S)[S] = (2 * raw[i]) + raw[j]
<1>1. Weight(m, raw, i) = 2 * raw[i] /\ Weight(m, raw, j) = raw[j]
  BY Weights
<1>2. \E none \in 0..2 : none # i /\ none # j
  OBVIOUS
<1>3. PICK none : none # i /\ none # j
  BY <1>2
<1>4. /\ S \in SUBSET {i, j, none} /\ i \in S /\ j \in S /\ none \notin S
      /\ i # none /\ j # none /\ \A k \in S : Weight(m, raw, k) \in Nat
  BY <1>1, <1>3
<1>5. Iter(m, raw, S)[S] =
           (IF i \in S THEN Weight(m, raw, i) ELSE 0)
           + (IF j \in S THEN Weight(m, raw, j) ELSE 0)
           + (IF none \in S THEN Weight(m, raw, none) ELSE 0)
  BY ONLY <1>4, SumIs, i # j
<1> QED
  BY <1>1, <1>4, <1>5

LEMMA SumOfThree ==
  ASSUME NEW m, NEW raw, NEW i, NEW j, NEW k, i # j, i # k, j # k,
         m.entries[i].bit = 2, m.entries[j].bit = 1, m.entries[k].bit = 0,
         raw[i] \in 0..1, raw[j] \in 0..1, raw[k] \in 0..1,
         NEW S, S = {i, j, k}
  PROVE  Iter(m, raw, S)[S] = (4 * raw[i]) + (2 * raw[j]) + raw[k]
<1>1. Weight(m, raw, i) = 4 * raw[i] /\ Weight(m, raw, j) = 2 * raw[j] /\ Weight(m, raw, k) = raw[k]
  BY Weights
<1>2. S \in SUBSET {i, j, k} /\ i \in S /\ j \in S /\ k \in S
  OBVIOUS
<1>3. \A x \in S : Weight(m, raw, x) \in Nat
  BY <1>1
<1>4. Iter(m, raw, S)[S] =
           (IF i \in S THEN Weight(m, raw, i) ELSE 0)
           + (IF j \in S THEN Weight(m, raw, j) ELSE 0)
           + (IF k \in S THEN Weight(m, raw, k) ELSE 0)
  BY <1>2, <1>3, SumIs
<1> QED
  BY <1>1, <1>2, <1>4

\* The number an entry carries before the pair is swapped.
Carried(m, vs, i) ==
  IF m.entries[i].bit < 0 THEN vs[OwnerOf(m, i)] ELSE Bit(vs[OwnerOf(m, i)], m.entries[i].bit)

\* The pair that is swapped: entry 9 and the row after it carry the two bits of one value.
LEMMA SwapIs ==
  ASSUME NEW m, WellFormed(m), m.codec = "swap"
  PROVE  /\ m.uart = 1 /\ ~HasModes(m)
         /\ 9 \in Kept(m) /\ 9 \in Indexes(m) /\ 10 \in Indexes(m) /\ Group(m, 9) = {9, 10}
         /\ OwnerOf(m, 9) = 9 /\ OwnerOf(m, 10) = 9
         /\ m.entries[9].bit = 1 /\ m.entries[10].bit = 0 /\ m.entries[9].values \subseteq 0..3
<1>1. m.uart = 1 /\ ~HasModes(m) /\ 9 \in Writable(m) /\ 10 \in Indexes(m) /\ TwoBits(m, 9)
  BY DEF WellFormed, HasModes
<1>2. /\ Group(m, 9) = {9, 10} /\ m.entries[9].bit = 1 /\ m.entries[10].bit = 0
      /\ m.entries[9].values \subseteq 0..3
  BY <1>1 DEF TwoBits
<1>3. OwnerOf(m, 9) = 9 /\ OwnerOf(m, 10) = 9
  BY <1>2 DEF Group
<1>4. \A b \in 0..(m.entries[9].bit - 1) : OwnerOf(m, 10) = 9 /\ m.entries[10].bit = b
  BY <1>2, <1>3
<1>5. ~Inexact(m, 9)
  BY <1>1, <1>4 DEF Inexact
<1> QED
  BY <1>1, <1>2, <1>3, <1>5 DEF Kept, Writable

\* A vector on its way out: each entry carries its bit, the pair's change places.
LEMMA RawIs ==
  ASSUME NEW m, WellFormed(m), m.codec = "swap", NEW vs, NEW i \in Indexes(m)
  PROVE  /\ i \notin {9, 10} => Sent(m, vs)[i] = Carried(m, vs, i)
         /\ Sent(m, vs)[9] = Bit(vs[9], 0) /\ Sent(m, vs)[10] = Bit(vs[9], 1)
<1> DEFINE raw == [j \in Indexes(m) |-> Carried(m, vs, j)]
<1>1. Sent(m, vs) = [raw EXCEPT ![9] = raw[10], ![10] = raw[9]]
  BY DEF Sent, RawValues, Carried
<1>2. \A j \in Indexes(m) : raw[j] = Carried(m, vs, j)
  OBVIOUS
<1>3. DOMAIN raw = Indexes(m) /\ 9 \in Indexes(m) /\ 10 \in Indexes(m)
  BY SwapIs
<1>4. Carried(m, vs, 9) = Bit(vs[9], 1) /\ Carried(m, vs, 10) = Bit(vs[9], 0)
  BY SwapIs DEF Carried
<1> HIDE DEF raw
<1> QED
  BY <1>1, <1>2, <1>3, <1>4

\* What an entry of a swapped vector sends, and reads.
LEMMA SwapRead ==
  ASSUME NEW m, WellFormed(m), m.codec = "swap", NEW vs, Legal(m, vs),
         NEW i \in Indexes(m), OwnerOf(m, i) \in Kept(m)
  PROVE  /\ Sent(m, vs)[i] \in 0..255
         /\ ValuesRead(m, Encode(m, vs))[i] = Sent(m, vs)[i]
<1> DEFINE e == m.entries[i]
           v == Sent(m, vs)[i]
           ws == WireValues(m, Sent(m, vs), i)
           frame == Encode(m, vs)
<1>1. /\ e.bits = 0 /\ e.kind \in {"edit", "row"} /\ e.off = 0 /\ e.bit \in -1..2
  <2>1. e \in Entries /\ Fits(m, e)
    BY DEF WellFormed, Fits
  <2>2. e.kind \in {"edit", "row"} /\ ~(e.bits > 0) /\ e.off = 0
    BY <2>1 DEF Fits
  <2> QED
    BY <2>1, <2>2 DEF Entries
<1>2. Active(m, vs, i) = e /\ Active(m, Sent(m, vs), i) = e
  BY SwapIs DEF Active
<1>3. v \in 0..255
  <2>1. vs[OwnerOf(m, i)] \in 0..255 /\ vs[9] \in 0..255
    BY SwapIs, LegalIs
  <2>2. Carried(m, vs, i) \in 0..255
    <3>1. CASE e.bit < 0
      BY <2>1, <3>1 DEF Carried
    <3>2. CASE ~(e.bit < 0)
      <4>1. e.bit \in 0..2
        BY <1>1, <3>2
      <4> QED
        BY <2>1, <3>2, <4>1, BitRange DEF Carried
    <3> QED
      BY <3>1, <3>2
  <2>3. Bit(vs[9], 0) \in 0..255 /\ Bit(vs[9], 1) \in 0..255
    BY <2>1, BitRange
  <2> QED
    BY <2>2, <2>3, RawIs
<1>4. WireCount(m, i) = 1
  BY <1>1 DEF WireCount
<1>5. ws = <<v>>
  <2>1. ws = <<v + 0>>
    BY <1>1, <1>2 DEF WireValues
  <2> QED
    BY <1>3, <2>1
<1>6. ws[1] = v /\ \A k \in 1..1 : ws[k] = v
  BY <1>5
<1>7. Numbers(m, frame, e, i) = [k \in 1..1 |-> ws[k]]
  <2> HIDE DEF e, v, ws
  <2>1. \A k \in 1..WireCount(m, i) : ws[k] \in 0..255
    BY <1>3, <1>4, <1>6
  <2>2. Numbers(m, frame, Active(m, vs, i), i) = [k \in 1..WireCount(m, i) |-> ws[k]]
    BY <2>1, FieldsRead DEF ws
  <2> QED
    BY <1>2, <1>4, <2>2
<1>8. ValueOf(m, e, Numbers(m, frame, e, i)) = v
  <2>1. Numbers(m, frame, e, i)[1] = v
    BY <1>6, <1>7
  <2>2. ValueOf(m, e, Numbers(m, frame, e, i)) = Numbers(m, frame, e, i)[1] - 0
    BY <1>1 DEF ValueOf
  <2> QED
    BY <1>3, <2>1, <2>2
<1>9. Active(m, <<First(m, frame)>>, i) = e
  BY SwapIs DEF Active
<1> QED
  BY <1>3, <1>8, <1>9 DEF ValuesRead

\* The bits of a key make up its value again, also those of the pair that was swapped.
LEMMA SwapBack ==
  ASSUME NEW m, WellFormed(m), m.codec = "swap", NEW vs, Legal(m, vs), NEW i \in Kept(m)
  PROVE  LogicalValues(m, ValuesRead(m, Encode(m, vs)))[i] = vs[i]
<1> DEFINE got == ValuesRead(m, Encode(m, vs))
           raw == Sent(m, vs)
           value == [j \in Indexes(m) |->
                       IF OwnerOf(m, j) # j THEN 0
                       ELSE IF m.entries[j].bit < 0 THEN got[j]
                       ELSE Iter(m, got, Group(m, j))[Group(m, j)]]
           L == LogicalValues(m, got)
<1>1. L = [value EXCEPT ![9] = (2 * Bit(value[9], 0)) + Bit(value[9], 1)]
  BY LogicalIs
<1>2. /\ i \in Indexes(m) /\ 9 \in Indexes(m) /\ i \in Writable(m) /\ OwnerOf(m, i) = i
      /\ ~Inexact(m, i) /\ i # 10 /\ Indexes(m) \subseteq 1..99
  BY KeptIs, SwapIs DEF WellFormed, Kept
<1>3. \A j \in Indexes(m) : OwnerOf(m, j) \in Kept(m) => got[j] = raw[j] /\ raw[j] \in 0..255
  BY SwapRead
<1>4. vs[i] \in 0..255 /\ vs[i] \in m.entries[i].values
  <2>1. Active(m, vs, i) = m.entries[i]
    BY SwapIs DEF Active
  <2>2. Option(m, vs, i) = vs[i] - 0 /\ Option(m, vs, i) \in m.entries[i].values /\ vs[i] \in 0..255
    BY <2>1, LegalIs DEF Option, ByteOffset
  <2> QED
    BY <2>2
<1> HIDE DEF got, raw
<1>5. CASE m.entries[i].bit < 0
  <2>1. i # 9
    BY <1>5, SwapIs
  <2>2. L[i] = value[i] /\ value[i] = got[i]
    BY <1>1, <1>2, <1>5, <2>1
  <2>3. raw[i] = vs[i]
    BY <1>2, <1>5, <2>1, RawIs DEF Carried, raw
  <2> QED
    BY <1>2, <1>3, <2>2, <2>3 DEF got
<1>6. CASE i = 9
  <2>1. got[9] = Bit(vs[9], 0) /\ got[10] = Bit(vs[9], 1)
    BY <1>3, SwapIs, RawIs DEF raw
  <2>2. got[9] \in 0..1 /\ got[10] \in 0..1
    BY <1>4, <1>6, <2>1, BitRange
  <2>3. /\ m.entries[9].bit = 1 /\ m.entries[10].bit = 0 /\ Group(m, 9) = {9, 10} /\ OwnerOf(m, 9) = 9
        /\ 9 # 10
    BY SwapIs
  <2>4. Iter(m, got, Group(m, 9))[Group(m, 9)] = (2 * got[9]) + got[10]
    <3> DEFINE S == Group(m, 9)
               x == 9
               y == 10
    <3>1. /\ S = {x, y} /\ x # y /\ m.entries[x].bit = 1 /\ m.entries[y].bit = 0
          /\ got[x] \in 0..1 /\ got[y] \in 0..1
      BY <2>2, <2>3
    <3> HIDE DEF S, x, y
    <3>2. Iter(m, got, S)[S] = (2 * got[x]) + got[y]
      BY <3>1, SumOfTwo
    <3> QED
      BY <3>2 DEF S, x, y
  <2>5. value[9] = (2 * got[9]) + got[10]
    BY <1>2, <2>3, <2>4
  <2>6. L[9] = (2 * Bit(value[9], 0)) + Bit(value[9], 1)
    BY <1>1, <1>2
  <2> HIDE DEF value, L
  <2>7. value[9] \in 0..3 /\ Bit(value[9], 0) = got[10] /\ Bit(value[9], 1) = got[9]
    <3>1. \A a, b \in 0..1 : (2 * a) + b \in 0..3 /\ ((2 * a) + b) % 2 = b /\ (((2 * a) + b) \div 2) % 2 = a
      OBVIOUS
    <3> QED
      BY <2>2, <2>5, <3>1, BitIs
  <2>8. vs[9] \in 0..3
    BY <1>4, <1>6, SwapIs
  <2> QED
    BY <1>6, <2>1, <2>6, <2>7, <2>8, BitsMake DEF L, got
<1>7. CASE i # 9 /\ TwoBits(m, i)
  <2>1. PICK j \in Indexes(m) :
          /\ j # i /\ Group(m, i) = {i, j}
          /\ m.entries[i].bit = 1 /\ m.entries[j].bit = 0 /\ m.entries[i].values \subseteq 0..3
    BY <1>7 DEF TwoBits
  <2>2. OwnerOf(m, j) = i /\ j # 9 /\ j # 10
    BY <2>1, <1>7, SwapIs DEF Group
  <2>3. got[i] = Bit(vs[i], 1) /\ got[j] = Bit(vs[i], 0)
    BY <1>2, <1>3, <1>7, <2>1, <2>2, RawIs DEF Carried, raw
  <2>4. got[i] \in 0..1 /\ got[j] \in 0..1
    BY <1>4, <2>3, BitRange
  <2>5. Iter(m, got, Group(m, i))[Group(m, i)] = (2 * got[i]) + got[j]
    BY <2>1, <2>4, SumOfTwo
  <2>6. L[i] = (2 * got[i]) + got[j]
    <3>1. L[i] = value[i]
      BY <1>1, <1>2, <1>7
    <3>2. value[i] = Iter(m, got, Group(m, i))[Group(m, i)]
      BY <1>2, <2>1
    <3> QED
      BY <2>5, <3>1, <3>2
  <2>7. vs[i] \in 0..3
    BY <1>4, <2>1
  <2> HIDE DEF L
  <2> QED
    BY <2>3, <2>6, <2>7, BitsMake DEF L, got
<1>8. CASE i # 9 /\ ThreeBits(m, i)
  <2>1. PICK j \in Indexes(m), k \in Indexes(m) :
          /\ j # i /\ k # i /\ j # k /\ Group(m, i) = {i, j, k}
          /\ m.entries[i].bit = 2 /\ m.entries[j].bit = 1 /\ m.entries[k].bit = 0
          /\ m.entries[i].values \subseteq 0..7
    BY <1>8 DEF ThreeBits
  <2>2. OwnerOf(m, j) = i /\ OwnerOf(m, k) = i /\ {j, k} \cap {9, 10} = {}
    BY <2>1, <1>8, SwapIs DEF Group
  <2>3. got[i] = Bit(vs[i], 2) /\ got[j] = Bit(vs[i], 1) /\ got[k] = Bit(vs[i], 0)
    <3>1. i \notin {9, 10} /\ j \notin {9, 10} /\ k \notin {9, 10}
      BY <1>2, <1>8, <2>2
    <3>2. raw[i] = Carried(m, vs, i) /\ raw[j] = Carried(m, vs, j) /\ raw[k] = Carried(m, vs, k)
      BY <1>2, <3>1, RawIs DEF raw
    <3> QED
      BY <1>2, <1>3, <2>1, <2>2, <3>2 DEF Carried
  <2>4. got[i] \in 0..1 /\ got[j] \in 0..1 /\ got[k] \in 0..1
    BY <1>4, <2>3, BitRange
  <2>5. Iter(m, got, Group(m, i))[Group(m, i)] = (4 * got[i]) + (2 * got[j]) + got[k]
    BY <2>1, <2>4, SumOfThree
  <2>6. L[i] = (4 * got[i]) + (2 * got[j]) + got[k]
    <3>1. L[i] = value[i]
      BY <1>1, <1>2, <1>8
    <3>2. value[i] = Iter(m, got, Group(m, i))[Group(m, i)]
      BY <1>2, <2>1
    <3> QED
      BY <2>5, <3>1, <3>2
  <2>7. vs[i] \in 0..7
    BY <1>4, <2>1
  <2> HIDE DEF L
  <2> QED
    BY <2>3, <2>6, <2>7, BitsMake DEF L, got
<1>9. m.entries[i].bit < 0 \/ TwoBits(m, i) \/ ThreeBits(m, i)
  BY <1>2 DEF WellFormed
<1> QED
  BY <1>5, <1>6, <1>7, <1>8, <1>9

(***************************************************************************)
(* A frame reads as the values it was made from                            *)
(***************************************************************************)

\* What a vector that agrees with another where values come back has in common

\* with it: its tables, its options, and that it is legal.
LEMMA SameValues ==
  ASSUME NEW m, WellFormed(m), NEW vs, NEW back, \A i \in Kept(m) : back[i] = vs[i]
  PROVE  /\ \A i \in Indexes(m) : Active(m, back, i) = Active(m, vs, i)
         /\ \A i \in Kept(m) : Option(m, back, i) = Option(m, vs, i)
         /\ Legal(m, vs) /\ DOMAIN back = Indexes(m) => Legal(m, back)
<1>1. HasModes(m) => 1 \in Kept(m)
  BY KeptIs DEF HasModes, WellFormed
<1>2. \A i \in Indexes(m) : Active(m, back, i) = Active(m, vs, i)
  BY <1>1 DEF Active
<1>3. \A i \in Kept(m) : i \in Indexes(m) /\ back[i] = vs[i]
  BY KeptIs
<1>4. \A i \in Kept(m) : Option(m, back, i) = Option(m, vs, i)
  BY <1>2, <1>3 DEF Option, ByteOffset
<1>5. ASSUME Legal(m, vs), DOMAIN back = Indexes(m) PROVE Legal(m, back)
  BY <1>2, <1>3, <1>4, <1>5 DEF Legal
<1> QED
  BY <1>2, <1>4, <1>5

\* What the check of a frame lets pass.
LEMMA ValidLegal ==
  ASSUME NEW m, WellFormed(m), NEW vs, DOMAIN vs = Indexes(m),
         \A i \in Kept(m) : vs[i] \in Int, Valid(m, vs)
  PROVE  Legal(m, vs)
<1>1. CASE m.codec = "reserved"
  BY <1>1, KeptIs DEF Legal, Valid, BytesOnly
<1>2. CASE m.codec # "reserved"
  <2>1. \A i \in Kept(m) : i \in Writable(m)
    BY <1>2, KeptIs
  <2> QED
    BY <1>2, <2>1 DEF Legal, Valid
<1> QED
  BY <1>1, <1>2

\* A decoder accepts what is legal.
LEMMA LegalAcceptable ==
  ASSUME NEW m, WellFormed(m), NEW vs, Legal(m, vs)
  PROVE  Acceptable(m, vs)
<1>1. CASE m.codec \in {"named", "index"}
  <2>1. \A i \in Writable(m) : i \in Kept(m)
    BY <1>1, KeptIs
  <2>2. \A i \in Kept(m) : Option(m, vs, i) \in Active(m, vs, i).values
    BY <1>1, LegalIs
  <2> QED
    BY <1>1, <2>1, <2>2 DEF Acceptable, Valid
<1>2. CASE m.codec \in {"bytes", "reserved"}
  <2>1. \A i \in Indexes(m) : vs[i] \in 0..255
    BY <1>2, KeptIs, LegalIs
  <2> QED
    BY <1>2, <2>1 DEF Acceptable, BytesOnly
<1> QED
  BY <1>1, <1>2 DEF Acceptable

\* Decoding undoes encoding.
LEMMA DecodeBack ==
  ASSUME NEW m, WellFormed(m), NEW vs, Legal(m, vs)
  PROVE  LET back == Decode(m, Encode(m, vs))
         IN  /\ back # None /\ DOMAIN back = Indexes(m)
             /\ \A i \in Kept(m) : back[i] = vs[i]
<1> DEFINE got == ValuesRead(m, Encode(m, vs))
           logical == IF m.codec \in {"converted", "swap"} THEN LogicalValues(m, got) ELSE got
<1>1. DOMAIN got = Indexes(m)
  BY DEF ValuesRead
<1>2. \A i \in Kept(m) : m.codec # "swap" => got[i] = vs[i]
  BY ValueRead
<1>3. \A i \in Kept(m) : m.codec = "swap" => LogicalValues(m, got)[i] = vs[i]
  BY SwapBack
<1> HIDE DEF got
<1>4. DOMAIN LogicalValues(m, got) = Indexes(m)
  BY DEF LogicalValues
<1>5. ASSUME m.codec = "converted", NEW i \in Kept(m) PROVE LogicalValues(m, got)[i] = got[i]
  <2>1. i \in Indexes(m) /\ m.entries[i].owner = 0 /\ m.entries[i].bit = -1
    BY <1>5, KeptIs DEF WellFormed, Fits
  <2>2. OwnerOf(m, i) = i /\ m.entries[i].bit < 0
    BY <2>1 DEF OwnerOf
  <2> QED
    BY <1>5, <2>1, <2>2 DEF LogicalValues
<1>6. DOMAIN logical = Indexes(m) /\ \A i \in Kept(m) : logical[i] = vs[i]
  BY <1>1, <1>2, <1>3, <1>4, <1>5
<1>7. Decode(m, Encode(m, vs)) = IF Acceptable(m, logical) THEN logical ELSE None
  BY DecodeIs DEF got
<1> HIDE DEF logical
<1>8. Acceptable(m, logical)
  BY <1>6, SameValues, LegalAcceptable
<1>9. logical # None
  <2>1. 1 \in DOMAIN logical
    BY <1>6 DEF WellFormed
  <2> QED
    BY <2>1 DEF None
<1> QED
  BY <1>6, <1>7, <1>8, <1>9

(***************************************************************************)
(* The board holds a legal frame                                           *)
(***************************************************************************)

\* The strengthening of RoundTrip and FrameLegal that every step keeps: the board's

\* frame is the encoding of a legal vector.  Neither property is inductive: what a
\* frame reads as says nothing of the next frame made from it.
BoardInv ==
  /\ model \in {Tables(n) : n \in Chosen}
  /\ Legal(model, meant)
  /\ board = Encode(model, meant)

\* The tables of the board's model are among those assumed well formed.
LEMMA ModelWellFormed == BoardInv => WellFormed(model)
BY TablesAssumption DEF BoardInv

\* The frames a board starts with, and the app's, are legal.
LEMMA FramesLegal ==
  ASSUME NEW m, WellFormed(m), NEW vs \in Frames(m)
  PROVE  Legal(m, vs)
<1>1. /\ vs \in [Indexes(m) -> 0..255]
      /\ \A i \in Writable(m) :
           m.codec = "reserved" \/ Option(m, vs, i) \in Active(m, vs, i).values
  BY DEF WellFormed
<1>2. \A i \in Kept(m) : i \in Indexes(m) /\ (m.codec # "reserved" => i \in Writable(m))
  BY KeptIs
<1> QED
  BY <1>1, <1>2 DEF Legal

\* What the hub reads of the board.
LEMMA HeldIs ==
  ASSUME BoardInv
  PROVE  LET held == Decode(model, board)
         IN  /\ held # None /\ DOMAIN held = Indexes(model)
             /\ \A i \in Kept(model) : held[i] = meant[i] /\ held[i] \in 0..255
             /\ Legal(model, held)
<1>1. WellFormed(model) /\ Legal(model, meant) /\ board = Encode(model, meant)
  BY ModelWellFormed DEF BoardInv
<1>2. LET held == Decode(model, board)
      IN  /\ held # None /\ DOMAIN held = Indexes(model)
          /\ \A i \in Kept(model) : held[i] = meant[i]
  BY <1>1, DecodeBack
<1>3. \A i \in Kept(model) : meant[i] \in 0..255
  BY <1>1, LegalIs
<1>4. Legal(model, Decode(model, board))
  BY <1>1, <1>2, SameValues
<1> QED
  BY <1>2, <1>3, <1>4

\* What a call that writes has read and written.
LEMMA WrittenIs ==
  ASSUME BoardInv, NEW i \in Writable(model), NEW option, Choose(i, option),
         board' # board \/ meant' # meant \/ last'.outcome = "accepted"
  PROVE  LET held == Decode(model, board)
             vs == [held EXCEPT ![i] = ChosenValue(i, option)]
         IN  /\ model' = model /\ meant' = vs /\ board' = Encode(model, vs)
             /\ Legal(model, vs) /\ ChosenValue(i, option) \in Int /\ i \in Indexes(model)
             /\ last'.outcome = "accepted" => Confirmed(vs, Decode(model, board'), i)
<1> DEFINE held == Decode(model, board)
           vs == [held EXCEPT ![i] = ChosenValue(i, option)]
<1>1. WellFormed(model) /\ i \in Indexes(model)
  BY ModelWellFormed, KeptIs
<1>2. /\ DOMAIN held = Indexes(model) /\ \A j \in Kept(model) : held[j] \in 0..255
  BY HeldIs
<1>3. option \in Nat /\ ByteOffset(model, display, i) \in Nat
  <2>1. Active(model, display, i) \in Entries
    BY <1>1, ActiveFits
  <2>2. Active(model, display, i).values \subseteq 0..255 /\ Active(model, display, i).off \in Nat
    BY <2>1 DEF Entries
  <2>3. option \in Active(model, display, i).values
    BY DEF Choose
  <2> QED
    BY <2>2, <2>3 DEF ByteOffset
<1>4. ChosenValue(i, option) \in Int
  BY <1>3 DEF ChosenValue
<1> DEFINE refused ==
             ~(held # None /\ Valid(model, vs)) /\ Call(i, option, "refused")
             /\ UNCHANGED <<board, display, meant>>
           done ==
             /\ held # None /\ Valid(model, vs)
             /\ board' = Encode(model, vs) /\ meant' = vs
             /\ \E back \in {Decode(model, board')} :
                  IF Confirmed(vs, back, i)
                    THEN Call(i, option, "accepted") /\ display' = back
                    ELSE Call(i, option, "unconfirmed") /\ UNCHANGED display
<1>5. (refused \/ done) /\ model' = model
  BY Zenon DEF Choose
<1>6. /\ Valid(model, vs) /\ board' = Encode(model, vs) /\ meant' = vs
      /\ last'.outcome = "accepted" => Confirmed(vs, Decode(model, board'), i)
  <2> HIDE DEF vs, held
  <2>1. ~refused
    BY DEF Call
  <2>2. done
    BY <1>5, <2>1
  <2>3. last'.outcome = "accepted" => Confirmed(vs, Decode(model, board'), i)
    BY <2>2 DEF Call
  <2> QED
    BY <2>2, <2>3
<1>7. DOMAIN vs = Indexes(model) /\ \A j \in Kept(model) : vs[j] \in Int
  <2> HIDE DEF held
  <2>1. \A j \in Kept(model) : j \in DOMAIN held
    BY <1>1, <1>2, KeptIs
  <2> QED
    BY <1>1, <1>2, <1>4, <2>1
<1> HIDE DEF vs
<1>8. Legal(model, vs)
  BY <1>1, <1>6, <1>7, ValidLegal
<1> QED
  BY <1>1, <1>4, <1>6, <1>8, <1>5 DEF vs

\* No step of the hub or of the app leaves another frame on the board.
LEMMA HeldStays == BoardInv /\ [CodecNext]_codecVars => BoardInv'
<1> SUFFICES ASSUME BoardInv, [CodecNext]_codecVars PROVE BoardInv'
  OBVIOUS
<1>1. WellFormed(model)
  BY ModelWellFormed
<1>2. CASE model' = model /\ meant' = meant /\ board' = board
  BY <1>2 DEF BoardInv
<1>3. CASE Refresh
  BY <1>2, <1>3 DEF Refresh
<1>4. ASSUME NEW i \in Writable(model), NEW option \in Tried, Choose(i, option) PROVE BoardInv'
  <2>1. model' = model
    BY <1>4 DEF Choose
  <2>2. CASE board' # board \/ meant' # meant
    <3>1. meant' = [Decode(model, board) EXCEPT ![i] = ChosenValue(i, option)]
      BY <1>4, <2>2, WrittenIs
    <3>2. board' = Encode(model, meant') /\ Legal(model, meant')
      BY <1>4, <2>2, <3>1, WrittenIs
    <3> QED
      BY <2>1, <3>2 DEF BoardInv
  <2> QED
    BY <1>2, <2>1, <2>2
<1>5. CASE AppWrites
  <2>1. model' = model /\ meant' \in Frames(model) /\ board' = Encode(model, meant')
    BY <1>5 DEF AppWrites
  <2>2. Legal(model, meant')
    BY <1>1, <2>1, FramesLegal
  <2> QED
    BY <2>1, <2>2 DEF BoardInv
<1>6. CASE UNCHANGED codecVars
  BY <1>2, <1>6 DEF codecVars
<1> QED
  BY <1>3, <1>4, <1>5, <1>6 DEF CodecNext

\* The board always holds the encoding of a vector that is legal by the tables of its own

\* mode, whatever options are asked for and whatever the app writes in between
\* (validate_wire_values and validate_model_parameter_values before every write).
THEOREM BoardHoldsLegal == CodecSpec => []BoardInv
<1>1. CodecInit => BoardInv
  <2> SUFFICES ASSUME CodecInit PROVE BoardInv
    OBVIOUS
  <2>1. model \in {Tables(n) : n \in Chosen}
    BY DEF CodecInit
  <2>2. WellFormed(model)
    BY <2>1, TablesAssumption
  <2>3. meant \in Frames(model) /\ board = Encode(model, meant)
    BY DEF CodecInit
  <2> QED
    BY <2>1, <2>2, <2>3, FramesLegal DEF BoardInv
<1> QED
  BY <1>1, HeldStays, PTL DEF CodecSpec

\* Whatever the board came to hold reads as what was last written, but for the inexact

\* entries (encode_model_parameter_write, decode_model_parameter_response).
THEOREM RoundTripAlways == CodecSpec => []RoundTrip
<1>1. BoardInv => RoundTrip
  <2> SUFFICES ASSUME BoardInv PROVE RoundTrip
    OBVIOUS
  <2>1. WellFormed(model)
    BY ModelWellFormed
  <2> QED
    BY <2>1, HeldIs, KeptIs DEF RoundTrip
<1> QED
  BY <1>1, BoardHoldsLegal, PTL

\* A board with modes, or of option indexes, holds options of the tables of its own mode

\* only.
THEOREM FramesAreLegal == CodecSpec => []FrameLegal
<1>1. BoardInv => FrameLegal
  <2> SUFFICES ASSUME BoardInv, model.codec \in {"named", "bytes", "index"}, NEW i \in Writable(model)
               PROVE  Option(model, Decode(model, board), i)
                      \in Active(model, Decode(model, board), i).values
    BY DEF FrameLegal
  <2>1. i \in Kept(model)
    BY ModelWellFormed, KeptIs
  <2> QED
    BY <2>1, HeldIs DEF Legal
<1> QED
  BY <1>1, BoardHoldsLegal, PTL

(***************************************************************************)
(* What a call changes                                                     *)
(***************************************************************************)

\* What an entry sends depends on its own number and the table that reads it.
LEMMA WiresFrom ==
  ASSUME NEW m, NEW raw, NEW other, NEW j, raw[j] = other[j],
         Active(m, raw, j) = Active(m, other, j)
  PROVE  WireValues(m, raw, j) = WireValues(m, other, j)
BY DEF WireValues

\* Two vectors that agree where values come back, but for entry i, make frames

\* that differ in the fields of entry i, and of inexact entries, only.
LEMMA FieldKept ==
  ASSUME NEW m, WellFormed(m), NEW vs, NEW ws, NEW i \in Writable(m),
         \A j \in Kept(m) \ {i} : vs[j] = ws[j],
         NEW j \in Indexes(m), NEW k \in 1..WireCount(m, j),
         OwnerOf(m, j) # i, OwnerOf(m, j) \notin Writable(m) \/ ~Inexact(m, OwnerOf(m, j)),
         ~(m.codec = "named" /\ i = 1 /\ j \in {2, 3})
  PROVE  Format(m, Active(m, vs, j), WireValues(m, Sent(m, vs), j)[k])
         = Format(m, Active(m, ws, j), WireValues(m, Sent(m, ws), j)[k])
<1> DEFINE o == OwnerOf(m, j)
           e == m.entries[j]
<1>1. e \in Entries /\ Fits(m, e) /\ o \in Indexes(m)
  BY DEF WellFormed, Fits
<1>2. o \in Writable(m) => o \in Kept(m) /\ vs[o] = ws[o]
  BY KeptIs
<1>3. m.codec # "swap" => o = j
  BY <1>1 DEF Fits, OwnerOf
<1>4. ASSUME Active(m, vs, j) = Active(m, ws, j), Sent(m, vs)[j] = Sent(m, ws)[j]
      PROVE  Format(m, Active(m, vs, j), WireValues(m, Sent(m, vs), j)[k])
             = Format(m, Active(m, ws, j), WireValues(m, Sent(m, ws), j)[k])
  <2>1. Active(m, Sent(m, vs), j) = Active(m, Sent(m, ws), j)
    BY <1>4, SentIs
  <2>2. WireValues(m, Sent(m, vs), j) = WireValues(m, Sent(m, ws), j)
    BY <1>4, <2>1, WiresFrom
  <2> QED
    BY Zenon, <1>4, <2>2
<1>5. CASE m.codec = "swap"
  <2>1. /\ ~HasModes(m) /\ o \in Writable(m) /\ OwnerOf(m, 9) = 9 /\ OwnerOf(m, 10) = 9
    BY <1>5, SwapIs DEF WellFormed
  <2>2. Active(m, vs, j) = Active(m, ws, j)
    BY <2>1 DEF Active
  <2>3. CASE j \in {9, 10}
    <3>1. vs[9] = ws[9]
      BY <1>2, <2>1, <2>3
    <3> QED
      BY <1>4, <1>5, <2>2, <2>3, <3>1, RawIs
  <2>4. CASE j \notin {9, 10}
    <3>1. vs[o] = ws[o]
      BY <1>2, <2>1
    <3>2. Carried(m, vs, j) = Carried(m, ws, j)
      BY <3>1 DEF Carried
    <3> QED
      BY <1>4, <1>5, <2>2, <2>4, <3>2, RawIs
  <2> QED
    BY <2>3, <2>4
<1>6. CASE m.codec # "swap" /\ j \in Kept(m)
  <2>1. o = j /\ j # i
    BY <1>3, <1>6
  <2>2. vs[j] = ws[j] /\ Sent(m, vs)[j] = vs[j] /\ Sent(m, ws)[j] = ws[j]
    BY <1>6, <2>1, SentIs
  <2>3. CASE Active(m, vs, j) = Active(m, ws, j)
    BY <1>4, <2>2, <2>3
  <2>4. CASE Active(m, vs, j) # Active(m, ws, j)
    <3>1. HasModes(m) /\ j \in {2, 3} /\ vs[1] # ws[1]
      BY <2>4 DEF Active
    <3>2. 1 \in Kept(m)
      BY <3>1, KeptIs DEF HasModes, WellFormed
    <3>3. i = 1
      BY <3>1, <3>2
    <3>4. m.codec = "bytes" /\ m.uart = 1
      BY <3>1, <3>3 DEF HasModes, WellFormed
    <3>5. ASSUME NEW us, Sent(m, us)[j] = vs[j]
          PROVE  Format(m, Active(m, us, j), WireValues(m, Sent(m, us), j)[k])
                 = Dec(<<vs[j]>>[k])
      <4> DEFINE f == Active(m, us, j)
      <4>1. Fits(m, f) /\ f \in Entries /\ Active(m, Sent(m, us), j) = f
        BY ActiveFits, SentIs
      <4>2. f.kind = e.kind /\ f.bits = e.bits
        BY ActiveFits
      <4>3. e.kind = "edit" /\ e.bits = 0
        <5>1. e.kind \in {"edit", "row", "fixed"} /\ e.kind # "row" /\ e.kind # "fixed"
          BY <1>1, <3>4 DEF Fits
        <5>2. ~(e.bits > 0) /\ e.bits \in 0..3
          BY <1>1, <3>4 DEF Fits, Entries
        <5> QED
          BY <5>1, <5>2
      <4> HIDE DEF f, e
      <4>4. WireValues(m, Sent(m, us), j) = <<vs[j]>>
        BY <3>4, <3>5, <4>1, <4>2, <4>3 DEF WireValues
      <4>5. Format(m, f, <<vs[j]>>[k]) = Dec(<<vs[j]>>[k])
        BY <3>4 DEF Format
      <4> QED
        BY Zenon, <4>4, <4>5 DEF f
    <3> QED
      BY <2>2, <3>5
  <2> QED
    BY <2>3, <2>4
<1>7. CASE m.codec # "swap" /\ j \notin Kept(m)
  <2>1. o = j /\ j \notin Writable(m)
    BY <1>2, <1>3, <1>7
  <2>2. e.kind \in {"row", "hidden"}
    BY <1>1, <1>7, <2>1 DEF Kept, Writable, Entries
  <2>3. ~(e.bits > 0)
    BY <1>1, <2>2 DEF Fits
  <2>4. e.kind # "hidden"
    <3> SUFFICES ASSUME e.kind = "hidden" PROVE FALSE
      OBVIOUS
    <3>1. WireCount(m, j) = 0
      BY <2>3 DEF WireCount
    <3> QED
      BY <3>1
  <2>5. e.kind = "row" /\ m.codec = "phase1"
    BY <1>1, <1>7, <2>2, <2>4 DEF Fits
  <2>6. ~HasModes(m)
    BY <2>5 DEF HasModes
  <2>7. \A us : Active(m, us, j) = e
    BY <2>6 DEF Active
  <2>8. \A us : WireValues(m, us, j) = <<0>>
    BY <2>5, <2>7, <2>3 DEF WireValues
  <2> QED
    BY <2>7, <2>8
<1> QED
  BY <1>5, <1>6, <1>7

\* A frame has the places of its tables.
LEMMA EncodeDomain == \A m, vs : DOMAIN Encode(m, vs) = DOMAIN m.sources
BY DEF Encode

\* A call changes the fields of the parameter it was asked for and, but for inexact

\* entries, no other, though the whole frame is read, decoded, encoded and written
\* (async_set_parameter).
THEOREM FieldsStay == CodecSpec => OthersStay
<1> DEFINE A == writes' # writes =>
                  \A p \in DOMAIN board :
                    \/ board'[p] = board[p]
                    \/ p \in Owned(last'.index)
                    \/ \E j \in Writable(model) : Inexact(model, j) /\ p \in Owned(j)
<1>1. BoardInv /\ [CodecNext]_codecVars => [A]_codecVars
  <2> SUFFICES ASSUME BoardInv, CodecNext, writes' # writes, NEW p \in DOMAIN board, board'[p] # board[p]
               PROVE  \/ p \in Owned(last'.index)
                      \/ \E j \in Writable(model) : Inexact(model, j) /\ p \in Owned(j)
    BY DEF codecVars
  <2>1. WellFormed(model)
    BY ModelWellFormed
  <2>2. PICK i \in Writable(model), option \in Tried : Choose(i, option)
    BY DEF CodecNext, Refresh, AppWrites
  <2> DEFINE held == Decode(model, board)
             vs == [held EXCEPT ![i] = ChosenValue(i, option)]
  <2>3. /\ model' = model /\ board' = Encode(model, vs) /\ board = Encode(model, meant)
        /\ last'.index = i
    <3>1. board' # board
      OBVIOUS
    <3>2. last'.index = i
      BY <2>2 DEF Choose, Call
    <3> QED
      BY <2>2, <3>1, <3>2, WrittenIs DEF BoardInv
  <2>4. \A j \in Kept(model) \ {i} : meant[j] = vs[j]
    <3>1. DOMAIN held = Indexes(model) /\ \A j \in Kept(model) : held[j] = meant[j]
      BY HeldIs
    <3> HIDE DEF held
    <3> QED
      BY <2>1, <3>1, KeptIs
  <2> HIDE DEF vs
  <2>5. p \in DOMAIN model.sources
    BY <2>3, EncodeDomain
  <2>6. model.sources[p] # <<0, 0>>
    <3> SUFFICES ASSUME model.sources[p] = <<0, 0>> PROVE FALSE
      OBVIOUS
    <3>1. model.sources[p][1] = 0
      OBVIOUS
    <3>2. \A us : Encode(model, us)[p] = Blank(model)
      BY <2>5, <3>1 DEF Encode
    <3> QED
      BY <2>3, <3>2
  <2>7. PICK j \in Indexes(model) : \E k \in 1..WireCount(model, j) : model.places[j][k] = p
    BY <2>1, <2>5, <2>6 DEF WellFormed, Placed
  <2>8. PICK k \in 1..WireCount(model, j) : model.places[j][k] = p
    BY <2>7
  <2>9. /\ board[p] = Format(model, Active(model, meant, j), WireValues(model, Sent(model, meant), j)[k])
        /\ board'[p] = Format(model, Active(model, vs, j), WireValues(model, Sent(model, vs), j)[k])
        /\ k \in DOMAIN model.places[j]
    BY <2>1, <2>3, <2>8, FieldSent
  <2>10. p \in Range(model.places[j])
    BY <2>8, <2>9 DEF Range
  <2>11. \A o : OwnerOf(model, j) = o => p \in Owned(o)
    BY <2>10 DEF Owned
  <2>12. CASE OwnerOf(model, j) = i
    BY <2>3, <2>11, <2>12
  <2>13. CASE OwnerOf(model, j) \in Writable(model) /\ Inexact(model, OwnerOf(model, j))
    BY <2>11, <2>13
  <2>14. CASE model.codec = "named" /\ i = 1 /\ j \in {2, 3}
    BY <2>3, <2>10, <2>14 DEF Owned
  <2> QED
    BY <2>1, <2>4, <2>9, <2>12, <2>13, <2>14, FieldKept
<1> QED
  BY <1>1, BoardHoldsLegal, PTL DEF CodecSpec, OthersStay

\* A choice that was confirmed is what the board then holds, by the table of the board's

\* mode, if that mode is the one the user was shown (select.py, async_select_option).
THEOREM ChoicesAreKept == CodecSpec => ChoiceKept
<1> DEFINE A == (writes' # writes /\ last'.outcome = "accepted"
                 /\ (HasModes(model) => display[1] = Decode(model, board)[1]))
                => Option(model, Decode(model, board'), last'.index) = last'.option
<1>1. BoardInv /\ [CodecNext]_codecVars => [A]_codecVars
  <2> SUFFICES ASSUME BoardInv, CodecNext, writes' # writes, last'.outcome = "accepted",
                      HasModes(model) => display[1] = Decode(model, board)[1]
               PROVE  Option(model, Decode(model, board'), last'.index) = last'.option
    BY DEF codecVars
  <2>1. WellFormed(model)
    BY ModelWellFormed
  <2>2. PICK i \in Writable(model), option \in Tried : Choose(i, option)
    BY DEF CodecNext, Refresh, AppWrites
  <2> DEFINE held == Decode(model, board)
             x == ChosenValue(i, option)
             vs == [held EXCEPT ![i] = x]
             back == Decode(model, board')
  <2>3. last'.index = i /\ last'.option = option
    BY <2>2 DEF Choose, Call
  <2>4. /\ Legal(model, vs) /\ board' = Encode(model, vs) /\ Confirmed(vs, back, i) /\ i \in Indexes(model)
    BY <2>2, WrittenIs
  <2>5. DOMAIN held = Indexes(model)
    BY HeldIs
  <2>6. vs[i] = x /\ \A j \in Indexes(model) \ {i} : vs[j] = held[j]
    BY <2>4, <2>5
  <2> HIDE DEF vs
  <2>7. back[i] = x
    <3>1. back[i] = vs[i]
      BY <2>4 DEF Confirmed
    <3> QED
      BY <2>6, <3>1
  <2>8. \A j \in Kept(model) : back[j] = vs[j]
    BY <2>1, <2>4, DecodeBack
  <2>9. option \in Nat /\ ByteOffset(model, display, i) \in Nat
    <3>1. Active(model, display, i) \in Entries
      BY <2>1, <2>4, ActiveFits
    <3>2. /\ Active(model, display, i).values \subseteq 0..255
          /\ Active(model, display, i).off \in Nat
      BY <3>1 DEF Entries
    <3>3. option \in Active(model, display, i).values
      BY <2>2 DEF Choose
    <3> QED
      BY <3>2, <3>3 DEF ByteOffset
  <2> HIDE DEF held, back
  <2>10. ByteOffset(model, back, i) = ByteOffset(model, display, i)
    <3>1. Active(model, back, i) = Active(model, display, i)
      <4>1. CASE ~HasModes(model) \/ i \notin {2, 3}
        BY <4>1 DEF Active
      <4>2. CASE HasModes(model) /\ i \in {2, 3}
        <5>1. 1 \in Kept(model) /\ 1 \in Indexes(model) /\ i # 1
          BY <2>1, <4>2, KeptIs DEF HasModes, WellFormed
        <5>2. back[1] = held[1]
          BY <2>8, <2>6, <5>1
        <5>3. display[1] = held[1]
          BY <4>2 DEF held
        <5> QED
          BY <5>2, <5>3 DEF Active
      <4> QED
        BY <4>1, <4>2
    <3> QED
      BY <3>1 DEF ByteOffset
  <2>11. Option(model, back, i) = option
    <3>1. x = option + ByteOffset(model, display, i)
      BY DEF ChosenValue
    <3> HIDE DEF x
    <3> QED
      BY <2>7, <2>10, <2>9, <3>1 DEF Option
  <2> QED
    BY <2>3, <2>11 DEF back
<1> QED
  BY <1>1, BoardHoldsLegal, PTL DEF CodecSpec, ChoiceKept

(***************************************************************************)
(* The codec of the exchanges is that of the tables                        *)
(***************************************************************************)

\* The bytes whose two hexadecimal digits do not pass for another decimal number.
Unmistakable == {v \in 0..255 : v < 10 \/ v \div 16 > 9 \/ v % 16 > 9}

LEMMA ExactBytes == \A v \in 0..255 : Uart0ReadsBack(v) = v <=> v \in Unmistakable
<1> SUFFICES ASSUME NEW v \in 0..255 PROVE Uart0ReadsBack(v) = v <=> v \in Unmistakable
  OBVIOUS
<1> DEFINE q == v \div 16  r == v % 16
<1>1. q \in 0..15 /\ r \in 0..15 /\ v = (16 * q) + r
  OBVIOUS
<1>2. Uart0ReadsBack(v) = IF q < 10 /\ r < 10 THEN (10 * q) + r ELSE v
  BY DEF Uart0ReadsBack
<1>3. v \in Unmistakable <=> v < 10 \/ q > 9 \/ r > 9
  BY DEF Unmistakable
<1> HIDE DEF q, r
<1> QED
  BY <1>1, <1>2, <1>3

\* What ParameterTransaction says a UART0 board's field reads as is what
\* ParameterCodec's digits come to, for every byte; and the assumption ExactCodec of
\* the theorems above excludes the bytes that read as another number and no more
\* (_format_wire_value, _parse_wire_value).
THEOREM CodecsAgree ==
  /\ \A m, e : m.uart = 0 /\ m.codec = "plain" /\ e.wide /\ e.kind # "number" =>
       \A v \in 0..255 : Parse(m, e, Format(m, e, v)) = Uart0ReadsBack(v)
  /\ Value \subseteq 0..255 =>
       (ExactCodec <=> \A p \in Profiles : p.codec = "uart0" => Value \subseteq Unmistakable)
<1>1. ASSUME NEW m, NEW e, m.uart = 0, m.codec = "plain", e.wide, e.kind # "number",
             NEW v \in 0..255
      PROVE  Parse(m, e, Format(m, e, v)) = Uart0ReadsBack(v)
  <2> DEFINE q == v \div 16  r == v % 16
  <2>1. q \in 0..15 /\ r \in 0..15 /\ v = (q * 16) + r
    OBVIOUS
  <2>2. Format(m, e, v) = <<q, r>>
    BY <1>1 DEF Format, Hex2
  <2>3. Uart0ReadsBack(v) = IF q < 10 /\ r < 10 THEN (10 * q) + r ELSE v
    BY DEF Uart0ReadsBack
  <2> HIDE DEF q, r
  <2>4. Parse(m, e, <<q, r>>) =
          IF Decimal(<<q, r>>) THEN Number(10, <<q, r>>) ELSE Number(16, <<q, r>>)
    BY <1>1 DEF Parse
  <2>5. Decimal(<<q, r>>) <=> q < 10 /\ r < 10
    BY <2>1 DEF Decimal
  <2>6. Number(10, <<q, r>>) = (q * 10) + r /\ Number(16, <<q, r>>) = (q * 16) + r
    BY <2>1, TwoDigits DEF Bases
  <2> QED
    BY <2>1, <2>2, <2>3, <2>4, <2>5, <2>6
<1>2. ASSUME Value \subseteq 0..255
      PROVE  ExactCodec <=> \A p \in Profiles : p.codec = "uart0" => Value \subseteq Unmistakable
  BY <1>2, ExactBytes DEF ExactCodec
<1> QED
  BY <1>1, <1>2
================================================================================
