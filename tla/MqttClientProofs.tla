--------------------------- MODULE MqttClientProofs ---------------------------
(***************************************************************************)
(* Proofs about MqttClient for any number of messages and failures, with   *)
(* and without a stop: what connected means, and that a stop is for good.  *)
(***************************************************************************)
EXTENDS MqttClient, TLAPS

LEMMA EmptyInbox == <<>> \in Seq(Packet)
OBVIOUS

\* What the proofs need of the packets on their way.
LEMMA InboxFacts ==
  ASSUME NEW s \in Seq(Packet), NEW p \in Packet
  PROVE  /\ <<p>> \in Seq(Packet)
         /\ Append(s, p) \in Seq(Packet) /\ <<p>> \o s \in Seq(Packet)
         /\ s # <<>> => Tail(s) \in Seq(Packet)
         /\ s # <<>> => Append(Tail(s), p) \in Seq(Packet)
OBVIOUS

(***************************************************************************)
(* The flag goes down and the socket is given up in one step, wherever the *)
(* runner is: so what was_connected remembers belongs to a disconnect      *)
(* under way, and before the first start there is no connection.           *)
(***************************************************************************)
Sockets ==
  /\ runner \in {"connack", "suback"} \cup Online => open
  /\ was => runner \in {"closing", "closing_cancelled"}
  /\ starter = "idle" => runner = "none"

IInv == TypeOK /\ ConnectedIsOnline /\ Sockets

(* The two halves of TypeOK that want different provers. *)
Flags ==
  /\ connected \in BOOLEAN /\ shown \in BOOLEAN /\ was \in BOOLEAN
  /\ open \in BOOLEAN /\ half \in BOOLEAN /\ synced \in BOOLEAN

Counters ==
  /\ idle \in 0 .. KeepAlive /\ silent \in 0 .. BrokerPatience
  /\ faults \in 0 .. MaxFaults

LEMMA InitInv == ASSUME Init PROVE IInv
<1>1. Flags
  BY DEF Init, Flags
<1>2. Counters
  BY BoundsAssumption DEF Init, Counters, KeepAlive, BrokerPatience
<1>3. TypeOK
  BY <1>1, <1>2, EmptyInbox DEF Init, TypeOK, Flags, Counters
<1>4. ConnectedIsOnline /\ Sockets
  BY DEF Init, ConnectedIsOnline, Sockets, Online
<1> QED
  BY <1>3, <1>4 DEF IInv

(* The way out of a connection, from wherever it is taken. *)
LEMMA GivesUp ==
  ASSUME IInv, Disconnect, runner \in Active, UNCHANGED <<starter, shown>>,
         runner' \in {"closing", "closing_cancelled"}, stopper' \in {stopper, "awaiting"},
         faults' \in 0 .. MaxFaults
  PROVE  IInv'
<1>1. TypeOK'
  <2>1. Flags'
    BY DEF IInv, TypeOK, Flags, Disconnect
  <2>2. Counters'
    BY DEF IInv, TypeOK, Counters, Disconnect, KeepAlive, BrokerPatience
  <2> QED
    BY <2>1, <2>2, EmptyInbox DEF IInv, TypeOK, Disconnect, Flags, Counters
<1>2. ConnectedIsOnline'
  BY DEF IInv, ConnectedIsOnline, Sockets, Disconnect, Active, Connecting, Online
<1>3. Sockets'
  BY DEF IInv, Sockets, Disconnect, Active, Connecting, Online
<1> QED
  BY <1>1, <1>2, <1>3 DEF IInv

LEMMA GiveUpKeeps ==
  ASSUME IInv, GiveUp, runner \in Active, faults' \in 0 .. MaxFaults
  PROVE  IInv'
BY GivesUp DEF GiveUp

(* A step of the runner that takes a packet and stays online. *)
LEMMA TakenKeeps ==
  ASSUME IInv, NEW next \in Online, Taken(next), runner \in Online, inbox # <<>>, synced' \in BOOLEAN,
         faults' \in 0 .. MaxFaults
  PROVE  IInv'
<1> USE DEF IInv, Taken
<1>1. inbox' \in Seq(Packet)
  BY DEF TypeOK
<1>2. TypeOK'
  BY <1>1 DEF TypeOK, KeepAlive, Active, Online
<1>3. ConnectedIsOnline' /\ Sockets'
  BY DEF ConnectedIsOnline, Sockets, Online
<1> QED
  BY <1>2, <1>3

LEMMA RunnerKeeps == ASSUME IInv, Runner PROVE IInv'
<1> USE DEF Active, Connecting, Online
<1>0. faults \in 0 .. MaxFaults /\ (Fault => faults' \in 0 .. MaxFaults)
  BY BoundsAssumption DEF IInv, TypeOK, Fault
<1>1. CASE Resolved \/ ContextBuilt \/ Reconnect \/ Handled
  BY <1>1 DEF IInv, TypeOK, ConnectedIsOnline, Sockets, Resolved, ContextBuilt, Reconnect, Handled,
              Step, reading, network
<1>2. CASE SetupFails
  BY <1>0, <1>2, GiveUpKeeps DEF SetupFails
<1>3. CASE TlsFails
  BY <1>0, <1>3 DEF TlsFails, IInv, TypeOK, ConnectedIsOnline, Sockets, reading
<1>4. CASE SocketOpened
  <2>1. inbox' \in Seq(Packet)
    <3>1. <<"connack">> \in Seq(Packet) /\ <<"refused">> \in Seq(Packet)
      BY DEF Packet
    <3> QED
      BY <1>4, <3>1, EmptyInbox DEF SocketOpened
  <2> QED
    BY <1>0, <1>4, <2>1
       DEF SocketOpened, IInv, TypeOK, ConnectedIsOnline, Sockets, KeepAlive, BrokerPatience
<1>5. CASE Answered
  <2>1. inbox \in Seq(Packet) /\ inbox # <<>>
    BY <1>5 DEF Answered, IInv, TypeOK
  <2>2. CASE runner = "connack" /\ Subscribe
    <3>1. inbox' \in Seq(Packet)
      BY <2>1, <2>2, InboxFacts DEF Subscribe, Packet
    <3> QED
      BY <1>0, <2>2, <3>1
         DEF Subscribe, IInv, TypeOK, ConnectedIsOnline, Sockets, KeepAlive, BrokerPatience
  <2>3. CASE runner = "suback" /\ GoOnline
    <3>1. inbox' \in Seq(Packet)
      BY <2>1, <2>3 DEF GoOnline
    <3> QED
      BY <2>3, <3>1 DEF GoOnline, IInv, TypeOK, ConnectedIsOnline, Sockets, KeepAlive
  <2> QED
    BY <1>0, <1>5, <2>2, <2>3, GiveUpKeeps DEF Answered
<1>6. CASE Read
  <2>1. synced \in BOOLEAN
    BY DEF IInv, TypeOK
  <2> QED
    BY <1>0, <1>6, <2>1, GiveUpKeeps, TakenKeeps
       DEF Read, ReadPublish, ReadPong, ReadBye, ReadOther, ReadGarbage
<1>7. CASE Ping
  <2>1. CASE GiveUp /\ UNCHANGED faults
    BY <1>0, <1>7, <2>1, GiveUpKeeps DEF Ping
  <2>2. CASE ~(GiveUp /\ UNCHANGED faults)
    <3>1. inbox' \in Seq(Packet)
      BY <1>7, <2>2, InboxFacts DEF Ping, IInv, TypeOK, Packet
    <3>. faults' \in 0 .. MaxFaults
      BY <1>0, <1>7, <2>2 DEF Ping
    <3>2. Flags'
      BY <1>7, <2>2 DEF Ping, IInv, TypeOK, Flags
    <3>3. Counters'
      BY <1>7, <2>2 DEF Ping, IInv, TypeOK, Counters, KeepAlive, BrokerPatience
    <3>4. TypeOK'
      BY <1>7, <2>2, <3>1, <3>2, <3>3 DEF Ping, IInv, TypeOK, Flags, Counters
    <3> QED
      BY <1>7, <2>2, <3>4 DEF Ping, IInv, ConnectedIsOnline, Sockets
  <2> QED
    BY <2>1, <2>2
<1>8. CASE TimesOut \/ ReadFails
  BY <1>0, <1>8, GiveUpKeeps DEF TimesOut, ReadFails, Reading
<1>9. CASE Closed
  BY <1>9 DEF Closed, IInv, TypeOK, ConnectedIsOnline, Sockets, reading, network
<1> QED
  BY <1>1, <1>2, <1>3, <1>4, <1>5, <1>6, <1>7, <1>8, <1>9 DEF Runner

LEMMA CallersKeep == ASSUME IInv, Callers PROVE IInv'
<1> USE DEF Active, Connecting, Online
<1>1. CASE Start \/ Started \/ AskStop \/ Publish
  BY <1>1 DEF Start, Started, AskStop, Publish, IInv, TypeOK, ConnectedIsOnline, Sockets,
              client, reading, network, BrokerPatience
<1>2. CASE StartTimesOut
  BY <1>2, BoundsAssumption DEF StartTimesOut, Fault, IInv, TypeOK, ConnectedIsOnline, Sockets, reading
<1>3. CASE Cancel
  <2>1. CASE runner \in Active
    BY <1>3, <2>1, GivesUp DEF Cancel, IInv, TypeOK
  <2>2. CASE runner \notin Active
    <3>1. Flags'
      BY <1>3, <2>2 DEF Cancel, IInv, TypeOK, Flags, reading, network
    <3>2. Counters'
      BY <1>3, <2>2 DEF Cancel, IInv, TypeOK, Counters, reading, network
    <3>3. TypeOK'
      BY <1>3, <2>2, <3>1, <3>2
         DEF Cancel, IInv, TypeOK, Flags, Counters, reading, network
    <3> QED
      BY <1>3, <2>2, <3>3 DEF Cancel, IInv, ConnectedIsOnline, Sockets
  <2> QED
    BY <2>1, <2>2
<1>4. CASE Stopped
  BY <1>4 DEF Stopped, IInv, TypeOK, ConnectedIsOnline, Sockets, reading, network
<1> QED
  BY <1>1, <1>2, <1>3, <1>4 DEF Callers

LEMMA WorldKeeps == ASSUME IInv, World PROVE IInv'
<1> SUFFICES TypeOK'
  BY DEF World, BrokerPublishes, BrokerSaysGoodbye, BrokerDrops, LinkBreaks, ArrivesInPart,
         RestArrives, Tick, client, IInv, ConnectedIsOnline, Sockets
<1>1. CASE BrokerPublishes \/ BrokerSaysGoodbye
  <2>1. inbox' \in Seq(Packet)
    BY <1>1, InboxFacts DEF BrokerPublishes, BrokerSaysGoodbye, IInv, TypeOK, Packet
  <2> QED
    BY <1>1, <2>1, BoundsAssumption
       DEF BrokerPublishes, BrokerSaysGoodbye, Fault, IInv, TypeOK, client, reading
<1>2. CASE BrokerDrops \/ LinkBreaks \/ ArrivesInPart \/ RestArrives
  <2> USE DEF BrokerDrops, LinkBreaks, ArrivesInPart, RestArrives, client, reading
  <2>1. Flags'
    BY <1>2 DEF IInv, TypeOK, Flags
  <2>2. Counters'
    BY <1>2, BoundsAssumption DEF Fault, IInv, TypeOK, Counters
  <2> QED
    BY <1>2, <2>1, <2>2 DEF IInv, TypeOK, Flags, Counters
<1>3. CASE Tick
  BY <1>3 DEF Tick, Due, Reading, AwaitsPong, PingTimeout, IInv, TypeOK, client, KeepAlive, BrokerPatience
<1> QED
  BY <1>1, <1>2, <1>3 DEF World

LEMMA Invariance == Spec => []IInv
<1>1. IInv /\ [Next]_vars => IInv'
  <2>1. IInv /\ UNCHANGED vars => IInv'
    BY DEF vars, client, reading, network, IInv, TypeOK, ConnectedIsOnline, Sockets
  <2> QED
    BY <2>1, RunnerKeeps, CallersKeep, WorldKeeps DEF Next, Rests
<1>2. Init => IInv
  BY InitInv
<1> QED
  BY <1>1, <1>2, PTL DEF Spec

\* Every phase, flag, counter and packet keeps its range (mqtt.py, AsyncMqttClient).
THEOREM TypeCorrect == Spec => []TypeOK
BY Invariance, PTL DEF IInv

\* However connections fail, break, die silently or are stopped in the middle, the
\* connected event is set only on a subscribed connection, and the hub believes in
\* no connection that was given up (mqtt.py, _connect and _disconnect).
THEOREM ConnectedIsSubscribed == Spec => []ConnectedIsOnline
BY Invariance, PTL DEF IInv

(***************************************************************************)
(* A stop is for good: a socket is there only while the runner uses it, a  *)
(* runner that ends was cancelled by a stop, and nothing starts another.   *)
(***************************************************************************)
StopInv ==
  /\ open => runner \in {"connack", "suback"} \cup Online
  /\ runner \in {"closing_cancelled", "ended"} => stopper \in {"awaiting", "stopped"}
  /\ stopper = "awaiting" => runner \in {"closing_cancelled", "ended"}
  /\ stopper = "stopped" => runner = "ended" /\ ~connected /\ ~open

AtRest == stopper = "stopped" /\ runner = "ended" /\ ~open /\ ~connected

LEMMA StopStep == ASSUME IInv, StopInv, [Next]_vars PROVE StopInv' /\ (AtRest => AtRest')
<1> USE DEF StopInv, AtRest, Active, Connecting, Online
<1>0. connected => runner \in Online
  BY DEF IInv, ConnectedIsOnline
<1>1. CASE Runner
  <2>1. runner # "ended"
    BY <1>1 DEF Runner, Resolved, ContextBuilt, Reconnect, Step, SetupFails, TlsFails, SocketOpened,
             Answered, Read, Handled, Ping, TimesOut, ReadFails, Reading, Closed
  <2>2. CASE Resolved \/ ContextBuilt \/ Reconnect \/ Handled
    BY <2>1, <2>2 DEF Resolved, ContextBuilt, Reconnect, Step, Handled
  <2>3. ASSUME GiveUp, runner \in Active PROVE StopInv'
    BY <2>3 DEF GiveUp, Disconnect
  <2>4. CASE TlsFails \/ SocketOpened
    BY <2>4 DEF TlsFails, SocketOpened
  <2>5. CASE Answered
    BY <2>3, <2>5 DEF Answered, Subscribe, GoOnline
  <2>6. CASE Read
    BY <2>3, <2>6 DEF Read, ReadPublish, ReadPong, ReadBye, ReadOther, ReadGarbage, Taken
  <2>7. CASE Ping
    BY <2>3, <2>7 DEF Ping
  <2>8. CASE SetupFails \/ TimesOut \/ ReadFails
    BY <2>3, <2>8 DEF SetupFails, TimesOut, ReadFails, Reading
  <2>9. CASE Closed
    BY <2>9 DEF Closed
  <2> QED
    BY <1>1, <2>1, <2>2, <2>4, <2>5, <2>6, <2>7, <2>8, <2>9 DEF Runner
<1>2. CASE Callers
  <2>1. CASE Start
    BY <2>1 DEF Start, IInv, Sockets
  <2>2. CASE Started \/ StartTimesOut \/ AskStop \/ Publish
    BY <1>0, <2>2 DEF Started, StartTimesOut, AskStop, Publish, client
  <2>3. CASE Cancel
    BY <2>3 DEF Cancel, Disconnect
  <2>4. CASE Stopped
    BY <2>4 DEF Stopped
  <2> QED
    BY <1>2, <2>1, <2>2, <2>3, <2>4 DEF Callers
<1>3. CASE World
  BY <1>3 DEF World, BrokerPublishes, BrokerSaysGoodbye, BrokerDrops, LinkBreaks, ArrivesInPart,
           RestArrives, Tick, client
<1>4. CASE Rests \/ UNCHANGED vars
  BY <1>4 DEF Rests, vars, client
<1> QED
  BY <1>1, <1>2, <1>3, <1>4 DEF Next

\* Once async_stop has returned nothing of the client comes back, for whatever reason
\* and at whatever phase it was called: no runner, no socket, no connected event
\* (mqtt.py, async_stop).  StopEnds asks for this too, and that a stop gets there.
THEOREM StopIsForGood ==
  Spec => [](stopper = "stopped" =>
               [](stopper = "stopped" /\ runner = "ended" /\ ~open /\ ~connected))
<1>1. Init => StopInv
  BY DEF Init, StopInv
<1>2. IInv /\ StopInv /\ [Next]_vars => StopInv' /\ (AtRest => AtRest')
  BY StopStep
<1>3. StopInv => (stopper = "stopped" => AtRest)
  BY DEF StopInv, AtRest
<1>4. AtRest <=> stopper = "stopped" /\ runner = "ended" /\ ~open /\ ~connected
  BY DEF AtRest
<1> QED
  BY <1>1, <1>2, <1>3, <1>4, Invariance, PTL DEF Spec

===============================================================================
