------------------------------ MODULE MqttClient ------------------------------
(***************************************************************************)
(* AsyncMqttClient (mqtt.py): the task that connects, reads and reconnects *)
(* (_run), the caller of async_start, the caller of async_stop, and        *)
(* publishers, against a broker and a link that can break, go dead         *)
(* silently, or deliver one packet in two pieces.                          *)
(*                                                                         *)
(* Time runs in ticks of five seconds (Tick); a packet is its kind.  A     *)
(* read that is cancelled between the two pieces of a packet has thrown    *)
(* the first away: from then on the reader takes bytes of a body for       *)
(* headers (synced is FALSE), and what it reads may look like anything.    *)
(***************************************************************************)
EXTENDS Integers, Sequences, FiniteSets

CONSTANTS MaxUnread,     \* messages of the broker on their way at a time
          MaxFaults,     \* failures of the network or of the broker
          MayStop        \* whether async_stop is called

ASSUME BoundsAssumption ==
  /\ MaxUnread \in Nat /\ MaxFaults \in Nat /\ MayStop \in BOOLEAN

KeepAlive == 6       \* MQTT_KEEPALIVE in ticks
PingTimeout == 2     \* MQTT_PING_TIMEOUT; CONNACK and SUBACK are waited for as long
BrokerPatience == 9  \* the broker waits one and a half keepalive intervals

VARIABLES
  runner,    \* where _run is
  starter,   \* the caller of async_start
  stopper,   \* the caller of async_stop
  connected, \* the _connected event
  shown,     \* the last value given to state_callback
  was,       \* was_connected of a _disconnect under way
  open,      \* the writer is there: a socket is open
  link,      \* "up", "dead" (nothing arrives any more), "closed" (reads fail)
  inbox,     \* packets on their way to the reader
  half,      \* the first packet of inbox has arrived in part
  synced,    \* the reader stands at the beginning of a packet
  idle,      \* ticks since the read under way began, or since PINGREQ went out
  silent,    \* ticks since the client last sent something
  faults

client == <<runner, starter, stopper, connected, shown, was, open>>
reading == <<synced, idle>>
network == <<link, inbox, half, silent, faults>>
vars == <<client, reading, network>>

Connecting == {"dns", "tls_context", "tls_connect", "tcp_probe", "connack", "suback"}
Online == {"reading", "handling", "pinging", "ping_handling"}
AwaitsPong == {"pinging", "ping_handling"}
Reading == {"connack", "suback", "reading", "pinging"}
Active == Connecting \cup Online
Packet == {"connack", "refused", "suback", "rejected", "publish", "pong", "bye"}

Init ==
  /\ runner = "none" /\ starter = "idle" /\ stopper = "idle"
  /\ connected = FALSE /\ shown = FALSE /\ was = FALSE /\ open = FALSE
  /\ link = "up" /\ inbox = <<>> /\ half = FALSE
  /\ synced = TRUE /\ idle = 0 /\ silent = 0 /\ faults = 0

Fault == faults < MaxFaults /\ faults' = faults + 1

-----------------------------------------------------------------------------
(* The way out of the connection, whatever the reason: the finally of _run *)

(* Mutant: the flag is cleared once the socket has closed. *)
DisconnectLate ==
  /\ was' = connected /\ connected' = connected /\ open' = FALSE
  /\ inbox' = <<>> /\ half' = FALSE /\ link' = "up"
  /\ synced' = TRUE /\ idle' = 0 /\ silent' = 0

(* _disconnect up to its first await: the flag is cleared and the socket is *)
(* given up before anybody else runs.                                       *)
Disconnect ==
  /\ was' = connected /\ connected' = FALSE /\ open' = FALSE
  /\ inbox' = <<>> /\ half' = FALSE /\ link' = "up"
  /\ synced' = TRUE /\ idle' = 0 /\ silent' = 0

GiveUp ==
  /\ runner' = "closing"
  /\ Disconnect
  /\ UNCHANGED <<starter, stopper, shown>>

(* wait_closed returns, the hub is told, and the loop sleeps before it    *)
(* connects again; a runner that was cancelled ends instead.              *)
Closed ==
  /\ runner \in {"closing", "closing_cancelled"}
  /\ runner' = IF runner = "closing" THEN "sleeping" ELSE "ended"
  /\ shown' = IF was THEN FALSE ELSE shown
  /\ was' = FALSE
  /\ UNCHANGED <<starter, stopper, connected, open, reading, network>>

-----------------------------------------------------------------------------
(* async_start, _run and _connect                                           *)

Start ==
  /\ starter = "idle" /\ stopper = "idle"
  /\ starter' = "waiting" /\ runner' = "dns"
  /\ UNCHANGED <<stopper, connected, shown, was, open, reading, network>>

Step(from, to) ==
  /\ runner = from /\ runner' = to
  /\ UNCHANGED <<starter, stopper, connected, shown, was, open, reading, network>>

Resolved == Step("dns", "tls_context")
ContextBuilt == Step("tls_context", "tls_connect")
Reconnect == Step("sleeping", "dns")

SetupFails ==
  /\ runner \in {"dns", "tls_context", "tcp_probe"}
  /\ IF runner = "tcp_probe" THEN UNCHANGED faults ELSE Fault
  /\ GiveUp

TlsFails ==
  /\ Fault
  /\ runner = "tls_connect" /\ runner' = "tcp_probe"
  /\ UNCHANGED <<starter, stopper, connected, shown, was, open, reading,
                 link, inbox, half, silent>>

(* The socket is open and CONNECT is sent; the broker's answer is external. *)
SocketOpened ==
  /\ runner = "tls_connect" /\ runner' = "connack"
  /\ open' = TRUE /\ silent' = 0 /\ idle' = 0
  /\ \/ inbox' = <<"connack">> /\ UNCHANGED faults
     \/ Fault /\ inbox' \in {<<>>, <<"refused">>}
  /\ UNCHANGED <<starter, stopper, connected, shown, was, synced,
                 link, half>>

(* CONNECT was accepted: _subscribe sends SUBSCRIBE and waits for SUBACK.   *)
Subscribe ==
  /\ runner' = "suback" /\ silent' = 0 /\ idle' = 0
  /\ \/ inbox' = Append(Tail(inbox), "suback") /\ UNCHANGED faults
     \/ Fault /\ inbox' \in {Tail(inbox), Append(Tail(inbox), "rejected")}
  /\ UNCHANGED <<starter, stopper, connected, shown, was, open, synced,
                 link, half>>

GoOnline ==
  /\ runner' = "reading"
  /\ connected' = TRUE /\ shown' = TRUE /\ idle' = 0
  /\ inbox' = Tail(inbox)
  /\ UNCHANGED <<starter, stopper, was, open, synced,
                 link, half, silent, faults>>

(* One packet answers _connect or _subscribe; any other packet, a publish   *)
(* that came in before SUBACK included, is an invalid answer.               *)
Answered ==
  /\ runner \in {"connack", "suback"}
  /\ inbox # <<>> /\ ~half /\ link # "dead"
  /\ \/ runner = Head(inbox) /\ runner = "connack" /\ Subscribe
     \/ runner = Head(inbox) /\ runner = "suback" /\ GoOnline
     \/ runner # Head(inbox) /\ GiveUp /\ UNCHANGED faults

-----------------------------------------------------------------------------
(* _read_loop, _wait_for_ping_response and _handle_packet                   *)

(* Mutant: each packet starts the deadline of the PINGRESP again. *)
TakenRestarts(next) ==
  /\ runner' = next /\ inbox' = Tail(inbox)
  /\ idle' = 0
  /\ UNCHANGED <<starter, stopper, connected, shown, was, open,
                 link, half, silent>>

(* What is left after a packet was taken: the next read of _read_loop       *)
(* starts now; the deadline of a PINGRESP stays where it was.               *)
Taken(next) ==
  /\ runner' = next /\ inbox' = Tail(inbox)
  /\ idle' = IF next \in AwaitsPong THEN idle ELSE 0
  /\ UNCHANGED <<starter, stopper, connected, shown, was, open,
                 link, half, silent>>

ReadPublish ==
  /\ Head(inbox) = "publish"
  /\ Taken(IF runner = "reading" THEN "handling" ELSE "ping_handling")
  /\ UNCHANGED <<synced, faults>>

(* A PINGRESP ends the wait for it; in _read_loop it means nothing.         *)
ReadPong ==
  /\ Head(inbox) = "pong"
  /\ Taken("reading") /\ UNCHANGED <<synced, faults>>

ReadBye ==
  /\ Head(inbox) = "bye"
  /\ GiveUp /\ UNCHANGED faults

(* Packets of no interest, a second SUBACK for instance, are dropped.       *)
ReadOther ==
  /\ Head(inbox) \notin {"publish", "pong", "bye"}
  /\ Taken(runner) /\ UNCHANGED <<synced, faults>>

(* Out of step: the bytes of a packet are read as something that is ignored *)
(* (and swallows it), or as a DISCONNECT or a length that is refused; by    *)
(* bad luck those of a message pass for a PINGRESP.  The reader may be in   *)
(* step again by luck.                                                      *)
ReadGarbage ==
  \/ Taken(runner) /\ synced' \in BOOLEAN /\ UNCHANGED faults
  \/ /\ runner = "pinging" /\ Head(inbox) = "publish" /\ Fault
     /\ Taken("reading") /\ synced' \in BOOLEAN
  \/ GiveUp /\ UNCHANGED faults

(* The deadline is looked at before each read.                              *)
Read ==
  /\ runner = "reading" \/ (runner = "pinging" /\ idle < PingTimeout)
  /\ inbox # <<>> /\ ~half /\ link # "dead"
  /\ IF synced THEN ReadPublish \/ ReadPong \/ ReadBye \/ ReadOther
     ELSE ReadGarbage

(* message_callback returns, or raises and is logged: the same.             *)
Handled ==
  /\ runner \in {"handling", "ping_handling"}
  /\ runner' = IF runner = "handling" THEN "reading" ELSE "pinging"
  /\ UNCHANGED <<starter, stopper, connected, shown, was, open, reading, network>>

(* The keepalive interval is over: the read is cancelled, and with it what  *)
(* it had of a packet; PINGREQ is written, which fails on a closed link. A  *)
(* broker may leave it unanswered although it goes on publishing.           *)
Ping ==
  /\ runner = "reading" /\ idle >= KeepAlive
  /\ IF link = "closed" THEN GiveUp /\ UNCHANGED faults
     ELSE /\ runner' = "pinging" /\ idle' = 0 /\ silent' = 0
          /\ synced' = (synced /\ ~half)
          /\ half' = FALSE
          /\ \/ /\ inbox' = IF link = "up" THEN Append(inbox, "pong") ELSE inbox
                /\ UNCHANGED faults
             \/ link = "up" /\ Fault /\ UNCHANGED inbox
          /\ UNCHANGED <<starter, stopper, connected, shown, was, open, link>>

(* Mutant: PINGREQ is sent, and its answer is not waited for. *)
TimesOutConnecting ==
  /\ runner \in {"connack", "suback"} /\ idle >= PingTimeout
  /\ GiveUp /\ UNCHANGED faults

(* The answer did not come in time: CONNACK and SUBACK (10 s), PINGRESP     *)
(* (10 s after PINGREQ, whatever else has come since).                      *)
TimesOut ==
  /\ runner \in {"connack", "suback", "pinging"} /\ idle >= PingTimeout
  /\ GiveUp /\ UNCHANGED faults

(* End of file or reset: readexactly raises, once nothing is left to read.  *)
ReadFails ==
  /\ runner \in Reading /\ link = "closed" /\ (inbox = <<>> \/ half)
  /\ GiveUp /\ UNCHANGED faults

-----------------------------------------------------------------------------
(* The callers                                                              *)

(* wait_for(_connected.wait()) of async_start. *)
Started ==
  /\ starter = "waiting" /\ connected
  /\ starter' = "started"
  /\ UNCHANGED <<runner, stopper, connected, shown, was, open, reading, network>>

StartTimesOut ==
  /\ starter = "waiting" /\ ~connected /\ stopper = "idle" /\ Fault
  /\ starter' = "failed" /\ stopper' = "asked"
  /\ UNCHANGED <<runner, connected, shown, was, open, reading,
                 link, inbox, half, silent>>

AskStop ==
  /\ MayStop /\ stopper = "idle" /\ starter = "started"
  /\ stopper' = "asked"
  /\ UNCHANGED <<runner, starter, connected, shown, was, open, reading, network>>

(* Mutant: the cancellation is taken for one more failed connection. *)
CancelCaught ==
  /\ stopper = "asked" /\ stopper' = "awaiting"
  /\ \/ /\ runner \in Active
        /\ runner' = "closing" /\ Disconnect
        /\ UNCHANGED <<starter, shown, faults>>
     \/ /\ runner \in {"closing", "sleeping"}
        /\ runner' = "ended" /\ was' = FALSE
        /\ UNCHANGED <<starter, connected, shown, open, reading, network>>

(* The runner is cancelled: at any await of the connection its finally      *)
(* disconnects; in the wait_closed of a _disconnect the cancellation ends   *)
(* it there, before the callback; asleep there is nothing left to do.       *)
Cancel ==
  /\ stopper = "asked" /\ stopper' = "awaiting"
  /\ \/ /\ runner \in Active
        /\ runner' = "closing_cancelled" /\ Disconnect
        /\ UNCHANGED <<starter, shown, faults>>
     \/ /\ runner \in {"closing", "sleeping"}
        /\ runner' = "ended" /\ was' = FALSE
        /\ UNCHANGED <<starter, connected, shown, open, reading, network>>

(* The runner has ended; the stopper's own _disconnect finds nothing.       *)
Stopped ==
  /\ stopper = "awaiting" /\ runner = "ended"
  /\ stopper' = "stopped"
  /\ shown' = IF connected THEN FALSE ELSE shown
  /\ connected' = FALSE /\ open' = FALSE
  /\ UNCHANGED <<runner, starter, was, reading, network>>

(* async_publish from the hub: at most once, on an online connection only;  *)
(* on a link that has gone it is lost, or fails in drain.                   *)
Publish ==
  /\ connected /\ open /\ silent > 0
  /\ silent' = 0
  /\ UNCHANGED <<client, reading, link, inbox, half, faults>>

-----------------------------------------------------------------------------
(* The broker, the link, and time                                           *)

Unread == {i \in DOMAIN inbox : inbox[i] = "publish"}

(* Messages come without end, as often as the client reads; by bad luck one *)
(* overtakes the SUBACK.                                                    *)
BrokerPublishes ==
  /\ runner \in {"suback"} \cup Online /\ link = "up"
  /\ Cardinality(Unread) < MaxUnread
  /\ \/ inbox' = Append(inbox, "publish") /\ UNCHANGED faults
     \/ /\ runner = "suback" /\ inbox # <<>> /\ Fault
        /\ inbox' = <<"publish">> \o inbox
  /\ UNCHANGED <<client, reading, link, half, silent>>

BrokerSaysGoodbye ==
  /\ runner \in Online /\ link = "up" /\ Fault
  /\ inbox' = Append(inbox, "bye") /\ link' = "closed"
  /\ UNCHANGED <<client, reading, half, silent>>

(* A client that sends nothing for too long is dropped by the broker.       *)
BrokerDrops ==
  /\ runner \in Online /\ link = "up" /\ silent = BrokerPatience
  /\ link' = "closed"
  /\ UNCHANGED <<client, reading, inbox, half, silent, faults>>

LinkBreaks ==
  /\ runner \in {"connack", "suback"} \cup Online /\ link = "up" /\ Fault
  /\ link' \in {"dead", "closed"}
  /\ UNCHANGED <<client, reading, inbox, half, silent>>

(* Only the first part of a packet arrives, for now.                        *)
ArrivesInPart ==
  /\ runner \in Reading /\ inbox # <<>> /\ ~half /\ link = "up" /\ Fault
  /\ half' = TRUE
  /\ UNCHANGED <<client, reading, link, inbox, silent>>

RestArrives ==
  /\ half /\ link = "up" /\ half' = FALSE
  /\ UNCHANGED <<client, reading, link, inbox, silent, faults>>

(* Mutant: _read_loop reads without a timeout. *)
DueUnlimited ==
  \/ runner \in {"connack", "suback"} \cup AwaitsPong /\ idle >= PingTimeout
  \/ runner \in Online /\ link = "up" /\ silent >= BrokerPatience

(* The deadlines of the reads, and the broker's. *)
Due ==
  \/ runner = "reading" /\ idle >= KeepAlive
  \/ runner \in {"connack", "suback"} \cup AwaitsPong /\ idle >= PingTimeout
  \/ runner \in Online /\ link = "up" /\ silent >= BrokerPatience

(* Time passes while there is nothing to read, and in the wait for a        *)
(* PINGRESP also while messages come in and are handled; no deadline is     *)
(* overslept.                                                               *)
Tick ==
  /\ runner \in Reading \cup AwaitsPong /\ ~Due
  /\ inbox = <<>> \/ half \/ link = "dead" \/ runner \in AwaitsPong
  /\ idle' = idle + 1
  /\ silent' = IF silent < BrokerPatience THEN silent + 1 ELSE silent
  /\ UNCHANGED <<client, synced, link, inbox, half, faults>>

-----------------------------------------------------------------------------
Runner ==
  \/ Resolved \/ ContextBuilt \/ SetupFails \/ TlsFails \/ SocketOpened
  \/ Answered \/ Read \/ Handled \/ Ping \/ TimesOut \/ ReadFails
  \/ Closed \/ Reconnect

Callers ==
  \/ Start \/ Started \/ StartTimesOut \/ AskStop \/ Cancel \/ Stopped
  \/ Publish

World ==
  \/ BrokerPublishes \/ BrokerSaysGoodbye \/ BrokerDrops \/ LinkBreaks
  \/ ArrivesInPart \/ RestArrives \/ Tick

(* The client that was never started, or is stopped, rests. *)
Rests ==
  /\ starter = "failed" \/ stopper = "stopped"
  /\ UNCHANGED vars

Next == Runner \/ Callers \/ World \/ Rests

(* The event loop runs what is ready; time passes; nothing is asked of the  *)
(* broker but an answer to CONNECT, SUBSCRIBE and PINGREQ, and of the       *)
(* publishers nothing at all.                                               *)
Fairness ==
  /\ WF_vars(Runner) /\ WF_vars(Tick) /\ WF_vars(BrokerDrops)
  /\ WF_vars(Start) /\ WF_vars(Started) /\ WF_vars(Cancel) /\ WF_vars(Stopped)

Spec == Init /\ [][Next]_vars /\ Fairness

-----------------------------------------------------------------------------
(* Type correctness: every phase, flag, counter and packet in its range. *)
TypeOK ==
  /\ runner \in {"none", "sleeping", "closing", "closing_cancelled", "ended"}
                \cup Active
  /\ starter \in {"idle", "waiting", "started", "failed"}
  /\ stopper \in {"idle", "asked", "awaiting", "stopped"}
  /\ connected \in BOOLEAN /\ shown \in BOOLEAN /\ was \in BOOLEAN
  /\ open \in BOOLEAN /\ half \in BOOLEAN /\ synced \in BOOLEAN
  /\ link \in {"up", "dead", "closed"}
  /\ inbox \in Seq(Packet)
  /\ idle \in 0 .. KeepAlive /\ silent \in 0 .. BrokerPatience
  /\ faults \in 0 .. MaxFaults

(* The flag that lets commands out is up only on a connection whose         *)
(* subscriptions are acknowledged, so that the answer to a command can come *)
(* in; and outside a shutdown the hub never goes on believing in a          *)
(* connection that has been given up (_connect, _disconnect).               *)
ConnectedIsOnline ==
  /\ connected => open /\ runner \in Online
  /\ shown => connected \/ was \/ stopper # "idle"

(* A connection that has died is noticed although no error is reported:     *)
(* the hub, and every command that waits, is told (the keepalive of         *)
(* _read_loop).  And a PINGREQ is answered or the connection given up,      *)
(* however many messages come in meanwhile and whatever the reader takes    *)
(* them for (_wait_for_ping_response).                                      *)
DeadLinkNoticed ==
  /\ (shown /\ link # "up") ~> (~shown \/ stopper # "idle")
  /\ (runner \in AwaitsPong) ~> (runner \notin AwaitsPong)

(* Whatever goes wrong, a bounded number of times, the client is online     *)
(* again, however many messages come in, unless it is stopped; and in step  *)
(* with the stream of packets, if the keepalive gets to ask from time to    *)
(* time, as it does once the broker has no more messages (_run's reconnect  *)
(* boundary, _read_loop).  While messages come without a pause no read of   *)
(* _read_loop times out, no PINGREQ goes out, and a reader out of step is   *)
(* not made to reconnect.                                                   *)
Recovers ==
  /\ []<>(connected \/ stopper # "idle")
  /\ ([]<>(runner \in AwaitsPong) \/ <>[][~BrokerPublishes]_vars)
       => []<>((connected /\ synced) \/ stopper # "idle")

(* A stop, and the one a failed start performs, ends, and leaves neither a  *)
(* socket nor a runner behind (async_stop).                                 *)
StopEnds ==
  (stopper = "asked") ~>
    [](stopper = "stopped" /\ runner = "ended" /\ ~open /\ ~connected)
==============================================================================
