-------------------------- MODULE CommandExchange --------------------------
(***************************************************************************)
(* Commands over the gate's MQTT connection: callers (cover, buttons and   *)
(* the parameter refresh) share one transaction lock, one publish per      *)
(* command, one list of waiters and one tx topic on which acknowledgements *)
(* of any client, rejections and telemetry arrive.                         *)
(*                                                                         *)
(* Each member of Calls is one call; AskedFor says what it asks.  "READ"   *)
(* is a read exchange of the background refresh: no motion is expected.    *)
(* "PED" is the pedestrian opening of the PS25007A, which is published     *)
(* under the lock and never acknowledged, so nobody waits for an answer.   *)
(* The broker, the gate and the other clients are the environment.         *)
(***************************************************************************)
EXTENDS GateState, Sequences

CONSTANTS
  Calls,       \* the calls made on the hub
  AskedFor,    \* what each call asks for
  Nobody,      \* the holder of a free lock
  Frames,      \* the status frames and live percentages that may arrive
  MaxTx,       \* bound: messages under way to the hub
  MaxNoise     \* bound: telemetry frames and foreign acknowledgements

Kinds == Commands \cup {"READ", "PED"}

ASSUME CallsAssumption == /\ AskedFor \in [Calls -> Kinds]
                          /\ Nobody \notin Calls
ASSUME FramesAssumption ==
  Frames \subseteq [type : {"status"}, frame : StatusFrame]
                   \cup [type : {"live"}, position : Percent]
ASSUME BoundsAssumption == MaxTx \in Nat /\ MaxNoise \in Nat

VARIABLES
  pc,          \* where each call is
  queue,       \* the calls waiting for the transaction lock, first come first served
  holder,      \* the call that holds it
  waiters,     \* the calls with an entry in _waiters
  future,      \* the state of each call's future
  result,      \* how each call ended
  connected,   \* the MQTT connection
  online,      \* device_online is not False
  stopping,    \* async_stop was called
  rx,          \* commands on their way to the gate
  tx,          \* messages on their way to the hub
  hub,         \* the shown State
  begun,       \* the shown State when the running exchange took the lock
  fresh,       \* telemetry kinds that arrived since then
  published,   \* history: how often each call's command was published
  noise        \* telemetry frames and foreign acknowledgements so far

callVars    == <<pc, queue, holder, waiters, future, result>>
linkVars    == <<connected, online, stopping, rx, tx>>
hubVars     == <<hub, begun, fresh>>
historyVars == <<published, noise>>
vars == <<callVars, linkVars, hubVars, historyVars>>

Stages  == {"idle", "queued", "publishing", "draining", "waiting", "done"}
Futures == {"none", "pending", "acked", "rejected", "disconnected", "cancelled"}
Results == {"none", "acked", "motion", "published", "timeout", "offline", "unsent", "error",
            "rejected", "disconnected", "cancelled"}

Unanswered == { c \in Calls : AskedFor[c] = "PED" }

Message == [type : {"ack"}, of : Kinds]
           \cup [type : {"nak"}]
           \cup [type : {"status"}, frame : StatusFrame]
           \cup [type : {"live"}, position : Percent]

TypeOK ==
  /\ pc \in [Calls -> Stages]
  /\ queue \in Seq(Calls)
  /\ holder \in Calls \cup {Nobody}
  /\ waiters \in SUBSET Calls
  /\ future \in [Calls -> Futures]
  /\ result \in [Calls -> Results]
  /\ connected \in BOOLEAN /\ online \in BOOLEAN /\ stopping \in BOOLEAN
  /\ rx \in SUBSET Calls
  /\ tx \in Seq(Message)
  /\ hub \in State /\ begun \in State
  /\ fresh \in SUBSET {"operating", "position"}
  /\ published \in [Calls -> 0..1]
  /\ noise \in 0..MaxNoise

Init ==
  /\ pc = [c \in Calls |-> "idle"]
  /\ queue = <<>>
  /\ holder = Nobody
  /\ waiters = {}
  /\ future = [c \in Calls |-> "none"]
  /\ result = [c \in Calls |-> "none"]
  /\ connected = TRUE
  /\ online = TRUE
  /\ stopping = FALSE
  /\ rx = {}
  /\ tx = <<>>
  /\ hub = Unknown
  /\ begun = Unknown
  /\ fresh = {}
  /\ published = [c \in Calls |-> 0]
  /\ noise = 0

----------------------------------------------------------------------------
(***************************************************************************)
(* The transaction lock and the exchange                                   *)
(***************************************************************************)

\* A PED is refused there and then unless the gate is online and shown closed
\* and stopped.
Ask(c) ==
  /\ pc[c] = "idle"
  /\ ~stopping
  /\ c \in Unanswered => /\ hub.position = 0 /\ hub.operating = "no"
                         /\ connected /\ online
  /\ pc' = [pc EXCEPT ![c] = "queued"]
  /\ queue' = Append(queue, c)
  /\ UNCHANGED <<holder, waiters, future, result, linkVars, hubVars, historyVars>>

\* The head of the queue may go.
Granted(c) == /\ holder = Nobody
              /\ queue # <<>>
              /\ c = Head(queue)
              /\ pc[c] = "queued"

\* The lock is taken, the gate is found offline and the lock is released
\* again without an await in between.
Refused(c) ==
  /\ Granted(c)
  /\ c \notin Unanswered
  /\ ~(connected /\ online)
  /\ queue' = Tail(queue)
  /\ pc' = [pc EXCEPT ![c] = "done"]
  /\ result' = [result EXCEPT ![c] = "offline"]
  /\ UNCHANGED <<holder, waiters, future, linkVars, hubVars, historyVars>>

Acquire(c) ==
  /\ Granted(c)
  /\ c \in Unanswered \/ (connected /\ online)
  /\ queue' = Tail(queue)
  /\ holder' = c
  /\ pc' = [pc EXCEPT ![c] = "publishing"]
  /\ IF c \in Unanswered
     THEN UNCHANGED <<waiters, future>>
     ELSE /\ waiters' = waiters \cup {c}
          /\ future' = [future EXCEPT ![c] = "pending"]
  /\ begun' = hub
  /\ fresh' = {}
  /\ UNCHANGED <<result, linkVars, hub, published, noise>>

\* A faulty publish that retries a packet until it has drained.
WriteRetries(c) ==
  /\ pc[c] \in {"publishing", "draining"}
  /\ published[c] < 2
  /\ pc' = [pc EXCEPT ![c] = "draining"]
  /\ rx' = rx \cup {c}
  /\ published' = [published EXCEPT ![c] = @ + 1]
  /\ UNCHANGED <<queue, holder, waiters, future, result, connected, online, stopping,
                 tx, hubVars, noise>>

\* async_publish hands the packet to the socket, after a wait for the write lock
\* in which the connection may have changed ...
Write(c) ==
  /\ pc[c] = "publishing"
  /\ pc' = [pc EXCEPT ![c] = "draining"]
  /\ rx' = rx \cup {c}
  /\ published' = [published EXCEPT ![c] = @ + 1]
  /\ UNCHANGED <<queue, holder, waiters, future, result, connected, online, stopping,
                 tx, hubVars, noise>>

\* ... and waits for it to drain; only then the 10 s for the answer begin.
Drained(c) ==
  /\ pc[c] = "draining"
  /\ c \notin Unanswered
  /\ pc' = [pc EXCEPT ![c] = "waiting"]
  /\ UNCHANGED <<queue, holder, waiters, future, result, linkVars, hubVars, historyVars>>

\* Faulty exits of the exchange, to see the properties fail: the waiter is not removed; the lock is kept.
ReleaseKeepsWaiter(c, outcome) ==
  /\ pc' = [pc EXCEPT ![c] = "done"]
  /\ result' = [result EXCEPT ![c] = outcome]
  /\ future' = [future EXCEPT ![c] = "none"]
  /\ holder' = Nobody
  /\ UNCHANGED <<waiters, queue>>

ReleaseKeepsLock(c, outcome) ==
  /\ pc' = [pc EXCEPT ![c] = "done"]
  /\ result' = [result EXCEPT ![c] = outcome]
  /\ future' = [future EXCEPT ![c] = "none"]
  /\ waiters' = waiters \ {c}
  /\ UNCHANGED <<holder, queue>>

\* Every way out of the exchange removes the waiter and releases the lock.
Release(c, outcome) ==
  /\ pc' = [pc EXCEPT ![c] = "done"]
  /\ result' = [result EXCEPT ![c] = outcome]
  /\ future' = [future EXCEPT ![c] = "none"]
  /\ waiters' = waiters \ {c}
  /\ holder' = Nobody
  /\ UNCHANGED queue

\* Nothing was sent: the writer is closing, an MqttError, or it is gone after the
\* wait for the write lock, an error that reaches the caller as it is.
WriteFails(c) ==
  /\ pc[c] = "publishing"
  /\ \E outcome \in {"unsent", "error"} : Release(c, outcome)
  /\ UNCHANGED <<linkVars, hubVars, historyVars>>

\* The end of a PED: the caller takes it for granted that it will be obeyed.
PublishedUnanswered(c) ==
  /\ pc[c] = "draining"
  /\ c \in Unanswered
  /\ Release(c, "published")
  /\ hub' = [hub EXCEPT !.pedAssumed = TRUE]
  /\ UNCHANGED <<linkVars, begun, fresh, historyVars>>

\* The socket breaks while it drains: that error is no MqttError and reaches the
\* caller as it is.  The packet may have left all the same.
DrainFails(c) ==
  /\ pc[c] = "draining"
  /\ Release(c, "error")
  /\ UNCHANGED <<linkVars, hubVars, historyVars>>

\* The caller runs again after its future was resolved.  The lock is released
\* and the acknowledged state written in one step, with no await between.
ResumeAcked(c) ==
  /\ pc[c] = "waiting"
  /\ future[c] = "acked"
  /\ Release(c, "acked")
  /\ hub' = IF AskedFor[c] \in Commands THEN AfterAck(hub, AskedFor[c]) ELSE hub
  /\ UNCHANGED <<linkVars, begun, fresh, historyVars>>

ResumeFailed(c) ==
  /\ pc[c] = "waiting"
  /\ future[c] \in {"rejected", "disconnected", "cancelled"}
  /\ Release(c, future[c])
  /\ UNCHANGED <<linkVars, hubVars, historyVars>>

\* A faulty _motion_confirms_command, without the freshness tests.
MotionConfirmsStale(direction) ==
  /\ begun.operating # "yes"
  /\ \/ /\ hub.operating = "yes"
        /\ hub.movement = direction
     \/ /\ begun.position # NoPosition
        /\ hub.position # NoPosition
        /\ Toward(begun.position, hub.position) = direction

\* _motion_confirms_command
MotionConfirms(direction) ==
  /\ begun.operating # "yes"
  /\ \/ /\ "operating" \in fresh
        /\ hub.operating = "yes"
        /\ hub.movement = direction
     \/ /\ "position" \in fresh
        /\ begun.position # NoPosition
        /\ hub.position # NoPosition
        /\ Toward(begun.position, hub.position) = direction

\* The 10 s are over.  The timer may fire while an answer that has just
\* resolved the future waits for the caller to run: it is then lost.
Timeout(c) ==
  /\ pc[c] = "waiting"
  /\ future[c] # "cancelled"
  /\ IF AskedFor[c] \in Motions /\ MotionConfirms(MotionOf(AskedFor[c]))
     THEN /\ Release(c, "motion")
          /\ hub' = AfterMotionProof(hub, AskedFor[c])
     ELSE /\ Release(c, "timeout")
          /\ hub' = hub
  /\ UNCHANGED <<linkVars, begun, fresh, historyVars>>

----------------------------------------------------------------------------
(***************************************************************************)
(* Messages                                                                *)
(***************************************************************************)

Waiting == { c \in waiters : future[c] = "pending" }

Resolve(calls, outcome) ==
  future' = [c \in Calls |-> IF c \in calls THEN outcome ELSE future[c]]

\* An acknowledgement resolves every pending waiter that expects its name.
AckArrives(m) ==
  LET matched == { c \in Waiting : AskedFor[c] = m.of }
  IN  /\ m.type = "ack"
      /\ Resolve(matched, "acked")
      /\ UNCHANGED hubVars

\* A NAK names no command: it rejects whatever is pending.
NakArrives(m) ==
  /\ m.type = "nak"
  /\ Resolve(Waiting, "rejected")
  /\ UNCHANGED hubVars

StatusArrives(m) ==
  /\ m.type = "status"
  /\ hub' = ApplyStatus(hub, m.frame)
  /\ IF m.frame.operating = "yes"
     THEN fresh' = fresh \cup {"operating"}
     ELSE UNCHANGED fresh
  /\ UNCHANGED <<begun, future>>

LiveArrives(m) ==
  /\ m.type = "live"
  /\ hub' = ApplyPosition(hub, m.position, TRUE)
  /\ fresh' = fresh \cup {"position"}
  /\ UNCHANGED <<begun, future>>

Deliver ==
  /\ tx # <<>>
  /\ tx' = Tail(tx)
  /\ LET m == Head(tx)
     IN  AckArrives(m) \/ NakArrives(m) \/ StatusArrives(m) \/ LiveArrives(m)
  /\ UNCHANGED <<pc, queue, holder, waiters, result, connected, online, stopping, rx,
                 published, noise>>

----------------------------------------------------------------------------
(***************************************************************************)
(* The environment                                                         *)
(***************************************************************************)

\* A command reaches the gate, at any later time, or never.  The gate
\* acknowledges it, rejects it, or its answer is lost.
Answer(c) ==
  /\ c \in rx
  /\ rx' = rx \ {c}
  /\ \/ tx' = tx
     \/ /\ connected
        /\ Len(tx) < MaxTx
        /\ \E m \in {[type |-> "ack", of |-> AskedFor[c]], [type |-> "nak"]} :
             tx' = Append(tx, m)
  /\ UNCHANGED <<callVars, connected, online, stopping, hubVars, historyVars>>

\* Telemetry, and acknowledgements of another client's commands.
Noise ==
  /\ connected
  /\ Len(tx) < MaxTx
  /\ noise < MaxNoise
  /\ noise' = noise + 1
  /\ \E m \in Frames \cup [type : {"ack"}, of : { AskedFor[c] : c \in Calls }] :
       tx' = Append(tx, m)
  /\ UNCHANGED <<callVars, connected, online, stopping, rx, hubVars, published>>

\* _disconnect runs the state callback: every pending waiter fails.  What was
\* under way to the hub is gone with the clean session.
Disconnect ==
  /\ connected
  /\ connected' = FALSE
  /\ tx' = <<>>
  /\ Resolve(Waiting, "disconnected")
  /\ UNCHANGED <<pc, queue, holder, waiters, result, online, stopping, rx, hubVars,
                 historyVars>>

Reconnect ==
  /\ ~connected
  /\ ~stopping
  /\ connected' = TRUE
  /\ UNCHANGED <<callVars, online, stopping, rx, tx, hubVars, historyVars>>

\* The "connected" field of a Shadow document.
Presence ==
  /\ connected
  /\ online' = ~online
  /\ UNCHANGED <<callVars, connected, stopping, rx, tx, hubVars, historyVars>>

\* async_stop cancels the futures, forgets the waiters and closes the
\* connection, before any other caller of the loop runs again.
HubStops ==
  /\ ~stopping
  /\ stopping' = TRUE
  /\ connected' = FALSE
  /\ tx' = <<>>
  /\ waiters' = {}
  /\ Resolve(Waiting, "cancelled")
  /\ UNCHANGED <<pc, queue, holder, result, online, rx, hubVars, historyVars>>

Next ==
  \/ \E c \in Calls : \/ Ask(c) \/ Refused(c) \/ Acquire(c)
                      \/ Write(c) \/ WriteFails(c) \/ Drained(c) \/ DrainFails(c)
                      \/ PublishedUnanswered(c)
                      \/ ResumeAcked(c) \/ ResumeFailed(c) \/ Timeout(c)
                      \/ Answer(c)
  \/ Deliver
  \/ Noise
  \/ Disconnect
  \/ Reconnect
  \/ Presence
  \/ HubStops

\* The event loop runs what is ready and fires its timers, and a write ends
\* (the keepalive closes a connection that has stalled).  Nothing is assumed of
\* the gate, of the broker or of other clients: no message need ever arrive.
TakeUp == \E c \in Calls : Refused(c) \/ Acquire(c)
Fairness ==
  /\ WF_vars(TakeUp)
  /\ \A c \in Calls : /\ WF_vars(\/ Write(c) \/ WriteFails(c) \/ Drained(c) \/ DrainFails(c)
                               \/ PublishedUnanswered(c))
                      /\ WF_vars(ResumeAcked(c) \/ ResumeFailed(c) \/ Timeout(c))

SafetySpec == Init /\ [][Next]_vars
Spec == SafetySpec /\ Fairness

----------------------------------------------------------------------------
(***************************************************************************)
(* Properties                                                              *)
(***************************************************************************)

InExchange(c) == pc[c] \in {"publishing", "draining", "waiting"}

\* The waiter list holds the lock holder's entry or nothing: an answer can
\* never be taken by two callers, and no exit (answer, rejection, timeout, lost
\* connection, failed write, shutdown) leaves an entry behind.
OneWaiter ==
  /\ \A c \in waiters : holder = c /\ InExchange(c)
  /\ \A c \in Calls : future[c] = "pending" => c \in waiters

\* Only one exchange runs, and a lock that is held is held by a running one, so
\* it cannot be left held after its exchange.
LockDiscipline ==
  /\ \A c \in Calls : InExchange(c) <=> holder = c
  /\ \A i \in DOMAIN queue : pc[queue[i]] = "queued"
  /\ \A i, j \in DOMAIN queue : queue[i] = queue[j] => i = j

\* A call accepted on motion evidence (its ACK was lost) began with a gate that
\* was not moving, and telemetry has arrived since it took the lock, by which the
\* gate moves the way that was asked for, or stands further that way; the caller
\* then leaves the live state alone.
MovesAsAsked(c) ==
  \/ hub.operating = "yes" /\ hub.movement = MotionOf(AskedFor[c])
  \/ Toward(begun.position, hub.position) = MotionOf(AskedFor[c])

MotionEvidence ==
  [][ \A c \in Calls : (result[c] = "none" /\ result'[c] = "motion") =>
        /\ begun.operating # "yes"
        /\ fresh # {} /\ MovesAsAsked(c)
        /\ [hub' EXCEPT !.pedAssumed = hub.pedAssumed] = hub ]_vars

\* The promise to the callers: commands go out one at a time and at most once
\* each, with no retry after a timeout, and success is only reported of a
\* command that went out (hub.py, _async_exchange and _async_command).
Phase(c) == CASE pc[c] = "idle"       -> "new"
              [] pc[c] = "queued"     -> "asked"
              [] InExchange(c)        -> "open"
              [] pc[c] = "done" /\ result[c] \in {"acked", "motion", "published"} -> "success"
              [] OTHER                -> "failure"

Promise == INSTANCE OneShot WITH phase <- [c \in Calls |-> Phase(c)], sent <- published
OneShotSafety == Promise!SafetySpec

\* The same with the promise that every call that was made ends: no lost ACK,
\* no lost connection and no shutdown leaves a caller or the queue waiting.
OneShotPromise == Promise!Spec

\* After a shutdown every call that was made ends, and the lock is free.
ShutdownDrains ==
  stopping ~> (holder = Nobody /\ \A c \in Calls : pc[c] \in {"idle", "done"})

=============================================================================
