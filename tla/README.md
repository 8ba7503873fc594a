# TLA+ models of the TMT Chow gate integration

This directory holds the formal model of `custom_components/tmt_chow`, the Home
Assistant integration for TMT Chow gate controllers: TLA+ modules translated
from the Python source and from the helper program in C, the TLC configurations
that check them on small instances, and TLAPS proofs of the properties that
matter most. Paths below are relative to the repository; `hub.py` and the like
are files of `custom_components/tmt_chow/`.

## 1. The system

### 1.1 Components

| component | code | state it keeps | operations | module |
|---|---|---|---|---|
| gate state fusion | `hub.py` `_apply_status`, `_apply_position`, `apply_ouranos_status_response`; `ps21050d_hub.py` overrides; `protocol.py` | `position`, `movement`, `is_operating`, the pedestrian assumption, the stale-stop guard | apply a live percentage, a status frame, a native frame, a command's outcome | `GateState`, `GateTelemetry` |
| MQTT command exchange | `hub.py` `_async_command`, `_async_exchange`, `_async_message`, `_mqtt_state_changed` | transaction lock, waiters, futures, freshness stamps | command, answer, rejection, timeout, disconnection, shutdown | `CommandExchange`, `OneShot` |
| PS24118 strategy | `ps21050d_hub.py` 335-875 | pending re-arm direction, monitor task | preflight, re-arm, movement, RS fallback, monitor | `Ps24118Command` |
| parameter transactions | `hub.py`, `ps21050d_hub.py` `async_set_parameter`, `async_refresh_parameters` | `parameters` | refresh, read-modify-write-verify | `ParameterTransaction` |
| parameter codecs and schemas | `parameter_codec.py`, `model_parameter_schemas.py`, `ps*_parameters.py`, `parameters.py` | none | encode, decode, validate, choose an option | `ParameterCodec` |
| native control and poller | `hub.py` native route, `ouranos_status.py` | poll task, refresh lock, settlement window | command, poll, settle a STOP, movement test | `NativeControl` |
| native session | `ouranos_native_session.py`, `tools/ouranos_glibc_session_helper.c` | helper process, session lock | start, exchange, stop, cancel | `NativeSession` |
| MQTT client | `mqtt.py` | connection, reader, writer, runner task | connect, subscribe, read, ping, publish, disconnect, stop | `MqttClient` |
| identity and profiles | `controller_types.py`, `model_protocol_profiles.py`, `pedestrian.py`, `_set_controller_type` of both hubs, the platforms' setup | tables | look up | `ControllerProfile` |
| hub life cycle, availability | `__init__.py`, `hub.py` `async_start`, `async_stop`, `_apply_reported`, `available` | background tasks, identity, time stamps, expiry task | set up, identify, expire, unload | `HubLifecycle` |
| entities | `cover.py`, `button.py`, `number.py`, `select.py`, `sensor.py` | none | read the hub, call the hub | parts of the last three |
| cloud API, config flow, diagnostics, runtime installation | `api.py`, `config_flow.py`, `proposal.py`, `*diagnostics.py`, `ouranos_arm64.py`, `ouranos_ha_probe.py` | form state, files | set up, report | none, section 7 |

### 1.2 Interaction

Everything but the helper process runs on one event loop, so a step of a model
is the code between two awaits. The MQTT reader delivers messages through
`_async_message`, which has no await: a message is applied atomically. Callers
(entities, services, refresh loops, the PS24118 monitor) meet at
`_transaction_lock`; the lock holder publishes once and waits on a future that
`_async_message`, `_mqtt_state_changed` or `async_stop` resolves. On the native
route the session's lock takes the place of that future: one line goes to the
helper and one comes back. The gate is also moved by its remote control and
written by the vendor's app, which the hub sees only through telemetry and
through answers that are not its own.

Each module has one of these meeting places with what surrounds it reduced to the
outcomes it can have: `CommandExchange` and `Ps24118Command` have the connected
flag and the loss of the connection that `MqttClient` has in detail;
`NativeControl` has the outcomes of an exchange that `NativeSession` has in
detail; `ParameterTransaction` has frames of values, and `ParameterCodec` what
becomes of one frame on the wire and back.

### 1.3 What is hard

- Three sources tell of the gate: live percentages, status frames that may be
  older, and what the hub assumes after a command. They arrive in any order.
- Acknowledgements, answers and lines carry no request identity.
- Every wait may end by answer, rejection, timeout, disconnection, cancellation
  or shutdown, and movement commands must never be repeated.
- State is read before a lock or an await and used after it.
- A parameter is changed by reading, changing and writing the whole frame, which
  the app may write too, and the gate may lose any of the messages.
- One of some forty controller types is configured and another one may answer:
  five chains of conditions must still agree on the layout of a frame.
- Background tasks are created in two places and ended in a third.

The hazards are listed with their lines in `PROJECT.json`; sections 3 to 5 say
which properties cover them, section 4 which ones the code lets happen.

## 2. Modules

### 2.1 The gate and what is shown of it

`GateState` - pure operators, no variables. A `State` record is the hub's
`position`, `movement`, `is_operating`, `_pedestrian_state_assumed` and the
stale-stop guard of the subclass (`ps21050d_hub.py` is the class that
`__init__.py` instantiates for every profile). `ApplyPosition`, `ApplyStatus`,
`ApplyNative`, `AfterAck`, `AfterMotionProof` each stand for one method.
Battery, attributes and logging are left out.

`PhysicalGate` - extends `GateState`. The gate itself: a position on a track, a
motion, what steering and travelling do to it, what an exact status frame says of
it, and `Shows`, when the hub shows it as it is. It is the environment of the
modules that have a moving gate, and external to the repository.

`GateTelemetry` - extends `PhysicalGate`. The gate, the reported Shadow, the
two telemetry streams and the hub. The gate's actions are the environment (it
may be moved, stopped and turned around at any time); `Poll`, `LivePosition`,
`StatusArrives`, `GuardExpires`, `CommandReturns` are the hub's. The Shadow's
motor bits and position bits are updated separately, which is what the
plausibility test of the code is for. `StatusSource = "rs"` is the PS24118
profile, which drops the Shadow's DEV STATUS and polls RS frames.

### 2.2 Commands over MQTT

`OneShot` - the abstract promise to callers: commands go out one at a time, a
command at most once, success is only reported of a command that went out, and
every call ends. Both routes keep it: `CommandExchange` (MQTT) and, where no call
is cancelled, `NativeSession`.

`CommandExchange` - extends `GateState`. Callers, the first-come-first-served
transaction lock, the waiter list, futures, publish and drain, the timeout with
its motion proof, the connection and shutdown. One action per step between
awaits. `"PED"` is the PS25007A's pedestrian opening, which is published under
the lock and never acknowledged; `"READ"` stands for every exchange without a
motion. It implements `OneShot` through `Promise`.

`Ps24118Command` - extends `GateState`. A full movement of a PS24118 asks READ
STATUS (`preflight`), proves the end the gate stands at and sends that end's
command once to re-arm it where the logical state contradicts it or an earlier
movement left a re-arm pending, sends the movement once, and where its
acknowledgement is lost polls RS until motion is shown (`Fallback`). `Monitor`,
the status monitor of the last movement, the refresh loop and the first RS of a
connection compete for the same lock. `stage` is where each client stands,
`start` and `fresh` what `_motion_confirms_command` compares with. The gate
reports its position with a jitter of two percent. `moved`, `overlapped` and
`informed` are history: the motions since a call began, the calls that ran beside
another, and those that began with the gate shown where it stood and nothing about
it under way. An
acknowledgement names its command, so a late one of another command is ignored.

`MqttClient` - the runner task (`_run`) through name resolution, TLS, probe,
CONNACK, SUBACK, reading, handling, pinging and closing, the callers of
`async_start` and `async_stop`, publishers, a broker that loses patience with a
silent client and a link that breaks, goes dead without a word or delivers a
packet in two pieces. `synced` is false once a read was cancelled between the two
(`wait_for` throws the first piece away): what is read from then on may look
like anything. Time runs in ticks of five seconds (`Tick`). `idle` counts them
against the deadline in force: in `_read_loop` each read has thirty seconds of its
own, so that a packet begins them anew; the ten seconds of a PINGRESP begin with
the PINGREQ, and what comes in meanwhile leaves them as they are. The broker's
messages have no end: `MaxUnread` bounds only those that are on their way.

### 2.3 Parameters

`ParameterTransaction` - writers, the refresh loop, the transaction lock, the
requests and answers on the way, the gate's frame, the Shadow's copy and the
vendor's app. A `Profile` record has what the code decides by controller type:
verify the field or the whole frame, MQTT or native, a codec that gives back what
it was given or the one of the first UART generation, and the native guard of the
PS17062. `base` is the frame the holder read and then the one it writes.

`ParameterCodec` - the codecs and validations over the tables of nineteen real
models, at least one of each codec. An entry has its options, an offset, its kind
(hidden, fixed, split over two fields, one bit of another entry's value) and the
bits it takes; a frame on the wire is the sequence of the fields' digits.
`Encode`, `Decode`, `Valid` and `Acceptable` are the code's chains of
transformations; `Choose` is an entity's call with reading, replacing, checking
and reading back, `AppWrites` a frame of the vendor's app. `PS19001`, `PS22027`
and `PS21050D` have a Hall mode in which two currents have another table.
`WellFormed` says what the code takes for granted of such tables: every option
fits its fields, the fields and the entries belong to each other, and the entries
that carry the bits of one value carry each bit once. `TablesAssumption` states it
of the models chosen, and TLC evaluates it for all nineteen.

### 2.4 The native route

`NativeControl` - extends `PhysicalGate`. Cover commands, movement tests, the
settlement reads of a STOP and the status poller, taking turns on the one native
session. State and code correspond as follows.

| variable | code |
|---|---|
| `transaction`, `refresh`, `session` | `hub._transaction_lock`, `OuranosStatusPoller._refresh_lock`, `OuranosNativeSession._lock`; the head of a sequence holds the lock (`asyncio.Lock` is first come, first served) |
| `pc` | where each caller or the poll loop stands: queued for the transaction lock, knocking at the refresh lock, asking (its command is at the session), resting (the pause before a read), reading |
| `answer` | how the exchange of the session's holder went, until it resumes |
| `hub`, `stopGuard`, `statusFresh` | the shown state, `_native_stop_guard_until_monotonic`, the age of the last native status |
| `begun`, `opFresh` | what `_motion_confirms_command` compares with |
| `rounds` | reads a settlement has left (`_async_settle_ps25142_stop`) |
| `told` | the gate as the controller's frames tell it; it lags behind the gate |
| `steady`, `faults` | history (what `StopHeld` compares with) and a bound |

The return of an exchange, the release of its locks and the use of its result
are one step (`CoverReturns`, `TestReturns`, `PollReturns`,
`SettlementReturns`): there is no await between them. PS25142 is polled with RS
frames, PS17062 and PS19001 with READ STATUS; RS frames alone stamp the freshness
that motion proof looks at. The native route has no live percentage topic.

`NativeSession` - what `NativeControl` takes for one step: the session's lock, the
helper process a call starts if there is none, the line to its standard input and
the line from its standard output, the time-out that stops the helper, QUIT, the
wait for its end and the kill, a caller cancelled wherever it waits, and the loop
of the helper program with the answers on its channel. A helper is named for the
call that started it. `written` counts how often a call's request went to the
gate, `outcome` how a call ended.

### 2.5 Identity and life cycle

`ControllerProfile` - pure operators. `Profile(configured, live)` is what
`_set_controller_type` of the two hub classes makes of the account's and the
reported type; `ParameterTransport`, `FrameLayout`, `MayProbe`, `MayWrite`,
`EntityLayout`, `HasCover`, `PedestrianStrategy` are the chains of conditions in
the hubs and platforms that decide by it. `Consistent` says what fits together.

`HubLifecycle` - extends `ControllerProfile`. A config entry from setup to unload:
the choice of the native route, the MQTT start and its time-out, the first read of
the parameters, the platforms, the reports that bring an identity, the refresh
loops created by the start and by a report, the Shadow loop, the expiry of
availability, the poller, and `async_stop` from one await to the next. `Notify`
is the listeners of the entities, which show what they were told last.

### 2.6 Instances and proofs

`MCGateTelemetry`, `MCCommandExchange`, `MCNativeControl`,
`MCParameterTransaction`, `MCPs24118Command`, `MCNativeSession`,
`MCHubLifecycle` - small instances for TLC. `MqttClient` and `ParameterCodec` are
run as they are.

`GateStateProofs`, `GateTelemetryProofs`, `CommandExchangeProofs`,
`Ps24118Proofs`, `ParameterProofs` (of `ParameterTransaction` and of
`ParameterCodec`), `NativeProofs` (of `NativeControl` and of `NativeSession`),
`MqttClientProofs`, `HubLifecycleProofs` - lemmas and theorems.

The definitions named as faulty (`ReleaseKeepsLock`, `StaleNever`,
`DisconnectLate`, ...) are used by no specification: they are plausible mistakes
in the code, one for each property, and `PROJECT.json` names which property
notices which mistake.

## 3. Runs

| run | asks | instance |
|---|---|---|
| `telemetry` | `TypeOK`, `StoppedIsStill`, `SettledStaysSettled`, `Convergence` | positions 3 (inside the closed end band) and 60, Shadow documents, all four commands, one percentage and one status under way, one fault; 284k states |
| `exchange_safety` | `TypeOK`, `OneWaiter`, `LockDiscipline`, `MotionEvidence` | `FULL CLOSE` and `PED OPEN`, one message under way, three unsolicited ones |
| `exchange_refine` | `OneShotSafety`, `OneShotPromise`, `ShutdownDrains` | `FULL OPEN`, a read and the PS25007A's pedestrian opening, one unsolicited message |
| `native_stop` | `TypeOK`, `LocksHeld`, `StopHeld`, `Convergence` | PS25142, a `STOP` from the cover and a `FULL OPEN` test, a gate that begins at either end, and a remote control that opens and stops it, 2 settlement reads, one failed read; 458k states |
| `native_turns` | `EveryoneTurns` | the same calls and a `FULL OPEN` from the cover, on a gate that has one position; 86k states |
| `parameters` | `TypeOK`, `NoLostUpdate`, `UntouchedFields`, `WritersEnd`, `ShownConverges` | two writers of different fields of a frame of three, values 0 and 1, the PS17062 (native, field) and the PS22027 (MQTT, whole frame), one fault, one write of the app |
| `parameters_uart0` | `AcceptedIsClean` | a PS17062 with the value 16 in an overcurrent field, one writer of another field: **violated**, the finding of section 4 |
| `ps24118` | `MonitorYields`, `ProofIsMotion`, `MovementsEnd` | an opening and then a closing from the closed end, positions 0, 2, 50, 98, 100; four budgets: two calls and a fault, one call and a remote control, one call and a poll, no call but a poll and a fault |
| `mqtt` | `TypeOK`, `ConnectedIsOnline`, `DeadLinkNoticed`, `Recovers`, `StopEnds` | messages without end, two of them unread at a time; three faults; a stop at any time; 35k states |
| `session` | `LineIsOwn`, `CommandsInTime`, `CallsEnd` | two status requests with an opening between, a stop, one fault, one cancellation; 157k states |
| `lifecycle` | `FrameFits`, `ParametersWatched`, `UnloadedIsQuiet`, `AvailabilityShown` | twelve pairs of account and board: each route, each alias, a hub without a gate of its own, an invalid PIN; one unasked report, two faults |
| `codec` | `RoundTrip`, `FrameLegal`, `OthersStay`, `ChoiceKept` | nineteen models from their least and their greatest legal frame, the options 0, 2 and 35; on PS19001 and PS22027 two writes and a frame of the app |

All but `parameters_uart0` pass. The longest take one to two minutes on two
workers (`ps24118`, `codec`, `native_stop`), the others less than one.

### 3.1 Bounds

- Positions. The code distinguishes the two end bands, the order of two
  percentages and the exact end. 3 lies in a band without being its end and 60
  between the bands; the open band is the mirror image of the closed one, and the
  proofs of section 6 are for every set of percentages and for RS frames too. For
  settlement only the motion counts and whether a frame is older than it, so
  `native_stop` has the two ends, and a gate that moves from one to the other: a
  frame tells of a motion that is over, or of a rest that is, and is overtaken by
  the window, by the next read and by the command. `native_turns` asks of the locks
  alone and leaves the gate one position, for a third caller instead;
  `ps24118` has both ends, their jitter, and a place between.
- `MaxLive`, `MaxStatus`, `MaxTx` = 1. The streams are FIFO each. What matters is
  that a frame is older than the state it meets, and one frame under way is
  already overtaken by the other stream, by the gate and by a command any number
  of times. The proofs hold for streams of any length.
- `MaxFaults`, `MaxNoise`, `MaxForeign`, `MaxCancels`, `Budgets`. Faults are
  finitely many, and a model with one at any place shows each single failure; two
  where a second one meets the repair of the first (`lifecycle`), three in `mqtt`;
  `exchange_safety` has three unsolicited messages because a stale motion proof
  needs one or two before the command and one after it. The budgets of `ps24118`
  are alternatives, so that faults, the remote control and polls are each met by a
  call, and a call by another, without all of them at once.
- Calls. Two calls give an exchange and one waiting behind it. `exchange_refine`,
  `native_turns` and `session` have a third, so that a queue of two is served in
  turn; the proofs are for any number.
- `SettleRounds` = 2 of the code's 4, `Rounds` = 1 of the PS24118's: a read that is
  not the last and the last, and only the last.
- `Remote` is what the vendor's remote control asks for. In `native_stop` it is an
  opening or a stop, so that the gate opens for the remote control or for the test,
  is stopped by any of them or arrives. With a remote closing in place of the
  opening the gate moves both ways and `Convergence` holds as well (628k states);
  both together take longer than a run should. The proofs of `NativeControl` are for
  any set.
- `MaxUnread` = 2 in `mqtt`: a message in front of a PINGRESP or behind it, and one
  more. As the client reads, others come. Of the three faults two come before the
  reconnection and one breaks into it. A PINGREQ that stays unanswered is one, and
  so are the bytes of a message that a reader out of step takes for a PINGRESP.
- Values. `ParameterTransaction` needs two values, the old and the new one, and a
  third field nobody asks for. In `codec` the options are the least, one inside
  most tables, and one that only a Hall current has.
- TLC runs `NativeControl` as a PS25142 only; PS17062 and PS19001 (READ STATUS, no
  settlement, a pedestrian opening that may be refused) are covered by the proofs.
- Deadlock is checked in `telemetry`, the native runs, `mqtt` and `session` (which
  say with an action `Rests` when everything has ended). It is not in the exchange
  runs, `parameters`, `ps24118`, `lifecycle` and `codec`: once every call has ended
  and the environment's budget is used up, or the entry is unloaded, nothing is
  left to happen.

### 3.2 Fairness and why the code justifies it

- `GateTelemetry`: the controller keeps updating its Shadow, `_shadow_refresh_loop`
  polls for ever, the reader delivers what has arrived, the stale-stop guard is a
  deadline on the clock, and every exchange ends by its own time-out. Nothing is
  assumed of the remote control, the motion or the live percentages; a gate that
  never comes to rest satisfies `Convergence` because it promises nothing then.
- `CommandExchange`: the event loop runs what is ready, timers fire, and a write
  ends. No answer is ever assumed: `OneShotPromise` holds with every message lost.
- `NativeControl`: each wait of the session has a time-out, so an exchange is
  served; the locks are first come, first served; sleeps end; the poll loop starts
  again whatever its read returned; and the controller ends up telling the truth.
- `ParameterTransaction`: lock, resumption, time-out, the loop's pause and the
  reconnection as above; what is delivered is applied; the gate answers a request
  that reaches it and reports to its Shadow (faults are finitely many).
- `Ps24118Command`: the gate answers what reaches it; an exchange gets its answer
  or its time-out; a caller resumes; the monitor and the polls go on.
- `MqttClient`: the runner goes on and time passes. Of the broker only this is
  asked: it answers CONNECT, SUBSCRIBE and PINGREQ on a link that is up, with as
  many exceptions as there are faults, and gives up a silent client. Of publishers
  nothing: they may be silent or go on for ever. What `Recovers` says of the
  stream of packets needs more, a PINGREQ from time to time, and has it as a
  hypothesis of the property: it holds of any broker that falls silent for thirty
  seconds now and then, and section 4.2 says what happens with one that does not.
- `NativeSession`: the event loop runs what is ready, the time-outs included.
  Nothing at all is assumed of the helper: `CallsEnd` holds with one that hangs
  wherever it is.
- `HubLifecycle`: setup and unload go on, sleeps end, time passes, the poller polls,
  and a Shadow get is answered while the connection lasts.

## 4. What the code does otherwise

### 4.1 Finding

`parameters_uart0`: a two-digit field of the first UART generation is written in
hexadecimal (`parameter_codec.py` 262) and read as decimal when both digits are
decimal (275). The 16 of such a field is shown as 10 and written back as 10 when
another field is changed; the PS17062 compares only the field it asked for
(`hub.py` 681) and reports success, where the comment at 667-669 says that the
readback keeps such a mismatch from being accepted silently. `PROJECT.json` has
the quotes.

### 4.2 Observed

Behaviours the code allows and the models have; no run checks them, as most are
consequences of a protocol without request identities or of a decision that
could be argued either way.

- An acknowledgement has no request identity: the late ACK of a call that timed
  out, or of another client, acknowledges a later call of the same command
  (`hub.py` 887). So does a late answer on the helper's channel.
- The start of a PS24118 movement is the position shown when the call begins, and
  nothing asks how old it is. A gate that was stopped at 50 by its remote control
  while the hub shows 0 and no RS has told of it yet makes the next RS look like an
  opening: with its acknowledgement lost, an opening is confirmed that never began
  (`ps21050d_hub.py` 641). `ProofIsMotion` speaks of well-informed calls.
- A STOP ahead of a motion in the queue reopens the settlement window that the
  motion has ended before it waited for the lock (`hub.py` 706-709).
- On the native route the reference time of the motion proof lies before the wait
  for the session, so that someone else's motion may confirm a command that was
  never sent (`hub.py` 712, 829-834).
- The preconditions of PED OPEN (`hub.py` 487, 500), of a movement test and of a
  PS17062 write (604) are checked before the locks are waited for.
- The PS24118's re-arm command is sent after the exchange that proved the end has
  released the lock (`ps21050d_hub.py` 571, 599): another caller may come between.
- `_shadow_refresh_loop` and the parameter loop end for good on errors they do not
  catch (`ps21050d_hub.py` 433, `hub.py` 855). `async_stop` awaits such a loop,
  the error is raised again, and the rest of the unload is left out.
- A refresh loop that a report creates while `async_start` waits is overwritten
  and survives `async_stop` (`hub.py` 307); `UnloadedIsQuiet` excepts it. An
  `OSError` of the first read leaves a failed setup with its MQTT client running.
- Entities are created from the identity known at setup and keep writing by their
  indexes when the controller reports another one (`number.py` 45).
- Each packet starts the thirty seconds of `_read_loop` anew, so that steady
  traffic, an answer to the Shadow poll each fifteen seconds for instance, keeps
  PINGREQ from being sent (`mqtt.py` 301-312). A client that only listens may be
  dropped by its broker, and a reader that has lost its place in the stream is not
  made to reconnect unless what it misreads is refused; hence the hypothesis of
  `Recovers`. Once PINGREQ is out its ten seconds are final, whatever comes in.
- A stop while the socket closes skips the callback.
- A call cancelled while it waits for the end of a helper leaves that helper
  running with no owner (`ouranos_native_session.py` 286); `CommandsInTime`
  excepts it.
- PS20096 has a pair of bits of which the schema lists one; the other is lost in
  the value shown. PS19001 encodes its two currents anew when the motor type
  changes. A PS21050D cannot be switched to Hall mode by one write, a PS22027 only
  where its currents are in the range of both modes.

## 5. Properties and the hazards they watch

- `StoppedIsStill`: whatever the order of percentages, frames and
  acknowledgements, a gate shown stopped is not shown moving.
- `SettledStaysSettled`: a display in step with a gate at rest stays so.
- `Convergence` (in `GateTelemetry` and `NativeControl`): no stale frame, guard
  window, optimistic write, overtaken read or pedestrian assumption leaves the
  display wrong for ever.
- `OneWaiter`, `LockDiscipline`: answer, rejection, time-out, a broken drain, loss
  of the connection and shutdown race; no way out leaves a waiter or the lock.
- `MotionEvidence`: a lost acknowledgement is replaced only by telemetry newer than
  the command, on a gate that stood still before it, that shows it moving the way
  asked for or further that way; and the live state is left as it is.
- `OneShotSafety`, `OneShotPromise`, `ShutdownDrains`: what callers may rely on.
- `LocksHeld`, `EveryoneTurns`: the three locks of the native route are held by
  those who need them and are handed on.
- `StopHeld`: an acknowledged STOP is not undone by the stale frames that pollers,
  settlement reads and tests bring.
- `NoLostUpdate`, `UntouchedFields`: two read-modify-write transactions with lost,
  late, garbled and foreign frames around them keep each other's fields and those
  of nobody. `WritersEnd`, `ShownConverges`: and they end, and what is shown is
  what the gate has.
- `RoundTrip`, `OthersStay`: a value comes back as it was sent and takes no other
  field with it, through offsets, bit orders, swapped pairs and skipped fields.
  `FrameLegal`, `ChoiceKept`: no board gets a frame that is illegal in its mode,
  and a confirmed choice means in the new mode what the user chose.
- `ProofIsMotion`: with no acknowledgement a PS24118 movement that began with the
  gate shown where it stood succeeds only if the gate has moved that way or is
  there; jitter, an old motion and a re-arm are no proof. `MonitorYields`: the monitor of the last movement is gone when the next
  one begins. `MovementsEnd`: the chain of exchanges ends.
- `ConnectedIsOnline`: commands are let out only where their answers come in, and a
  connection that was given up is not believed in. `DeadLinkNoticed`: a link that
  dies silently is noticed by the keepalive, and a PINGREQ is answered or the
  connection given up however many messages come in. `Recovers`: the client comes
  back, and in step with the packets where the keepalive gets to ask. `StopEnds`: a
  stop at any phase ends and leaves nothing.
- `LineIsOwn`: after time-outs and cancellations no call takes another's line.
  `CommandsInTime`: no request goes to the gate twice or after its call failed.
  `CallsEnd`: whatever hangs, callers come back.
- `FrameFits`: for every identity the layouts of reading, writing and the entities
  agree. `ParametersWatched`: no order of connection, report and start leaves a
  readable controller without its refresh loop. `UnloadedIsQuiet`: nothing of the
  hub goes on after an unload. `AvailabilityShown`: every change of availability,
  those made by the clock alone included, reaches the entities.

`TypeOK` is more than types in places: `published` in `0..1` of `CommandExchange`
says that no command is sent twice, and `rounds` of `NativeControl` that no
settlement reads more often than it may.

## 6. Proofs

Checked by TLAPS for every value of the constants, in particular any number of
calls, positions, frames and faults. The assumptions are those named in the
modules: percentages are 7-bit values, each call asks for a known command, the
clients have different names, PS25142 has no pedestrian test, a value read as
decimal is a value again, the tables of the models chosen are well formed.
`ExactCodec` is the one assumption a theorem adds.

- `GateStateProofs`: each operation of the shown state, and of the physical gate,
  keeps it a state and keeps a stopped gate still. These lemmas carry the modules
  below.
- `GateTelemetryProofs`: the inductive invariant is `TypeOK`, `Shadowed` (the
  reported Shadow always has a position, so that its halves can be updated
  separately) and `StoppedIsStill`. `NoMotionWhenStopped` follows.
  `SettledIsStable` needs no more: with everything under way telling of the gate as
  it is, each frame applied again shows the same (`ShowAgain`, `StatusAgain`).
- `CommandExchangeProofs`: the inductive invariant is `TypeOK`, `LockDiscipline`,
  `OneWaiter` and `SentByStage`. The last says that a command is out exactly when
  its exchange has passed the write; without it `published` in `0..1` and the step
  `Send` of `OneShot` could not be shown. `KeepsThePromise` maps each step to a
  step of `OneShot` or a stutter. `MotionIsProven`: no step but the timeout ends a
  call on motion evidence, and it does so by the freshness tests.
- `Ps24118Proofs`: the inductive invariant is `Types`, `WhoRuns` and `Accounted`.
  `WhoRuns` has `MonitorYields` and what makes it inductive: two calls that run at a
  time both know it. `Accounted` gives `ProofShowsMotion`: the position a
  well-informed call began with, what is shown, each report under way in its order
  and the gate follow each other, and wherever one differs from the one before it
  the gate has moved that way since the call began. A report that arrives takes its
  place in that chain, so a change seen since the start is a motion since the start.
  Without `informed` the chain has no beginning. The queue of the lock is left
  untyped: nothing depends on who is in it.
- `NativeProofs`, about `NativeControl`: `TInv` is `TypeOK`, `LocksHeld` and `RoundsLeft` (a
  settlement under way has reads left). `StopInv` says why a STOP is held: the gate
  stands still, the controller may still tell of the motion but only while the
  window is open, and a frame that tells of a stop, which closes the window,
  shows that the controller has caught up. It is inductive together with `TInv`.
- `ParameterProofs`, about `ParameterTransaction`: `UpdatesAreKept` and `OthersUntouched`. The frames
  in the answers under way, in the gate and in the requests under way are
  successive images of the gate, oldest first. A field has its old value up to
  some image and the new one from there on, whatever is lost: so a frame that
  proves the new value has only new values after it, and every frame that was read
  and is written back by another call, under the lock, has it too. Lost messages
  take images out and keep the order; the lock keeps writes from interleaving. The
  argument needs a codec that gives back what it was given (`ExactCodec`); the
  finding of section 4 shows that it fails otherwise. `CodecsAgree` says what
  `ExactCodec` leaves out, bytes whose two hexadecimal digits read as another
  decimal number and no others, and that the reading `Uart0ReadsBack` of this
  module is what the digits of `ParameterCodec` come to.
- `ParameterProofs`, about `ParameterCodec`: decoding undoes encoding for every
  legal vector (`DecodeBack`), in every codec and for any tables that are well
  formed, not only from the frames a run begins with. The invariant is `BoardInv`:
  the board holds the encoding of a legal vector. Neither `RoundTrip` nor
  `FrameLegal` is inductive, for what a frame reads as says nothing of the next
  frame made from it; with `DecodeBack` both follow, and so does that what a call
  reads, replaces and checks is legal again. For `FieldsStay`, a field is made from
  its entry's number and the table that reads it: `FieldKept` goes through the ways
  in which another entry could change either (a shared value, the swapped pair, the
  Hall mode) and finds the fields of `Owned` and of inexact entries only. The
  codecs recur over digits, bits and fields; a number has at most three digits and
  a value at most three bits, so functions spelled out for those lengths are shown
  to solve the recursions.
- `MqttClientProofs`: the inductive invariant is `TypeOK`, `ConnectedIsOnline` and
  `Sockets`: a reader has a socket, and what `was_connected` remembers belongs to
  a disconnection under way. `StopInv` adds that a socket is there only while the
  runner uses it and that a runner that ends was cancelled by a stop;
  `StopIsForGood` is the safety half of `StopEnds`: nothing comes back.
- `NativeProofs`, about `NativeSession`: a helper the session goes on with owes nobody a line
  (`SessionInv`: `Fresh`, `Greets`, `Owes`, `Free` by the phase of the lock's
  holder), which gives `LinesAreOwn`. For `InTime`, `RequestInv`: a request is in
  one place at most, with a helper whose call waits for it, for its end, or was
  cancelled in that wait. `TruthInv` adds what a line says: a line that tells
  of an answer or of a request that was sent names a call whose request was
  written, and by `LineIsOwn` it is the call that takes it. So an outcome `NativeControl` takes for an answer is one
  (`OutcomesAreTrue`), requests go out in the turn of their calls (`WrittenInTurn`),
  and as long as no call is cancelled the session implements `OneShot`
  (`KeepsPromise`): each step is one of its steps or a stutter. A cancelled call
  breaks the mapping, because its request may be written after the next call's.
- `HubLifecycleProofs`: `ProfilesFit` is a lemma about `ControllerProfile` for every
  pair of identities (`IdentitiesFit`, by the branches of `_set_controller_type`)
  and the invariant `Identity`: the profile is that of the account or of the
  board. `Watched` (from the moment the start has looked, a readable profile has a
  loop referred to) holds when a report arrives because a report either brings the
  type the profile already has, hence the same profile, or finds a loop, or creates
  one. `LoopsInv` and `Stopped` say which loop is referred to and what each step of
  the unload has ended; with them `UnloadStopsAll` follows. `ExpiryIsAnnounced` is
  the safety half of `AvailabilityShown`: whatever makes availability end without
  a word, somebody is there to announce it. It needs `Answers`, which says who
  stands behind each proof: an asked Shadow behind a new connection (`Asks`), the
  expiry task behind a Shadow that outlived its connection (`Wakes`), the poller
  behind a native status (`Polled`).

Only model-checked: the liveness properties and `OneShotPromise` (liveness under
fairness is out of the prover's reach; of `StopEnds` and `AvailabilityShown` the
safety half is proved), and the violation. That the tables of the
nineteen models are well formed is evaluated by TLC, not proved.

## 7. Not modelled

- Clock values. Deadlines are actions that may happen at any time they could;
  `MqttClient` alone counts time, because its intervals race each other.
- `NativeControl` leaves out the MQTT telemetry that runs beside the native route
  when both are configured, the cancellation of callers and reconfiguration at run
  time. Its session has outcomes where `NativeSession` has lines; what connects
  the two is `OutcomesAreTrue` and `WrittenInTurn`, not a refinement: the two count
  their callers differently.
- `Ps24118Command` leaves out cancelled callers and shutdown, which
  `CommandExchange` has for the same exchange.
- `HubLifecycle` ends with the unload. A reload begins again with a new hub, that
  is, with `Init`; what an orphaned loop does to the new hub is left out, as are the
  registration of services and of the frontend, which have no effect on the rest.
- Parameter schemas: the tables of nineteen models of about forty. The others have
  the same codecs and the same kinds of entries.
- Cloud API, config flow and proposal: one sequential caller without state shared
  with the running hub. What they leave behind is the config entry that
  `HubLifecycle` takes from `Entries`.
- Diagnostics read and redact; the commands their probes send are foreign traffic
  to the exchanges.
- Installation of the vendor's runtime, one-shot probes, frontend, translations,
  stand-alone tools: input and output outside the hub's run time.

## 8. What could follow

1. A refinement from `MqttClient` to the connected flag of `CommandExchange`.
2. A reload in `HubLifecycle`, with a loop left by the first hub.
3. The config flow's wizard with an account that changes between two steps.
