------------------------ MODULE ParameterTransaction ------------------------
(***************************************************************************)
(* The controller's parameters are one frame of fields.  The hub reads the *)
(* whole frame, and changes one field by reading the frame, writing it     *)
(* back with that field replaced, and reading it again to verify.  Writers *)
(* are calls of async_set_parameter; Loop is the periodic refresh.  All    *)
(* take the transaction lock for their exchanges.                          *)
(*                                                                         *)
(* Requests and answers keep their order on the connection, but an answer  *)
(* bears no request's name: one that comes after its timeout answers the   *)
(* next exchange that expects its kind.  The gate and another client (the  *)
(* vendor's app) are the environment.                                      *)
(***************************************************************************)
EXTENDS Naturals, Sequences

CONSTANTS
  Writers,     \* the calls of async_set_parameter
  Loop,        \* the refresh
  Nobody,      \* the holder of a free lock
  Index,       \* the fields of a frame
  Value,       \* what a field may hold
  Encodable,   \* the values the wire format has room for
  Editable,    \* the fields the schema lets a user change
  Asked,       \* what each writer asks for: [index, value]
  Profiles,    \* the profiles the hub may have
  Origins,     \* the frames the gate may begin with
  Others,      \* the frames the other client writes
  NoFrame,     \* no parameters are shown yet
  MaxFaults,   \* bound: lost, late and garbled messages, refusals, broken connections
  MaxForeign   \* bound: writes and reads of the other client

Clients == Writers \cup {Loop}
Frame   == [Index -> Value]

\* How a profile verifies a write ("field": the field it asked for, "full": the
\* whole frame), whether the answers come over MQTT, where every frame that passes
\* is shown, how it reads a field of two digits, and whether it wants a fresh
\* native status of a gate at rest.
Profile == [verify  : {"field", "full"}, mqtt : BOOLEAN,
            codec   : {"exact", "uart0"}, guarded : BOOLEAN]
LegacyPath   == [verify |-> "field", mqtt |-> TRUE,  codec |-> "exact", guarded |-> FALSE]
Ps25007aPath == [LegacyPath EXCEPT !.verify = "full"]
Ps17062Path  == [LegacyPath EXCEPT !.mqtt = FALSE, !.codec = "uart0", !.guarded = TRUE]
Ps22027Path  == [LegacyPath EXCEPT !.verify = "full"]
Ps19001Path  == [LegacyPath EXCEPT !.verify = "full", !.mqtt = FALSE]
Ps21050Path(alias) == [LegacyPath EXCEPT !.verify = IF alias = "C" THEN "full" ELSE "field"]
Ps22087bPath == [LegacyPath EXCEPT !.verify = "full"]

ASSUME ClientsAssumption == Loop \notin Writers /\ Nobody \notin Clients
ASSUME AskedAssumption   == Asked \in [Writers -> [index : Index, value : Value]]
ASSUME ProfilesAssumption == Profiles \subseteq Profile
ASSUME ValueAssumption ==
  /\ Value \subseteq 0..255
  /\ \A v \in Value : (v \div 16 < 10 /\ (v % 16) < 10) => (10 * (v \div 16)) + (v % 16) \in Value
ASSUME SetsAssumption == Encodable \subseteq Value /\ Editable \subseteq Index
                        /\ Origins \subseteq Frame /\ Others \subseteq Frame
ASSUME NoFrameAssumption == NoFrame \notin Frame
ASSUME BoundsAssumption  == MaxFaults \in Nat /\ MaxForeign \in Nat

VARIABLES
  profile,     \* the hub's profile
  pc,          \* where each client is
  queue,       \* the clients waiting for the transaction lock
  holder,      \* the one that holds it
  answer,      \* the state of the holder's future
  base,        \* what the holder read, then what it writes
  shown,       \* self.parameters
  ready,       \* the native status is fresh and the gate at rest
  connected,   \* the connection to the gate
  requests,    \* to the gate
  answers,     \* to the hub
  gate,        \* the controller's frame
  shadow,      \* the frame the device last reported to its Shadow
  faults, foreign,
  origin,      \* history: the gate's frame at the beginning
  tampered     \* history: the other client has written

hubVars == <<pc, queue, holder, answer, base, shown>>
netVars == <<connected, requests, answers>>
historyVars == <<origin, tampered>>
envVars == <<ready, gate, shadow, faults, foreign, historyVars>>
vars == <<profile, hubVars, netVars, envVars>>

Stages  == {"idle", "queued", "reading", "writing", "verifying", "done", "failed", "dead"}
Request == [type : {"RP"}] \cup [type : {"WP"}, frame : Frame]
Answer  == [type : {"frame"}, frame : Frame] \cup [type : {"garbled", "ack", "nak"}]
Outcome == [type : {"pending", "down"}] \cup Answer

TypeOK ==
  /\ profile \in Profiles
  /\ pc \in [Clients -> Stages]
  /\ queue \in Seq(Clients)
  /\ holder \in Clients \cup {Nobody}
  /\ answer \in Outcome
  /\ base \in Frame \cup {NoFrame}
  /\ shown \in Frame \cup {NoFrame}
  /\ ready \in BOOLEAN /\ connected \in BOOLEAN
  /\ requests \in Seq(Request)
  /\ answers \in Seq(Answer)
  /\ gate \in Frame /\ shadow \in Frame
  /\ faults \in 0..MaxFaults /\ foreign \in 0..MaxForeign
  /\ origin \in Frame /\ tampered \in BOOLEAN

Pending == [type |-> "pending"]

Init ==
  /\ profile \in Profiles
  /\ pc = [c \in Clients |-> "idle"]
  /\ queue = <<>>
  /\ holder = Nobody
  /\ answer = Pending
  /\ gate \in Origins
  /\ base = NoFrame
  /\ shown = NoFrame
  /\ ready = TRUE /\ connected = TRUE
  /\ requests = <<>> /\ answers = <<>>
  /\ shadow = gate
  /\ faults = 0 /\ foreign = 0
  /\ origin = gate
  /\ tampered = FALSE

----------------------------------------------------------------------------
(***************************************************************************)
(* The codec                                                               *)
(***************************************************************************)

\* _parse_wire_value of a UART0 model: a field goes out as two hexadecimal digits
\* and comes back as a decimal number when both happen to be decimal digits.
Uart0ReadsBack(v) == IF v \div 16 < 10 /\ (v % 16) < 10 THEN (10 * (v \div 16)) + (v % 16) ELSE v

ReadsBack(v) == IF profile.codec = "uart0" THEN Uart0ReadsBack(v) ELSE v
Decoded(frame) == [i \in Index |-> ReadsBack(frame[i])]

----------------------------------------------------------------------------
(***************************************************************************)
(* The transaction                                                         *)
(***************************************************************************)

Allowed(c) == /\ profile.guarded => ready
              /\ Asked[c].index \in Editable

\* async_set_parameter is refused or queues for the lock.
Ask(c) ==
  /\ c \in Writers
  /\ pc[c] = "idle"
  /\ IF Allowed(c)
     THEN pc' = [pc EXCEPT ![c] = "queued"] /\ queue' = Append(queue, c)
     ELSE pc' = [pc EXCEPT ![c] = "failed"] /\ UNCHANGED queue
  /\ UNCHANGED <<profile, holder, answer, base, shown, netVars, envVars>>

\* The refresh loop wakes up while the hub is available.
Wakes ==
  /\ pc[Loop] = "idle"
  /\ connected
  /\ pc' = [pc EXCEPT ![Loop] = "queued"]
  /\ queue' = Append(queue, Loop)
  /\ UNCHANGED <<profile, holder, answer, base, shown, netVars, envVars>>

\* The end of a transaction: the lock is released, and the loop sleeps again.
Ends(c, stage) ==
  /\ pc' = [pc EXCEPT ![c] = IF c = Loop /\ stage # "dead" THEN "idle" ELSE stage]
  /\ holder' = Nobody
  /\ answer' = Pending
  /\ base' = NoFrame

Fault == faults < MaxFaults /\ faults' = faults + 1

\* The next exchange of the transaction: at most one publish, no retry.  It
\* raises where the connection is found down or the publish fails.
Exchange(c, stage, request, frame) ==
  \/ /\ connected
     /\ pc' = [pc EXCEPT ![c] = stage]
     /\ holder' = c
     /\ requests' = Append(requests, request)
     /\ answer' = Pending
     /\ base' = frame
  \/ /\ ~connected
     /\ Ends(c, "failed")
     /\ UNCHANGED requests

\* drain() raises a ConnectionResetError, which is no TmtCommandError: the refresh
\* loop catches only those and ends for good.
DrainBreaks(c) ==
  /\ holder = c
  /\ profile.mqtt
  /\ answer = Pending
  /\ Fault
  /\ Ends(c, IF c = Loop THEN "dead" ELSE "failed")
  /\ UNCHANGED <<profile, queue, shown, netVars, ready, gate, shadow, foreign, historyVars>>

Acquire(c) ==
  /\ holder = Nobody
  /\ queue # <<>> /\ c = Head(queue)
  /\ queue' = Tail(queue)
  /\ Exchange(c, "reading", [type |-> "RP"], NoFrame)
  /\ UNCHANGED <<profile, shown, connected, answers, envVars>>

\* A faulty replacement, counting the fields from 0.
ReplacedOffByOne(frame, c) ==
  [frame EXCEPT ![IF Asked[c].index + 1 \in Index THEN Asked[c].index + 1 ELSE 1] = Asked[c].value]

Replaced(frame, c) == [frame EXCEPT ![Asked[c].index] = Asked[c].value]

\* A faulty update, which takes the shown parameters for those of the gate.
WriteShown(c) ==
  /\ holder = c /\ c \in Writers
  /\ pc[c] = "reading" /\ answer.type = "frame"
  /\ LET frame == Replaced(IF shown = NoFrame THEN Decoded(answer.frame) ELSE shown, c)
     IN  IF Asked[c].value \in Encodable
         THEN Exchange(c, "writing", [type |-> "WP", frame |-> frame], frame)
         ELSE Ends(c, "failed") /\ UNCHANGED requests
  /\ UNCHANGED <<profile, queue, shown, connected, answers, envVars>>

\* The frame was read: the field is replaced and the frame written whole.
WriteFrame(c) ==
  /\ holder = c /\ c \in Writers
  /\ pc[c] = "reading" /\ answer.type = "frame"
  /\ LET frame == Replaced(Decoded(answer.frame), c)
     IN  IF Asked[c].value \in Encodable
         THEN Exchange(c, "writing", [type |-> "WP", frame |-> frame], frame)
         ELSE Ends(c, "failed") /\ UNCHANGED requests
  /\ UNCHANGED <<profile, queue, shown, connected, answers, envVars>>

ReadBack(c) ==
  /\ holder = c
  /\ pc[c] = "writing" /\ answer.type = "ack"
  /\ Exchange(c, "verifying", [type |-> "RP"], base)
  /\ UNCHANGED <<profile, queue, shown, connected, answers, envVars>>

Verified(c, frame) == IF profile.verify = "full"
                      THEN frame = base
                      ELSE frame[Asked[c].index] = Asked[c].value

\* The caller runs again with the frame it verified, which it shows whatever
\* has been shown since; or the verification fails.
Verify(c) ==
  /\ holder = c
  /\ pc[c] = "verifying" /\ answer.type = "frame"
  /\ LET frame == Decoded(answer.frame)
     IN  IF Verified(c, frame)
         THEN Ends(c, "done") /\ shown' = frame
         ELSE Ends(c, "failed") /\ UNCHANGED shown
  /\ UNCHANGED <<profile, queue, netVars, envVars>>

\* A faulty refresh, which keeps what is shown already.
RefreshedOnce ==
  /\ holder = Loop
  /\ answer.type = "frame"
  /\ shown' = IF shown = NoFrame THEN Decoded(answer.frame) ELSE shown
  /\ Ends(Loop, "idle")
  /\ UNCHANGED <<profile, queue, netVars, envVars>>

Refreshed ==
  /\ holder = Loop
  /\ answer.type = "frame"
  /\ shown' = Decoded(answer.frame)
  /\ Ends(Loop, "idle")
  /\ UNCHANGED <<profile, queue, netVars, envVars>>

\* A faulty exit, which keeps the lock.
ExchangeFailsLocked(c) ==
  /\ holder = c
  /\ answer.type \in {"nak", "down", "garbled"}
  /\ pc' = [pc EXCEPT ![c] = IF c = Loop THEN "idle" ELSE "failed"]
  /\ UNCHANGED <<profile, queue, holder, answer, base, shown, netVars, envVars>>

\* A rejection, a lost connection or an answer that cannot be decoded.
ExchangeFails(c) ==
  /\ holder = c
  /\ answer.type \in {"nak", "down", "garbled"}
  /\ Ends(c, "failed")
  /\ UNCHANGED <<profile, queue, shown, netVars, envVars>>

\* The 10 s are over: nothing comes any more, or the answer is late, or it has
\* arrived and the caller has not run.
Timeout(c) ==
  /\ holder = c
  /\ IF answer = Pending /\ requests = <<>> /\ answers = <<>>
     THEN UNCHANGED faults
     ELSE Fault
  /\ Ends(c, "failed")
  /\ UNCHANGED <<profile, queue, shown, netVars, ready, gate, shadow, foreign, historyVars>>

----------------------------------------------------------------------------
(***************************************************************************)
(* Answers                                                                 *)
(***************************************************************************)

Expects(m) == /\ holder # Nobody
              /\ answer = Pending
              /\ \/ m.type = "nak"
                 \/ m.type = "ack" /\ pc[holder] = "writing"
                 \/ m.type \in {"frame", "garbled"} /\ pc[holder] \in {"reading", "verifying"}

\* A faulty delivery, which shows what could not be decoded.
DeliverUnchecked ==
  /\ answers # <<>>
  /\ answers' = Tail(answers)
  /\ LET m == Head(answers)
     IN  /\ shown' = IF ~profile.mqtt THEN shown
                     ELSE IF m.type = "frame" THEN Decoded(m.frame) ELSE m
         /\ answer' = IF Expects(m) THEN m ELSE answer
  /\ UNCHANGED <<profile, pc, queue, holder, base, connected, requests, envVars>>

\* Any frame that can be decoded is shown, and resolves the future if it expects
\* a frame.  A rejection resolves any.
Deliver ==
  /\ answers # <<>>
  /\ answers' = Tail(answers)
  /\ LET m == Head(answers)
     IN  /\ shown' = IF profile.mqtt /\ m.type = "frame" THEN Decoded(m.frame) ELSE shown
         /\ answer' = IF Expects(m) THEN m ELSE answer
  /\ UNCHANGED <<profile, pc, queue, holder, base, connected, requests, envVars>>

\* "dev param" of a Shadow document: as old as the device's last report.
ShadowArrives ==
  /\ profile.mqtt /\ connected
  /\ shown' = Decoded(shadow)
  /\ UNCHANGED <<profile, pc, queue, holder, answer, base, netVars, envVars>>

----------------------------------------------------------------------------
(***************************************************************************)
(* The environment                                                         *)
(***************************************************************************)

\* The gate takes the next request and answers.
GateServes ==
  /\ requests # <<>>
  /\ requests' = Tail(requests)
  /\ LET r == Head(requests)
     IN  \/ /\ r.type = "RP"
            /\ answers' = Append(answers, [type |-> "frame", frame |-> gate])
            /\ UNCHANGED <<gate, faults>>
         \/ /\ r.type = "WP"
            /\ gate' = r.frame
            /\ answers' = Append(answers, [type |-> "ack"])
            /\ UNCHANGED faults
         \/ /\ Fault
            /\ answers' = Append(answers, [type |-> "nak"])
            /\ UNCHANGED gate
  /\ UNCHANGED <<profile, hubVars, connected, ready, shadow, foreign, historyVars>>

LoseRequest ==
  /\ Fault
  /\ requests # <<>>
  /\ requests' = Tail(requests)
  /\ UNCHANGED <<profile, hubVars, connected, answers, ready, gate, shadow, foreign, historyVars>>

LoseAnswer ==
  /\ Fault
  /\ answers # <<>>
  /\ \/ answers' = Tail(answers)
     \/ /\ Head(answers).type = "frame"
        /\ answers' = [answers EXCEPT ![1] = [type |-> "garbled"]]
  /\ UNCHANGED <<profile, hubVars, connected, requests, ready, gate, shadow, foreign, historyVars>>

\* The connection breaks: the waiter fails, and what was under way is gone.
Disconnect ==
  /\ Fault
  /\ connected
  /\ connected' = FALSE
  /\ requests' = <<>> /\ answers' = <<>>
  /\ answer' = IF holder # Nobody /\ answer = Pending THEN [type |-> "down"] ELSE answer
  /\ UNCHANGED <<profile, pc, queue, holder, base, shown, ready, gate, shadow, foreign, historyVars>>

Reconnect ==
  /\ ~connected
  /\ connected' = TRUE
  /\ UNCHANGED <<profile, hubVars, requests, answers, envVars>>

Report ==
  /\ shadow # gate
  /\ shadow' = gate
  /\ UNCHANGED <<profile, hubVars, netVars, ready, gate, faults, foreign, historyVars>>

\* The app writes or reads: over MQTT the hub hears the gate's answer to it.
ForeignClient ==
  /\ foreign < MaxForeign
  /\ foreign' = foreign + 1
  /\ \/ /\ \E f \in Others : gate' = f
        /\ tampered' = TRUE
        /\ answers' = IF profile.mqtt /\ connected
                      THEN Append(answers, [type |-> "ack"]) ELSE answers
     \/ /\ profile.mqtt /\ connected
        /\ answers' = Append(answers, [type |-> "frame", frame |-> gate])
        /\ UNCHANGED <<gate, tampered>>
  /\ UNCHANGED <<profile, hubVars, connected, requests, ready, shadow, faults, origin>>

\* The gate starts or stops, or its native status grows old.
ReadyChanges ==
  /\ profile.guarded
  /\ ready' = ~ready
  /\ UNCHANGED <<profile, hubVars, netVars, gate, shadow, faults, foreign, historyVars>>

Resume(c) == \/ WriteFrame(c) \/ ReadBack(c) \/ Verify(c) \/ (c = Loop /\ Refreshed)
             \/ ExchangeFails(c)

Next ==
  \/ \E c \in Clients : Ask(c) \/ Acquire(c) \/ Resume(c) \/ Timeout(c) \/ DrainBreaks(c)
  \/ Wakes \/ Deliver \/ ShadowArrives
  \/ GateServes \/ LoseRequest \/ LoseAnswer \/ Disconnect \/ Reconnect \/ Report
  \/ ForeignClient \/ ReadyChanges

\* The event loop takes up what is ready, the loop's pause ends, the connection is
\* made again, the gate answers what it is asked, and reports to its Shadow.
Fairness ==
  /\ WF_vars(\E c \in Clients : Acquire(c))
  /\ \A c \in Clients : WF_vars(Resume(c) \/ Timeout(c))
  /\ WF_vars(Wakes) /\ WF_vars(Deliver)
  /\ WF_vars(GateServes) /\ WF_vars(Reconnect) /\ WF_vars(Report)

SafetySpec == Init /\ [][Next]_vars
Spec == SafetySpec /\ Fairness

----------------------------------------------------------------------------
(***************************************************************************)
(* Properties                                                              *)
(***************************************************************************)

AskedFields == { Asked[c].index : c \in Writers }
Alone(c)    == \A d \in Writers \ {c} : Asked[d].index # Asked[c].index

\* No update is lost: whatever was rejected, lost or late before, the gate has what
\* every call that ended well asked for, as long as no other client writes and the
\* calls ask for different fields.  (The frames other calls write still hold it.)
NoLostUpdate ==
  ~tampered => \A c \in Writers : (pc[c] = "done" /\ Alone(c)) =>
                 gate[Asked[c].index] = Asked[c].value

\* A write of the whole frame changes only the fields a call asked for.
UntouchedFields == ~tampered => \A i \in Index \ AskedFields : gate[i] = origin[i]

\* "prevents a model-specific packing mismatch from being accepted silently"
\* (hub.py, async_set_parameter): where a call ended well, only the fields that
\* were asked for have changed.
AcceptedIsClean == (\E c \in Writers : pc[c] = "done") => UntouchedFields

\* Every call ends, well or with an error.
WritersEnd == \A c \in Writers : pc[c] = "queued" ~> pc[c] \in {"done", "failed"}

\* The entities come to show what the gate has, after failed writes, lost answers,
\* writes of another client and old Shadow documents, while the refresh loop lives.
ShownConverges == []<>(pc[Loop] = "dead" \/ shown = Decoded(gate))

=============================================================================
