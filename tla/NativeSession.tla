----------------------------- MODULE NativeSession -----------------------------
(***************************************************************************)
(* OuranosNativeSession (ouranos_native_session.py) and the helper process *)
(* it owns (tools/ouranos_glibc_session_helper.c): the session's lock, the *)
(* start of a helper, one exchange of a line each way, the stop that ends  *)
(* with a kill, and callers that may be cancelled wherever they wait.      *)
(*                                                                         *)
(* A helper is named by the caller that started it: a call starts at most  *)
(* one.  A line is the exchange it belongs to and what the helper reports  *)
(* of it; a request and its answer on the wire are named by their caller.  *)
(***************************************************************************)
EXTENDS Integers, Sequences

CONSTANTS Callers,     \* calls of an exchange, each made once
          Stopper,     \* the call of async_stop
          Nobody,
          Requested,    \* Callers -> the command of the request
          MaxFailures,   \* failures of the helper, the library and the gate
          MaxCancels   \* cancelled calls

ASSUME NamesAssumption ==
  /\ Stopper \notin Callers /\ Nobody \notin Callers \cup {Stopper}
  /\ "QUIT" \notin Callers
ASSUME FailuresAssumption == MaxFailures \in Nat /\ MaxCancels \in Nat

(* The fixed commands of the helper, and the acknowledgement each expects. *)
Acknowledgement ==
  [STATUS |-> "ACK STATUS", STATUS_RS |-> "ACK RS", OPEN |-> "ACK FULL OPEN",
   CLOSE |-> "ACK FULL CLOSE", STOP |-> "ACK STOP", PED |-> "ACK PED OPEN",
   PARAM_READ |-> "ACK READ FUNCTION", PARAM_READ_V3 |-> "ACK RP",
   PARAM_WRITE |-> "ACK FUNCTION", PARAM_WRITE_PS17062 |-> "ACK FUNCTION",
   PARAM_WRITE_V3 |-> "ACK WP"]

ASSUME RequestsAssumption == Requested \in [Callers -> DOMAIN Acknowledgement]

Users == Callers \cup {Stopper}

VARIABLES
  queue,   \* the asyncio.Lock: its holder and those who wait for it, in order
  phase,   \* where each client's call is
  outcome,  \* what it will return, once known
  process, \* _process: the helper the session uses, or Nobody
  ending,  \* the helper each client's _async_stop_unlocked waits for
  helper,  \* state of each helper process
  stdin, stdout, \* its pipes
  serving, \* the request it is carrying out
  wire,    \* answers on their way over its RDT channel
  written, \* how often each caller's request was written to the gate
  failures, cancels

calls == <<queue, phase, outcome, process, ending>>
helpers == <<helper, stdin, stdout, serving, wire, written>>
sessionVars == <<calls, helpers, failures, cancels>>

Alive(h) == helper[h] \notin {"absent", "exited"}
Connected == process # Nobody /\ Alive(process)
Holds(c) == queue # <<>> /\ Head(queue) = c
Line == [event : {"ready"}, ok : BOOLEAN]
        \cup [event : {"answer"}, of : Callers,
              received : BOOLEAN, sent : BOOLEAN, alive : BOOLEAN]
Answer == [of : Callers, refused : BOOLEAN]

SessionInit ==
  /\ queue = <<>> /\ process = Nobody
  /\ phase = [c \in Users |-> "idle"] /\ outcome = [c \in Users |-> "none"]
  /\ ending = [c \in Users |-> Nobody]
  /\ helper = [h \in Callers |-> "absent"]
  /\ stdin = [h \in Callers |-> <<>>] /\ stdout = [h \in Callers |-> <<>>]
  /\ serving = [h \in Callers |-> Nobody] /\ wire = [h \in Callers |-> <<>>]
  /\ written = [c \in Callers |-> 0]
  /\ failures = 0 /\ cancels = 0

Fault == failures < MaxFailures /\ failures' = failures + 1 /\ UNCHANGED cancels
NoFault == UNCHANGED <<failures, cancels>>

(* The end of a helper: what it had not read yet is lost. *)
Gone(h) ==
  /\ helper' = [helper EXCEPT ![h] = "exited"]
  /\ stdin' = [stdin EXCEPT ![h] = <<>>]
  /\ serving' = [serving EXCEPT ![h] = Nobody]
  /\ wire' = [wire EXCEPT ![h] = <<>>]

-----------------------------------------------------------------------------
(* The session (ouranos_native_session.py)                                  *)

Without(s, c) ==
  LET k == CHOOSE i \in DOMAIN s : s[i] = c
  IN  SubSeq(s, 1, k - 1) \o SubSeq(s, k + 1, Len(s))

(* A call returns: the lock goes to the next in line. *)
Return(c, how) ==
  /\ phase' = [phase EXCEPT ![c] = "returned"]
  /\ outcome' = [outcome EXCEPT ![c] = how]
  /\ queue' = Without(queue, c)

(* _async_stop_unlocked: the session lets go of its helper, and if that is  *)
(* running (its exit may not have been noticed) asks it to quit and waits;  *)
(* the call returns at once otherwise.                                      *)
StopHelper(c, how) ==
  /\ process' = Nobody
  /\ IF Connected
     THEN /\ stdin' = [stdin EXCEPT ![process] = Append(@, "QUIT")]
          /\ ending' = [ending EXCEPT ![c] = process]
          /\ phase' = [phase EXCEPT ![c] = "stopping"]
          /\ outcome' = [outcome EXCEPT ![c] = how]
          /\ UNCHANGED <<queue, stdout>>
     ELSE /\ Return(c, how) /\ UNCHANGED <<stdin, ending>>
          /\ stdout' = [h \in Callers |-> IF h = process THEN <<>> ELSE stdout[h]]
  /\ UNCHANGED <<helper, serving, wire, written>>

Call(c) ==
  /\ phase[c] = "idle"
  /\ phase' = [phase EXCEPT ![c] = "queued"]
  /\ queue' = Append(queue, c)
  /\ UNCHANGED <<outcome, process, ending, helpers>> /\ NoFault

(* The request goes down the pipe and its line is waited for. *)
Send(c) ==
  /\ phase' = [phase EXCEPT ![c] = "waiting"]
  /\ stdin' = [stdin EXCEPT ![process] = Append(@, c)]
  /\ UNCHANGED <<queue, outcome, process, ending, helper, stdout, serving, wire, written>>

(* A helper that is running is used again; even one that has just exited,   *)
(* as long as its exit was not noticed.                                     *)
UseAgain(c) ==
  /\ phase[c] = "queued" /\ c \in Callers /\ Holds(c)
  /\ process # Nobody
  /\ Send(c) /\ NoFault

(* No helper, or one whose exit was noticed: a new one is started. *)
StartHelper(c) ==
  /\ phase[c] = "queued" /\ c \in Callers /\ Holds(c)
  /\ ~Connected
  /\ process' = c
  /\ helper' = [helper EXCEPT ![c] = "connecting"]
  /\ phase' = [phase EXCEPT ![c] = "starting"]
  /\ UNCHANGED <<queue, outcome, ending, stdin, stdout, serving, wire, written>> /\ NoFault

(* The runtime is not installed, or the process cannot be created: nothing  *)
(* was started.                                                             *)
StartRefused(c) ==
  /\ phase[c] = "queued" /\ c \in Callers /\ Holds(c)
  /\ ~Connected
  /\ process' = Nobody
  /\ Return(c, "failed")
  /\ UNCHANGED <<ending, helpers>> /\ Fault

(* The helper's first line; anything but "connected" stops it again. *)
Ready(c) ==
  /\ phase[c] = "starting" /\ stdout[process] # <<>>
  /\ IF Head(stdout[process]) = [event |-> "ready", ok |-> TRUE]
     THEN /\ phase' = [phase EXCEPT ![c] = "waiting"]
          /\ stdin' = [stdin EXCEPT ![process] = Append(@, c)]
          /\ stdout' = [stdout EXCEPT ![process] = Tail(@)]
          /\ UNCHANGED <<queue, outcome, process, ending, helper, serving, wire, written>>
     ELSE StopHelper(c, "failed")
  /\ NoFault

OutcomeOf(line) ==
  IF line.received THEN "received" ELSE IF line.sent THEN "sent" ELSE "failed"

(* The line of the exchange; a helper that reports its transport dead is    *)
(* stopped before the call returns, one that answers out of turn as well.   *)
TakeLine(c) ==
  /\ phase[c] = "waiting" /\ stdout[process] # <<>>
  /\ LET line == Head(stdout[process])
     IN IF line.event # "answer" THEN StopHelper(c, "failed")
        ELSE IF ~line.alive THEN StopHelper(c, OutcomeOf(line))
        ELSE /\ Return(c, OutcomeOf(line))
             /\ stdout' = [stdout EXCEPT ![process] = Tail(@)]
             /\ UNCHANGED <<process, ending, helper, stdin, serving, wire, written>>
  /\ NoFault

(* The helper is gone: end of file on its output, or a broken pipe. *)
EndOfFile(c) ==
  /\ phase[c] \in {"starting", "waiting"}
  /\ ~Alive(process) /\ stdout[process] = <<>>
  /\ StopHelper(c, "failed") /\ NoFault

(* Mutant: the answer of a timed out exchange may still come. *)
TimesOutKeepsHelper(c) ==
  /\ phase[c] \in {"starting", "waiting"}
  /\ IF phase[c] = "waiting"
     THEN Return(c, "failed") /\ UNCHANGED <<process, ending, helpers>>
     ELSE StopHelper(c, "failed")
  /\ NoFault

(* Mutant: only the connection is given a limit. *)
TimesOutStarting(c) ==
  /\ phase[c] = "starting"
  /\ StopHelper(c, "failed") /\ NoFault

(* 40 s for the connection, 8 s for an exchange: the helper is stopped. *)
TimesOut(c) ==
  /\ phase[c] \in {"starting", "waiting"}
  /\ StopHelper(c, "failed") /\ NoFault

Exited(c) ==
  /\ phase[c] = "stopping" /\ ~Alive(ending[c])
  /\ Return(c, outcome[c])
  /\ ending' = [ending EXCEPT ![c] = Nobody]
  /\ stdout' = [stdout EXCEPT ![ending[c]] = <<>>]
  /\ UNCHANGED <<process, helper, stdin, serving, wire, written>> /\ NoFault

(* Mutant: the helper that does not quit in time is left to itself. *)
Abandon(c) ==
  /\ phase[c] = "stopping"
  /\ Return(c, outcome[c])
  /\ ending' = [ending EXCEPT ![c] = Nobody]
  /\ UNCHANGED <<process, helpers>> /\ NoFault

(* The helper did not quit in 6 s. *)
Kill(c) ==
  /\ phase[c] = "stopping"
  /\ Gone(ending[c])
  /\ stdout' = [stdout EXCEPT ![ending[c]] = <<>>]
  /\ Return(c, outcome[c])
  /\ ending' = [ending EXCEPT ![c] = Nobody]
  /\ UNCHANGED <<process, written>> /\ NoFault

(* async_stop has the lock. *)
Stop ==
  /\ phase[Stopper] = "queued" /\ Holds(Stopper)
  /\ StopHelper(Stopper, "stopped") /\ NoFault

(* A caller is cancelled: in the queue it leaves; in an exchange it stops   *)
(* the helper first; in that stop it leaves the helper behind.              *)
Cancel(c) ==
  /\ cancels < MaxCancels /\ cancels' = cancels + 1 /\ UNCHANGED failures
  /\ \/ /\ phase[c] = "queued"
        /\ Return(c, "cancelled") /\ UNCHANGED <<process, ending, helpers>>
     \/ phase[c] \in {"starting", "waiting"} /\ StopHelper(c, "cancelled")
     \/ /\ phase[c] = "stopping"
        /\ Return(c, "cancelled")
        /\ ending' = [ending EXCEPT ![c] = Nobody]
        /\ UNCHANGED <<process, helpers>>

-----------------------------------------------------------------------------
(* The helper (ouranos_glibc_session_helper.c)                              *)

PrintLine(h, line) == stdout' = [stdout EXCEPT ![h] = Append(@, line)]

(* main up to print_ready: the libraries, the connection by UID (given up   *)
(* after 25 s), the RDT channel; a failure at any stage is reported, and    *)
(* the helper exits.                                                        *)
Connect(h) ==
  /\ helper[h] = "connecting"
  /\ \/ /\ helper' = [helper EXCEPT ![h] = "ready"] /\ NoFault
        /\ PrintLine(h, [event |-> "ready", ok |-> TRUE])
        /\ UNCHANGED <<stdin, serving, wire>>
     \/ /\ Gone(h) /\ Fault
        /\ PrintLine(h, [event |-> "ready", ok |-> FALSE])
  /\ UNCHANGED <<calls, written>>

(* The next line of the standard input: QUIT, or one of the fixed commands. *)
NextCommand(h) ==
  /\ helper[h] = "ready" /\ stdin[h] # <<>>
  /\ IF Head(stdin[h]) = "QUIT" THEN Gone(h)
     ELSE /\ helper' = [helper EXCEPT ![h] = "writing"]
          /\ serving' = [serving EXCEPT ![h] = Head(stdin[h])]
          /\ stdin' = [stdin EXCEPT ![h] = Tail(@)]
          /\ UNCHANGED wire
  /\ UNCHANGED <<calls, stdout, written>> /\ NoFault

(* The end of send_exchange: one line is printed, and a helper with a       *)
(* transport takes the next command; one without exits.                     *)
PrintAnswer(h, received, sent, alive) ==
  PrintLine(h, [event |-> "answer", of |-> serving[h],
                received |-> received, sent |-> sent, alive |-> alive])

Report(h, received) ==
  /\ PrintAnswer(h, received, TRUE, TRUE)
  /\ helper' = [helper EXCEPT ![h] = "ready"]
  /\ serving' = [serving EXCEPT ![h] = Nobody]

ReportDead(h, sent) == PrintAnswer(h, FALSE, sent, FALSE) /\ Gone(h)

(* rdt_write, which may take its time; the gate answers, refuses, or stays  *)
(* silent.                                                                  *)
RdtWrite(h) ==
  /\ helper[h] = "writing"
  /\ \/ /\ written' = [written EXCEPT ![serving[h]] = @ + 1]
        /\ helper' = [helper EXCEPT ![h] = "reading"]
        /\ \/ /\ wire' = [wire EXCEPT ![h] = Append(@, [of |-> serving[h], refused |-> FALSE])]
              /\ NoFault
           \/ /\ wire' = [wire EXCEPT ![h] = Append(@, [of |-> serving[h], refused |-> TRUE])]
              /\ Fault
           \/ UNCHANGED wire /\ Fault
        /\ UNCHANGED <<stdin, stdout, serving>>
     \/ ReportDead(h, FALSE) /\ Fault /\ UNCHANGED written
  /\ UNCHANGED calls

(* rdt_read: the expected acknowledgement, be it a late one of an earlier   *)
(* exchange, or any refusal, ends the exchange; anything else is dropped.   *)
RdtRead(h) ==
  /\ helper[h] = "reading" /\ wire[h] # <<>>
  /\ wire' = [wire EXCEPT ![h] = Tail(@)]
  /\ LET answer == Head(wire[h])
     IN IF \/ answer.refused
           \/ Acknowledgement[Requested[answer.of]] = Acknowledgement[Requested[serving[h]]]
        THEN Report(h, TRUE)
        ELSE UNCHANGED <<stdout, helper, serving>>
  /\ UNCHANGED <<calls, stdin, written>> /\ NoFault

(* Five seconds without the answer: what comes later stays on the wire. *)
ReadsInVain(h) ==
  /\ helper[h] = "reading"
  /\ IF wire[h] = <<>> THEN NoFault ELSE Fault
  /\ Report(h, FALSE)
  /\ UNCHANGED <<calls, stdin, wire, written>>

RdtReadFails(h) ==
  /\ helper[h] = "reading" /\ Fault
  /\ ReportDead(h, TRUE)
  /\ UNCHANGED <<calls, written>>

Crash(h) ==
  /\ Alive(h) /\ Fault
  /\ Gone(h) /\ UNCHANGED <<calls, stdout, written>>

-----------------------------------------------------------------------------
Session(c) ==
  \/ UseAgain(c) \/ StartHelper(c) \/ Ready(c) \/ TakeLine(c) \/ EndOfFile(c)
  \/ TimesOut(c) \/ Exited(c) \/ Kill(c)

Process(h) ==
  \/ Connect(h) \/ NextCommand(h) \/ RdtWrite(h) \/ RdtRead(h)
  \/ ReadsInVain(h) \/ RdtReadFails(h) \/ Crash(h)

(* Every call has come back: what is left to happen is the helpers'. *)
Rests == (\A c \in Users : phase[c] = "returned") /\ UNCHANGED sessionVars

SessionNext ==
  \/ \E c \in Users : Call(c) \/ Session(c)
  \/ \E c \in Callers : StartRefused(c) \/ Cancel(c)
  \/ Stop
  \/ \E h \in Callers : Process(h)
  \/ Rests

(* The event loop runs what is ready, the timeouts included; nothing is     *)
(* asked of the helper, which may hang wherever it is.                      *)
SessionSpec ==
  /\ SessionInit /\ [][SessionNext]_sessionVars
  /\ \A c \in Users : WF_sessionVars(Session(c)) /\ WF_sessionVars(Stop)

-----------------------------------------------------------------------------
(* Type correctness: every phase, pipe, line and answer in its range. *)
SessionTypeOK ==
  /\ queue \in Seq(Users)
  /\ phase \in [Users -> {"idle", "queued", "starting", "waiting", "stopping",
                            "returned"}]
  /\ outcome \in [Users -> {"none", "received", "sent", "failed", "cancelled",
                             "stopped"}]
  /\ process \in Callers \cup {Nobody}
  /\ ending \in [Users -> Callers \cup {Nobody}]
  /\ helper \in [Callers -> {"absent", "connecting", "ready", "writing",
                             "reading", "exited"}]
  /\ stdin \in [Callers -> Seq(Callers \cup {"QUIT"})]
  /\ stdout \in [Callers -> Seq(Line)]
  /\ serving \in [Callers -> Callers \cup {Nobody}]
  /\ wire \in [Callers -> Seq(Answer)]
  /\ written \in [Callers -> 0 .. 1]
  /\ failures \in 0 .. MaxFailures /\ cancels \in 0 .. MaxCancels

(* The line a call takes is the line of its own request, although lines     *)
(* carry no name and calls time out or are cancelled in front of their      *)
(* lines: a session never goes on with a helper that still owes one         *)
(* (_async_exchange).                                                       *)
LineIsOwn ==
  \A c \in Callers :
    phase[c] = "waiting" =>
      \A i \in 1 .. Len(stdout[process]) :
        i = 1 => stdout[process][i].event = "answer" /\ stdout[process][i].of = c

(* No request reaches the gate twice, and none does once its call has       *)
(* returned, successful or failed: a call that times out waits for the end  *)
(* of the helper that has its request.  Only a call cancelled in that wait  *)
(* leaves a helper that may still write it (_async_stop_unlocked).          *)
CommandsInTime ==
  [][\A c \in Callers :
       written'[c] # written[c] =>
         /\ written[c] = 0
         /\ phase[c] \in {"waiting", "stopping"} \/ outcome[c] = "cancelled"]_sessionVars

(* Every call comes back, whatever the helper does or does not do: it may   *)
(* hang in the connection, in a write, or before it quits.                  *)
CallsEnd == \A c \in Users : (phase[c] = "queued") ~> (phase[c] = "returned")
================================================================================
