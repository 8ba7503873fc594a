------------------------------ MODULE OneShot ------------------------------
(***************************************************************************)
(* What the hub promises its callers about commands, whatever the network  *)
(* does: commands go out one at a time, a command goes out at most once,   *)
(* only a command that went out can be reported as successful, and every   *)
(* call ends.  CommandExchange implements it.                              *)
(***************************************************************************)
EXTENDS Naturals

CONSTANT Calls   \* the calls made on the hub, one command each

VARIABLES phase,   \* "new", "asked", "open" (its exchange is running), or the verdict
          sent     \* how often the command of a call was sent

vars == <<phase, sent>>

Verdicts == {"success", "failure"}

TypeOK == /\ phase \in [Calls -> {"new", "asked", "open"} \cup Verdicts]
          /\ sent \in [Calls -> 0..1]

Init == /\ phase = [c \in Calls |-> "new"]
        /\ sent = [c \in Calls |-> 0]

Ask(c) == /\ phase[c] = "new"
          /\ phase' = [phase EXCEPT ![c] = "asked"]
          /\ UNCHANGED sent

Refuse(c) == /\ phase[c] = "asked"
             /\ phase' = [phase EXCEPT ![c] = "failure"]
             /\ UNCHANGED sent

Open(c) == /\ phase[c] = "asked"
           /\ \A d \in Calls : phase[d] # "open"
           /\ phase' = [phase EXCEPT ![c] = "open"]
           /\ UNCHANGED sent

Send(c) == /\ phase[c] = "open"
           /\ sent[c] = 0
           /\ sent' = [sent EXCEPT ![c] = 1]
           /\ UNCHANGED phase

Close(c, verdict) == /\ phase[c] = "open"
                     /\ verdict = "success" => sent[c] = 1
                     /\ phase' = [phase EXCEPT ![c] = verdict]
                     /\ UNCHANGED sent

Next == \E c \in Calls : \/ Ask(c)
                         \/ Refuse(c)
                         \/ Open(c)
                         \/ Send(c)
                         \/ \E verdict \in Verdicts : Close(c, verdict)

\* A call that was asked is taken up or refused; an open exchange is closed.
TakenUp == \E c \in Calls : Open(c) \/ Refuse(c)
Closed(c) == \E verdict \in Verdicts : Close(c, verdict)

SafetySpec == Init /\ [][Next]_vars
Spec == /\ SafetySpec
        /\ WF_vars(TakenUp)
        /\ \A c \in Calls : WF_vars(Closed(c))

=============================================================================
