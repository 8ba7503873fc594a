------------------------ MODULE MCPs24118Command ------------------------
(* Small instances of Ps24118Command: a gate at an end, which it reports    *)
(* with a jitter of two percent.                                            *)
EXTENDS Ps24118Command, TLC

CONSTANTS c1, c2

MCPercent == {0, 2, 50, 98, 100}

OpenThenClose == c1 :> "FULL OPEN" @@ c2 :> "FULL CLOSE"

B(calls, faults, remote, polls) ==
  [calls |-> calls, faults |-> faults, remote |-> remote, polls |-> polls]
MCBudgets  == {B(2, 1, 0, 0), B(1, 0, 1, 0), B(1, 0, 0, 1), B(0, 1, 0, 1)}
=============================================================================
