------------------------- MODULE MCCommandExchange -------------------------
(* Small instances of CommandExchange: two or three calls, a gate with two  *)
(* positions and a telemetry alphabet with a moving status, a stop status   *)
(* that may be old, and live percentages.                                   *)
EXTENDS CommandExchange, TLC

CONSTANTS c1, c2, c3

MCPercent == {0, 40}

\* Opposite motions.
CloseAndPed == c1 :> "FULL CLOSE" @@ c2 :> "PED OPEN"
OpenReadPed == c1 :> "FULL OPEN" @@ c2 :> "READ" @@ c3 :> "PED"

Status(p, o, d) == [type  |-> "status",
                    frame |-> [position |-> p, operating |-> o, direction |-> d]]
Live(p) == [type |-> "live", position |-> p]

MCFrames == {Status(40, "yes", "opening"), Status(0, "no", "closing"), Live(0), Live(40)}
=============================================================================
