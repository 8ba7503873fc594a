-------------------------- MODULE MCNativeControl --------------------------
(* Small instances of NativeControl: calls and the poll loop, and a gate    *)
(* that is closed or open, at rest or moving.                               *)
EXTENDS NativeControl, TLC

CONSTANTS c1, c2, c3

MCPercent == {0, 100}
Stuck     == {0}   \* a gate that does not move, to look at the locks alone

StopThenOpen  == c1 :> "STOP" @@ c2 :> "FULL OPEN"
StopOpenOpen  == StopThenOpen @@ c3 :> "FULL OPEN"

CoverAndTest  == c1 :> "cover" @@ c2 :> "test"
CoverTestCover == CoverAndTest @@ c3 :> "cover"
=============================================================================
