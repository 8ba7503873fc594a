-------------------------- MODULE MCGateTelemetry --------------------------
(* Small instances of GateTelemetry: two positions of the track, one of     *)
(* which lies in the closed end band.                                       *)
EXTENDS GateTelemetry

MCPercent == {3, 60}
=============================================================================
