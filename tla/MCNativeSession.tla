---------------------------- MODULE MCNativeSession ----------------------------
(* A movement command between two status requests, the same acknowledgement. *)
EXTENDS NativeSession

CONSTANTS c1, c2, c3

TwoReadsAndOpen ==
  [c \in Callers |-> IF c = c2 THEN "OPEN" ELSE "STATUS"]
================================================================================
