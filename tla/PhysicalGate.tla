---------------------------- MODULE PhysicalGate ----------------------------
(***************************************************************************)
(* The gate itself, as far as telemetry tells of it: a position on a track *)
(* and a motion.  It is the environment of every module that extends this  *)
(* one; its remote control and its own app move it as well as the hub.     *)
(***************************************************************************)
EXTENDS GateState

\* The positions of the track.
Travel == { p \in Percent : p <= 100 }

Gates == [position : Travel, motion : Movements]

GatesAtRest == { g \in Gates : g.motion = "none" }

\* Whether q is the next position from p in a direction.
Adjacent(p, q, direction) ==
  /\ Toward(p, q) = direction
  /\ \A r \in Travel : ~(p < r /\ r < q) /\ ~(q < r /\ r < p)

AtEnd(p, direction) ==
  \/ direction = "opening" /\ \A q \in Travel : q <= p
  \/ direction = "closing" /\ \A q \in Travel : q >= p

\* The gate after an instruction to move in a direction, or to stop ("none"):
\* one that stands at the end of that direction stays as it is.
Steered(g, direction) ==
  IF direction = "none" \/ ~AtEnd(g.position, direction)
  THEN [g EXCEPT !.motion = direction] ELSE g

\* The gate at its next position, where it may have arrived.
Advanced(g) ==
  { [position |-> p, motion |-> IF AtEnd(p, g.motion) THEN "none" ELSE g.motion] :
      p \in { q \in Travel : g.motion # "none" /\ Adjacent(g.position, q, g.motion) } }

\* What an exact status frame says of the gate; the direction bit of a gate
\* that stands still is whatever the motor did last and is never used.
Snapshot(g) == [position  |-> g.position,
                operating |-> IF g.motion = "none" THEN "no" ELSE "yes",
                direction |-> IF g.motion = "none" THEN "opening" ELSE g.motion]

\* The hub shows the gate as it is.
Shows(hub, g) == /\ hub.position = Normalize(g.position)
                 /\ hub.movement = "none"
                 /\ hub.operating = "no"
                 /\ ~hub.pedAssumed

=============================================================================
