----------------------- MODULE MCParameterTransaction -----------------------
(* Small instances of ParameterTransaction: two writers of different fields *)
(* of a frame of three, and all the ways the profiles verify.               *)
EXTENDS ParameterTransaction, TLC

CONSTANTS w1, w2

MCAsked == w1 :> [index |-> 1, value |-> 1] @@ w2 :> [index |-> 2, value |-> 1]

MCOrigins == {<<0, 0, 0>>}
MCOthers  == {<<0, 1, 0>>}

MCPaths == {Ps17062Path, Ps22027Path}

\* PS17062: an overcurrent field at the value 16, "10" on the wire.
MCUart0Asked == w1 :> [index |-> 1, value |-> 10]
MCUart0Path  == {Ps17062Path}
MCUart0Origins == {<<0, 16, 10>>}
=============================================================================
