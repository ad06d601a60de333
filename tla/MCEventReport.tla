--------------------------- MODULE MCEventReport ---------------------------
(* Instances of EventReport for TLC. *)
EXTENDS EventReport

SetupShape  == [holds |-> TRUE, stages |-> 2]
TokenShape  == [holds |-> FALSE, stages |-> 1]
StatusShape == [holds |-> FALSE, stages |-> 0]

ResetShapes == {SetupShape, TokenShape}   \* those whose handshake is reset
NoReset     == {StatusShape}
=============================================================================
