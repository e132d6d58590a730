------------------------------ MODULE MCOtaV2 ------------------------------
(* Two images of two units and a V2 operation for each. *)
EXTENDS OtaV2

CONSTANTS a, b, op1, op2

MCImages == {a, b}
MCOps == {op1, op2}
MCImageOf == [o \in MCOps |-> IF o = op1 THEN a ELSE b]
MCSize == [m \in MCImages |-> 2]
=============================================================================
