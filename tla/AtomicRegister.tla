--------------------------- MODULE AtomicRegister ---------------------------
(***************************************************************************)
(* What the users of the OTA v3 checkpoint journal rely on: one register.  *)
(* A write that reports success has taken effect; one that reports         *)
(* failure, or is cut off by a reset, may have taken effect or not.        *)
(***************************************************************************)
CONSTANTS
  Values,    \* what can be written
  Initial,   \* the first content
  Idle       \* no write is under way

VARIABLES
  value,     \* the content
  writing,   \* the value being written, or Idle
  result     \* how the last write ended

vars == <<value, writing, result>>

Init == value = Initial /\ writing = Idle /\ result = "none"

Start(v) ==
  /\ writing = Idle
  /\ writing' = v
  /\ UNCHANGED <<value, result>>

Succeed ==
  /\ writing # Idle
  /\ value' = writing
  /\ writing' = Idle
  /\ result' = "ok"

Fail ==
  /\ writing # Idle
  /\ value' \in {value, writing}
  /\ writing' = Idle
  /\ result' = "failed"

Next == (\E v \in Values : Start(v)) \/ Succeed \/ Fail

Spec == Init /\ [][Next]_vars
=============================================================================
