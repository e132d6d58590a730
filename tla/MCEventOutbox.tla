--------------------------- MODULE MCEventOutbox ---------------------------
(* Small instances of EventOutbox for TLC.                                 *)
EXTENDS EventOutbox

\* One key is too long and is stored as the short one.
MCCut == [key \in Keys |-> IF key = "long" THEN "short" ELSE key]
=============================================================================
