----------------------------- MODULE MCRelLink -----------------------------
(* Small instances of RelLink for TLC.                                     *)
EXTENDS RelLink, TLC

RootTwo == [e \in Ends |-> IF e = "root" THEN 2 ELSE 0]
NodeOne == [e \in Ends |-> IF e = "node" THEN 1 ELSE 0]

\* Constraint: behaviours are followed as long as the session pair of the current
\* boots, or of boots to come, has sequence spaces nobody restarted: the
\* properties of these runs say nothing about the other pairs.
Fresh == \E rs \in session["root"] .. MaxBoots, ns \in session["node"] .. MaxBoots :
           rs + ns <= MaxBoots /\ <<rs, ns>> \notin tainted
=============================================================================
