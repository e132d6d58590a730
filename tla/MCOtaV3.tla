------------------------------ MODULE MCOtaV3 ------------------------------
(* Instances of OtaV3: images of a few chunks, two in a block. *)
EXTENDS OtaV3, TLC

Symmetry == Permutations(Ops)
=============================================================================
