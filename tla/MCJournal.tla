----------------------------- MODULE MCJournal -----------------------------
(* Small instances of Journal for TLC.                                     *)
EXTENDS Journal, TLC
=============================================================================
