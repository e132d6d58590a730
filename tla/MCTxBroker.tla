----------------------------- MODULE MCTxBroker -----------------------------
(* Small instances of TxBroker for TLC.                                    *)
EXTENDS TxBroker, TLC
=============================================================================
