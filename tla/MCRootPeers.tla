---------------------------- MODULE MCRootPeers -----------------------------
(* A small instance of RootPeers for TLC.                                  *)
EXTENDS RootPeers
=============================================================================
