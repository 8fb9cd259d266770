--------------------------- MODULE MCProcessBroker ---------------------------
(* An instance of ProcessBroker for TLC.                                     *)
EXTENDS ProcessBroker, TLC
=============================================================================
