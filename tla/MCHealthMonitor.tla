--------------------------- MODULE MCHealthMonitor ---------------------------
(* An instance of HealthMonitor for TLC: a compartment that fails, and one   *)
(* that others terminate.                                                    *)
EXTENDS HealthMonitor, TLC

CONSTANTS a, b
MCEntries == <<a, b>>
=============================================================================
