----------------------------- MODULE MCWatchdog -----------------------------
(* An instance of Watchdog for TLC: three compartments, two of which wedge.  *)
EXTENDS Watchdog, TLC

CONSTANTS a, b, c
MCEntries == <<a, b, c>>
=============================================================================
