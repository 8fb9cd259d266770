---------------------------- MODULE MCJournalFold ---------------------------
(* Instances of JournalFold for TLC: two or three mutations of an app, each *)
(* with its journal row.                                                    *)
EXTENDS JournalFold, TLC

CONSTANTS law, vault, app, a, b, x, ra, rb, rx

MCJournalOf == [c \in Outer |-> IF c = a THEN ra ELSE IF c = b THEN rb ELSE rx]
MCTarget == [c \in Calls |-> IF c \in {ra, rb, rx} THEN vault ELSE app]
MCCap == [t \in Compartments |-> 2]
=============================================================================
