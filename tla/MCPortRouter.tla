---------------------------- MODULE MCPortRouter ----------------------------
(* Instances of PortRouter for TLC. *)
EXTENDS PortRouter, TLC

CONSTANTS law, app, c1, c2, c3

\* c1 and c2 run on app behind the gate; c3 is an ungated op of the law.
MCTarget == [c \in Calls |-> IF c = c3 THEN law ELSE app]
MCCap == [t \in Compartments |-> 1]
MCDeclaresGate == {Gate(c) : c \in Calls}
=============================================================================
