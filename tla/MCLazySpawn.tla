---------------------------- MODULE MCLazySpawn -----------------------------
(* Instances of LazySpawn for TLC. *)
EXTENDS LazySpawn

CONSTANTS c1, c2, c3
=============================================================================
