------------------------------ MODULE MCVault ------------------------------
(* An instance of Vault for TLC: two ids in two namespaces, refs across them. *)
EXTENDS Vault, TLC

CONSTANTS k1, k2
MCNs == [k \in Keys |-> IF k = k1 THEN "n1" ELSE "n2"]
MCRefs == {{}, {<<k1, 1>>}}
=============================================================================
