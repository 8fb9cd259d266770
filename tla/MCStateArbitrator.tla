--------------------------- MODULE MCStateArbitrator ------------------------
(* Instance of StateArbitrator for TLC: two handlers in one compartment, a   *)
(* reader and one that reads or writes, and one in another that does either. *)
EXTENDS StateArbitrator

CONSTANTS pa, pb, a1, a2, b1

MCHome == [h \in Handlers |-> IF h = b1 THEN pb ELSE pa]
MCModes ==
  [h \in Handlers |-> IF h = a1 THEN {"shared", "exclusive", "none"}
                      ELSE IF h = a2 THEN {"shared"} ELSE {"shared", "exclusive"}]
=============================================================================
