-------------------------- MODULE MCRecipeRecovery --------------------------
(* Instances of RecipeRecovery for TLC: a spec and its successor under the   *)
(* same name, with another tree for the second entry.  The first tree has a *)
(* version of other code, and one that differs in its plugin.json alone: the *)
(* successor has no entry for the dependency it declares.                   *)
EXTENDS RecipeRecovery, TLC

CONSTANTS
  p, q,          \* the attempts
  MCVersions     \* of the first tree
MCSourceOf == [s \in Specs |-> IF s = "old" THEN <<"t1", "t2">> ELSE <<"t1", "t3">>]
MCVersionsOf == [t1 |-> MCVersions, t2 |-> {"d"}, t3 |-> {"f"}]
MCCode == [a |-> 1, b |-> 1, c |-> 2, d |-> 3, f |-> 4]
MCNameOf == [s \in Specs |-> "home"]
MCUnroutable == {r \in Recipe : r.of = "new" /\ r.v[1] = "b"}
MCSymmetry == Permutations(Attempts)
=============================================================================
