----------------------------- MODULE MCLawState -----------------------------
(* An instance of LawState for TLC: two forbidden.sets of one principal, a   *)
(* reload, a grant, a retirement and a registration of it, a revocation of   *)
(* the law's own tokens.                                                     *)
EXTENDS LawState

MCGranted == [p \in Plugins |-> IF p = Law THEN {"vault"} ELSE {"law", "vault"}]
MCKind == [s1 |-> "forbidden.set", s2 |-> "forbidden.set", rl |-> "forbidden.reload",
           gr |-> "consent.grant", rt |-> "principal.retire", rg |-> "principal.register",
           tr |-> "tokens.revoke", cr |-> "consent.revoke",
           g2 |-> "consent.grant"]
MCWho == [s1 |-> "u", s2 |-> "u", rl |-> "all", gr |-> "u", rt |-> "u", rg |-> "u",
          tr |-> Law, cr |-> "u", g2 |-> "u"]
MCList == [s1 |-> "some", s2 |-> "none"]
MCMixes == {{"s1", "s2", "rl"}, {"gr", "rt", "rg"}, {"gr", "g2", "cr"}, {"s1", "gr", "tr"}}
=============================================================================
