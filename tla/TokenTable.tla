----------------------------- MODULE TokenTable -----------------------------
(***************************************************************************)
(* The capability-token table of host/src/ports.ts: installTokens() at      *)
(* registration and again at the lazy spawn, checkToken() on every call of  *)
(* a compartment, and host.tokens.revoke@1, scoped or revoke-all.           *)
(*                                                                         *)
(* mintTokensFor() mints one fresh token per capability of an entry, so a   *)
(* token is named by the plugin and the capability it was minted for.       *)
(***************************************************************************)
EXTENDS Naturals

CONSTANTS
  Plugins,         \* composition entries
  Caps,            \* capabilities; an op requires exactly one
  Granted,         \* Granted[p]: the capabilities of p's grant
  MaxGeneration    \* bound: revoke-all operations + 1

ASSUME TableAssumption ==
  /\ Granted \in [Plugins -> SUBSET Caps]
  /\ MaxGeneration \in Nat \ {0}

Tokens == {t \in [owner : Plugins, cap : Caps] : t.cap \in Granted[t.owner]}
Unknown == [owner |-> "nobody", cap |-> "nothing"]   \* a token never minted

VARIABLES
  installed,   \* tokens with a record in the table
  gen,         \* gen[t]: the generation recorded for t
  revoked,     \* records with `revoked` set
  generation,  \* the router's generation
  booted,      \* plugins whose thread was started
  call         \* the last call checked: plugin, token, needed capability, verdict

vars == <<installed, gen, revoked, generation, booted, call>>

Verdicts == {"pass", "REFUSED", "REVOKED", "SCOPE"}
NoCall == [by |-> "none", token |-> Unknown, cap |-> "none", verdict |-> "pass"]

Init ==
  /\ installed = {} /\ revoked = {}
  /\ gen = [t \in Tokens |-> 0] /\ generation = 1
  /\ booted = {} /\ call = NoCall

\* installTokens(): a token already in the table keeps its record.
Install(p) ==
  LET new == {t \in Tokens : t.owner = p} \ installed IN
  /\ installed' = installed \cup new
  /\ gen' = [t \in Tokens |-> IF t \in new THEN generation ELSE gen[t]]
  /\ UNCHANGED revoked

\* registerDormant() of an entry, at boot.
RegisterDormant(p) ==
  /\ ~\E t \in installed : t.owner = p
  /\ Install(p)
  /\ UNCHANGED <<generation, booted, call>>

\* register() of a spawned compartment, eager or on first touch.
Register(p) ==
  /\ p \notin booted
  /\ Install(p) /\ booted' = booted \cup {p}
  /\ UNCHANGED <<generation, call>>

\* checkToken(), in the order of its returns.
Verdict(p, t, cap) ==
  IF t \notin installed THEN "REFUSED"
  ELSE IF t.owner # p THEN "REFUSED"
  ELSE IF t \in revoked THEN "REVOKED"
  ELSE IF gen[t] < generation THEN "REVOKED"
  ELSE IF t.cap # cap THEN "SCOPE"
  ELSE "pass"

\* A `call` message of a running compartment.
Check(p, t, cap) ==
  /\ p \in booted
  /\ call' = [by |-> p, token |-> t, cap |-> cap, verdict |-> Verdict(p, t, cap)]
  /\ UNCHANGED <<installed, gen, revoked, generation, booted>>

\* host.tokens.revoke@1 with a pluginId.
Revoke(p) ==
  /\ revoked' = revoked \cup {t \in installed : t.owner = p}
  /\ UNCHANGED <<installed, gen, generation, booted, call>>

\* host.tokens.revoke@1 without one.
RevokeAll ==
  /\ generation < MaxGeneration
  /\ generation' = generation + 1
  /\ revoked' = installed
  /\ UNCHANGED <<installed, gen, booted, call>>

Next ==
  \/ \E p \in Plugins : RegisterDormant(p) \/ Register(p) \/ Revoke(p)
  \/ \E p \in Plugins, t \in Tokens \cup {Unknown}, cap \in Caps : Check(p, t, cap)
  \/ RevokeAll

Spec == Init /\ [][Next]_vars

-----------------------------------------------------------------------------
Live(t) == t \in installed /\ t \notin revoked /\ gen[t] >= generation

\* The type invariant.
TypeOK ==
  /\ installed \subseteq Tokens /\ revoked \subseteq installed
  /\ gen \in [Tokens -> 0..generation] /\ generation \in 1..MaxGeneration
  /\ booted \subseteq Plugins
  /\ call = NoCall \/ call \in [by : Plugins, token : Tokens \cup {Unknown},
                                cap : Caps, verdict : Verdicts]

\* authority never leaves its grant (B3): a call passes only with a live token
\* of the caller itself, minted for the capability the op requires.
PassIsAuthority ==
  [][\A p \in Plugins : call'.by = p /\ call'.verdict = "pass" /\ call' # call =>
       /\ call'.token.owner = p /\ call'.cap \in Granted[p]
       /\ call'.token.cap = call'.cap /\ Live(call'.token)]_vars

\* a revoked token stays revoked, also when the dormant entry it was minted
\* for is spawned afterwards and its tokens are installed again.
RevokedForGood ==
  [][\A t \in Tokens : t \in installed /\ ~Live(t) => ~Live(t)']_vars

\* D-384: the scoped revoke is scoped: no token of another plugin dies with it.
ScopedIsScoped ==
  [][\A p \in Plugins : Revoke(p) =>
       \A t \in installed : t.owner # p /\ Live(t) => Live(t)']_vars
=============================================================================
