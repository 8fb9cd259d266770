------------------------------ MODULE LawState ------------------------------
(***************************************************************************)
(* What vivim.law remembers (plugins/vivim-law/src/index.ts) and what it    *)
(* keeps in the vault: the forbidden-action overlay, the consent table and  *)
(* the identity rows of principals, under the ops that change them.  Every  *)
(* op awaits the vault, so ops interleave at their vault calls, and every   *)
(* call into the law and out of it presents a capability token (TokenTable).*)
(* The composition grants the law the vault ports; journal rows are left    *)
(* out (JournalFold has them) but for the intent of a token revocation.     *)
(* A job is one call of one op.                                             *)
(***************************************************************************)
EXTENDS TokenTable, Sequences, FiniteSets

CONSTANTS
  Jobs, Kind, Who,  \* Kind[j]: the op; Who[j]: the principal (or plugin) it names
  List,             \* List[j]: what a forbidden.set carries: "some" ops or "none"
  Boot,             \* the job that is onInit's reload
  Law, App,         \* the law's composition entry, and the caller's
  Mixes,            \* bound: sets of jobs; one behaviour calls the jobs of one of them
  MaxBoots,         \* bound: boots of the host
  MaxAttempts       \* MAX_ATTEMPTS of the boot's reload

Of(op) == {j \in Jobs : Kind[j] = op}
Reloads == Of("forbidden.reload") \cup {Boot}
AllJobs == Jobs \cup {Boot}
Identity == Of("consent.grant") \cup Of("principal.register") \cup Of("principal.retire")
Principals == {Who[j] : j \in Identity \cup Of("forbidden.set") \cup Of("consent.revoke")}
Ops == {"forbidden.set", "forbidden.reload", "consent.grant", "consent.revoke",
        "principal.register", "principal.retire", "tokens.revoke"}

ASSUME LawAssumption ==
  /\ Kind \in [Jobs -> Ops] /\ \A j \in Of("forbidden.set") : List[j] \in {"none", "some"}
  /\ {Boot, "none"} \cap Jobs = {} /\ {Law, App} \subseteq Plugins /\ Law # App
  /\ {"law", "vault"} \subseteq Caps /\ "vault" \in Granted[Law] /\ "law" \in Granted[App]
  /\ Mixes \subseteq SUBSET Jobs
  /\ {MaxBoots, MaxAttempts} \subseteq Nat \ {0}

VARIABLES
  up,         \* the law's compartment: "down", "init" (onInit's reload runs), "up"
  boots,
  forbidden,  \* memory: the overlay
  consent,    \* memory: the consent that names the principal
  loaded,     \* memory: forbiddenLoaded
  list, rec,  \* the vault: the forbidden row and the identity row of a principal
  stage,      \* of a job: "never", "idle", "called", the vault call it awaits, or its answer
  prior,      \* forbidden.set: the list its rollback restores
  todo,       \* of a reload: rows still to fetch
  attempt,    \* of the boot's reload
  wire,       \* calls on their way to the vault, oldest first
  answers,    \* answers on their way back, oldest first
  last,       \* history: the last forbidden.set handled for a principal
  torn,       \* history: principals whose overlay entry and row may have parted
  crossed,    \* history: jobs a write of the same overlay entry overlapped
  knew,       \* history: jobs that started with the principal retired in the vault
  blind       \* history: jobs whose read of the vault failed

memory == <<forbidden, consent, loaded>>
jobVars == <<stage, prior, todo, attempt>>
history == <<last, torn, crossed, knew, blind>>
lawVars == <<vars, up, boots, memory, list, rec, jobVars, wire, answers, history>>

Waiting == {"query", "get", "append", "intent"}
Answered == {"ok", "failed", "lost"}    \* "lost": the compartment died with it
InFlight == {j \in AllJobs : stage[j] \in Waiting}

LawInit ==
  /\ Init /\ up = "down" /\ boots = 0
  /\ forbidden = [p \in Principals |-> "none"] /\ consent = forbidden /\ loaded = FALSE
  /\ list = [p \in Principals |-> "absent"] /\ rec = list
  /\ (\E mix \in Mixes : stage = [j \in AllJobs |-> IF j \in mix THEN "idle" ELSE "never"])
  /\ prior = [j \in AllJobs |-> "none"]
  /\ todo = [r \in Reloads |-> {}] /\ attempt = 0
  /\ wire = <<>> /\ answers = <<>>
  /\ last = [p \in Principals |-> "none"]
  /\ torn = {} /\ crossed = {} /\ knew = {} /\ blind = {}

-----------------------------------------------------------------------------
(* The vault, and the calls to it.                                          *)

OwnToken == [owner |-> Law, cap |-> "vault"]
Reads == {"query", "get"}
Nothing == [ok |-> FALSE, val |-> "none", rows |-> {}]    \* a failed call
Cut(s, i) == SubSeq(s, 1, i - 1) \o SubSeq(s, i + 1, Len(s))

\* ctx.port.call() of job j, which then awaits `wait`; `net` are the calls and
\* the answers under way.  The router checks the law's own token first.
Ask(j, wait, row, p, v, net) ==
  /\ Check(Law, OwnToken, "vault")
  /\ stage' = [stage EXCEPT ![j] = wait]
  /\ IF call'.verdict = "pass"
       THEN /\ wire' = Append(net.wire, [job |-> j, wait |-> wait, row |-> row, who |-> p, val |-> v, live |-> TRUE])
            /\ answers' = net.answers
       ELSE /\ wire' = net.wire
            /\ answers' = Append(net.answers, [job |-> j, who |-> p, v |-> Nothing])

\* The handler ends with answer a and asks for nothing more.
End(j, a, net) ==
  /\ stage' = [stage EXCEPT ![j] = a]
  /\ wire' = net.wire /\ answers' = net.answers
  /\ UNCHANGED vars

Net == [wire |-> wire, answers |-> answers]

\* The answers once v answers call c, unless its caller has given up.
Heard(c, v) == IF c.live THEN Append(answers, [job |-> c.job, who |-> c.who, v |-> v]) ELSE answers

\* The vault serves a call.  Appends reach it in order (each passes the law
\* gate first); a read overtakes appends that still wait there.
VaultServes(i) ==
  LET c == wire[i]
      v == [ok |-> TRUE,
            val |-> IF c.wait # "get" THEN "none" ELSE IF c.row = "list" THEN list[c.who] ELSE rec[c.who],
            rows |-> IF c.wait = "query" THEN {p \in Principals : list[p] # "absent"} ELSE {}]
  IN
  /\ c.wait \in Reads \/ \A k \in 1..(i - 1) : wire[k].wait \in Reads
  /\ wire' = Cut(wire, i)
  /\ list' = IF c.wait = "append" /\ c.row = "list" THEN [list EXCEPT ![c.who] = c.val] ELSE list
  /\ rec' = IF c.wait = "append" /\ c.row = "rec" THEN [rec EXCEPT ![c.who] = c.val] ELSE rec
  /\ answers' = Heard(c, v)
  /\ UNCHANGED <<vars, up, boots, memory, jobVars, history>>

\* The call is refused on its way or fails in the vault: no effect, and an error.
VaultFails(i) ==
  /\ wire' = Cut(wire, i) /\ answers' = Heard(wire[i], Nothing)
  /\ UNCHANGED <<vars, up, boots, memory, list, rec, jobVars, history>>

-----------------------------------------------------------------------------
(* The ops.  Each is a handler up to its first vault call, and one step per *)
(* answer v to what it awaits; Nothing also stands for a call that timed out.*)

Overlay(p) == {j \in InFlight : j \in Reloads \/ (j \in Of("forbidden.set") /\ Who[j] = p)}

\* law.forbidden.set@1: the table first, then the row.
StartSet(j, p) ==
  /\ prior' = [prior EXCEPT ![j] = forbidden[p]]
  /\ forbidden' = [forbidden EXCEPT ![p] = List[j]]
  /\ last' = [last EXCEPT ![p] = j] /\ crossed' = crossed \cup Overlay(p)
  /\ Ask(j, "append", "list", p, List[j], Net)
  /\ UNCHANGED <<consent, loaded, todo, attempt, torn, knew, blind>>

\* Seeded fault: a failed append is only logged.
FaultySetAnswered(j, p, v, net, late) ==
  /\ End(j, "ok", net)
  /\ UNCHANGED <<memory, prior, todo, attempt, history>>

\* `late`: the append may still take effect, or has.
SetAnswered(j, p, v, net, late) ==
  /\ End(j, IF v.ok THEN "ok" ELSE "failed", net)
  /\ forbidden' = IF v.ok THEN forbidden ELSE [forbidden EXCEPT ![p] = prior[j]]
  /\ torn' = IF ~v.ok /\ (late \/ j \in crossed) THEN torn \cup {p} ELSE torn
  /\ UNCHANGED <<consent, loaded, prior, todo, attempt, last, crossed, knew, blind>>

\* reloadForbidden(): a query, then one get per row.
StartReload(j) ==
  /\ crossed' = IF \E p \in Principals : Overlay(p) # {} THEN crossed \cup {j} ELSE crossed
  /\ Ask(j, "query", "list", "none", "none", Net)
  /\ UNCHANGED <<memory, prior, todo, attempt, last, torn, knew, blind>>

\* reloadForbiddenAtBoot(): a failed query is tried again, up to MAX_ATTEMPTS.
QueryAnswered(j, v, net) ==
  /\ IF ~v.ok
       THEN /\ IF j = Boot /\ attempt < MaxAttempts
                 THEN Ask(j, "query", "list", "none", "none", net) /\ attempt' = attempt + 1
                 ELSE End(j, "failed", net) /\ UNCHANGED attempt
            /\ UNCHANGED <<todo, loaded>>
       ELSE /\ IF v.rows = {} THEN End(j, "ok", net) /\ loaded' = TRUE /\ UNCHANGED todo
               ELSE \E p \in v.rows : /\ Ask(j, "get", "list", p, "none", net)
                                 /\ todo' = [todo EXCEPT ![j] = v.rows \ {p}] /\ UNCHANGED loaded
            /\ UNCHANGED attempt
  /\ UNCHANGED <<forbidden, consent, prior, history>>

\* A row that cannot be fetched is skipped; the overlay still counts as loaded.
RowFetched(j, p, v, net) ==
  /\ forbidden' = IF ~v.ok THEN forbidden ELSE [forbidden EXCEPT ![p] = v.val]
  /\ torn' = IF ~v.ok \/ j \in crossed THEN torn \cup {p} ELSE torn
  /\ IF todo[j] = {} THEN End(j, "ok", net) /\ loaded' = TRUE /\ UNCHANGED todo
     ELSE \E q \in todo[j] : /\ Ask(j, "get", "list", q, "none", net)
                             /\ todo' = [todo EXCEPT ![j] = @ \ {q}] /\ UNCHANGED loaded
  /\ UNCHANGED <<consent, prior, attempt, last, crossed, knew, blind>>

\* law.consent.grant@1, law.principal.register@1 and .retire@1 up to the read
\* of the identity row; a grant is in the table before it.
StartIdentity(j, p) ==
  /\ consent' = IF Kind[j] = "consent.grant" THEN [consent EXCEPT ![p] = "active"] ELSE consent
  /\ knew' = IF rec[p] = "retired" THEN knew \cup {j} ELSE knew
  /\ Ask(j, "get", "rec", p, "none", Net)
  /\ UNCHANGED <<forbidden, loaded, prior, todo, attempt, last, torn, crossed, blind>>

\* Seeded fault: a retired row does not refuse the registration.
FaultyRowRead(j, p, v, net) ==
  /\ blind' = IF ~v.ok THEN blind \cup {j} ELSE blind
  /\ IF Kind[j] = "principal.retire"
       THEN IF v.ok /\ v.val = "active" THEN Ask(j, "append", "rec", p, "retired", net) ELSE End(j, "failed", net)
       ELSE IF v.ok /\ v.val = "active" THEN End(j, "ok", net) ELSE Ask(j, "append", "rec", p, "active", net)
  /\ UNCHANGED <<memory, prior, todo, attempt, last, torn, crossed, knew>>

\* readPrincipalRecord(): a failed read counts as no row.
RowRead(j, p, v, net) ==
  /\ blind' = IF ~v.ok THEN blind \cup {j} ELSE blind
  /\ CASE Kind[j] = "principal.retire" /\ v.ok /\ v.val = "active" -> Ask(j, "append", "rec", p, "retired", net)
       [] Kind[j] # "principal.retire" /\ (v.ok => v.val = "absent") -> Ask(j, "append", "rec", p, "active", net)
       [] v.ok /\ \/ Kind[j] = "principal.register" /\ v.val = "active"
                  \/ Kind[j] = "consent.grant" /\ v.val \in {"active", "retired"} -> End(j, "ok", net)
       [] OTHER -> End(j, "failed", net)    \* PRINCIPAL_REUSED, _UNKNOWN, _RETIRED
  /\ UNCHANGED <<memory, prior, todo, attempt, last, torn, crossed, knew>>

\* Seeded fault: a grant whose record could not be written stays.
FaultyRowWritten(j, p, v, net) ==
  /\ End(j, IF v.ok THEN "ok" ELSE "failed", net)
  /\ UNCHANGED <<memory, prior, todo, attempt, history>>

\* The identity row is written, or the op fails; a grant then revokes itself.
RowWritten(j, p, v, net) ==
  /\ End(j, IF v.ok THEN "ok" ELSE "failed", net)
  /\ consent' = IF Kind[j] = "consent.grant" /\ ~v.ok /\ consent[p] = "active"
                  THEN [consent EXCEPT ![p] = "revoked"] ELSE consent
  /\ UNCHANGED <<forbidden, loaded, prior, todo, attempt, history>>

\* law.consent.grant@1 with action revoke.
RevokeConsent(j, p) ==
  /\ End(j, "ok", Net)
  /\ consent' = IF consent[p] = "active" THEN [consent EXCEPT ![p] = "revoked"] ELSE consent
  /\ UNCHANGED <<forbidden, loaded, prior, todo, attempt, history>>

\* law.tokens.revoke@1: the intent is journaled, then the host revokes, if the
\* law's token for that port still passes; all of its tokens are revoked together.
StartRevoke(j) ==
  /\ Ask(j, "intent", "journal", "none", "none", Net)
  /\ UNCHANGED <<memory, prior, todo, attempt, history>>

IntentAnswered(j, net) ==
  /\ IF Verdict(Law, OwnToken, "vault") = "pass" THEN Revoke(Who[j]) ELSE UNCHANGED vars
  /\ stage' = [stage EXCEPT ![j] = "ok"] /\ wire' = net.wire /\ answers' = net.answers
  /\ UNCHANGED <<memory, prior, todo, attempt, history>>

-----------------------------------------------------------------------------
(* The compartment.                                                         *)

\* A call of App, with some token, is checked and delivered.
Present(j, t) ==
  /\ up = "up" /\ stage[j] = "idle"
  /\ Check(App, t, "law")
  /\ stage' = [stage EXCEPT ![j] = IF call'.verdict = "pass" THEN "called" ELSE "idle"]
  /\ UNCHANGED <<up, boots, memory, list, rec, prior, todo, attempt, wire, answers, history>>

Handle(j) ==
  /\ up = "up" /\ stage[j] = "called"
  /\ CASE Kind[j] = "forbidden.set" -> StartSet(j, Who[j])
       [] Kind[j] = "forbidden.reload" -> StartReload(j)
       [] Kind[j] = "consent.revoke" -> RevokeConsent(j, Who[j])
       [] Kind[j] = "tokens.revoke" -> StartRevoke(j)
       [] OTHER -> StartIdentity(j, Who[j])
  /\ UNCHANGED <<up, boots, list, rec>>

\* What job j does with the outcome v of the call it awaits, about p.
Proceed(j, p, v, net, late) ==
  CASE stage[j] = "query" -> QueryAnswered(j, v, net)
    [] stage[j] = "get" /\ j \in Reloads -> RowFetched(j, p, v, net)
    [] stage[j] = "get" /\ j \notin Reloads -> RowRead(j, p, v, net)
    [] stage[j] = "append" /\ j \in Of("forbidden.set") -> SetAnswered(j, p, v, net, late)
    [] stage[j] = "append" /\ j \notin Of("forbidden.set") -> RowWritten(j, p, v, net)
    [] OTHER -> IntentAnswered(j, net)

\* onInit ends with the boot's reload, loaded or not; then the law is ready.
Ready(j) == up' = IF j = Boot /\ stage'[j] \notin Waiting THEN "up" ELSE up

\* The answer at the head arrives.
Receive ==
  /\ up # "down" /\ answers # <<>>
  /\ LET a == Head(answers) IN
       /\ Proceed(a.job, a.who, a.v, [wire |-> wire, answers |-> Tail(answers)], FALSE)
       /\ Ready(a.job)
  /\ UNCHANGED <<boots, list, rec>>

\* The local deadline of j's call passes, wherever the call or its answer is:
\* the call may still take effect, and its answer is not heard.
GiveUp(j) ==
  /\ up # "down" /\ j \in InFlight
  /\ \/ \E i \in DOMAIN wire :
          /\ wire[i].job = j /\ wire[i].live
          /\ Proceed(j, wire[i].who, Nothing, [wire |-> [wire EXCEPT ![i].live = FALSE], answers |-> answers], TRUE)
     \/ \E i \in DOMAIN answers :
          /\ answers[i].job = j
          /\ Proceed(j, answers[i].who, Nothing, [wire |-> wire, answers |-> Cut(answers, i)], TRUE)
  /\ Ready(j) /\ UNCHANGED <<boots, list, rec>>

\* The compartment dies: its memory and the ops in it are gone.  Its calls
\* are on their way still.
Die ==
  /\ up # "down" /\ up' = "down"
  /\ stage' = [j \in AllJobs |-> IF stage[j] \in Waiting \cup {"called"} THEN "lost" ELSE stage[j]]
  /\ answers' = <<>>
  /\ wire' = [i \in DOMAIN wire |-> [wire[i] EXCEPT !.live = FALSE]]
  /\ UNCHANGED <<vars, boots, memory, list, rec, prior, todo, attempt, history>>

\* The host boots (again): fresh tokens, a fresh law, and no call under way.
BootHost ==
  /\ up = "down" /\ boots < MaxBoots
  /\ up' = "init" /\ boots' = boots + 1
  /\ installed' = Tokens /\ gen' = [t \in Tokens |-> 1] /\ revoked' = {}
  /\ generation' = 1 /\ booted' = {Law, App} /\ call' = NoCall
  /\ forbidden' = [p \in Principals |-> "none"] /\ consent' = forbidden' /\ loaded' = FALSE
  /\ stage' = [stage EXCEPT ![Boot] = "called"] /\ attempt' = 1
  /\ wire' = <<>> /\ answers' = <<>> /\ torn' = {} /\ crossed' = {}
  /\ UNCHANGED <<list, rec, prior, todo, last, knew, blind>>

OnInit ==
  /\ up = "init" /\ stage[Boot] = "called"
  /\ StartReload(Boot)
  /\ UNCHANGED <<up, boots, list, rec>>

LawNext ==
  \/ \E j \in Jobs, t \in Tokens \cup {Unknown} : Present(j, t)
  \/ \E j \in Jobs : Handle(j)
  \/ \E j \in AllJobs : GiveUp(j)
  \/ \E i \in DOMAIN wire : VaultServes(i) \/ VaultFails(i)
  \/ Receive \/ Die \/ BootHost \/ OnInit

LawSpec == LawInit /\ [][LawNext]_lawVars

-----------------------------------------------------------------------------
\* The type invariant.
LawTypeOK ==
  /\ TypeOK /\ up \in {"down", "init", "up"} /\ boots \in 0..MaxBoots
  /\ forbidden \in [Principals -> {"none", "some"}]
  /\ consent \in [Principals -> {"none", "active", "revoked"}] /\ loaded \in BOOLEAN
  /\ list \in [Principals -> {"absent", "none", "some"}]
  /\ rec \in [Principals -> {"absent", "active", "retired"}]
  /\ stage \in [AllJobs -> Waiting \cup Answered \cup {"never", "idle", "called"}]
  /\ prior \in [AllJobs -> {"none", "some"}] /\ todo \in [Reloads -> SUBSET Principals]
  /\ attempt \in 0..MaxAttempts

\* "a half-persisted overlay is worse than none" (law.forbidden.set@1): with no
\* set or reload under way, the overlay a loaded law enforces is the one the
\* vault holds, unless ops overlapped on the entry, a row could not be fetched,
\* or an append took effect that its set had given up on.
OverlayIsTheRow ==
  \A p \in Principals :
    up = "up" /\ loaded /\ Overlay(p) = {} /\ p \notin torn
      => (forbidden[p] = "some") = (list[p] = "some")

\* an answered law.forbidden.set@1 is durable: as long as no later set is
\* handled, its list is the vault's, also after a crash of law or host, and
\* whatever set before it is still on its way.
AnsweredSetStands ==
  \A p \in Principals, j \in Of("forbidden.set") :
    last[p] = j /\ stage[j] = "ok" => list[p] = List[j]

\* D-412, the ceremony is "never half-done": a consent that is active names a
\* principal with an identity row, or its grant is still under way.
ConsentHasItsRow ==
  \A p \in Principals : consent[p] = "active" /\ up # "down"
    => rec[p] # "absent" \/ \E j \in InFlight \cap Of("consent.grant") : Who[j] = p

\* D-412, "retired is FOREVER": an op that starts when the row is retired, and
\* whose read of it is answered, never brings the id back.
RetiredIsForever ==
  [][\A p \in Principals : rec[p] = "retired" /\ rec'[p] # "retired" =>
       \E i \in DOMAIN wire :
         /\ wire' = Cut(wire, i)
         /\ wire[i].job \in blind \/ wire[i].job \notin knew]_lawVars
=============================================================================
