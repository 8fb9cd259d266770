---------------------------- MODULE LawStateProofs ---------------------------
(***************************************************************************)
(* Proofs about the capability-token table (TokenTable) and about what the  *)
(* law remembers (LawState), for all plugins, grants, principals and ops.   *)
(*                                                                         *)
(* The inductive invariant of the law is about the calls under way.  A job  *)
(* has at most one call it still awaits, or its answer; what a call carries *)
(* and what an answer says is tied to the rows of the vault, also when its  *)
(* job has given up on it; and behind the append of the last set handled    *)
(* for a principal there is no other append of that principal's overlay.    *)
(* It is stated on a view of the state, so that its lemmas speak of two     *)
(* states without primes.                                                   *)
(*                                                                         *)
(* The overlay has an invariant on top of it: a principal is settled when   *)
(* the appends on the wire will leave its row at the entry in memory, and   *)
(* at what the last set would restore if its own append fails.              *)
(***************************************************************************)
EXTENDS LawState, Integers, SequenceTheorems, TLAPS

(* The token table.                                                        *)

\* Every action of the table keeps the type invariant.
LEMMA TypeStep == TypeOK /\ [Next]_vars => TypeOK'
<1> USE TableAssumption
<1> SUFFICES ASSUME TypeOK, [Next]_vars PROVE TypeOK'
  OBVIOUS
<1>1. ASSUME NEW p \in Plugins, RegisterDormant(p) PROVE TypeOK'
  BY <1>1 DEF RegisterDormant, Install, TypeOK
<1>2. ASSUME NEW p \in Plugins, Register(p) PROVE TypeOK'
  BY <1>2 DEF Register, Install, TypeOK
<1>3. ASSUME NEW p \in Plugins, Revoke(p) PROVE TypeOK'
  BY <1>3 DEF Revoke, TypeOK
<1>4. ASSUME NEW p \in Plugins, NEW t \in Tokens \cup {Unknown}, NEW cap \in Caps,
             Check(p, t, cap)
      PROVE  TypeOK'
  <2>1. Verdict(p, t, cap) \in Verdicts
    BY DEF Verdict, Verdicts
  <2>2. call' \in [by : Plugins, token : Tokens \cup {Unknown}, cap : Caps, verdict : Verdicts]
    BY <1>4, <2>1 DEF Check
  <2> QED
    BY <1>4, <2>2 DEF Check, TypeOK
<1>5. ASSUME RevokeAll PROVE TypeOK'
  <2>1. gen' \in [Tokens -> 0..generation'] /\ generation' \in 1..MaxGeneration
    BY <1>5 DEF RevokeAll, TypeOK
  <2> QED
    BY <1>5, <2>1 DEF RevokeAll, TypeOK
<1>6. ASSUME UNCHANGED vars PROVE TypeOK'
  BY <1>6 DEF vars, TypeOK
<1> QED
  BY <1>1, <1>2, <1>3, <1>4, <1>5, <1>6 DEF Next

\* ports.ts, the token table: every reachable table has its type.
THEOREM TypeCorrect == Spec => []TypeOK
<1>1. Init => TypeOK
  BY TableAssumption DEF Init, TypeOK
<1> QED
  BY <1>1, TypeStep, PTL DEF Spec

\* No step of the table brings an installed dead token back to life: its
\* record keeps its generation, `revoked` only grows, the generation never falls.
LEMMA DeadStaysDead ==
  ASSUME TypeOK, [Next]_vars, NEW t \in Tokens, t \in installed, ~Live(t)
  PROVE  ~Live(t)'
<1> DEFINE Kept == /\ gen'[t] = gen[t] /\ generation' >= generation
                   /\ t \in revoked => t \in revoked'
<1>1. Kept
  <2>1. ASSUME NEW p \in Plugins, Install(p), generation' = generation PROVE Kept
    BY <2>1 DEF Install, TypeOK
  <2>2. ASSUME NEW p \in Plugins, Revoke(p) PROVE Kept
    BY <2>2 DEF Revoke, TypeOK
  <2>3. ASSUME NEW p \in Plugins, NEW s, NEW cap, Check(p, s, cap) PROVE Kept
    BY <2>3 DEF Check, TypeOK
  <2>4. ASSUME RevokeAll PROVE Kept
    BY <2>4 DEF RevokeAll, TypeOK
  <2>5. ASSUME UNCHANGED vars PROVE Kept
    BY <2>5 DEF vars, TypeOK
  <2> QED
    BY <2>1, <2>2, <2>3, <2>4, <2>5 DEF Next, RegisterDormant, Register
<1>2. gen[t] \in Int /\ generation \in Int /\ generation' \in Int
  BY TypeStep DEF TypeOK
<1> QED
  BY <1>1, <1>2 DEF Live

\* host.tokens.revoke@1 and the lazy spawn: a token that was revoked, by plugin
\* or by the generation, is never valid again, whenever its entry is installed.
THEOREM RevocationIsFinal == Spec => RevokedForGood
<1>1. TypeOK /\ [Next]_vars =>
        [\A t \in Tokens : t \in installed /\ ~Live(t) => ~Live(t)']_vars
  BY DeadStaysDead
<1> QED
  BY <1>1, TypeCorrect, PTL DEF Spec, RevokedForGood

\* checkToken(): authority never leaves its grant, whoever holds the token.
THEOREM PassNeedsAuthority == Spec => PassIsAuthority
<1> DEFINE Passes ==
      \A p \in Plugins : call'.by = p /\ call'.verdict = "pass" /\ call' # call =>
        /\ call'.token.owner = p /\ call'.cap \in Granted[p]
        /\ call'.token.cap = call'.cap /\ Live(call'.token)
<1>1. ASSUME TypeOK, Next PROVE Passes
  <2>1. ASSUME NEW p \in Plugins, NEW t \in Tokens \cup {Unknown}, NEW cap \in Caps,
               Check(p, t, cap)
        PROVE  Passes
    <3>1. call' = [by |-> p, token |-> t, cap |-> cap, verdict |-> Verdict(p, t, cap)]
      BY <2>1 DEF Check
    <3>2. Verdict(p, t, cap) = "pass" =>
            t \in installed /\ t.owner = p /\ t \notin revoked /\ ~(gen[t] < generation) /\ t.cap = cap
      BY DEF Verdict
    <3>3. t \in installed => t \in Tokens /\ t.cap \in Granted[t.owner]
      BY <1>1 DEF TypeOK, Tokens
    <3>4. t \in installed /\ ~(gen[t] < generation) => gen[t] >= generation
      BY <1>1, <3>3 DEF TypeOK
    <3> QED
      BY <3>1, <3>2, <3>3, <3>4 DEF Live
  <2>2. ASSUME UNCHANGED call PROVE Passes
    BY <2>2
  <2> QED
    BY <1>1, <2>1, <2>2 DEF Next, RegisterDormant, Register, Revoke, RevokeAll
<1>2. TypeOK /\ [Next]_vars => [Passes]_vars
  BY <1>1
<1> QED
  BY <1>2, TypeCorrect, PTL DEF Spec, PassIsAuthority

\* D-384: revoking one plugin's tokens kills no token of another.
THEOREM ScopeHolds == Spec => ScopedIsScoped
<1> DEFINE Scoped ==
      \A p \in Plugins : Revoke(p) => \A t \in installed : t.owner # p /\ Live(t) => Live(t)'
<1>1. ASSUME NEW p \in Plugins, Revoke(p), NEW t \in installed, t.owner # p, Live(t)
      PROVE  Live(t)'
  BY <1>1 DEF Revoke, Live
<1>2. [Next]_vars => [Scoped]_vars
  BY <1>1
<1> QED
  BY <1>2, PTL DEF Spec, ScopedIsScoped
-----------------------------------------------------------------------------
(* The law: the inductive invariant.                                       *)

Sets == Of("forbidden.set")
Idle == {"never", "idle", "called"}    \* stages of a job that has asked for nothing
Values == {"none", "some", "absent", "active", "retired"}
Calls == [job : AllJobs, wait : Waiting, row : {"list", "rec", "journal"},
          who : Principals \cup {"none"}, val : Values, live : BOOLEAN]
Outcome == [ok : BOOLEAN, val : Values, rows : SUBSET Principals]
Replies == [job : AllJobs, who : Principals \cup {"none"}, v : Outcome]

\* What the calls under way are tied to.
View == [stage |-> stage, list |-> list, rec |-> rec, last |-> last, knew |-> knew, blind |-> blind]

ViewOK(s) ==
  /\ s.stage \in [AllJobs -> Waiting \cup Answered \cup Idle]
  /\ s.list \in [Principals -> {"absent", "none", "some"}]
  /\ s.rec \in [Principals -> {"absent", "active", "retired"}]
  /\ s.last \in [Principals -> Sets \cup {"none"}]

\* Which call a job can await.
Expects(j, w) ==
  \/ w = "append" /\ j \in Sets \cup Identity
  \/ w = "get" /\ j \in Reloads \cup Identity
  \/ w = "query" /\ j \in Reloads
  \/ w = "intent" /\ j \in Of("tokens.revoke")

\* An overlay row on its way to the vault.
IsRow(c) == c.wait = "append" /\ c.job \in Sets

\* The list of the set j is the vault's, and no call in w will change it.
Durable(j, w, s) ==
  s.list[Who[j]] = List[j] /\ \A i \in DOMAIN w : IsRow(w[i]) => w[i].who # Who[j]

\* What a call of job c.job carries, whether or not it is still awaited.
CallOK(c, s) ==
  /\ Expects(c.job, c.wait) /\ s.stage[c.job] \notin Idle
  /\ IsRow(c) => c.row = "list" /\ c.who = Who[c.job] /\ c.val = List[c.job]
  /\ c.job \in Identity =>
       /\ c.row = "rec" /\ c.who = Who[c.job]
       /\ c.wait = "append" => /\ c.val \in {"active", "retired"}
                               /\ c.val = "active" /\ c.job \in s.knew => c.job \in s.blind
  /\ c.wait = "get" /\ c.job \in Reloads =>
       c.row = "list" /\ c.who \in Principals /\ s.list[c.who] # "absent"

\* What outcome v about p tells the job j that awaits it.
Tells(j, p, v, w, s) ==
  /\ s.stage[j] \in Waiting
  /\ j \in Identity => p = Who[j]
  /\ j \in Identity /\ s.stage[j] = "get" =>
       /\ v.ok => v.val \in {"absent", "active", "retired"}
       /\ v.val \in {"active", "retired"} => s.rec[Who[j]] # "absent"
       /\ v.ok /\ j \in s.knew => v.val # "absent"
  /\ j \in Identity /\ s.stage[j] = "append" /\ v.ok => s.rec[Who[j]] # "absent"
  /\ j \in Sets => p = Who[j] /\ (v.ok /\ s.last[Who[j]] = j => Durable(j, w, s))
  /\ j \in Reloads /\ s.stage[j] = "get" => p \in Principals /\ (v.ok => v.val \in {"none", "some"})
  /\ j \in Reloads /\ s.stage[j] = "query" => \A q \in v.rows : s.list[q] # "absent"

\* A job has at most one call that it still awaits, or its answer.
Paired(w, a, s) ==
  /\ \A i \in DOMAIN w : w[i].live => s.stage[w[i].job] = w[i].wait
  /\ \A i, k \in DOMAIN w : w[i].live /\ w[k].live /\ w[i].job = w[k].job => i = k
  /\ \A i, k \in DOMAIN a : a[i].job = a[k].job => i = k
  /\ \A i \in DOMAIN w, k \in DOMAIN a : w[i].live => w[i].job # a[k].job

\* The row of the last set handled for a principal is behind all others of it.
LastIsLast(w, s) ==
  \A i, k \in DOMAIN w : i < k /\ IsRow(w[i]) /\ IsRow(w[k]) /\ s.last[w[i].who] = w[i].job
    => w[k].who # w[i].who

\* The calls w and the answers a under way, seen from the state s.
NetOK(w, a, s) ==
  /\ w \in Seq(Calls) /\ a \in Seq(Replies)
  /\ Paired(w, a, s) /\ LastIsLast(w, s)
  /\ \A i \in DOMAIN w : CallOK(w[i], s)
  /\ \A i \in DOMAIN a : Tells(a[i].job, a[i].who, a[i].v, w, s)

NetInv == NetOK(wire, answers, View)

\* What the stage of a job says of the rows.
JobsInv ==
  /\ last \in [Principals -> Sets \cup {"none"}]
  /\ \A j \in Sets, p \in Principals : last[p] = j => p = Who[j]
  /\ \A j \in AllJobs : stage[j] \in Waiting => Expects(j, stage[j])
  /\ \A j \in Sets : last[Who[j]] = j => stage[j] \notin Idle /\ (stage[j] = "ok" => Durable(j, wire, View))
  /\ \A j \in Reloads : stage[j] = "get" => \A p \in todo[j] : list[p] # "absent"
  /\ \A j \in knew : j \in Identity /\ rec[Who[j]] # "absent"

LawInv == LawTypeOK /\ NetInv /\ JobsInv /\ ConsentHasItsRow

-----------------------------------------------------------------------------
(* The calls under way.                                                    *)

\* Every op is of one class, and names what its class names.
LEMMA Classes ==
  /\ Sets \subseteq Jobs /\ Identity \subseteq Jobs /\ Of("tokens.revoke") \subseteq Jobs
  /\ Sets \cap Identity = {} /\ Sets \cap Reloads = {} /\ Identity \cap Reloads = {}
  /\ Of("tokens.revoke") \cap (Sets \cup Identity \cup Reloads) = {}
  /\ \A j \in Sets \cup Identity : Who[j] \in Principals
  /\ \A j \in Sets : List[j] \in {"none", "some"}
  /\ "none" \notin Sets /\ Reloads \subseteq AllJobs /\ Jobs \subseteq AllJobs
  /\ OwnToken \in Tokens /\ "vault" \in Caps /\ Law \in Plugins
  BY LawAssumption, TableAssumption
  DEF Sets, Identity, Reloads, AllJobs, Of, Principals, OwnToken, Tokens, Ops

\* Nothing of job j is under way that it would hear of.
Silent(j, w, a) ==
  /\ \A i \in DOMAIN w : w[i].job = j => ~w[i].live
  /\ \A i \in DOMAIN a : a[i].job # j

\* Job j moves from state s to state t, with the calls w under way: it may be
\* the last set of its principal, or start with the row retired, only at its start.
Moved(j, s, t, w) ==
  /\ t.list = s.list /\ t.rec = s.rec
  /\ t.stage[j] \notin Idle /\ \A k \in AllJobs : k # j => t.stage[k] = s.stage[k]
  /\ \A k \in AllJobs : k # j => (k \in t.knew <=> k \in s.knew)
  /\ s.blind \subseteq t.blind
  /\ \A p \in Principals : t.last[p] = s.last[p] \/ t.last[p] = j
  /\ (t.knew = s.knew /\ t.last = s.last) \/ \A i \in DOMAIN w : w[i].job # j

\* A job's move leaves the calls and answers of the others as they are.
LEMMA MoveNet ==
  ASSUME NEW w, NEW a, NEW s, NEW t, NEW j \in AllJobs,
         NetOK(w, a, s), Silent(j, w, a), Moved(j, s, t, w)
  PROVE  NetOK(w, a, t)
<1>1. /\ \A i \in DOMAIN w : w[i].job \in AllJobs
      /\ \A i \in DOMAIN a : a[i].job \in AllJobs /\ a[i].job # j
  <2>1. w \in Seq(Calls) /\ a \in Seq(Replies)
    BY DEF NetOK
  <2>2. (\A i \in DOMAIN w : w[i] \in Calls) /\ (\A i \in DOMAIN a : a[i] \in Replies)
    BY <2>1
  <2>3. (\A c \in Calls : c.job \in AllJobs) /\ (\A r \in Replies : r.job \in AllJobs)
    BY DEF Calls, Replies
  <2> QED
    BY <2>2, <2>3 DEF Silent
<1>2. Paired(w, a, t)
  BY <1>1 DEF NetOK, Paired, Silent, Moved
<1>3. ASSUME NEW i \in DOMAIN w PROVE CallOK(w[i], t)
  <2>1. CallOK(w[i], s) /\ w[i].job \in AllJobs
    BY <1>1, <1>3 DEF NetOK
  <2>2. t.stage[w[i].job] \notin Idle
    BY <2>1 DEF CallOK, Moved
  <2>3. w[i].job \in t.knew => w[i].job \in s.knew
    BY <2>1 DEF Moved
  <2> QED
    BY <2>1, <2>2, <2>3 DEF CallOK, Moved
<1>4. LastIsLast(w, t)
  <2> SUFFICES ASSUME NEW i \in DOMAIN w, NEW k \in DOMAIN w, i < k, IsRow(w[i]), IsRow(w[k]),
                      t.last[w[i].who] = w[i].job
               PROVE  w[k].who # w[i].who
    BY DEF LastIsLast
  <2>1. w[i].who \in Principals
    BY Classes DEF NetOK, CallOK, IsRow
  <2>2. s.last[w[i].who] = w[i].job
    BY <2>1 DEF Moved
  <2> QED
    BY <2>2 DEF NetOK, LastIsLast
<1>5. ASSUME NEW i \in DOMAIN a PROVE Tells(a[i].job, a[i].who, a[i].v, w, t)
  <2>1. Tells(a[i].job, a[i].who, a[i].v, w, s) /\ a[i].job \in AllJobs /\ a[i].job # j
    BY <1>1, <1>5 DEF NetOK
  <2>2. /\ t.stage[a[i].job] = s.stage[a[i].job] /\ t.list = s.list /\ t.rec = s.rec
        /\ a[i].job \in t.knew <=> a[i].job \in s.knew
    BY <2>1 DEF Moved
  <2>3. a[i].job \in Sets => (t.last[Who[a[i].job]] = a[i].job => s.last[Who[a[i].job]] = a[i].job)
    BY <2>1, Classes DEF Moved
  <2> QED
    BY <2>1, <2>2, <2>3 DEF Tells, Durable
<1> QED
  BY <1>2, <1>3, <1>4, <1>5 DEF NetOK

\* ctx.port.call() of job j passes the router: the call is behind the others.
LEMMA AskNet ==
  ASSUME NEW w, NEW a, NEW t, NEW c \in Calls,
         NetOK(w, a, t), Silent(c.job, w, a), CallOK(c, t), t.stage[c.job] = c.wait,
         IsRow(c) => t.last[c.who] = c.job /\ \A i \in DOMAIN w : w[i].job # c.job
  PROVE  NetOK(Append(w, c), a, t)
<1> DEFINE w2 == Append(w, c)
<1>1. /\ w \in Seq(Calls) /\ a \in Seq(Replies)
      /\ Paired(w, a, t) /\ LastIsLast(w, t)
      /\ \A i \in DOMAIN w : CallOK(w[i], t)
      /\ \A i \in DOMAIN a : Tells(a[i].job, a[i].who, a[i].v, w, t)
  BY DEF NetOK
<1>2. /\ w2 \in Seq(Calls) /\ DOMAIN w2 = 1..(Len(w) + 1) /\ DOMAIN w = 1..Len(w) /\ Len(w) \in Nat
      /\ \A i \in DOMAIN w : w2[i] = w[i]
      /\ w2[Len(w) + 1] = c
  BY <1>1
<1> HIDE DEF w2
<1>3. \A i \in DOMAIN w2 : (i \in DOMAIN w /\ w2[i] = w[i]) \/ (i = Len(w) + 1 /\ w2[i] = c)
  BY <1>2
<1>4. \A i \in DOMAIN w : i < Len(w) + 1 /\ ~(Len(w) + 1 < i)
  BY <1>2
<1>5. \A i \in DOMAIN w2 : CallOK(w2[i], t)
  BY <1>1, <1>3
<1>6. Paired(w2, a, t)
  BY <1>1, <1>3 DEF Paired, Silent
<1>7. LastIsLast(w2, t)
  <2> SUFFICES ASSUME NEW i \in DOMAIN w2, NEW k \in DOMAIN w2, i < k, IsRow(w2[i]), IsRow(w2[k]),
                      t.last[w2[i].who] = w2[i].job
               PROVE  w2[k].who # w2[i].who
    BY DEF LastIsLast
  <2>1. CASE i \in DOMAIN w /\ k \in DOMAIN w
    BY <1>1, <1>2, <2>1 DEF LastIsLast
  <2>2. CASE i \in DOMAIN w /\ k = Len(w) + 1
    BY <1>2, <2>2
  <2>3. CASE i = Len(w) + 1
    BY <1>2, <1>3, <2>3
  <2> QED
    BY <1>3, <2>1, <2>2, <2>3
<1>8. ASSUME NEW i \in DOMAIN a PROVE Tells(a[i].job, a[i].who, a[i].v, w2, t)
  <2>1. Tells(a[i].job, a[i].who, a[i].v, w, t) /\ a[i].job # c.job
    BY <1>1, <1>8 DEF Silent
  <2>2. a[i].job \in Sets /\ t.last[Who[a[i].job]] = a[i].job /\ Durable(a[i].job, w, t)
          => Durable(a[i].job, w2, t)
    BY <1>3, <2>1 DEF Durable
  <2> QED
    BY <2>1, <2>2 DEF Tells
<1> QED
  BY <1>1, <1>2, <1>5, <1>6, <1>7, <1>8 DEF NetOK, w2

\* The router refuses the call: its answer is behind the others.
LEMMA RefuseNet ==
  ASSUME NEW w, NEW a, NEW t, NEW r \in Replies,
         NetOK(w, a, t), Silent(r.job, w, a), Tells(r.job, r.who, r.v, w, t)
  PROVE  NetOK(w, Append(a, r), t)
<1> DEFINE a2 == Append(a, r)
<1>1. /\ w \in Seq(Calls) /\ a \in Seq(Replies)
      /\ Paired(w, a, t) /\ LastIsLast(w, t)
      /\ \A i \in DOMAIN w : CallOK(w[i], t)
      /\ \A i \in DOMAIN a : Tells(a[i].job, a[i].who, a[i].v, w, t)
  BY DEF NetOK
<1>2. /\ a2 \in Seq(Replies) /\ DOMAIN a2 = 1..(Len(a) + 1) /\ DOMAIN a = 1..Len(a) /\ Len(a) \in Nat
      /\ \A i \in DOMAIN a : a2[i] = a[i]
      /\ a2[Len(a) + 1] = r
  BY <1>1
<1> HIDE DEF a2
<1>3. \A i \in DOMAIN a2 : (i \in DOMAIN a /\ a2[i] = a[i]) \/ (i = Len(a) + 1 /\ a2[i] = r)
  BY <1>2
<1>4. \A i \in DOMAIN a2 : Tells(a2[i].job, a2[i].who, a2[i].v, w, t)
  BY <1>1, <1>3
<1>5. Paired(w, a2, t)
  BY <1>1, <1>3 DEF Paired, Silent
<1> QED
  BY <1>1, <1>2, <1>4, <1>5 DEF NetOK, a2

\* A job that waits for nothing has nothing under way.
LEMMA IdleNet ==
  ASSUME NEW w, NEW a, NEW s, NEW j, NetOK(w, a, s), s.stage[j] \notin Waiting
  PROVE  /\ Silent(j, w, a)
         /\ s.stage[j] \in Idle => \A i \in DOMAIN w : w[i].job # j
<1>1. \A i \in DOMAIN w : CallOK(w[i], s) /\ (w[i].live => s.stage[w[i].job] = w[i].wait)
  BY DEF NetOK, Paired
<1>2. \A i \in DOMAIN w : w[i].wait \in Waiting
  BY <1>1 DEF CallOK, Expects, Waiting
<1>3. \A i \in DOMAIN a : s.stage[a[i].job] \in Waiting
  BY DEF NetOK, Tells
<1> QED
  BY <1>1, <1>2, <1>3 DEF Silent, CallOK

\* A sequence without its element i: the others, in their order.
LEMMA CutAt ==
  ASSUME NEW T, NEW s \in Seq(T), NEW i \in DOMAIN s
  PROVE  /\ Cut(s, i) \in Seq(T)
         /\ \A k \in DOMAIN Cut(s, i) :
              \E m \in DOMAIN s : m = (IF k < i THEN k ELSE k + 1) /\ Cut(s, i)[k] = s[m]
<1> DEFINE a == SubSeq(s, 1, i - 1)
           b == SubSeq(s, i + 1, Len(s))
           ab == a \o b
<1>1. a \in Seq(T) /\ b \in Seq(T)
  OBVIOUS
<1>2. Len(a) = i - 1 /\ \A j \in 1..(i - 1) : a[j] = s[j]
  OBVIOUS
<1>3. Len(b) = Len(s) - i /\ \A j \in 1..(Len(s) - i) : b[j] = s[i + j]
  OBVIOUS
<1>4. DOMAIN s = 1..Len(s) /\ Len(s) \in Nat /\ i \in 1..Len(s)
  OBVIOUS
<1> HIDE DEF a, b
<1>5. /\ ab \in Seq(T) /\ Len(ab) = Len(a) + Len(b)
      /\ \A j \in 1..Len(a) : ab[j] = a[j]
      /\ \A j \in 1..Len(b) : ab[Len(a) + j] = b[j]
  BY <1>1, ConcatProperties
<1>6. Cut(s, i) = ab
  BY DEF Cut, a, b
<1> HIDE DEF ab
<1>7. DOMAIN ab = 1..(Len(s) - 1)
  BY <1>2, <1>3, <1>4, <1>5
<1>8. ASSUME NEW k \in DOMAIN ab
      PROVE  \E m \in DOMAIN s : m = (IF k < i THEN k ELSE k + 1) /\ ab[k] = s[m]
  <2>1. CASE k < i
    <3>1. k \in 1..(i - 1) /\ k \in DOMAIN s
      BY <1>4, <1>7, <2>1
    <3> QED
      BY <1>2, <1>5, <2>1, <3>1
  <2>2. CASE ~(k < i)
    <3>1. /\ k - (i - 1) \in 1..(Len(s) - i) /\ (i - 1) + (k - (i - 1)) = k
          /\ i + (k - (i - 1)) = k + 1 /\ k + 1 \in DOMAIN s
      BY <1>4, <1>7, <2>2
    <3>2. ab[k] = b[k - (i - 1)] /\ b[k - (i - 1)] = s[k + 1]
      BY <1>2, <1>3, <1>5, <3>1
    <3> QED
      BY <2>2, <3>1, <3>2
  <2> QED
    BY <2>1, <2>2
<1> QED
  BY <1>5, <1>6, <1>8

\* An answer that is heard, or whose job has given up, is no more under way.
LEMMA LessAnswers ==
  ASSUME NEW w, NEW a, NEW s, NEW i \in DOMAIN a, NEW b \in Seq(Replies), NetOK(w, a, s),
         NEW f, \A k \in DOMAIN b : f[k] \in DOMAIN a /\ f[k] # i /\ b[k] = a[f[k]],
         \A k, m \in DOMAIN b : f[k] = f[m] => k = m
  PROVE  NetOK(w, b, s) /\ Silent(a[i].job, w, b)
<1>1. Paired(w, a, s) /\ \A k \in DOMAIN a : Tells(a[k].job, a[k].who, a[k].v, w, s)
  BY DEF NetOK
<1>2. \A k \in DOMAIN b : Tells(b[k].job, b[k].who, b[k].v, w, s)
  BY <1>1
<1>3. Paired(w, b, s)
  BY <1>1 DEF Paired
<1>4. Silent(a[i].job, w, b)
  BY <1>1 DEF Paired, Silent
<1> QED
  BY <1>2, <1>3, <1>4 DEF NetOK

\* The answer at the head arrives.
LEMMA PopNet ==
  ASSUME NEW w, NEW a, NEW s, NetOK(w, a, s), a # <<>>
  PROVE  /\ Head(a) \in Replies /\ Tells(Head(a).job, Head(a).who, Head(a).v, w, s)
         /\ NetOK(w, Tail(a), s) /\ Silent(Head(a).job, w, Tail(a))
<1> DEFINE b == Tail(a)
           f == [k \in DOMAIN b |-> k + 1]
<1>1. a \in Seq(Replies) /\ \A k \in DOMAIN a : Tells(a[k].job, a[k].who, a[k].v, w, s)
  BY DEF NetOK
<1>2. /\ 1 \in DOMAIN a /\ Head(a) = a[1] /\ a[1] \in Replies
      /\ b \in Seq(Replies) /\ \A k \in DOMAIN b : k \in Nat \ {0} /\ k + 1 \in DOMAIN a /\ b[k] = a[k + 1]
  BY <1>1
<1> HIDE DEF b
<1>3. /\ \A k \in DOMAIN b : f[k] \in DOMAIN a /\ f[k] # 1 /\ b[k] = a[f[k]]
      /\ \A k, m \in DOMAIN b : f[k] = f[m] => k = m
  BY <1>2
<1> HIDE DEF f
<1>4. NetOK(w, b, s) /\ Silent(a[1].job, w, b)
  BY <1>2, <1>3, LessAnswers
<1> QED
  BY <1>1, <1>2, <1>4 DEF b

\* The job of an answer gives up before it arrives.
LEMMA DropNet ==
  ASSUME NEW w, NEW a, NEW s, NEW i \in DOMAIN a, NetOK(w, a, s)
  PROVE  NetOK(w, Cut(a, i), s) /\ Silent(a[i].job, w, Cut(a, i))
<1> DEFINE b == Cut(a, i)
           f == [k \in DOMAIN b |-> IF k < i THEN k ELSE k + 1]
<1>1. a \in Seq(Replies) /\ i \in Nat
  BY DEF NetOK
<1>2. /\ b \in Seq(Replies)
      /\ \A k \in DOMAIN b : \E m \in DOMAIN a : m = (IF k < i THEN k ELSE k + 1) /\ b[k] = a[m]
  BY <1>1, CutAt
<1>3. \A k \in DOMAIN b : k \in Nat
  BY <1>2
<1> HIDE DEF b
<1>4. /\ \A k \in DOMAIN b : f[k] \in DOMAIN a /\ f[k] # i /\ b[k] = a[f[k]]
      /\ \A k, m \in DOMAIN b : f[k] = f[m] => k = m
  BY <1>1, <1>2, <1>3
<1> HIDE DEF f
<1>5. NetOK(w, b, s) /\ Silent(a[i].job, w, b)
  BY <1>2, <1>4, LessAnswers
<1> QED
  BY <1>5 DEF b

\* The job of a call gives up; the call stays on its way.
LEMMA DeafNet ==
  ASSUME NEW w, NEW a, NEW s, NEW i \in DOMAIN w, NetOK(w, a, s), w[i].live
  PROVE  LET w2 == [w EXCEPT ![i].live = FALSE]
         IN  NetOK(w2, a, s) /\ Silent(w[i].job, w2, a)
<1> DEFINE w2 == [w EXCEPT ![i].live = FALSE]
<1>1. /\ w \in Seq(Calls) /\ a \in Seq(Replies)
      /\ Paired(w, a, s) /\ LastIsLast(w, s)
      /\ \A k \in DOMAIN w : CallOK(w[k], s)
      /\ \A k \in DOMAIN a : Tells(a[k].job, a[k].who, a[k].v, w, s)
  BY DEF NetOK
<1>2. \A k \in DOMAIN w : w[k] \in Calls
  BY <1>1
<1>3. DOMAIN w2 = DOMAIN w /\ w2[i] = [w[i] EXCEPT !.live = FALSE] /\ \A k \in DOMAIN w : k # i => w2[k] = w[k]
  OBVIOUS
<1>4. w2[i] \in Calls /\ ~w2[i].live
  BY <1>2, <1>3 DEF Calls
<1>5. \A k \in DOMAIN w : /\ w2[k] \in Calls /\ w2[k].job = w[k].job /\ w2[k].wait = w[k].wait
                          /\ w2[k].row = w[k].row /\ w2[k].who = w[k].who /\ w2[k].val = w[k].val
                          /\ w2[k].live <=> w[k].live /\ k # i
  BY <1>2, <1>3, <1>4 DEF Calls
<1>6. w2 \in Seq(Calls)
  <2>1. DOMAIN w = 1..Len(w) /\ Len(w) \in Nat
    BY <1>1
  <2> HIDE DEF w2
  <2>2. \A k \in 1..Len(w) : w2[k] \in Calls
    BY <1>5, <2>1
  <2>3. DOMAIN w2 = 1..Len(w) /\ w2 = [k \in DOMAIN w2 |-> w2[k]]
    BY <1>3, <2>1 DEF w2
  <2>4. w2 \in [1..Len(w) -> Calls]
    BY <2>2, <2>3
  <2> QED
    BY <2>1, <2>4
<1> HIDE DEF w2
<1>7. Paired(w2, a, s) /\ Silent(w[i].job, w2, a)
  BY <1>1, <1>3, <1>5 DEF Paired, Silent
<1>8. LastIsLast(w2, s)
  BY <1>1, <1>3, <1>5 DEF LastIsLast, IsRow
<1>9. \A k \in DOMAIN w2 : CallOK(w2[k], s)
  BY <1>1, <1>3, <1>5 DEF CallOK, IsRow
<1>10. ASSUME NEW k \in DOMAIN a PROVE Tells(a[k].job, a[k].who, a[k].v, w2, s)
  <2>1. Durable(a[k].job, w, s) => Durable(a[k].job, w2, s)
    BY <1>3, <1>5 DEF Durable, IsRow
  <2> QED
    BY <1>1, <2>1 DEF Tells
<1> QED
  BY <1>1, <1>6, <1>7, <1>8, <1>9, <1>10 DEF NetOK, w2

\* Serving call c, or failing it, moves the vault from s to t: no row is
\* deleted, and an overlay row is written only by an append that carries it.
Kept(c, s, t) ==
  /\ t.stage = s.stage /\ t.last = s.last /\ t.knew = s.knew /\ t.blind = s.blind
  /\ \A p \in Principals : /\ s.list[p] # "absent" => t.list[p] # "absent"
                           /\ s.rec[p] # "absent" => t.rec[p] # "absent"
                           /\ t.list[p] # s.list[p] => IsRow(c) /\ c.who = p

\* A list that no call will change is not changed by serving or failing one.
LEMMA CutDurable ==
  ASSUME NEW w \in Seq(Calls), NEW s, NEW t, NEW i \in DOMAIN w, Kept(w[i], s, t),
         NEW k \in Sets, Durable(k, w, s)
  PROVE  Durable(k, Cut(w, i), t)
<1>1. Who[k] \in Principals
  BY Classes
<1>2. t.list[Who[k]] = s.list[Who[k]]
  BY <1>1 DEF Durable, Kept
<1>3. \A m \in DOMAIN Cut(w, i) : \E n \in DOMAIN w : Cut(w, i)[m] = w[n]
  BY CutAt
<1> QED
  BY <1>2, <1>3 DEF Durable

\* The vault serves call i or fails it: the others stay under way.
LEMMA CutNet ==
  ASSUME NEW w, NEW a, NEW s, NEW t, NEW i \in DOMAIN w, NetOK(w, a, s), Kept(w[i], s, t)
  PROVE  NetOK(Cut(w, i), a, t) /\ (w[i].live => Silent(w[i].job, Cut(w, i), a))
<1> DEFINE w2 == Cut(w, i)
           f == [k \in DOMAIN w2 |-> IF k < i THEN k ELSE k + 1]
<1>1. /\ w \in Seq(Calls) /\ a \in Seq(Replies)
      /\ Paired(w, a, s) /\ LastIsLast(w, s)
      /\ \A k \in DOMAIN w : CallOK(w[k], s)
      /\ \A k \in DOMAIN a : Tells(a[k].job, a[k].who, a[k].v, w, s)
  BY DEF NetOK
<1>2. /\ w2 \in Seq(Calls) /\ i \in Nat
      /\ \A k \in DOMAIN w2 : \E m \in DOMAIN w : m = (IF k < i THEN k ELSE k + 1) /\ w2[k] = w[m]
  BY <1>1, CutAt
<1>3. \A k \in DOMAIN w2 : k \in Nat
  BY <1>2
<1> HIDE DEF w2
<1>4. /\ \A k \in DOMAIN w2 : f[k] \in DOMAIN w /\ f[k] # i /\ w2[k] = w[f[k]]
      /\ \A k, m \in DOMAIN w2 : (f[k] = f[m] => k = m) /\ (k < m => f[k] < f[m])
  BY <1>2, <1>3
<1> HIDE DEF f
<1>5. Paired(w2, a, t) /\ (w[i].live => Silent(w[i].job, w2, a))
  BY <1>1, <1>4 DEF Paired, Silent, Kept
<1>6. LastIsLast(w2, t)
  BY <1>1, <1>4 DEF LastIsLast, Kept
<1>7. \A k \in DOMAIN w2 : CallOK(w2[k], t)
  BY <1>1, <1>4 DEF CallOK, Kept
<1>8. ASSUME NEW k \in DOMAIN a PROVE Tells(a[k].job, a[k].who, a[k].v, w2, t)
  <2> DEFINE j == a[k].job
  <2>1. Tells(j, a[k].who, a[k].v, w, s)
    BY <1>1
  <2>2. j \in Sets /\ Durable(j, w, s) => Durable(j, w2, t)
    BY <1>1, CutDurable DEF w2
  <2>3. j \in Identity => Who[j] \in Principals /\ (s.rec[Who[j]] # "absent" => t.rec[Who[j]] # "absent")
    BY Classes DEF Kept
  <2>4. j \in Reloads /\ s.stage[j] = "query" => \A q \in a[k].v.rows : q \in Principals
    <3>1. a[k] \in Replies
      BY <1>1
    <3> QED
      BY <3>1 DEF Replies, Outcome
  <2> QED
    BY <2>1, <2>2, <2>3, <2>4 DEF Tells, Kept
<1> QED
  BY <1>1, <1>2, <1>5, <1>6, <1>7, <1>8 DEF NetOK, w2

\* A failed call, or one its job gives up on, tells the job nothing.
LEMMA NothingTold ==
  ASSUME NEW w, NEW s, NEW c \in Calls, CallOK(c, s), s.stage[c.job] = c.wait
  PROVE  /\ Tells(c.job, c.who, Nothing, w, s) /\ Nothing \in Outcome
         /\ [job |-> c.job, who |-> c.who, v |-> Nothing] \in Replies
<1>1. Nothing \in Outcome /\ Nothing.ok = FALSE /\ Nothing.val = "none" /\ Nothing.rows = {}
  BY DEF Nothing, Outcome, Values
<1>2. c.job \in AllJobs /\ c.who \in Principals \cup {"none"} /\ c.wait \in Waiting
  BY DEF Calls
<1>3. c.job \in Sets => c.who = Who[c.job]
  BY Classes DEF CallOK, Expects, IsRow
<1> QED
  BY <1>1, <1>2, <1>3 DEF Tells, CallOK, Replies

\* The vault after it served call c.
Served(c, s, t) ==
  /\ t.stage = s.stage /\ t.last = s.last /\ t.knew = s.knew /\ t.blind = s.blind
  /\ t.list = IF c.wait = "append" /\ c.row = "list" THEN [s.list EXCEPT ![c.who] = c.val] ELSE s.list
  /\ t.rec = IF c.wait = "append" /\ c.row = "rec" THEN [s.rec EXCEPT ![c.who] = c.val] ELSE s.rec

\* Only the append of an overlay row writes one, only that of an identity row the other.
LEMMA ServeKeeps ==
  ASSUME NEW c \in Calls, NEW s, NEW t, ViewOK(s), CallOK(c, s), Served(c, s, t)
  PROVE  /\ Kept(c, s, t) /\ ViewOK(t)
         /\ IsRow(c) => t.list[Who[c.job]] = List[c.job]
         /\ c.wait = "append" /\ c.job \in Identity => t.rec[Who[c.job]] # "absent"
<1>1. c.wait = "append" => c.job \in Sets \cup Identity
  BY DEF CallOK, Expects
<1>2. c.job \in Sets => Who[c.job] \in Principals /\ List[c.job] \in {"none", "some"}
  BY Classes
<1>3. c.job \in Identity => Who[c.job] \in Principals /\ c.job \notin Sets
  BY Classes
<1>4. c.wait = "append" /\ c.row = "list" => IsRow(c) /\ c.who = Who[c.job] /\ c.val = List[c.job]
  BY <1>1, <1>3 DEF CallOK, IsRow
<1>5. c.wait = "append" /\ c.row = "rec"
        => c.job \in Identity /\ c.who = Who[c.job] /\ c.val \in {"active", "retired"}
  BY <1>1 DEF CallOK, IsRow
<1>6. ViewOK(t) /\ Kept(c, s, t)
  <2>1. CASE c.wait = "append" /\ c.row = "list"
    <3>1. t.list = [s.list EXCEPT ![c.who] = c.val] /\ t.rec = s.rec
      BY <2>1 DEF Served
    <3>2. IsRow(c) /\ c.who \in Principals /\ c.val \in {"none", "some"}
      BY <1>2, <1>4, <2>1 DEF IsRow
    <3>3. t.list \in [Principals -> {"absent", "none", "some"}]
      BY <3>1, <3>2 DEF ViewOK
    <3>4. \A p \in Principals : t.list[p] = IF p = c.who THEN c.val ELSE s.list[p]
      BY <3>1 DEF ViewOK
    <3> QED
      BY <3>1, <3>2, <3>3, <3>4 DEF ViewOK, Served, Kept
  <2>2. CASE c.wait = "append" /\ c.row = "rec"
    <3>1. t.rec = [s.rec EXCEPT ![c.who] = c.val] /\ t.list = s.list
      BY <2>2 DEF Served
    <3>2. c.who \in Principals /\ c.val \in {"active", "retired"}
      BY <1>3, <1>5, <2>2
    <3>3. t.rec \in [Principals -> {"absent", "active", "retired"}]
      BY <3>1, <3>2 DEF ViewOK
    <3>4. \A p \in Principals : t.rec[p] = IF p = c.who THEN c.val ELSE s.rec[p]
      BY <3>1 DEF ViewOK
    <3> QED
      BY <3>1, <3>2, <3>3, <3>4 DEF ViewOK, Served, Kept
  <2>3. CASE ~(c.wait = "append" /\ c.row \in {"list", "rec"})
    BY <2>3 DEF ViewOK, Served, Kept
  <2> QED
    BY <2>1, <2>2, <2>3
<1>7. IsRow(c) => t.list[Who[c.job]] = List[c.job]
  BY <1>2 DEF ViewOK, Served, CallOK, IsRow
<1>8. c.wait = "append" /\ c.job \in Identity => t.rec[Who[c.job]] # "absent"
  BY <1>3 DEF ViewOK, Served, CallOK
<1> QED
  BY <1>6, <1>7, <1>8

\* What the vault answers to call c.
Reply(c, s) ==
  [ok |-> TRUE,
   val |-> IF c.wait # "get" THEN "none" ELSE IF c.row = "list" THEN s.list[c.who] ELSE s.rec[c.who],
   rows |-> IF c.wait = "query" THEN {p \in Principals : s.list[p] # "absent"} ELSE {}]

\* The answer of the vault tells the job of the call what is so.
LEMMA ServeTells ==
  ASSUME NEW w, NEW a, NEW s, NEW t, NEW i \in DOMAIN w, NetOK(w, a, s), ViewOK(s), w[i].live,
         Served(w[i], s, t),
         \A j \in s.knew : j \in Identity => s.rec[Who[j]] # "absent",
         w[i].wait \in Reads \/ \A k \in 1..(i - 1) : w[k].wait \in Reads
  PROVE  /\ [job |-> w[i].job, who |-> w[i].who, v |-> Reply(w[i], s)] \in Replies
         /\ Tells(w[i].job, w[i].who, Reply(w[i], s), Cut(w, i), t)
<1> DEFINE c == w[i]
           v == Reply(w[i], s)
           w2 == Cut(w, i)
<1>1. w \in Seq(Calls) /\ LastIsLast(w, s) /\ CallOK(c, s) /\ s.stage[c.job] = c.wait
  BY DEF NetOK, Paired
<1>2. c \in Calls /\ i \in Nat /\ \A k \in DOMAIN w : k \in Nat
  BY <1>1
<1>3. \A k \in DOMAIN w2 : \E m \in DOMAIN w : m = (IF k < i THEN k ELSE k + 1) /\ w2[k] = w[m]
  BY <1>1, CutAt
<1>4. \A k \in DOMAIN w2 : k \in Nat
  <2>1. w2 \in Seq(Calls)
    BY <1>1, CutAt
  <2> QED
    BY <2>1
<1> HIDE DEF w2
<1>5. c.job \in Sets /\ t.last[Who[c.job]] = c.job => Durable(c.job, w2, t)
  <2> SUFFICES ASSUME c.job \in Sets, t.last[Who[c.job]] = c.job PROVE Durable(c.job, w2, t)
    OBVIOUS
  <2>1. IsRow(c) /\ c.who = Who[c.job] /\ s.last[c.who] = c.job
    BY <1>1, Classes DEF CallOK, Expects, IsRow, Served
  <2>2. t.list[Who[c.job]] = List[c.job]
    BY <1>1, <1>2, <2>1, ServeKeeps
  <2>3. ASSUME NEW k \in DOMAIN w2, IsRow(w2[k]) PROVE w2[k].who # Who[c.job]
    <3>1. PICK m \in DOMAIN w : m = (IF k < i THEN k ELSE k + 1) /\ w2[k] = w[m]
      BY <1>3
    <3>2. m < i \/ i < m
      BY <1>2, <1>4, <3>1
    <3>3. CASE m < i
      <4>1. m \in 1..(i - 1) /\ w[m].wait = "append" /\ c.wait = "append"
        <5>1. DOMAIN w = 1..Len(w)
          BY <1>1
        <5>2. m \in 1..(i - 1)
          BY <1>2, <3>3, <5>1
        <5> QED
          BY <2>1, <2>3, <3>1, <5>2 DEF IsRow
      <4> QED
        BY <4>1 DEF Reads
    <3>4. CASE i < m
      BY <1>1, <2>1, <2>3, <3>1, <3>4 DEF LastIsLast
    <3> QED
      BY <3>2, <3>3, <3>4
  <2> QED
    BY <2>2, <2>3 DEF Durable
<1>6. c.job \in Identity => Who[c.job] \in Principals /\ c.job \notin Sets /\ c.job \notin Reloads
  BY Classes
<1>7. c.wait = "get" => c.job \in Reloads \cup Identity /\ t.list = s.list /\ t.rec = s.rec
  BY <1>1 DEF CallOK, Expects, Served
<1>8. c.wait = "get" /\ c.job \in Identity => v.val = s.rec[Who[c.job]] /\ s.rec[Who[c.job]] \in {"absent", "active", "retired"}
  BY <1>1, <1>6 DEF CallOK, Reply, ViewOK
<1>9. c.wait = "get" /\ c.job \in Reloads => v.val = s.list[c.who] /\ c.who \in Principals /\ v.val \in {"none", "some"}
  BY <1>1 DEF CallOK, Reply, ViewOK
<1>10. v.ok = TRUE /\ v.rows \subseteq {p \in Principals : s.list[p] # "absent"} /\ v.val \in Values
  <2>1. c.wait # "get" => v.val = "none"
    BY DEF Reply
  <2>2. v.ok = TRUE /\ v.rows \subseteq {p \in Principals : s.list[p] # "absent"}
    BY DEF Reply
  <2> QED
    BY <1>7, <1>8, <1>9, <2>1, <2>2 DEF Values
<1>11. v \in Outcome
  BY <1>10 DEF Reply, Outcome
<1>12. [job |-> c.job, who |-> c.who, v |-> v] \in Replies
  BY <1>2, <1>11 DEF Calls, Replies
<1>13. \A p \in Principals : s.list[p] # "absent" => t.list[p] # "absent"
  BY <1>1, <1>2, ServeKeeps DEF Kept
<1>14. c.wait = "append" /\ c.job \in Identity => t.rec[Who[c.job]] # "absent"
  BY <1>1, <1>2, ServeKeeps
<1>15. t.stage[c.job] = c.wait /\ t.knew = s.knew /\ c.wait \in Waiting
  BY <1>1, <1>2 DEF Served, Calls
<1>16. c.job \in Sets => c.who = Who[c.job]
  BY <1>1, Classes DEF CallOK, Expects, IsRow
<1> HIDE DEF v
<1>17. Tells(c.job, c.who, v, w2, t)
  <2>1. c.job \in Identity => c.who = Who[c.job]
    BY <1>1 DEF CallOK
  <2>2. c.job \in Identity /\ c.wait = "get" =>
          /\ v.val \in {"absent", "active", "retired"}
          /\ v.val \in {"active", "retired"} => t.rec[Who[c.job]] # "absent"
          /\ c.job \in t.knew => v.val # "absent"
    BY <1>7, <1>8, <1>15
  <2>3. \A q \in v.rows : t.list[q] # "absent"
    BY <1>10, <1>13
  <2> HIDE DEF c
  <2> QED
    BY <1>5, <1>9, <1>14, <1>15, <1>16, <2>1, <2>2, <2>3 DEF Tells
<1> QED
  BY <1>12, <1>17 DEF v, w2

-----------------------------------------------------------------------------
(* One step of a job.                                                      *)

\* The call that Ask() sends for job j.
Letter(j, wait, row, p, v) ==
  [job |-> j, wait |-> wait, row |-> row, who |-> p, val |-> v, live |-> TRUE]

\* It may be sent from state t, behind the calls w: an overlay row is the one
\* of the last set, and the first call of its job.
Sendable(c, w, t) ==
  /\ c \in Calls /\ CallOK(c, t)
  /\ IsRow(c) => t.last[c.who] = c.job /\ \A i \in DOMAIN w : w[i].job # c.job

\* A check of the law's own token keeps the table well-typed.
LEMMA OwnCheck == TypeOK /\ Check(Law, OwnToken, "vault") => TypeOK'
  BY TypeStep, Classes DEF Next

\* Job j asks the vault: whether or not the router lets the call pass, the
\* calls under way stay in order, and what was durable is.
LEMMA Asks ==
  ASSUME TypeOK, NEW j \in AllJobs, NEW net, NetOK(net.wire, net.answers, View),
         Silent(j, net.wire, net.answers), Moved(j, View, View', net.wire), DOMAIN stage = AllJobs,
         NEW wait \in Waiting, NEW row, NEW p, NEW v, Ask(j, wait, row, p, v, net),
         Sendable(Letter(j, wait, row, p, v), net.wire, View')
  PROVE  /\ TypeOK' /\ NetInv'
         /\ \A k \in Sets : k # j /\ last'[Who[k]] = k /\ Durable(k, net.wire, View) => Durable(k, wire', View')
<1> DEFINE c == Letter(j, wait, row, p, v)
           w == net.wire
           a == net.answers
<1>1. /\ c.job = j /\ c.wait = wait /\ c.who = p /\ c.live = TRUE
      /\ c \in Calls /\ CallOK(c, View') /\ View'.stage[j] = wait
      /\ IsRow(c) => View'.last[c.who] = c.job /\ \A i \in DOMAIN w : w[i].job # c.job
  BY DEF Letter, Sendable, Ask, View
<1>2. NetOK(w, a, View')
  BY MoveNet
<1>3. TypeOK'
  BY OwnCheck DEF Ask
<1>4. \A k \in Sets : Durable(k, w, View) => Durable(k, w, View')
  BY DEF Durable, Moved
<1>5. \/ wire' = Append(w, c) /\ answers' = a
      \/ wire' = w /\ answers' = Append(a, [job |-> j, who |-> p, v |-> Nothing])
  BY DEF Ask, Letter
<1> HIDE DEF c, w, a
<1>6. CASE wire' = Append(w, c) /\ answers' = a
  <2>1. NetOK(Append(w, c), a, View')
    BY <1>1, <1>2, AskNet DEF w, a
  <2>2. ASSUME NEW k \in Sets, k # j, last'[Who[k]] = k, Durable(k, w, View)
        PROVE  Durable(k, Append(w, c), View')
    <3>1. w \in Seq(Calls)
      BY <1>2 DEF NetOK
    <3>2. \A i \in DOMAIN Append(w, c) : (i \in DOMAIN w /\ Append(w, c)[i] = w[i]) \/ Append(w, c)[i] = c
      BY <1>1, <3>1
    <3>3. IsRow(c) => c.who # Who[k]
      BY <1>1, <2>2 DEF View
    <3> QED
      BY <1>4, <2>2, <3>2, <3>3 DEF Durable
  <2> QED
    BY <1>3, <1>6, <2>1, <2>2 DEF NetInv, w
<1>7. CASE wire' = w /\ answers' = Append(a, [job |-> j, who |-> p, v |-> Nothing])
  <2> DEFINE r == [job |-> j, who |-> p, v |-> Nothing]
  <2>1. r \in Replies /\ Tells(j, p, Nothing, w, View')
    BY <1>1, NothingTold
  <2>2. r.job = j /\ r.who = p /\ r.v = Nothing
    OBVIOUS
  <2> HIDE DEF r
  <2>3. NetOK(w, Append(a, r), View')
    BY <1>2, <2>1, <2>2, RefuseNet DEF w, a
  <2> QED
    BY <1>3, <1>4, <1>7, <2>3 DEF NetInv, r, w
<1> QED
  BY <1>5, <1>6, <1>7

\* Job j ends with answer st.
LEMMA Ends ==
  ASSUME TypeOK, NEW j \in AllJobs, NEW net, NetOK(net.wire, net.answers, View),
         Silent(j, net.wire, net.answers), Moved(j, View, View', net.wire),
         wire' = net.wire, answers' = net.answers
  PROVE  /\ NetInv'
         /\ \A k \in Sets : Durable(k, net.wire, View) => Durable(k, wire', View')
<1>1. NetOK(net.wire, net.answers, View')
  BY MoveNet
<1> QED
  BY <1>1 DEF NetInv, Durable, Moved

\* What the step of job j leaves to the calls net does to them and to the table:
\* the job ends, or it asks.
Steps(j, net) ==
  \/ \E st \in Answered :
       /\ stage' = [stage EXCEPT ![j] = st] /\ wire' = net.wire /\ answers' = net.answers
       /\ TypeOK'
       /\ j \in Sets /\ st = "ok" /\ last[Who[j]] = j => Durable(j, net.wire, View)
  \/ \E wait \in Waiting : \E row, p, v :
       Ask(j, wait, row, p, v, net) /\ Sendable(Letter(j, wait, row, p, v), net.wire, View')

\* The calls and answers net under way but for those of job j.
Without(j, net) ==
  /\ NetOK(net.wire, net.answers, View) /\ Silent(j, net.wire, net.answers)
  /\ \A k \in Sets : Durable(k, wire, View) => Durable(k, net.wire, View)

\* What a job's step leaves of the histories and of the reloads.
Remembers(j, net) ==
  /\ list' = list /\ rec' = rec /\ blind \subseteq blind'
  /\ \/ last' = last
     \/ /\ j \in Sets /\ last' = [last EXCEPT ![Who[j]] = j] /\ stage'[j] \in Waiting
        /\ \A i \in DOMAIN net.wire : net.wire[i].job # j
  /\ \/ knew' = knew
     \/ /\ knew' = knew \cup {j} /\ j \in Identity /\ rec[Who[j]] # "absent"
        /\ \A i \in DOMAIN net.wire : net.wire[i].job # j
  /\ todo' \in [Reloads -> SUBSET Principals]
  /\ \A k \in Reloads : k # j => todo'[k] = todo[k]
  /\ j \in Reloads /\ stage'[j] = "get" => \A q \in todo'[j] : list[q] # "absent"

\* One step of a job keeps the calls under way in order.
LEMMA JobStep ==
  ASSUME LawTypeOK, JobsInv, NEW j \in AllJobs, NEW net, Without(j, net), Steps(j, net), Remembers(j, net)
  PROVE  /\ TypeOK' /\ NetInv' /\ JobsInv'
         /\ stage' \in [AllJobs -> Waiting \cup Answered \cup Idle]
         /\ \A k \in AllJobs : k # j => stage'[k] = stage[k]
<1>1. PICK st \in Waiting \cup Answered : stage' = [stage EXCEPT ![j] = st]
  BY DEF Steps, Ask
<1>2. /\ DOMAIN stage = AllJobs /\ stage \in [AllJobs -> Waiting \cup Answered \cup Idle]
      /\ last \in [Principals -> Sets \cup {"none"}]
  BY DEF LawTypeOK, JobsInv, Idle
<1>3. /\ stage' \in [AllJobs -> Waiting \cup Answered \cup Idle] /\ stage'[j] = st
      /\ \A k \in AllJobs : k # j => stage'[k] = stage[k]
  BY <1>1, <1>2
<1>4. st \notin Idle
  BY DEF Idle, Waiting, Answered
<1>5. j \in Sets => Who[j] \in Principals
  BY Classes
<1>6. last' \in [Principals -> Sets \cup {"none"}] /\ \A p \in Principals : last'[p] = last[p] \/ last'[p] = j
  BY <1>2, <1>5 DEF Remembers
<1>7. Moved(j, View, View', net.wire)
  BY <1>3, <1>4, <1>6 DEF Moved, Remembers, View
<1> DEFINE Kept8 ==
      /\ TypeOK' /\ NetInv'
      /\ \A k \in Sets : k # j /\ last'[Who[k]] = k /\ Durable(k, net.wire, View) => Durable(k, wire', View')
      /\ j \in Sets /\ stage'[j] = "ok" /\ last[Who[j]] = j => Durable(j, wire', View')
      /\ stage'[j] \in Waiting => Expects(j, stage'[j])
<1>8. Kept8
  <2>1. TypeOK
    BY DEF LawTypeOK
  <2>2. ASSUME NEW wait \in Waiting, NEW row, NEW p, NEW v, Ask(j, wait, row, p, v, net),
               Sendable(Letter(j, wait, row, p, v), net.wire, View')
        PROVE  Kept8
    <3>1. /\ TypeOK' /\ NetInv'
          /\ \A k \in Sets : k # j /\ last'[Who[k]] = k /\ Durable(k, net.wire, View) => Durable(k, wire', View')
      BY <1>2, <1>7, <2>1, <2>2, Asks DEF Without
    <3>2. stage'[j] = wait
      BY <1>2, <2>2 DEF Ask
    <3>3. Expects(j, wait)
      BY <2>2 DEF Sendable, Letter, CallOK
    <3>4. wait # "ok"
      BY DEF Waiting
    <3> QED
      BY <3>1, <3>2, <3>3, <3>4
  <2>3. ASSUME NEW st2 \in Answered, stage' = [stage EXCEPT ![j] = st2],
               wire' = net.wire, answers' = net.answers, TypeOK',
               j \in Sets /\ st2 = "ok" /\ last[Who[j]] = j => Durable(j, net.wire, View)
        PROVE  Kept8
    <3>1. NetInv' /\ \A k \in Sets : Durable(k, net.wire, View) => Durable(k, wire', View')
      BY <1>7, <2>1, <2>3, Ends DEF Without
    <3>2. stage'[j] = st2 /\ st2 \notin Waiting
      BY <1>2, <2>3 DEF Waiting, Answered
    <3> QED
      BY <2>3, <3>1, <3>2
  <2> HIDE DEF Kept8
  <2> QED
    BY <2>2, <2>3 DEF Steps
<1>9. JobsInv'
  <2>1. \A k \in AllJobs : stage'[k] \in Waiting => Expects(k, stage'[k])
    BY <1>3, <1>8 DEF JobsInv
  <2>2. ASSUME NEW k \in Sets, last'[Who[k]] = k
        PROVE  stage'[k] \notin Idle /\ (stage'[k] = "ok" => Durable(k, wire', View'))
    <3>1. Who[k] \in Principals /\ k \in AllJobs
      BY Classes
    <3>2. CASE k = j
      <4>1. last[Who[j]] = j \/ stage'[j] \in Waiting
        BY <2>2, <3>2 DEF Remembers
      <4>2. stage'[j] \in Waiting => stage'[j] # "ok"
        BY DEF Waiting
      <4> QED
        BY <1>3, <1>4, <1>8, <3>2, <4>1, <4>2
    <3>3. CASE k # j
      <4>1. last[Who[k]] = k
        BY <1>6, <2>2, <3>1, <3>3
      <4>2. stage'[k] = stage[k] /\ stage[k] \notin Idle /\ (stage[k] = "ok" => Durable(k, wire, View))
        BY <1>3, <3>1, <3>3, <4>1 DEF JobsInv
      <4> QED
        BY <1>8, <2>2, <3>3, <4>2 DEF Without
    <3> QED
      BY <3>2, <3>3
  <2>3. ASSUME NEW k \in Reloads, stage'[k] = "get", NEW q \in todo'[k]
        PROVE  list'[q] # "absent"
    <3>1. CASE k = j
      BY <2>3, <3>1 DEF Remembers
    <3>2. CASE k # j
      <4>1. k \in AllJobs
        BY Classes
      <4> QED
        BY <1>3, <2>3, <3>2, <4>1 DEF Remembers, JobsInv
    <3> QED
      BY <3>1, <3>2
  <2>4. \A k \in knew' : k \in Identity /\ rec'[Who[k]] # "absent"
    BY DEF Remembers, JobsInv
  <2>5. \A k \in Sets, p \in Principals : last'[p] = k => p = Who[k]
    BY <1>2, <1>5 DEF Remembers, JobsInv
  <2> QED
    BY <1>6, <2>1, <2>2, <2>3, <2>4, <2>5 DEF JobsInv
<1> QED
  BY <1>3, <1>8, <1>9

\* One step of a job keeps the ceremony of consent whole: only a grant makes a
\* consent active, and it ends with the row there or the consent revoked.
LEMMA ConsentStep ==
  ASSUME ConsentHasItsRow, NEW j \in AllJobs, rec' = rec, up' # "down" => up # "down",
         \A k \in AllJobs : k # j => stage'[k] = stage[k],
         \A p \in Principals : consent'[p] = "active" =>
           consent[p] = "active" \/ (j \in Of("consent.grant") /\ Who[j] = p /\ stage'[j] \in Waiting),
         j \in Of("consent.grant") /\ stage[j] \in Waiting /\ stage'[j] \notin Waiting =>
           rec[Who[j]] # "absent" \/ consent'[Who[j]] # "active"
  PROVE  ConsentHasItsRow'
<1> SUFFICES ASSUME NEW p \in Principals, consent'[p] = "active", up' # "down", rec'[p] = "absent"
             PROVE  \E k \in InFlight' \cap Of("consent.grant") : Who[k] = p
  BY DEF ConsentHasItsRow
<1>1. CASE j \in Of("consent.grant") /\ Who[j] = p /\ stage'[j] \in Waiting
  BY <1>1 DEF InFlight
<1>2. CASE ~(j \in Of("consent.grant") /\ Who[j] = p /\ stage'[j] \in Waiting)
  <2>1. consent[p] = "active"
    BY <1>2
  <2>2. PICK k \in InFlight \cap Of("consent.grant") : Who[k] = p
    BY <2>1 DEF ConsentHasItsRow
  <2>3. k # j
    BY <1>2, <2>2 DEF InFlight
  <2> QED
    BY <2>2, <2>3 DEF InFlight
<1> QED
  BY <1>1, <1>2

\* The type of what the law and the vault remember.
MemOK ==
  /\ up \in {"down", "init", "up"} /\ boots \in 0..MaxBoots
  /\ forbidden \in [Principals -> {"none", "some"}]
  /\ consent \in [Principals -> {"none", "active", "revoked"}] /\ loaded \in BOOLEAN
  /\ list \in [Principals -> {"absent", "none", "some"}]
  /\ rec \in [Principals -> {"absent", "active", "retired"}]
  /\ prior \in [AllJobs -> {"none", "some"}] /\ todo \in [Reloads -> SUBSET Principals]
  /\ attempt \in 0..MaxAttempts

\* The type invariant by its parts.
LEMMA TypeParts ==
  LawTypeOK <=> TypeOK /\ MemOK /\ stage \in [AllJobs -> Waiting \cup Answered \cup Idle]
  BY DEF LawTypeOK, MemOK, Idle

\* A consent becomes active only by a grant that now waits for its row.
Ceremony(j) ==
  /\ \A p \in Principals : consent'[p] = "active" =>
       consent[p] = "active" \/ (j \in Of("consent.grant") /\ Who[j] = p /\ stage'[j] \in Waiting)
  /\ j \in Of("consent.grant") /\ stage[j] \in Waiting /\ stage'[j] \notin Waiting =>
       rec[Who[j]] # "absent" \/ consent'[Who[j]] # "active"

\* One step of a job keeps the invariant.
LEMMA JobInv ==
  ASSUME LawInv, NEW j \in AllJobs, NEW net, Without(j, net), Steps(j, net), Remembers(j, net),
         Ceremony(j), up' # "down" => up # "down", MemOK'
  PROVE  LawInv'
<1>1. /\ TypeOK' /\ NetInv' /\ JobsInv'
      /\ stage' \in [AllJobs -> Waiting \cup Answered \cup Idle]
      /\ \A k \in AllJobs : k # j => stage'[k] = stage[k]
  BY JobStep DEF LawInv
<1>2. ConsentHasItsRow'
  BY <1>1, ConsentStep DEF LawInv, Ceremony, Remembers
<1>3. LawTypeOK'
  BY <1>1 DEF LawTypeOK, MemOK, Idle
<1> QED
  BY <1>1, <1>2, <1>3 DEF LawInv

\* A job that has just been called has nothing under way.
LEMMA CalledNet ==
  ASSUME LawInv, NEW j \in AllJobs, stage[j] = "called"
  PROVE  Without(j, Net) /\ \A i \in DOMAIN wire : wire[i].job # j
<1>1. NetOK(wire, answers, View) /\ View.stage[j] = "called"
  BY DEF LawInv, NetInv, View
<1>2. "called" \notin Waiting /\ "called" \in Idle
  BY DEF Waiting, Idle
<1>3. Silent(j, wire, answers) /\ \A i \in DOMAIN wire : wire[i].job # j
  BY <1>1, <1>2, IdleNet
<1> QED
  BY <1>1, <1>3 DEF Without, Net

\* law.forbidden.set@1 up to its append.
LEMMA SetStarts ==
  ASSUME LawInv, NEW j \in Sets, stage[j] = "called", StartSet(j, Who[j]), UNCHANGED <<up, boots, list, rec>>
  PROVE  LawInv'
<1>1. /\ j \in AllJobs /\ Who[j] \in Principals /\ List[j] \in {"none", "some"}
      /\ j \notin Identity /\ j \notin Reloads /\ j \notin Of("consent.grant")
  BY Classes DEF Identity
<1>2. LawTypeOK /\ MemOK /\ DOMAIN stage = AllJobs /\ DOMAIN last = Principals
  BY TypeParts DEF LawInv, JobsInv
<1>3. Without(j, Net) /\ (\A i \in DOMAIN wire : wire[i].job # j) /\ Net.wire = wire
  BY <1>1, CalledNet DEF Net
<1>4. /\ Ask(j, "append", "list", Who[j], List[j], Net) /\ stage' = [stage EXCEPT ![j] = "append"]
      /\ stage'[j] = "append" /\ last' = [last EXCEPT ![Who[j]] = j] /\ last'[Who[j]] = j
  BY <1>1, <1>2 DEF StartSet, Ask
<1>5. Sendable(Letter(j, "append", "list", Who[j], List[j]), Net.wire, View')
  BY <1>1, <1>3, <1>4 DEF Sendable, Letter, Calls, CallOK, Expects, IsRow, View, Waiting, Idle, Values
<1>6. Steps(j, Net)
  BY <1>4, <1>5 DEF Steps, Waiting
<1>7. Remembers(j, Net)
  BY <1>1, <1>2, <1>3, <1>4 DEF StartSet, Remembers, Waiting, MemOK
<1>8. MemOK'
  BY <1>1, <1>2 DEF StartSet, MemOK
<1>9. Ceremony(j)
  BY <1>1 DEF StartSet, Ceremony
<1> QED
  BY <1>1, <1>3, <1>6, <1>7, <1>8, <1>9, JobInv

\* reloadForbidden() up to its query, of the op and of onInit.
LEMMA ReloadStarts ==
  ASSUME LawInv, NEW j \in Reloads, stage[j] = "called", StartReload(j), UNCHANGED <<up, boots, list, rec>>
  PROVE  LawInv'
<1>1. j \in AllJobs /\ j \notin Identity /\ j \notin Sets /\ j \notin Of("consent.grant")
  BY Classes DEF Identity
<1>2. LawTypeOK /\ MemOK /\ DOMAIN stage = AllJobs
  BY TypeParts DEF LawInv
<1>3. Without(j, Net) /\ Net.wire = wire
  BY <1>1, CalledNet DEF Net
<1>4. /\ Ask(j, "query", "list", "none", "none", Net) /\ stage' = [stage EXCEPT ![j] = "query"]
      /\ stage'[j] = "query"
  BY <1>1, <1>2 DEF StartReload, Ask
<1>5. Sendable(Letter(j, "query", "list", "none", "none"), Net.wire, View')
  BY <1>1, <1>4 DEF Sendable, Letter, Calls, CallOK, Expects, IsRow, View, Waiting, Idle, Values
<1>6. Steps(j, Net)
  BY <1>4, <1>5 DEF Steps, Waiting
<1>7. Remembers(j, Net)
  BY <1>2, <1>4 DEF StartReload, Remembers, MemOK, memory
<1>8. MemOK'
  BY <1>2 DEF StartReload, MemOK, memory
<1>9. Ceremony(j)
  BY <1>1 DEF StartReload, Ceremony, memory
<1> QED
  BY <1>1, <1>2, <1>3, <1>6, <1>7, <1>8, <1>9, JobInv

\* law.consent.grant@1, law.principal.register@1 and .retire@1 up to their read.
LEMMA IdentityStarts ==
  ASSUME LawInv, NEW j \in Identity, stage[j] = "called", StartIdentity(j, Who[j]),
         UNCHANGED <<up, boots, list, rec>>
  PROVE  LawInv'
<1>1. j \in AllJobs /\ Who[j] \in Principals /\ j \notin Reloads /\ j \notin Sets
  BY Classes
<1>2. LawTypeOK /\ MemOK /\ DOMAIN stage = AllJobs
  BY TypeParts DEF LawInv
<1>3. Without(j, Net) /\ (\A i \in DOMAIN wire : wire[i].job # j) /\ Net.wire = wire
  BY <1>1, CalledNet DEF Net
<1>4. /\ Ask(j, "get", "rec", Who[j], "none", Net) /\ stage' = [stage EXCEPT ![j] = "get"]
      /\ stage'[j] = "get"
  BY <1>1, <1>2 DEF StartIdentity, Ask
<1>5. Sendable(Letter(j, "get", "rec", Who[j], "none"), Net.wire, View')
  BY <1>1, <1>4 DEF Sendable, Letter, Calls, CallOK, Expects, IsRow, View, Waiting, Idle, Values
<1>6. Steps(j, Net)
  BY <1>4, <1>5 DEF Steps, Waiting
<1>7. Remembers(j, Net)
  BY <1>1, <1>2, <1>3, <1>4 DEF StartIdentity, Remembers, MemOK
<1>8. MemOK'
  BY <1>1, <1>2 DEF StartIdentity, MemOK
<1>9. Ceremony(j)
  <2>1. stage'[j] \in Waiting
    BY <1>4 DEF Waiting
  <2>2. Kind[j] = "consent.grant" => j \in Of("consent.grant")
    BY LawAssumption DEF Identity, Of
  <2> QED
    BY <1>1, <1>2, <2>1, <2>2 DEF StartIdentity, Ceremony, MemOK
<1> QED
  BY <1>1, <1>3, <1>6, <1>7, <1>8, <1>9, JobInv

\* law.consent.grant@1 with action revoke, and law.tokens.revoke@1 up to its intent.
LEMMA OthersStart ==
  ASSUME LawInv, NEW j \in Of("consent.revoke") \cup Of("tokens.revoke"), stage[j] = "called",
         \/ j \in Of("consent.revoke") /\ RevokeConsent(j, Who[j])
         \/ j \in Of("tokens.revoke") /\ StartRevoke(j),
         UNCHANGED <<up, boots, list, rec>>
  PROVE  LawInv'
<1>1. /\ j \in AllJobs /\ j \notin Identity /\ j \notin Sets /\ j \notin Reloads /\ j \notin Of("consent.grant")
      /\ j \in Of("consent.revoke") => Who[j] \in Principals
  BY LawAssumption DEF Of, Identity, Sets, Reloads, AllJobs, Principals
<1>2. LawTypeOK /\ MemOK /\ DOMAIN stage = AllJobs /\ TypeOK
  BY TypeParts DEF LawInv
<1>3. Without(j, Net)
  BY <1>1, CalledNet
<1>4. ASSUME RevokeConsent(j, Who[j]), j \in Of("consent.revoke")
      PROVE  Steps(j, Net) /\ Remembers(j, Net) /\ MemOK' /\ Ceremony(j)
  <2>1. /\ stage' = [stage EXCEPT ![j] = "ok"] /\ wire' = Net.wire /\ answers' = Net.answers
        /\ UNCHANGED vars
    BY <1>4 DEF RevokeConsent, End
  <2>2. TypeOK'
    BY <1>2, <2>1, TypeStep
  <2>3. Steps(j, Net)
    BY <1>1, <2>1, <2>2 DEF Steps, Answered
  <2>4. Remembers(j, Net)
    BY <1>1, <1>2, <1>4 DEF RevokeConsent, Remembers, MemOK, history
  <2>5. MemOK'
    BY <1>1, <1>2, <1>4 DEF RevokeConsent, MemOK
  <2>6. Ceremony(j)
    BY <1>1, <1>2, <1>4 DEF RevokeConsent, Ceremony, MemOK
  <2> QED
    BY <2>3, <2>4, <2>5, <2>6
<1>5. ASSUME StartRevoke(j), j \in Of("tokens.revoke")
      PROVE  Steps(j, Net) /\ Remembers(j, Net) /\ MemOK' /\ Ceremony(j)
  <2>1. /\ Ask(j, "intent", "journal", "none", "none", Net) /\ stage' = [stage EXCEPT ![j] = "intent"]
        /\ stage'[j] = "intent"
    BY <1>1, <1>2, <1>5 DEF StartRevoke, Ask
  <2>2. Sendable(Letter(j, "intent", "journal", "none", "none"), Net.wire, View')
    BY <1>1, <1>5, <2>1 DEF Sendable, Letter, Calls, CallOK, Expects, IsRow, View, Waiting, Idle, Values
  <2>3. Steps(j, Net)
    BY <2>1, <2>2 DEF Steps, Waiting
  <2>4. Remembers(j, Net)
    BY <1>1, <1>2, <1>5 DEF StartRevoke, Remembers, MemOK, history
  <2>5. MemOK'
    BY <1>2, <1>5 DEF StartRevoke, MemOK, memory
  <2>6. Ceremony(j)
    BY <1>1, <1>5 DEF StartRevoke, Ceremony, memory
  <2> QED
    BY <2>3, <2>4, <2>5, <2>6
<1> QED
  BY <1>1, <1>3, <1>4, <1>5, JobInv

\* Every op that is handled keeps the invariant.
LEMMA HandleInv ==
  ASSUME LawInv, NEW j \in Jobs, Handle(j)
  PROVE  LawInv'
<1>1. /\ Kind[j] = "forbidden.set" => j \in Sets
      /\ Kind[j] = "forbidden.reload" => j \in Reloads
      /\ Kind[j] = "consent.revoke" => j \in Of("consent.revoke")
      /\ Kind[j] = "tokens.revoke" => j \in Of("tokens.revoke")
      /\ Kind[j] \notin {"forbidden.set", "forbidden.reload", "consent.revoke", "tokens.revoke"} => j \in Identity
  BY LawAssumption DEF Of, Sets, Reloads, Identity, Ops
<1>2. stage[j] = "called" /\ UNCHANGED <<up, boots, list, rec>>
  BY DEF Handle
<1>3. \/ Kind[j] = "forbidden.set" /\ StartSet(j, Who[j])
      \/ Kind[j] = "forbidden.reload" /\ StartReload(j)
      \/ Kind[j] = "consent.revoke" /\ RevokeConsent(j, Who[j])
      \/ Kind[j] = "tokens.revoke" /\ StartRevoke(j)
      \/ /\ Kind[j] \notin {"forbidden.set", "forbidden.reload", "consent.revoke", "tokens.revoke"}
         /\ StartIdentity(j, Who[j])
  BY DEF Handle
<1> QED
  BY <1>1, <1>2, <1>3, SetStarts, ReloadStarts, IdentityStarts, OthersStart

\* Job j goes on with the outcome v, about p, of the call it awaits.
Hears(j, p, v, net) ==
  /\ j \in AllJobs /\ v \in Outcome
  /\ Without(j, net) /\ Tells(j, p, v, net.wire, View)

\* A handler that ends.
LEMMA EndSteps ==
  ASSUME TypeOK, NEW j, NEW net, NEW st \in Answered, End(j, st, net),
         j \in Sets /\ st = "ok" /\ last[Who[j]] = j => Durable(j, net.wire, View)
  PROVE  Steps(j, net)
<1>1. TypeOK'
  BY TypeStep DEF End
<1> QED
  BY <1>1 DEF End, Steps

\* law.forbidden.set@1 after its append.
LEMMA SetGoesOn ==
  ASSUME LawInv, NEW j \in Sets, NEW p, NEW v, NEW net, NEW late, Hears(j, p, v, net),
         SetAnswered(j, p, v, net, late), UNCHANGED <<boots, list, rec>>, up # "down", Ready(j)
  PROVE  LawInv'
<1>1. /\ j \in AllJobs /\ p = Who[j] /\ Who[j] \in Principals
      /\ j \notin Reloads /\ j \notin Identity /\ j \notin Of("consent.grant")
  BY Classes DEF Hears, Tells, Identity
<1>2. LawTypeOK /\ MemOK /\ TypeOK
  BY TypeParts DEF LawInv
<1>3. Steps(j, net)
  <2>1. PICK st \in Answered : st = (IF v.ok THEN "ok" ELSE "failed")
    BY DEF Answered
  <2>2. End(j, st, net)
    BY <2>1 DEF SetAnswered
  <2>3. st = "ok" => v.ok
    BY <2>1
  <2> QED
    BY <1>1, <1>2, <2>2, <2>3, EndSteps DEF Hears, Tells, View
<1>4. Remembers(j, net)
  BY <1>1, <1>2 DEF SetAnswered, Remembers, MemOK
<1>5. MemOK'
  BY <1>1, <1>2 DEF SetAnswered, MemOK, Ready
<1>6. Ceremony(j)
  BY <1>1 DEF SetAnswered, Ceremony
<1> QED
  BY <1>1, <1>3, <1>4, <1>5, <1>6, JobInv DEF Hears

\* A reload after its query.
LEMMA QueryGoesOn ==
  ASSUME LawInv, NEW j \in Reloads, NEW p, NEW v, NEW net, Hears(j, p, v, net),
         QueryAnswered(j, v, net), UNCHANGED <<boots, list, rec>>, up # "down", Ready(j), stage[j] = "query"
  PROVE  LawInv'
<1>1. j \in AllJobs /\ j \notin Sets /\ j \notin Identity /\ j \notin Of("consent.grant")
  BY Classes DEF Identity
<1>2. LawTypeOK /\ MemOK /\ TypeOK /\ DOMAIN stage = AllJobs
  BY TypeParts DEF LawInv
<1>3. \A q \in v.rows : q \in Principals /\ list[q] # "absent"
  BY DEF Hears, Tells, Outcome, View
<1>4. UNCHANGED <<forbidden, consent, prior, history>>
  BY DEF QueryAnswered
<1> DEFINE Goes ==
      /\ Steps(j, net) /\ todo' \in [Reloads -> SUBSET Principals] /\ loaded' \in BOOLEAN
      /\ attempt' \in 0..MaxAttempts
      /\ \A k \in Reloads : k # j => todo'[k] = todo[k]
      /\ stage'[j] = "get" => \A q \in todo'[j] : list[q] # "absent"
<1>5. Goes
  <2>1. ASSUME NEW st \in {"ok", "failed"}, End(j, st, net), UNCHANGED <<todo, attempt>>, loaded' \in BOOLEAN
        PROVE  Goes
    <3>1. Steps(j, net)
      BY <1>1, <1>2, <2>1, EndSteps DEF Answered
    <3>2. stage'[j] = st
      BY <1>1, <1>2, <2>1 DEF End
    <3> QED
      BY <1>2, <2>1, <3>1, <3>2 DEF MemOK
  <2>2. ASSUME j = Boot, attempt < MaxAttempts, attempt' = attempt + 1, UNCHANGED <<todo, loaded>>,
               Ask(j, "query", "list", "none", "none", net)
        PROVE  Goes
    <3>1. stage'[j] = "query"
      BY <1>1, <1>2, <2>2 DEF Ask
    <3>2. Sendable(Letter(j, "query", "list", "none", "none"), net.wire, View')
      BY <1>1, <3>1 DEF Sendable, Letter, Calls, CallOK, Expects, IsRow, View, Waiting, Idle, Values
    <3>3. Steps(j, net)
      BY <2>2, <3>2 DEF Steps, Waiting
    <3>4. attempt' \in 0..MaxAttempts
      BY <1>2, <2>2, LawAssumption DEF MemOK
    <3> QED
      BY <1>2, <2>2, <3>1, <3>3, <3>4 DEF MemOK
  <2>3. ASSUME NEW q \in v.rows, Ask(j, "get", "list", q, "none", net),
               todo' = [todo EXCEPT ![j] = v.rows \ {q}], UNCHANGED <<loaded, attempt>>
        PROVE  Goes
    <3>1. stage'[j] = "get"
      BY <1>1, <1>2, <2>3 DEF Ask
    <3>2. q \in Principals /\ list'[q] # "absent"
      BY <1>3
    <3>3. Sendable(Letter(j, "get", "list", q, "none"), net.wire, View')
      BY <1>1, <3>1, <3>2 DEF Sendable, Letter, Calls, CallOK, Expects, IsRow, View, Waiting, Idle, Values
    <3>4. Steps(j, net)
      BY <2>3, <3>3 DEF Steps, Waiting
    <3>5. todo \in [Reloads -> SUBSET Principals] /\ v.rows \ {q} \subseteq Principals
      BY <1>2, <1>3 DEF MemOK
    <3>6. todo'[j] = v.rows \ {q}
      BY <2>3, <3>5
    <3> QED
      BY <1>2, <1>3, <2>3, <3>1, <3>4, <3>5, <3>6 DEF MemOK
  <2>4. loaded \in BOOLEAN
    BY <1>2 DEF MemOK
  <2> QED
    BY <2>1, <2>2, <2>3, <2>4 DEF QueryAnswered
<1>6. Remembers(j, net)
  BY <1>4, <1>5 DEF Remembers, history
<1>7. MemOK'
  BY <1>2, <1>4, <1>5 DEF MemOK, Ready
<1>8. Ceremony(j)
  BY <1>1, <1>4 DEF Ceremony
<1> QED
  BY <1>1, <1>5, <1>6, <1>7, <1>8, JobInv DEF Hears

\* A reload after the read of a row.
LEMMA FetchGoesOn ==
  ASSUME LawInv, NEW j \in Reloads, NEW p, NEW v, NEW net, Hears(j, p, v, net),
         RowFetched(j, p, v, net), UNCHANGED <<boots, list, rec>>, up # "down", Ready(j), stage[j] = "get"
  PROVE  LawInv'
<1>1. j \in AllJobs /\ j \notin Sets /\ j \notin Identity /\ j \notin Of("consent.grant")
  BY Classes DEF Identity
<1>2. LawTypeOK /\ MemOK /\ TypeOK /\ DOMAIN stage = AllJobs
  BY TypeParts DEF LawInv
<1>3. todo[j] \subseteq Principals /\ \A q \in todo[j] : list[q] # "absent"
  BY <1>2 DEF LawInv, JobsInv, MemOK
<1>4. p \in Principals /\ (v.ok => v.val \in {"none", "some"})
  BY DEF Hears, Tells, View
<1>5. /\ UNCHANGED <<consent, prior, attempt, last, knew, blind>>
      /\ forbidden' \in [Principals -> {"none", "some"}]
  BY <1>2, <1>4 DEF RowFetched, MemOK
<1> DEFINE Goes ==
      /\ Steps(j, net) /\ todo' \in [Reloads -> SUBSET Principals] /\ loaded' \in BOOLEAN
      /\ \A k \in Reloads : k # j => todo'[k] = todo[k]
      /\ stage'[j] = "get" => \A q \in todo'[j] : list[q] # "absent"
<1>6. Goes
  <2>1. ASSUME End(j, "ok", net), loaded' = TRUE, UNCHANGED todo
        PROVE  Goes
    <3>1. Steps(j, net)
      BY <1>1, <1>2, <2>1, EndSteps DEF Answered
    <3>2. stage'[j] = "ok"
      BY <1>1, <1>2, <2>1 DEF End
    <3> QED
      BY <1>2, <2>1, <3>1, <3>2 DEF MemOK
  <2>2. ASSUME NEW q \in todo[j], Ask(j, "get", "list", q, "none", net),
               todo' = [todo EXCEPT ![j] = @ \ {q}], UNCHANGED loaded
        PROVE  Goes
    <3>1. stage'[j] = "get"
      BY <1>1, <1>2, <2>2 DEF Ask
    <3>2. q \in Principals /\ list'[q] # "absent"
      BY <1>3
    <3>3. Sendable(Letter(j, "get", "list", q, "none"), net.wire, View')
      BY <1>1, <3>1, <3>2 DEF Sendable, Letter, Calls, CallOK, Expects, IsRow, View, Waiting, Idle, Values
    <3>4. Steps(j, net)
      BY <2>2, <3>3 DEF Steps, Waiting
    <3>5. todo \in [Reloads -> SUBSET Principals]
      BY <1>2 DEF MemOK
    <3>6. todo'[j] = todo[j] \ {q}
      BY <2>2, <3>5
    <3> QED
      BY <1>2, <1>3, <2>2, <3>1, <3>4, <3>5, <3>6 DEF MemOK
  <2> QED
    BY <2>1, <2>2 DEF RowFetched
<1>7. Remembers(j, net)
  BY <1>5, <1>6 DEF Remembers
<1>8. MemOK'
  BY <1>2, <1>5, <1>6 DEF MemOK, Ready
<1>9. Ceremony(j)
  BY <1>1, <1>5 DEF Ceremony
<1> QED
  BY <1>1, <1>6, <1>7, <1>8, <1>9, JobInv DEF Hears

\* law.consent.grant@1, law.principal.register@1 and .retire@1 after their read:
\* a row is written only where the read did not show that it must not be.
LEMMA ReadGoesOn ==
  ASSUME LawInv, NEW j \in Identity, NEW p, NEW v, NEW net, Hears(j, p, v, net),
         RowRead(j, p, v, net), UNCHANGED <<boots, list, rec>>, up # "down", Ready(j), stage[j] = "get"
  PROVE  LawInv'
<1>1. j \in AllJobs /\ Who[j] \in Principals /\ j \notin Sets /\ j \notin Reloads
  BY Classes
<1>2. LawTypeOK /\ MemOK /\ TypeOK /\ DOMAIN stage = AllJobs
  BY TypeParts DEF LawInv
<1>3. /\ p = Who[j]
      /\ v.ok => v.val \in {"absent", "active", "retired"}
      /\ v.val \in {"active", "retired"} => rec[Who[j]] # "absent"
      /\ v.ok /\ j \in knew => v.val # "absent"
  BY DEF Hears, Tells, View
<1>4. /\ UNCHANGED <<forbidden, consent, loaded, prior, todo, attempt, last, torn, crossed, knew>>
      /\ blind' = IF ~v.ok THEN blind \cup {j} ELSE blind
  BY DEF RowRead, memory
<1> DEFINE Goes == Steps(j, net) /\ (j \in Of("consent.grant") /\ stage'[j] \notin Waiting => rec[Who[j]] # "absent")
<1>5. ASSUME NEW x \in {"active", "retired"}, Ask(j, "append", "rec", p, x, net),
             x = "active" => ~v.ok \/ v.val = "absent"
      PROVE  Goes
  <2>1. stage'[j] = "append"
    BY <1>1, <1>2, <1>5 DEF Ask
  <2>2. x = "active" /\ j \in knew => j \in blind'
    BY <1>3, <1>4, <1>5
  <2>3. Sendable(Letter(j, "append", "rec", p, x), net.wire, View')
    BY <1>1, <1>3, <1>4, <1>5, <2>1, <2>2 DEF Sendable, Letter, Calls, CallOK, Expects, IsRow, View, Waiting, Idle, Values
  <2> QED
    BY <1>5, <2>1, <2>3 DEF Steps, Waiting
<1>6. ASSUME NEW st \in {"ok", "failed"}, End(j, st, net),
             j \in Of("consent.grant") => rec[Who[j]] # "absent"
      PROVE  Goes
  BY <1>1, <1>2, <1>6, EndSteps DEF Answered
<1>7. Goes
  <2>1. CASE Kind[j] = "principal.retire" /\ v.ok /\ v.val = "active"
    BY <1>5, <2>1 DEF RowRead
  <2>2. CASE Kind[j] # "principal.retire" /\ (v.ok => v.val = "absent")
    <3>1. Ask(j, "append", "rec", p, "active", net)
      BY <2>2 DEF RowRead
    <3>2. ~v.ok \/ v.val = "absent"
      BY <2>2
    <3> QED
      BY <1>5, <3>1, <3>2
  <2>3. CASE /\ ~(Kind[j] = "principal.retire" /\ v.ok /\ v.val = "active")
             /\ ~(Kind[j] # "principal.retire" /\ (v.ok => v.val = "absent"))
    <3>1. End(j, "ok", net) \/ End(j, "failed", net)
      BY <2>3 DEF RowRead
    <3>2. j \in Of("consent.grant") => rec[Who[j]] # "absent"
      BY <1>3, <2>3 DEF Of
    <3> QED
      BY <1>6, <3>1, <3>2
  <2> QED
    BY <2>1, <2>2, <2>3
<1>8. Remembers(j, net)
  BY <1>1, <1>2, <1>4 DEF Remembers, MemOK
<1>9. MemOK'
  BY <1>2, <1>4 DEF MemOK, Ready
<1>10. Ceremony(j)
  BY <1>4, <1>7 DEF Ceremony
<1> QED
  BY <1>1, <1>7, <1>8, <1>9, <1>10, JobInv DEF Hears

\* The same ops after the append of the row: a grant that failed revokes itself.
LEMMA WriteGoesOn ==
  ASSUME LawInv, NEW j \in Identity, NEW p, NEW v, NEW net, Hears(j, p, v, net),
         RowWritten(j, p, v, net), UNCHANGED <<boots, list, rec>>, up # "down", Ready(j), stage[j] = "append"
  PROVE  LawInv'
<1>1. j \in AllJobs /\ Who[j] \in Principals /\ j \notin Sets /\ j \notin Reloads
  BY Classes
<1>2. LawTypeOK /\ MemOK /\ TypeOK
  BY TypeParts DEF LawInv
<1>3. p = Who[j] /\ (v.ok => rec[Who[j]] # "absent")
  BY DEF Hears, Tells, View
<1>4. Steps(j, net)
  <2>1. End(j, "ok", net) \/ End(j, "failed", net)
    BY DEF RowWritten
  <2> QED
    BY <1>1, <1>2, <2>1, EndSteps DEF Answered
<1>5. Remembers(j, net)
  BY <1>1, <1>2 DEF RowWritten, Remembers, MemOK, history
<1>6. MemOK'
  BY <1>1, <1>2, <1>3 DEF RowWritten, MemOK, Ready
<1>7. Ceremony(j)
  <2>1. Kind[j] = "consent.grant" <=> j \in Of("consent.grant")
    BY <1>1, LawAssumption DEF Identity, Of
  <2>2. consent \in [Principals -> {"none", "active", "revoked"}]
    BY <1>2 DEF MemOK
  <2>3. consent' = IF Kind[j] = "consent.grant" /\ ~v.ok /\ consent[p] = "active"
                     THEN [consent EXCEPT ![p] = "revoked"] ELSE consent
    BY DEF RowWritten
  <2> QED
    BY <1>1, <1>3, <2>1, <2>2, <2>3 DEF Ceremony
<1> QED
  BY <1>1, <1>4, <1>5, <1>6, <1>7, JobInv DEF Hears

\* law.tokens.revoke@1 after its intent: the host revokes, whatever the answer.
LEMMA IntentGoesOn ==
  ASSUME LawInv, NEW j \in Of("tokens.revoke"), NEW p, NEW v, NEW net, Hears(j, p, v, net),
         IntentAnswered(j, net), UNCHANGED <<boots, list, rec>>, up # "down", Ready(j)
  PROVE  LawInv'
<1>1. /\ j \in AllJobs /\ j \notin Sets /\ j \notin Reloads /\ j \notin Identity
      /\ j \notin Of("consent.grant")
  BY Classes DEF Identity
<1>2. LawTypeOK /\ MemOK /\ TypeOK
  BY TypeParts DEF LawInv
<1>3. TypeOK'
  BY <1>2 DEF IntentAnswered, Revoke, TypeOK, vars
<1>4. Steps(j, net)
  BY <1>1, <1>3 DEF IntentAnswered, Steps, Answered
<1>5. Remembers(j, net)
  BY <1>1, <1>2 DEF IntentAnswered, Remembers, MemOK, history
<1>6. MemOK'
  BY <1>2 DEF IntentAnswered, MemOK, Ready, memory
<1>7. Ceremony(j)
  BY <1>1 DEF IntentAnswered, Ceremony, memory
<1> QED
  BY <1>1, <1>4, <1>5, <1>6, <1>7, JobInv DEF Hears

\* Whatever a job awaits, its outcome keeps the invariant.
LEMMA ProceedInv ==
  ASSUME LawInv, NEW j, NEW p, NEW v, NEW net, NEW late, Hears(j, p, v, net),
         Proceed(j, p, v, net, late), UNCHANGED <<boots, list, rec>>, up # "down", Ready(j)
  PROVE  LawInv'
<1>1. j \in AllJobs /\ stage[j] \in Waiting /\ Expects(j, stage[j])
  BY DEF Hears, Tells, View, LawInv, JobsInv
<1>2. Of("forbidden.set") = Sets /\ Sets \cap Identity = {} /\ Identity \cap Reloads = {}
  BY Classes DEF Sets
<1>3. CASE stage[j] = "query"
  <2>1. j \in Reloads /\ QueryAnswered(j, v, net)
    BY <1>1, <1>3 DEF Proceed, Expects
  <2> QED
    BY <1>3, <2>1, QueryGoesOn
<1>4. CASE stage[j] = "get" /\ j \in Reloads
  BY <1>4, FetchGoesOn DEF Proceed
<1>5. CASE stage[j] = "get" /\ j \notin Reloads
  <2>1. j \in Identity /\ RowRead(j, p, v, net)
    BY <1>1, <1>5 DEF Proceed, Expects
  <2> QED
    BY <1>5, <2>1, ReadGoesOn
<1>6. CASE stage[j] = "append" /\ j \in Sets
  BY <1>2, <1>6, SetGoesOn DEF Proceed
<1>7. CASE stage[j] = "append" /\ j \notin Sets
  <2>1. j \in Identity /\ RowWritten(j, p, v, net)
    BY <1>1, <1>2, <1>7 DEF Proceed, Expects
  <2> QED
    BY <1>7, <2>1, WriteGoesOn
<1>8. CASE stage[j] = "intent"
  <2>1. j \in Of("tokens.revoke") /\ IntentAnswered(j, net)
    BY <1>1, <1>8 DEF Proceed, Expects
  <2> QED
    BY <2>1, IntentGoesOn
<1> QED
  BY <1>1, <1>3, <1>4, <1>5, <1>6, <1>7, <1>8 DEF Waiting

-----------------------------------------------------------------------------
(* The steps of the law, its vault and its compartment.                    *)

\* An answer arrives.
LEMMA ReceiveInv ==
  ASSUME LawInv, Receive
  PROVE  LawInv'
<1>1. NetOK(wire, answers, View) /\ answers # <<>> /\ up # "down" /\ UNCHANGED <<boots, list, rec>>
  BY DEF LawInv, NetInv, Receive
<1>2. PICK r, net : r = Head(answers) /\ net = [wire |-> wire, answers |-> Tail(answers)]
  OBVIOUS
<1>3. /\ r \in Replies /\ Tells(r.job, r.who, r.v, wire, View)
      /\ NetOK(wire, Tail(answers), View) /\ Silent(r.job, wire, Tail(answers))
  BY <1>1, <1>2, PopNet
<1>4. r.job \in AllJobs /\ r.v \in Outcome
  BY <1>3 DEF Replies
<1>5. Hears(r.job, r.who, r.v, net)
  BY <1>2, <1>3, <1>4 DEF Hears, Without
<1>6. Proceed(r.job, r.who, r.v, net, FALSE) /\ Ready(r.job)
  BY <1>2 DEF Receive
<1> QED
  BY <1>1, <1>5, <1>6, ProceedInv

\* A local deadline passes.
LEMMA GiveUpInv ==
  ASSUME LawInv, NEW j \in AllJobs, GiveUp(j)
  PROVE  LawInv'
<1>1. NetOK(wire, answers, View) /\ up # "down" /\ Ready(j) /\ UNCHANGED <<boots, list, rec>>
  BY DEF LawInv, NetInv, GiveUp
<1>2. wire \in Seq(Calls) /\ answers \in Seq(Replies)
  BY <1>1 DEF NetOK
<1>3. ASSUME NEW i \in DOMAIN wire, wire[i].job = j, wire[i].live,
             Proceed(j, wire[i].who, Nothing, [wire |-> [wire EXCEPT ![i].live = FALSE], answers |-> answers], TRUE)
      PROVE  LawInv'
  <2>1. PICK p, w, net : p = wire[i].who /\ w = [wire EXCEPT ![i].live = FALSE] /\ net = [wire |-> w, answers |-> answers]
    OBVIOUS
  <2>2. NetOK(w, answers, View) /\ Silent(j, w, answers)
    BY <1>1, <1>3, <2>1, DeafNet
  <2>3. wire[i] \in Calls /\ CallOK(wire[i], View) /\ View.stage[j] = wire[i].wait
    BY <1>1, <1>2, <1>3 DEF NetOK, Paired
  <2>4. Tells(j, p, Nothing, w, View) /\ Nothing \in Outcome
    BY <1>3, <2>1, <2>3, NothingTold
  <2>5. \A k \in DOMAIN w : k \in DOMAIN wire /\ w[k].job = wire[k].job /\ w[k].wait = wire[k].wait /\ w[k].who = wire[k].who
    <3>1. \A c \in Calls : LET d == [c EXCEPT !.live = FALSE] IN d.job = c.job /\ d.wait = c.wait /\ d.who = c.who
      BY DEF Calls
    <3>2. DOMAIN w = DOMAIN wire /\ \A k \in DOMAIN wire : w[k] = IF k = i THEN [wire[i] EXCEPT !.live = FALSE] ELSE wire[k]
      BY <2>1
    <3> QED
      BY <2>3, <3>1, <3>2
  <2>6. \A k \in Sets : Durable(k, wire, View) => Durable(k, w, View)
    BY <2>5 DEF Durable, IsRow
  <2>7. net.wire = w /\ net.answers = answers
    BY <2>1
  <2>8. Hears(j, p, Nothing, net)
    BY <2>2, <2>4, <2>6, <2>7 DEF Hears, Without
  <2>9. Proceed(j, p, Nothing, net, TRUE)
    BY <1>3, <2>1
  <2> QED
    BY <1>1, <2>8, <2>9, ProceedInv
<1>4. ASSUME NEW i \in DOMAIN answers, answers[i].job = j,
             Proceed(j, answers[i].who, Nothing, [wire |-> wire, answers |-> Cut(answers, i)], TRUE)
      PROVE  LawInv'
  <2>1. PICK p, a, net : p = answers[i].who /\ a = Cut(answers, i) /\ net = [wire |-> wire, answers |-> a]
    OBVIOUS
  <2>2. NetOK(wire, a, View) /\ Silent(j, wire, a)
    BY <1>1, <1>4, <2>1, DropNet
  <2>3. Tells(j, p, answers[i].v, wire, View)
    BY <1>1, <1>4, <2>1 DEF NetOK
  <2>4. Nothing \in Outcome /\ Nothing.ok = FALSE /\ Nothing.val = "none" /\ Nothing.rows = {}
    BY DEF Nothing, Outcome, Values
  <2>5. Tells(j, p, Nothing, wire, View)
    BY <2>3, <2>4 DEF Tells
  <2>6. net.wire = wire /\ net.answers = a
    BY <2>1
  <2>7. Hears(j, p, Nothing, net)
    BY <2>2, <2>4, <2>5, <2>6 DEF Hears, Without
  <2>8. Proceed(j, p, Nothing, net, TRUE)
    BY <1>4, <2>1
  <2> QED
    BY <1>1, <2>7, <2>8, ProceedInv
<1> QED
  BY <1>3, <1>4 DEF GiveUp

\* What no step of the vault touches.
LEMMA VaultRest ==
  ASSUME LawInv, UNCHANGED <<vars, up, boots, memory, jobVars, history>>,
         NetInv', NEW c, Kept(c, View, View'), ViewOK(View'),
         \A k \in Sets : stage[k] = "ok" /\ last[Who[k]] = k => Durable(k, wire', View')
  PROVE  LawInv'
<1>1. TypeOK'
  BY TypeStep DEF LawInv, LawTypeOK
<1>2. LawTypeOK'
  BY <1>1 DEF LawInv, LawTypeOK, ViewOK, View, memory, jobVars
<1>3. JobsInv'
  <2>1. \A p \in Principals : (list[p] # "absent" => list'[p] # "absent") /\ (rec[p] # "absent" => rec'[p] # "absent")
    BY DEF Kept, View
  <2>2. \A j \in Identity : Who[j] \in Principals
    BY Classes
  <2>3. \A j \in Reloads : todo[j] \subseteq Principals
    BY DEF LawInv, LawTypeOK
  <2>4. UNCHANGED <<stage, todo, last, knew>>
    BY DEF jobVars, history
  <2> QED
    BY <2>1, <2>2, <2>3, <2>4 DEF LawInv, JobsInv
<1>4. ConsentHasItsRow'
  BY DEF LawInv, ConsentHasItsRow, InFlight, Kept, View, memory, jobVars
<1> QED
  BY <1>2, <1>3, <1>4 DEF LawInv

\* The vault serves a call, or fails it.
LEMMA VaultInv ==
  ASSUME LawInv, NEW i \in DOMAIN wire, VaultServes(i) \/ VaultFails(i)
  PROVE  LawInv'
<1>1. PICK w, a, c : w = wire /\ a = answers /\ c = wire[i]
  OBVIOUS
<1>2. /\ NetOK(w, a, View) /\ i \in DOMAIN w /\ w[i] = c
      /\ w \in Seq(Calls) /\ c \in Calls /\ CallOK(c, View)
      /\ c.live => View.stage[c.job] = c.wait
  <2>1. NetOK(w, a, View) /\ i \in DOMAIN w /\ w[i] = c
    BY <1>1 DEF LawInv, NetInv
  <2> QED
    BY <2>1 DEF NetOK, Paired
<1>3. ViewOK(View)
  BY DEF LawInv, LawTypeOK, JobsInv, ViewOK, View, Idle
<1>4. UNCHANGED <<vars, up, boots, memory, jobVars, history>> /\ wire' = Cut(w, i)
  BY <1>1 DEF VaultServes, VaultFails
<1>5. PICK v :
        /\ Kept(c, View, View') /\ ViewOK(View')
        /\ answers' = Heard(c, v)
        /\ c.live => /\ [job |-> c.job, who |-> c.who, v |-> v] \in Replies
                     /\ Tells(c.job, c.who, v, Cut(w, i), View')
  <2>1. CASE VaultServes(i)
    <3>1. /\ Served(c, View, View')
          /\ answers' = Heard(c, Reply(c, View))
          /\ c.wait \in Reads \/ \A k \in 1..(i - 1) : w[k].wait \in Reads
      BY <1>1, <2>1 DEF VaultServes, Served, Reply, View, jobVars, history
    <3>2. Kept(c, View, View') /\ ViewOK(View')
      BY <1>2, <1>3, <3>1, ServeKeeps
    <3>3. \A j \in View.knew : j \in Identity => View.rec[Who[j]] # "absent"
      BY DEF LawInv, JobsInv, View
    <3>4. c.live => /\ [job |-> c.job, who |-> c.who, v |-> Reply(c, View)] \in Replies
                    /\ Tells(c.job, c.who, Reply(c, View), Cut(w, i), View')
      BY <1>2, <1>3, <3>1, <3>3, ServeTells
    <3> QED
      BY <3>1, <3>2, <3>4
  <2>2. CASE VaultFails(i)
    <3>1. View' = View /\ answers' = Heard(c, Nothing)
      BY <1>1, <2>2 DEF VaultFails, View, jobVars, history
    <3>2. Kept(c, View, View') /\ ViewOK(View')
      BY <1>3, <3>1 DEF Kept
    <3>3. c.live => /\ [job |-> c.job, who |-> c.who, v |-> Nothing] \in Replies
                    /\ Tells(c.job, c.who, Nothing, Cut(w, i), View')
      BY <1>2, <3>1, NothingTold
    <3> QED
      BY <3>1, <3>2, <3>3
  <2> QED
    BY <2>1, <2>2
<1>6. NetOK(Cut(w, i), a, View') /\ (c.live => Silent(c.job, Cut(w, i), a))
  BY <1>2, <1>5, CutNet
<1>7. NetInv'
  <2>1. CASE c.live
    <3> DEFINE r == [job |-> c.job, who |-> c.who, v |-> v]
    <3>1. answers' = Append(a, r)
      BY <1>1, <1>5, <2>1 DEF Heard
    <3>2. r \in Replies /\ r.job = c.job /\ r.who = c.who /\ r.v = v
      BY <1>5, <2>1
    <3> HIDE DEF r
    <3>3. NetOK(Cut(w, i), Append(a, r), View')
      BY <1>5, <1>6, <2>1, <3>2, RefuseNet
    <3> QED
      BY <1>4, <3>1, <3>3 DEF NetInv
  <2>2. CASE ~c.live
    BY <1>1, <1>4, <1>5, <1>6, <2>2 DEF NetInv, Heard
  <2> QED
    BY <2>1, <2>2
<1>8. ASSUME NEW k \in Sets, stage[k] = "ok", last[Who[k]] = k
      PROVE  Durable(k, wire', View')
  <2>1. Durable(k, w, View)
    BY <1>1, <1>8 DEF LawInv, JobsInv
  <2> QED
    BY <1>2, <1>4, <1>5, <2>1, CutDurable
<1> QED
  BY <1>4, <1>5, <1>7, <1>8, VaultRest

\* A call of App is checked, and delivered if it passes.
LEMMA PresentInv ==
  ASSUME LawInv, NEW j \in Jobs, NEW t \in Tokens \cup {Unknown}, Present(j, t)
  PROVE  LawInv'
<1>1. PICK st \in {"called", "idle"} : stage' = [stage EXCEPT ![j] = st]
  BY DEF Present
<1>2. /\ UNCHANGED <<up, boots, memory, list, rec, prior, todo, attempt, wire, answers, history>>
      /\ stage[j] = "idle" /\ Check(App, t, "law")
  BY DEF Present
<1>3. LawTypeOK /\ TypeOK /\ stage \in [AllJobs -> Waiting \cup Answered \cup Idle] /\ j \in AllJobs
  BY TypeParts, Classes DEF LawInv
<1>4. TypeOK'
  BY <1>2, <1>3, TypeStep, LawAssumption DEF Next
<1>5. /\ stage' \in [AllJobs -> Waiting \cup Answered \cup Idle]
      /\ \A k \in AllJobs : k # j => stage'[k] = stage[k]
      /\ stage[j] \in Idle /\ stage'[j] \in Idle /\ stage'[j] # "ok"
      /\ \A k \in AllJobs : (stage'[k] \in Waiting \/ stage[k] \in Waiting) => stage'[k] = stage[k]
  BY <1>1, <1>2, <1>3 DEF Idle, Waiting
<1>6. LawTypeOK'
  BY <1>2, <1>3, <1>4, <1>5 DEF LawTypeOK, Idle, memory
<1>7. NetOK(wire, answers, View) /\ \A i \in DOMAIN wire : wire[i].job # j
  <2>1. View.stage[j] = "idle" /\ "idle" \notin Waiting /\ "idle" \in Idle
    BY <1>2 DEF View, Waiting, Idle
  <2> QED
    BY <2>1, IdleNet DEF LawInv, NetInv
<1>8. PICK w, a : w = wire /\ a = answers
  OBVIOUS
<1>9. NetOK(w, a, View')
  <2>1. /\ w \in Seq(Calls) /\ a \in Seq(Replies)
        /\ Paired(w, a, View) /\ LastIsLast(w, View)
        /\ \A i \in DOMAIN w : CallOK(w[i], View)
        /\ \A i \in DOMAIN a : Tells(a[i].job, a[i].who, a[i].v, w, View)
    BY <1>7, <1>8 DEF NetOK
  <2>2. /\ \A i \in DOMAIN w : w[i].job \in AllJobs /\ w[i].job # j
        /\ \A i \in DOMAIN a : a[i].job \in AllJobs
    <3>1. (\A i \in DOMAIN w : w[i] \in Calls) /\ (\A i \in DOMAIN a : a[i] \in Replies)
      BY <2>1
    <3> QED
      BY <1>7, <1>8, <3>1 DEF Calls, Replies
  <2>3. Paired(w, a, View')
    BY <1>5, <2>1, <2>2 DEF Paired, View
  <2>4. LastIsLast(w, View')
    BY <1>2, <2>1 DEF LastIsLast, View, history
  <2>5. \A i \in DOMAIN w : CallOK(w[i], View')
    BY <1>2, <1>5, <2>1, <2>2 DEF CallOK, View, history
  <2>6. ASSUME NEW i \in DOMAIN a PROVE Tells(a[i].job, a[i].who, a[i].v, w, View')
    <3>1. stage[a[i].job] \in Waiting
      BY <2>1 DEF Tells, View
    <3>2. stage'[a[i].job] = stage[a[i].job]
      BY <1>5, <2>2, <3>1
    <3> QED
      BY <1>2, <2>1, <3>2 DEF Tells, Durable, View, history
  <2> QED
    BY <2>1, <2>3, <2>4, <2>5, <2>6 DEF NetOK
<1>10. NetInv'
  BY <1>2, <1>8, <1>9 DEF NetInv
<1>11. JobsInv'
  <2>1. Sets \subseteq AllJobs /\ Reloads \subseteq AllJobs
    BY Classes
  <2>2. "get" \in Waiting /\ "ok" \notin Idle
    BY DEF Waiting, Idle
  <2>3. \A k \in Sets : last[Who[k]] = k => k # j
    BY <1>5, <2>1 DEF LawInv, JobsInv
  <2>4. \A k \in Sets : Durable(k, wire, View) => Durable(k, wire', View')
    BY <1>2 DEF Durable, View
  <2> QED
    BY <1>2, <1>5, <2>1, <2>2, <2>3, <2>4 DEF LawInv, JobsInv, history
<1>12. ConsentHasItsRow'
  BY <1>2, <1>5 DEF LawInv, ConsentHasItsRow, InFlight, memory
<1> QED
  BY <1>6, <1>10, <1>11, <1>12 DEF LawInv

\* The compartment dies: its jobs are lost, its calls are still on their way.
LEMMA DieInv ==
  ASSUME LawInv, Die
  PROVE  LawInv'
<1>1. /\ up' = "down" /\ answers' = <<>>
      /\ UNCHANGED <<vars, boots, memory, list, rec, prior, todo, attempt, history>>
      /\ stage' = [j \in AllJobs |-> IF stage[j] \in Waiting \cup {"called"} THEN "lost" ELSE stage[j]]
  BY DEF Die
<1>2. LawTypeOK /\ TypeOK /\ stage \in [AllJobs -> Waiting \cup Answered \cup Idle]
  BY TypeParts DEF LawInv
<1>3. "lost" \in Answered /\ "lost" \notin Waiting \cup Idle /\ "lost" # "ok"
  BY DEF Answered, Waiting, Idle
<1>4. /\ stage' \in [AllJobs -> Waiting \cup Answered \cup Idle]
      /\ \A j \in AllJobs : /\ stage'[j] \notin Waiting
                            /\ stage[j] \notin Idle => stage'[j] \notin Idle
                            /\ stage'[j] = "ok" => stage[j] = "ok"
  BY <1>1, <1>2, <1>3
<1>5. LawTypeOK'
  <2>1. TypeOK'
    BY <1>1, <1>2, TypeStep
  <2> QED
    BY <1>1, <1>2, <1>4, <2>1 DEF LawTypeOK, Idle, memory
<1>6. PICK w : w = wire
  OBVIOUS
<1>7. /\ w \in Seq(Calls) /\ LastIsLast(w, View) /\ \A k \in DOMAIN w : CallOK(w[k], View)
  BY <1>6 DEF LawInv, NetInv, NetOK
<1>8. PICK w2 : w2 = [k \in DOMAIN w |-> [w[k] EXCEPT !.live = FALSE]]
  OBVIOUS
<1>9. wire' = w2
  BY <1>6, <1>8 DEF Die
<1>10. /\ DOMAIN w2 = DOMAIN w
       /\ \A k \in DOMAIN w : /\ w2[k] \in Calls /\ ~w2[k].live /\ w2[k].job = w[k].job /\ w2[k].job \in AllJobs
                              /\ w2[k].wait = w[k].wait /\ w2[k].row = w[k].row
                              /\ w2[k].who = w[k].who /\ w2[k].val = w[k].val
  <2>1. \A c \in Calls : LET d == [c EXCEPT !.live = FALSE] IN
          /\ d \in Calls /\ ~d.live /\ d.job = c.job /\ d.job \in AllJobs
          /\ d.wait = c.wait /\ d.row = c.row /\ d.who = c.who /\ d.val = c.val
    BY DEF Calls
  <2>2. \A k \in DOMAIN w : w[k] \in Calls
    BY <1>7
  <2> QED
    BY <1>8, <2>1, <2>2
<1>11. w2 \in Seq(Calls)
  <2>1. DOMAIN w = 1..Len(w) /\ Len(w) \in Nat
    BY <1>7
  <2>2. w2 \in [1..Len(w) -> Calls]
    <3>1. w2 = [k \in 1..Len(w) |-> w2[k]]
      BY <1>8, <2>1
    <3> QED
      BY <1>10, <2>1, <3>1
  <2> QED
    BY <2>1, <2>2
<1>12. NetOK(w2, <<>>, View')
  <2>1. Paired(w2, <<>>, View')
    BY <1>10 DEF Paired
  <2>2. LastIsLast(w2, View')
    BY <1>1, <1>7, <1>10 DEF LastIsLast, IsRow, View, history
  <2>3. \A k \in DOMAIN w2 : CallOK(w2[k], View')
    BY <1>1, <1>4, <1>7, <1>10 DEF CallOK, IsRow, View, history
  <2> QED
    BY <1>11, <2>1, <2>2, <2>3 DEF NetOK
<1>13. NetInv'
  BY <1>1, <1>9, <1>12 DEF NetInv
<1>14. JobsInv'
  <2>1. \A k \in Sets : Durable(k, wire, View) => Durable(k, wire', View')
    BY <1>1, <1>6, <1>9, <1>10 DEF Durable, IsRow, View
  <2>2. Sets \subseteq AllJobs /\ Reloads \subseteq AllJobs /\ "get" \in Waiting
    BY Classes DEF Waiting
  <2> QED
    BY <1>1, <1>4, <2>1, <2>2 DEF LawInv, JobsInv, history
<1>15. ConsentHasItsRow'
  BY <1>1 DEF ConsentHasItsRow
<1> QED
  BY <1>5, <1>13, <1>14, <1>15 DEF LawInv

\* Nothing is under way.
LEMMA EmptyNet == \A s : NetOK(<<>>, <<>>, s)
  BY DEF NetOK, Paired, LastIsLast

\* The host boots: a fresh token table, a fresh law, the vault as it was.
LEMMA BootInv ==
  ASSUME LawInv, BootHost
  PROVE  LawInv'
<1>1. LawTypeOK /\ stage \in [AllJobs -> Waiting \cup Answered \cup Idle]
  BY TypeParts DEF LawInv
<1>2. TypeOK'
  <2>1. MaxGeneration \in Nat /\ MaxGeneration >= 1 /\ {Law, App} \subseteq Plugins
    BY TableAssumption, LawAssumption
  <2> QED
    BY <2>1 DEF BootHost, TypeOK
<1>3. /\ stage' \in [AllJobs -> Waiting \cup Answered \cup Idle]
      /\ \A k \in AllJobs : k # Boot => stage'[k] = stage[k]
      /\ stage'[Boot] = "called"
  BY <1>1 DEF BootHost, AllJobs, Idle
<1>4. LawTypeOK'
  <2>1. boots' \in 0..MaxBoots /\ attempt' \in 0..MaxAttempts
    BY <1>1, LawAssumption DEF BootHost, LawTypeOK
  <2>2. /\ forbidden' \in [Principals -> {"none", "some"}] /\ loaded' \in BOOLEAN
        /\ consent' \in [Principals -> {"none", "active", "revoked"}]
    BY DEF BootHost
  <2>3. up' \in {"down", "init", "up"} /\ UNCHANGED <<list, rec, prior, todo>>
    BY DEF BootHost
  <2> QED
    BY <1>1, <1>2, <1>3, <2>1, <2>2, <2>3 DEF LawTypeOK, Idle
<1>5. NetInv'
  BY EmptyNet DEF BootHost, NetInv
<1>6. JobsInv'
  <2>1. Boot \notin Sets /\ Sets \subseteq AllJobs /\ Reloads \subseteq AllJobs /\ "called" \notin Waiting /\ "get" # "called"
    BY Classes DEF Waiting, Reloads
  <2>2. \A k \in Sets : Durable(k, wire, View) => Durable(k, wire', View')
    BY DEF Durable, View, BootHost
  <2>3. UNCHANGED <<last, knew, rec, list, todo>>
    BY DEF BootHost
  <2> QED
    BY <1>3, <2>1, <2>2, <2>3 DEF LawInv, JobsInv
<1>7. ConsentHasItsRow'
  BY DEF BootHost, ConsentHasItsRow
<1> QED
  BY <1>4, <1>5, <1>6, <1>7 DEF LawInv

\* Nothing moves.
LEMMA StutterInv ==
  ASSUME LawInv, UNCHANGED lawVars
  PROVE  LawInv'
<1>1. UNCHANGED <<vars, up, boots, forbidden, consent, loaded, list, rec, stage, prior, todo, attempt,
                  wire, answers, last, torn, crossed, knew, blind>>
  BY DEF lawVars, memory, jobVars, history
<1>2. TypeOK'
  BY <1>1, TypeStep DEF LawInv, LawTypeOK
<1>3. View' = View
  BY <1>1 DEF View
<1> QED
  BY <1>1, <1>2, <1>3 DEF LawInv, LawTypeOK, NetInv, JobsInv, ConsentHasItsRow, InFlight

\* Every step of the law, its vault and its compartment keeps the invariant.
LEMMA LawStep == LawInv /\ [LawNext]_lawVars => LawInv'
<1> SUFFICES ASSUME LawInv, [LawNext]_lawVars PROVE LawInv'
  OBVIOUS
<1>1. ASSUME OnInit PROVE LawInv'
  <2>1. Boot \in Reloads /\ stage[Boot] = "called" /\ StartReload(Boot) /\ UNCHANGED <<up, boots, list, rec>>
    BY <1>1 DEF OnInit, Reloads
  <2> QED
    BY <2>1, ReloadStarts
<1>2. CASE \E j \in Jobs, t \in Tokens \cup {Unknown} : Present(j, t)
  BY <1>2, PresentInv
<1>3. CASE \E j \in Jobs : Handle(j)
  BY <1>3, HandleInv
<1>4. CASE \E j \in AllJobs : GiveUp(j)
  BY <1>4, GiveUpInv
<1>5. CASE \E i \in DOMAIN wire : VaultServes(i) \/ VaultFails(i)
  BY <1>5, VaultInv
<1> QED
  BY <1>1, <1>2, <1>3, <1>4, <1>5, ReceiveInv, DieInv, BootInv, StutterInv DEF LawNext

\* The law before its first boot.
LEMMA LawStart == LawInit => LawInv
<1> SUFFICES ASSUME LawInit PROVE LawInv
  OBVIOUS
<1>1. LawTypeOK
  <2>1. TypeOK
    BY TableAssumption DEF LawInit, Init, TypeOK
  <2>2. boots \in 0..MaxBoots /\ attempt \in 0..MaxAttempts
    BY LawAssumption DEF LawInit
  <2> QED
    BY <2>1, <2>2 DEF LawInit, LawTypeOK
<1>2. NetInv
  BY EmptyNet DEF LawInit, NetInv
<1>3. JobsInv
  <2>1. \A j \in AllJobs : stage[j] \in {"never", "idle"}
    BY DEF LawInit
  <2>2. "never" \notin Waiting /\ "idle" \notin Waiting
    BY DEF Waiting
  <2>3. Sets \subseteq AllJobs /\ Reloads \subseteq AllJobs /\ "none" \notin Sets /\ \A j \in Sets : Who[j] \in Principals
    BY Classes
  <2>4. last = [p \in Principals |-> "none"] /\ knew = {}
    BY DEF LawInit
  <2> QED
    BY <2>1, <2>2, <2>3, <2>4 DEF JobsInv
<1>4. ConsentHasItsRow
  BY DEF LawInit, ConsentHasItsRow
<1> QED
  BY <1>1, <1>2, <1>3, <1>4 DEF LawInv

\* plugins/vivim-law, what it remembers and its calls into the vault: the
\* inductive invariant of every reachable state.
THEOREM LawInductive == LawSpec => []LawInv
  BY LawStart, LawStep, PTL DEF LawSpec

\* The state of the law has its type.
THEOREM LawTypeCorrect == LawSpec => []LawTypeOK
<1>1. LawInv => LawTypeOK
  BY DEF LawInv
<1> QED
  BY <1>1, LawInductive, PTL

\* law.forbidden.set@1: an answered set is the vault's list until the next set
\* of its principal, across deaths, boots and the appends still on their way.
THEOREM SetStands == LawSpec => []AnsweredSetStands
<1>1. LawInv => AnsweredSetStands
  <2> SUFFICES ASSUME LawInv, NEW p \in Principals, NEW j \in Of("forbidden.set"), last[p] = j, stage[j] = "ok"
               PROVE  list[p] = List[j]
    BY DEF AnsweredSetStands
  <2>1. p = Who[j] /\ Durable(j, wire, View)
    BY DEF LawInv, JobsInv, Sets
  <2> QED
    BY <2>1 DEF Durable, View
<1> QED
  BY <1>1, LawInductive, PTL

\* law.consent.grant@1, D-412: no active consent without its identity row,
\* unless the grant that made it is still under way.
THEOREM NeverHalfDone == LawSpec => []ConsentHasItsRow
<1>1. LawInv => ConsentHasItsRow
  BY DEF LawInv
<1> QED
  BY <1>1, LawInductive, PTL

\* D-412: no op that saw, or could have seen, the row retired brings the id back.
THEOREM RetiredStays == LawSpec => RetiredIsForever
<1> DEFINE Forever ==
      \A p \in Principals : rec[p] = "retired" /\ rec'[p] # "retired" =>
        \E i \in DOMAIN wire :
          /\ wire' = Cut(wire, i)
          /\ wire[i].job \in blind \/ wire[i].job \notin knew
<1>1. LawInv /\ [LawNext]_lawVars => [Forever]_lawVars
  <2> SUFFICES ASSUME LawInv, LawNext, NEW p \in Principals, rec[p] = "retired", rec'[p] # "retired"
               PROVE  \E i \in DOMAIN wire : /\ wire' = Cut(wire, i)
                                             /\ wire[i].job \in blind \/ wire[i].job \notin knew
    OBVIOUS
  <2>1. PICK i \in DOMAIN wire : VaultServes(i)
    BY DEF LawNext, Present, Handle, GiveUp, VaultFails, Receive, Die, BootHost, OnInit
  <2>2. PICK c : c = wire[i]
    OBVIOUS
  <2>3. CallOK(c, View)
    BY <2>2 DEF LawInv, NetInv, NetOK
  <2>4. /\ rec' = IF c.wait = "append" /\ c.row = "rec" THEN [rec EXCEPT ![c.who] = c.val] ELSE rec
        /\ wire' = Cut(wire, i)
    BY <2>1, <2>2 DEF VaultServes
  <2>5. c.wait = "append" /\ c.row = "rec" /\ c.who = p /\ c.val # "retired"
    BY <2>4 DEF LawInv, LawTypeOK
  <2>6. c.job \in Identity
    BY <2>3, <2>5 DEF CallOK, Expects, IsRow
  <2>7. c.job \in knew => c.job \in blind
    BY <2>3, <2>5, <2>6 DEF CallOK, View
  <2> QED
    BY <2>2, <2>4, <2>7
<1> QED
  BY <1>1, LawInductive, PTL DEF LawSpec, RetiredIsForever

-----------------------------------------------------------------------------
(* The overlay: the inductive invariant.                                   *)

\* Two lists enforce the same.
Same(x, y) == x = "some" <=> y = "some"

\* The i-th call of w carries an overlay row of p.
RowAt(w, i, p) == IsRow(w[i]) /\ w[i].who = p

\* Once the vault has served the calls of w before the n-th, the list of p,
\* which is l[p] now, is x: the last row of p among them carries it.
Leaves(w, n, p, x, l) ==
  /\ \A i \in DOMAIN w :
       /\ i < n /\ RowAt(w, i, p)
       /\ \A k \in DOMAIN w : i < k /\ k < n => ~RowAt(w, k, p)
       => Same(w[i].val, x)
  /\ (\A i \in DOMAIN w : i < n => ~RowAt(w, i, p)) => Same(l[p], x)

\* The calls w will leave p with x, and with y if the row of job j fails.
Agrees(w, p, x, y, j, l) ==
  /\ Leaves(w, Len(w) + 1, p, x, l)
  /\ \A i \in DOMAIN w : RowAt(w, i, p) /\ w[i].job = j => Leaves(w, i, p, y, l)

\* What matters of a call for the overlay.
Alike(w, w2) ==
  /\ w \in Seq(Calls) /\ w2 \in Seq(Calls) /\ DOMAIN w2 = DOMAIN w
  /\ \A k \in DOMAIN w : /\ w2[k].job = w[k].job /\ w2[k].wait = w[k].wait /\ w2[k].row = w[k].row
                         /\ w2[k].who = w[k].who /\ w2[k].val = w[k].val

-----------------------------------------------------------------------------
(* What the calls under way will leave.                                    *)

\* Calls that differ in who still awaits them leave the same.
LEMMA AlikeAgrees ==
  ASSUME NEW w, NEW w2, NEW p, NEW x, NEW y, NEW j, NEW l, NEW l2, Alike(w, w2), l2[p] = l[p],
         Agrees(w, p, x, y, j, l)
  PROVE  Agrees(w2, p, x, y, j, l2)
<1>1. /\ DOMAIN w2 = DOMAIN w /\ Len(w2) = Len(w)
      /\ \A k \in DOMAIN w : w2[k].val = w[k].val /\ w2[k].job = w[k].job /\ (RowAt(w2, k, p) <=> RowAt(w, k, p))
  BY DEF Alike, RowAt, IsRow
<1>2. \A n, z : Leaves(w, n, p, z, l) => Leaves(w2, n, p, z, l2)
  BY <1>1 DEF Leaves
<1> QED
  BY <1>1, <1>2 DEF Agrees

\* Where the calls of w go when the i-th is taken out.
LEMMA CutMap ==
  ASSUME NEW w \in Seq(Calls), NEW i \in DOMAIN w
  PROVE  /\ Cut(w, i) \in Seq(Calls) /\ Len(Cut(w, i)) = Len(w) - 1
         /\ i \in Nat /\ DOMAIN w = 1..Len(w) /\ DOMAIN Cut(w, i) = 1..(Len(w) - 1) /\ Len(w) \in Nat
         /\ \A k \in DOMAIN Cut(w, i) : /\ k < i => k \in DOMAIN w /\ Cut(w, i)[k] = w[k]
                                        /\ ~(k < i) => k + 1 \in DOMAIN w /\ Cut(w, i)[k] = w[k + 1]
         /\ \A k \in DOMAIN w : /\ k < i => k \in DOMAIN Cut(w, i)
                                /\ i < k => k - 1 \in DOMAIN Cut(w, i)
<1> DEFINE b == Cut(w, i)
<1>1. /\ b \in Seq(Calls)
      /\ \A k \in DOMAIN b : \E m \in DOMAIN w : m = (IF k < i THEN k ELSE k + 1) /\ b[k] = w[m]
  BY CutAt
<1>2. Len(b) = Len(w) - 1
  <2>1. Len(SubSeq(w, 1, i - 1)) = i - 1 /\ Len(SubSeq(w, i + 1, Len(w))) = Len(w) - i
    OBVIOUS
  <2>2. SubSeq(w, 1, i - 1) \in Seq(Calls) /\ SubSeq(w, i + 1, Len(w)) \in Seq(Calls)
    OBVIOUS
  <2>3. Len(b) = (i - 1) + (Len(w) - i)
    BY <2>1, <2>2, ConcatProperties DEF Cut
  <2> QED
    BY <2>3
<1>3. i \in Nat /\ DOMAIN w = 1..Len(w) /\ Len(w) \in Nat /\ i \in 1..Len(w)
  OBVIOUS
<1> HIDE DEF b
<1>4. DOMAIN b = 1..(Len(w) - 1)
  BY <1>1, <1>2
<1> QED
  BY <1>1, <1>2, <1>3, <1>4 DEF b

\* The call taken out was no row of p, or the first, which now is the list of p.
LEMMA CutLeaves ==
  ASSUME NEW w \in Seq(Calls), NEW i \in DOMAIN w, NEW p, NEW l, NEW l2, NEW z,
         NEW n \in Nat, NEW n2 \in Nat, n2 = (IF i < n THEN n - 1 ELSE n),
         \/ ~RowAt(w, i, p) /\ l2[p] = l[p]
         \/ RowAt(w, i, p) /\ l2[p] = w[i].val /\ i < n /\ \A k \in DOMAIN w : k < i => ~RowAt(w, k, p),
         Leaves(w, n, p, z, l)
  PROVE  Leaves(Cut(w, i), n2, p, z, l2)
<1> DEFINE b == Cut(w, i)
<1>1. /\ i \in Nat /\ DOMAIN w = 1..Len(w) /\ DOMAIN b = 1..(Len(w) - 1) /\ Len(w) \in Nat
      /\ \A k \in DOMAIN b : /\ k < i => k \in DOMAIN w /\ b[k] = w[k]
                             /\ ~(k < i) => k + 1 \in DOMAIN w /\ b[k] = w[k + 1]
      /\ \A k \in DOMAIN w : /\ k < i => k \in DOMAIN b
                             /\ i < k => k - 1 \in DOMAIN b
  BY CutMap
<1> HIDE DEF b
<1>2. /\ \A k \in DOMAIN b : /\ k < i => (RowAt(b, k, p) <=> RowAt(w, k, p))
                             /\ ~(k < i) => (RowAt(b, k, p) <=> RowAt(w, k + 1, p))
      /\ \A k \in DOMAIN w : i < k => b[k - 1] = w[k] /\ (RowAt(b, k - 1, p) <=> RowAt(w, k, p))
  <2>1. \A k \in DOMAIN w : i < k => ~(k - 1 < i) /\ k - 1 + 1 = k /\ k - 1 \in DOMAIN b
    BY <1>1
  <2> QED
    BY <1>1, <2>1 DEF RowAt
<1>3. ASSUME NEW k \in DOMAIN b, k < n2, RowAt(b, k, p),
             \A m \in DOMAIN b : k < m /\ m < n2 => ~RowAt(b, m, p)
      PROVE  Same(b[k].val, z)
  <2>1. PICK q \in DOMAIN w : q = (IF k < i THEN k ELSE k + 1) /\ b[k] = w[q] /\ RowAt(w, q, p)
    BY <1>1, <1>2, <1>3
  <2>2. q < n /\ q # i
    BY <1>1, <1>3, <2>1
  <2>3. ASSUME NEW m \in DOMAIN w, q < m, m < n, RowAt(w, m, p) PROVE FALSE
    <3>1. CASE m < i
      BY <1>1, <1>2, <1>3, <2>1, <2>3, <3>1
    <3>2. CASE i < m
      <4>1. m - 1 \in DOMAIN b /\ RowAt(b, m - 1, p)
        BY <1>1, <1>2, <2>3, <3>2
      <4>2. k < m - 1 /\ m - 1 < n2
        BY <1>1, <1>3, <2>1, <2>3, <3>2
      <4> QED
        BY <1>3, <4>1, <4>2
    <3>3. CASE m = i
      BY <1>1, <2>1, <2>2, <2>3, <3>3
    <3> QED
      BY <1>1, <3>1, <3>2, <3>3
  <2> QED
    BY <2>1, <2>2, <2>3 DEF Leaves
<1>4. ASSUME \A k \in DOMAIN b : k < n2 => ~RowAt(b, k, p)
      PROVE  Same(l2[p], z)
  <2>1. ASSUME NEW m \in DOMAIN w, m < n, m # i PROVE ~RowAt(w, m, p)
    <3>1. CASE m < i
      BY <1>1, <1>2, <1>4, <2>1, <3>1
    <3>2. CASE i < m
      <4>1. m - 1 \in DOMAIN b /\ m - 1 < n2
        BY <1>1, <2>1, <3>2
      <4> QED
        BY <1>2, <1>4, <3>2, <4>1
    <3> QED
      BY <1>1, <2>1, <3>1, <3>2
  <2> QED
    BY <1>1, <2>1 DEF Leaves
<1> QED
  BY <1>3, <1>4 DEF Leaves, b

\* The same of both that p may be left with.
LEMMA CutAgrees ==
  ASSUME NEW w \in Seq(Calls), NEW i \in DOMAIN w, NEW p, NEW x, NEW y, NEW j, NEW l, NEW l2,
         \/ ~RowAt(w, i, p) /\ l2[p] = l[p]
         \/ RowAt(w, i, p) /\ l2[p] = w[i].val /\ \A k \in DOMAIN w : k < i => ~RowAt(w, k, p),
         Agrees(w, p, x, y, j, l)
  PROVE  Agrees(Cut(w, i), p, x, y, j, l2)
<1> DEFINE b == Cut(w, i)
<1>1. /\ i \in Nat /\ i \in 1..Len(w) /\ DOMAIN w = 1..Len(w) /\ DOMAIN b = 1..(Len(w) - 1) /\ Len(w) \in Nat
      /\ Len(b) = Len(w) - 1
      /\ \A k \in DOMAIN b : /\ k < i => k \in DOMAIN w /\ b[k] = w[k]
                             /\ ~(k < i) => k + 1 \in DOMAIN w /\ b[k] = w[k + 1]
  BY CutMap
<1> HIDE DEF b
<1>2. Leaves(b, Len(b) + 1, p, x, l2)
  <2>1. PICK n : n = Len(w) + 1
    OBVIOUS
  <2>2. n \in Nat /\ i < n /\ n - 1 \in Nat /\ n - 1 = Len(b) + 1 /\ Leaves(w, n, p, x, l)
    BY <1>1, <2>1 DEF Agrees
  <2>3. Leaves(Cut(w, i), n - 1, p, x, l2)
    BY <2>2, CutLeaves
  <2> QED
    BY <2>2, <2>3 DEF b
<1>3. ASSUME NEW k \in DOMAIN b, RowAt(b, k, p), b[k].job = j
      PROVE  Leaves(b, k, p, y, l2)
  <2>1. PICK q \in DOMAIN w : q = (IF k < i THEN k ELSE k + 1) /\ b[k] = w[q]
    BY <1>1
  <2>2. RowAt(w, q, p) /\ w[q].job = j /\ q \in Nat /\ k \in Nat /\ q # i
    BY <1>1, <1>3, <2>1 DEF RowAt
  <2>3. Leaves(w, q, p, y, l)
    BY <2>1, <2>2 DEF Agrees
  <2>4. k = (IF i < q THEN q - 1 ELSE q)
    BY <1>1, <2>1, <2>2
  <2>5. RowAt(w, i, p) /\ (\A m \in DOMAIN w : m < i => ~RowAt(w, m, p)) => i < q
    BY <1>1, <2>1, <2>2
  <2>6. \/ ~RowAt(w, i, p) /\ l2[p] = l[p]
        \/ RowAt(w, i, p) /\ l2[p] = w[i].val /\ i < q /\ \A m \in DOMAIN w : m < i => ~RowAt(w, m, p)
    BY <2>5
  <2> HIDE DEF b
  <2>7. Leaves(Cut(w, i), k, p, y, l2)
    BY <2>2, <2>3, <2>4, <2>6, CutLeaves
  <2> QED
    BY <2>7 DEF b
<1> QED
  BY <1>2, <1>3 DEF Agrees, b

\* The row of job j, the last of p, fails: p is left with y.
LEMMA FailAgrees ==
  ASSUME NEW w \in Seq(Calls), NEW i \in DOMAIN w, NEW p, NEW x, NEW y, NEW j, NEW l,
         RowAt(w, i, p), w[i].job = j,
         \A k, m \in DOMAIN w : k < m /\ RowAt(w, k, p) /\ w[k].job = j => ~RowAt(w, m, p),
         Agrees(w, p, x, y, j, l)
  PROVE  Agrees(Cut(w, i), p, y, y, j, l)
<1> DEFINE b == Cut(w, i)
<1>1. /\ i \in Nat /\ i \in 1..Len(w) /\ DOMAIN w = 1..Len(w) /\ DOMAIN b = 1..(Len(w) - 1) /\ Len(w) \in Nat
      /\ Len(b) = Len(w) - 1
      /\ \A k \in DOMAIN b : /\ k < i => k \in DOMAIN w /\ b[k] = w[k]
                             /\ ~(k < i) => k + 1 \in DOMAIN w /\ b[k] = w[k + 1]
      /\ \A k \in DOMAIN w : /\ k < i => k \in DOMAIN b
                             /\ i < k => k - 1 \in DOMAIN b
  BY CutMap
<1> HIDE DEF b
<1>2. Leaves(w, i, p, y, l)
  BY DEF Agrees
<1>3. \A m \in DOMAIN w : i < m => ~RowAt(w, m, p)
  OBVIOUS
<1>4. \A k \in DOMAIN b : RowAt(b, k, p) => k < i /\ k \in DOMAIN w /\ b[k] = w[k] /\ RowAt(w, k, p) /\ w[k].job # j
  <2> SUFFICES ASSUME NEW k \in DOMAIN b, RowAt(b, k, p)
               PROVE  k < i /\ k \in DOMAIN w /\ b[k] = w[k] /\ RowAt(w, k, p) /\ w[k].job # j
    OBVIOUS
  <2>1. CASE ~(k < i)
    <3>1. k + 1 \in DOMAIN w /\ i < k + 1 /\ RowAt(w, k + 1, p)
      BY <1>1, <2>1 DEF RowAt
    <3> QED
      BY <1>3, <3>1
  <2>2. CASE k < i
    <3>1. k \in DOMAIN w /\ b[k] = w[k] /\ RowAt(w, k, p)
      BY <1>1, <2>2 DEF RowAt
    <3> QED
      BY <2>2, <3>1
  <2> QED
    BY <2>1, <2>2
<1>5. \A k \in DOMAIN w : k < i /\ RowAt(w, k, p) => k \in DOMAIN b /\ RowAt(b, k, p) /\ k < Len(b) + 1
  BY <1>1 DEF RowAt
<1>6. Leaves(b, Len(b) + 1, p, y, l)
  <2>1. ASSUME NEW k \in DOMAIN b, RowAt(b, k, p), \A m \in DOMAIN b : k < m /\ m < Len(b) + 1 => ~RowAt(b, m, p)
        PROVE  Same(b[k].val, y)
    BY <1>2, <1>4, <1>5, <2>1 DEF Leaves
  <2>2. ASSUME \A k \in DOMAIN b : k < Len(b) + 1 => ~RowAt(b, k, p) PROVE Same(l[p], y)
    BY <1>2, <1>5, <2>2 DEF Leaves
  <2> QED
    BY <2>1, <2>2 DEF Leaves
<1> QED
  BY <1>4, <1>6 DEF Agrees, b

\* A call is sent that carries no row of p.
LEMMA AppendAgrees ==
  ASSUME NEW w \in Seq(Calls), NEW c \in Calls, NEW p, NEW x, NEW y, NEW j, NEW l,
         ~(IsRow(c) /\ c.who = p), Agrees(w, p, x, y, j, l)
  PROVE  Agrees(Append(w, c), p, x, y, j, l)
<1> DEFINE b == Append(w, c)
<1>1. /\ Len(b) = Len(w) + 1 /\ DOMAIN w = 1..Len(w) /\ DOMAIN b = 1..(Len(w) + 1) /\ Len(w) \in Nat
      /\ \A k \in DOMAIN w : b[k] = w[k]
      /\ b[Len(w) + 1] = c
  OBVIOUS
<1> HIDE DEF b
<1>2. /\ \A k \in DOMAIN w : k \in DOMAIN b /\ b[k] = w[k] /\ (RowAt(b, k, p) <=> RowAt(w, k, p))
      /\ \A k \in DOMAIN b : RowAt(b, k, p) => k \in DOMAIN w
      /\ \A k \in DOMAIN w : k < Len(w) + 1 /\ k < Len(b) + 1
  BY <1>1 DEF RowAt
<1>3. \A n, z : Leaves(w, n, p, z, l) => Leaves(b, n, p, z, l)
  <2> SUFFICES ASSUME NEW n, NEW z, Leaves(w, n, p, z, l) PROVE Leaves(b, n, p, z, l)
    OBVIOUS
  <2>1. ASSUME NEW i \in DOMAIN b, i < n, RowAt(b, i, p),
               \A k \in DOMAIN b : i < k /\ k < n => ~RowAt(b, k, p)
        PROVE  Same(b[i].val, z)
    <3>1. i \in DOMAIN w /\ RowAt(w, i, p) /\ b[i] = w[i]
      BY <1>2, <2>1
    <3>2. \A k \in DOMAIN w : i < k /\ k < n => ~RowAt(w, k, p)
      BY <1>2, <2>1
    <3> QED
      BY <2>1, <3>1, <3>2 DEF Leaves
  <2>2. ASSUME \A i \in DOMAIN b : i < n => ~RowAt(b, i, p) PROVE Same(l[p], z)
    BY <1>2, <2>2 DEF Leaves
  <2> QED
    BY <2>1, <2>2 DEF Leaves
<1>4. Leaves(w, Len(w) + 1, p, x, l) => Leaves(b, Len(b) + 1, p, x, l)
  <2> SUFFICES ASSUME Leaves(w, Len(w) + 1, p, x, l) PROVE Leaves(b, Len(b) + 1, p, x, l)
    OBVIOUS
  <2>1. ASSUME NEW i \in DOMAIN b, i < Len(b) + 1, RowAt(b, i, p),
               \A k \in DOMAIN b : i < k /\ k < Len(b) + 1 => ~RowAt(b, k, p)
        PROVE  Same(b[i].val, x)
    <3>1. i \in DOMAIN w /\ RowAt(w, i, p) /\ b[i] = w[i] /\ i < Len(w) + 1
      BY <1>2, <2>1
    <3>2. \A k \in DOMAIN w : i < k => ~RowAt(w, k, p)
      BY <1>2, <2>1
    <3> QED
      BY <3>1, <3>2 DEF Leaves
  <2>2. ASSUME \A i \in DOMAIN b : i < Len(b) + 1 => ~RowAt(b, i, p) PROVE Same(l[p], x)
    BY <1>2, <2>2 DEF Leaves
  <2> QED
    BY <2>1, <2>2 DEF Leaves
<1> QED
  BY <1>2, <1>3, <1>4 DEF Agrees, b

\* Job j sends a row of p.
LEMMA AppendRow ==
  ASSUME NEW w \in Seq(Calls), NEW c \in Calls, NEW p, NEW x, NEW l,
         IsRow(c), c.who = p, \A i \in DOMAIN w : w[i].job # c.job, Leaves(w, Len(w) + 1, p, x, l)
  PROVE  Agrees(Append(w, c), p, c.val, x, c.job, l)
<1> DEFINE b == Append(w, c)
<1>1. /\ Len(b) = Len(w) + 1 /\ DOMAIN w = 1..Len(w) /\ DOMAIN b = 1..(Len(w) + 1) /\ Len(w) \in Nat
      /\ \A k \in DOMAIN w : b[k] = w[k]
      /\ b[Len(w) + 1] = c
  OBVIOUS
<1> HIDE DEF b
<1>2. /\ \A k \in DOMAIN w : k \in DOMAIN b /\ b[k] = w[k] /\ (RowAt(b, k, p) <=> RowAt(w, k, p)) /\ k < Len(w) + 1
      /\ \A k \in DOMAIN b : k # Len(w) + 1 => k \in DOMAIN w
      /\ RowAt(b, Len(w) + 1, p) /\ Len(w) + 1 \in DOMAIN b /\ Len(w) + 1 < Len(b) + 1
  BY <1>1 DEF RowAt
<1>3. Leaves(b, Len(b) + 1, p, c.val, l)
  BY <1>1, <1>2 DEF Leaves, Same
<1>4. Leaves(b, Len(w) + 1, p, x, l)
  <2>1. ASSUME NEW i \in DOMAIN b, i < Len(w) + 1, RowAt(b, i, p),
               \A k \in DOMAIN b : i < k /\ k < Len(w) + 1 => ~RowAt(b, k, p)
        PROVE  Same(b[i].val, x)
    <3>1. i \in DOMAIN w /\ RowAt(w, i, p) /\ b[i] = w[i]
      BY <1>1, <1>2, <2>1
    <3>2. \A k \in DOMAIN w : i < k /\ k < Len(w) + 1 => ~RowAt(w, k, p)
      BY <1>2, <2>1
    <3> QED
      BY <2>1, <3>1, <3>2 DEF Leaves
  <2>2. ASSUME \A i \in DOMAIN b : i < Len(w) + 1 => ~RowAt(b, i, p) PROVE Same(l[p], x)
    BY <1>2, <2>2 DEF Leaves
  <2> QED
    BY <2>1, <2>2 DEF Leaves
<1>5. \A i \in DOMAIN b : b[i].job = c.job => i = Len(w) + 1
  BY <1>2
<1> QED
  BY <1>3, <1>4, <1>5 DEF Agrees, b

\* The answers under way.
Told(a) == {a[i] : i \in DOMAIN a}

\* The append of the set j is known to have failed, but j does not know yet.
Refused(j, a) == j \in Sets /\ \E t \in Told(a) : t.job = j /\ ~t.v.ok

\* The value the last set of p restores if its append fails, and the entry of p
\* once that set knows.
Restores(p) == IF last[p] \in Sets THEN prior[last[p]] ELSE "none"
Keeps(p) == IF Refused(last[p], answers) THEN Restores(p) ELSE forbidden[p]

\* The entry of p and its row may part, or have.
Doubt(p) == p \in torn \/ \E j \in crossed : Refused(j, answers) /\ Who[j] = p

\* What p is left with is its entry, or the value its last set will restore.
Synced(p) == Agrees(wire, p, Keeps(p), Restores(p), last[p], list)

\* p may have parted from its row, or the appends under way will make them meet.
Settled(p) == Doubt(p) \/ Synced(p)

\* Reload r fetches the row of q: what it has passed is settled.
Fetching(r, q) == \A p \in Principals \ (todo[r] \cup {q}) : Settled(p)

\* Of the sets of a principal all but the last are crossed; a reload that is not
\* overlaps no set; a set that gave up on its row tore the entry.
CrossInv ==
  /\ \A j \in Sets : j \in crossed => stage[j] \notin Idle /\ last[Who[j]] # j
  /\ \A j \in Sets : stage[j] \in Waiting /\ j \notin crossed => last[Who[j]] = j
  /\ \A r \in Reloads : stage[r] \in Waiting /\ r \notin crossed => \A j \in Sets : stage[j] \notin Waiting
  /\ \A i \in DOMAIN wire : IsRow(wire[i]) => wire[i].live \/ wire[i].who \in torn

\* What answer t says to the reload that awaits it.
Informs(t) ==
  /\ stage[t.job] = "query" /\ t.v.ok => \A p \in Principals \ t.v.rows : Settled(p)
  /\ stage[t.job] = "get" => Fetching(t.job, t.who)
  /\ stage[t.job] = "get" /\ t.v.ok /\ t.job \notin crossed /\ t.who \notin torn => t.v.val = list[t.who]

\* What a reload has passed is settled.
FetchInv ==
  /\ \A t \in Told(answers) : t.job \in Reloads => Informs(t)
  /\ \A i \in DOMAIN wire : wire[i].live /\ wire[i].job \in Reloads /\ wire[i].wait = "get" =>
       Fetching(wire[i].job, wire[i].who)

\* Without a row there is nothing to fetch, and a loaded overlay is whole.
SyncInv == \A p \in Principals : list[p] = "absent" \/ loaded => Settled(p)

\* While the compartment is down nothing is under way.
OverInv ==
  /\ up = "down" => \A j \in AllJobs : stage[j] \notin Waiting
  /\ up # "down" => CrossInv /\ FetchInv /\ SyncInv

-----------------------------------------------------------------------------
(* A job's step.                                                           *)

\* What job j knows of before its step: net is what is under way but for it.
Loses(j, net) ==
  /\ Alike(wire, net.wire) /\ net.answers \in Seq(Replies)
  /\ \A k \in DOMAIN wire : /\ net.wire[k].live => wire[k].live
                            /\ wire[k].live /\ ~net.wire[k].live => wire[k].job = j
                            /\ wire[k].job = j => ~net.wire[k].live
  /\ \A t \in Replies : t \in Told(net.answers) <=> t \in Told(answers) /\ t.job # j

\* Job j ends, or sends c, or is refused when it tries to.
Goes(j, net, c) ==
  /\ c \in Calls /\ c.job = j /\ c.live /\ (IsRow(c) => c.who = Who[j])
  /\ \A k \in AllJobs : k # j => stage'[k] = stage[k]
  /\ \/ wire' = net.wire /\ answers' = net.answers /\ stage'[j] \in Answered
     \/ wire' = Append(net.wire, c) /\ answers' = net.answers /\ stage'[j] = c.wait
     \/ /\ wire' = net.wire /\ stage'[j] = c.wait
        /\ answers' = Append(net.answers, [job |-> j, who |-> c.who, v |-> Nothing])

\* An answer is added to those under way.
LEMMA ToldAppend ==
  ASSUME NEW a \in Seq(Replies), NEW r
  PROVE  Told(Append(a, r)) = Told(a) \cup {r}
<1>1. /\ DOMAIN Append(a, r) = 1..(Len(a) + 1) /\ DOMAIN a = 1..Len(a) /\ Len(a) \in Nat
      /\ \A k \in DOMAIN a : Append(a, r)[k] = a[k]
      /\ Append(a, r)[Len(a) + 1] = r
  OBVIOUS
<1>2. \A k \in DOMAIN Append(a, r) : k \in DOMAIN a \/ k = Len(a) + 1
  BY <1>1
<1>3. Len(a) + 1 \in DOMAIN Append(a, r) /\ \A k \in DOMAIN a : k \in DOMAIN Append(a, r)
  BY <1>1
<1> QED
  BY <1>1, <1>2, <1>3 DEF Told

\* What is under way has its type.
LEMMA ToldReplies == \A a \in Seq(Replies) : Told(a) \subseteq Replies
  BY DEF Told

\* What the step does to the answers, and to the calls.
LEMMA GoesNet ==
  ASSUME NEW j \in AllJobs, NEW net, NEW c, Loses(j, net), Goes(j, net, c), answers' \in Seq(Replies), answers \in Seq(Replies)
  PROVE  /\ \A t \in Told(answers') : \/ t \in Told(answers) /\ t.job # j
                                      \/ t.job = j /\ t.who = c.who /\ ~t.v.ok /\ stage'[j] = c.wait
         /\ \A t \in Told(answers) : t.job # j => t \in Told(answers')
         /\ \A k : k # j => (Refused(k, answers') <=> Refused(k, answers))
         /\ \A i \in DOMAIN wire' : \/ i \in DOMAIN wire /\ wire'[i] = net.wire[i]
                                    \/ wire'[i] = c /\ stage'[j] = c.wait
<1> DEFINE r == [job |-> j, who |-> c.who, v |-> Nothing]
<1>1. r.job = j /\ r.who = c.who /\ ~r.v.ok
  BY DEF Nothing
<1>2. net.answers \in Seq(Replies) /\ net.wire \in Seq(Calls) /\ DOMAIN net.wire = DOMAIN wire
  BY DEF Loses, Alike
<1>3. Told(answers') \subseteq Replies /\ Told(answers) \subseteq Replies /\ Told(net.answers) \subseteq Replies
  BY <1>2, ToldReplies
<1>4. \/ answers' = net.answers
      \/ answers' = Append(net.answers, r) /\ stage'[j] = c.wait
  BY DEF Goes
<1> HIDE DEF r
<1>5. \/ Told(answers') = Told(net.answers)
      \/ Told(answers') = Told(net.answers) \cup {r} /\ stage'[j] = c.wait
  BY <1>2, <1>4, ToldAppend
<1>6. \A t \in Told(answers') : \/ t \in Told(answers) /\ t.job # j
                                \/ t.job = j /\ t.who = c.who /\ ~t.v.ok /\ stage'[j] = c.wait
  BY <1>1, <1>3, <1>5 DEF Loses
<1>7. \A t \in Told(answers) : t.job # j => t \in Told(answers')
  BY <1>3, <1>5 DEF Loses
<1>8. \A k : k # j => (Refused(k, answers') <=> Refused(k, answers))
  BY <1>6, <1>7 DEF Refused
<1>9. \A i \in DOMAIN wire' : \/ i \in DOMAIN wire /\ wire'[i] = net.wire[i]
                              \/ wire'[i] = c /\ stage'[j] = c.wait
  <2>1. /\ DOMAIN Append(net.wire, c) = 1..(Len(net.wire) + 1) /\ DOMAIN net.wire = 1..Len(net.wire)
        /\ \A i \in DOMAIN net.wire : Append(net.wire, c)[i] = net.wire[i]
        /\ Append(net.wire, c)[Len(net.wire) + 1] = c
        /\ \A i \in 1..(Len(net.wire) + 1) : i \in DOMAIN net.wire \/ i = Len(net.wire) + 1
    BY <1>2
  <2> QED
    BY <1>2, <2>1 DEF Goes
<1> QED
  BY <1>6, <1>7, <1>8, <1>9

\* A principal that the step is not about stays settled.
LEMMA GoesSettled ==
  ASSUME LawInv, LawInv', NEW j \in AllJobs, NEW net, NEW c, Loses(j, net), Goes(j, net, c),
         NEW p \in Principals, j \in Sets => Who[j] # p,
         forbidden'[p] = forbidden[p], last'[p] = last[p], Restores(p)' = Restores(p),
         torn \subseteq torn', crossed \subseteq crossed', list'[p] = list[p], Settled(p)
  PROVE  Settled(p)'
<1>1. /\ answers' \in Seq(Replies) /\ answers \in Seq(Replies)
      /\ \A k \in Sets : last[p] = k => p = Who[k]
  BY DEF LawInv, NetInv, NetOK, JobsInv
<1>2. \A k : k # j => (Refused(k, answers') <=> Refused(k, answers))
  BY <1>1, GoesNet
<1>3. CASE Doubt(p)
  BY <1>2, <1>3 DEF Doubt, Settled, Refused
<1>4. CASE Synced(p)
  <2>1. Keeps(p)' = Keeps(p)
    BY <1>1, <1>2 DEF Keeps, Refused
  <2>2. Agrees(net.wire, p, Keeps(p), Restores(p), last[p], list')
    BY <1>4, AlikeAgrees DEF Synced, Loses
  <2>3. ~(IsRow(c) /\ c.who = p) /\ c \in Calls /\ net.wire \in Seq(Calls)
    BY DEF Goes, IsRow, Loses, Alike
  <2>4. Agrees(wire', p, Keeps(p), Restores(p), last[p], list')
    <3>1. wire' = net.wire \/ wire' = Append(net.wire, c)
      BY DEF Goes
    <3>2. Agrees(Append(net.wire, c), p, Keeps(p), Restores(p), last[p], list')
      BY <2>2, <2>3, AppendAgrees
    <3> QED
      BY <2>2, <3>1, <3>2
  <2> QED
    BY <2>1, <2>4 DEF Synced, Settled
<1> QED
  BY <1>3, <1>4 DEF Settled

\* A job's step that leaves every principal settled that was.
LEMMA GoesOver ==
  ASSUME LawInv, LawInv', NEW j \in AllJobs, NEW net, NEW c, Loses(j, net), Goes(j, net, c),
         FetchInv, SyncInv, UNCHANGED list, up' # "down",
         torn \subseteq torn', crossed \subseteq crossed', \A r \in Reloads : r # j => todo'[r] = todo[r],
         \A p \in Principals : Settled(p) => Settled(p)',
         CrossInv',
         j \in Reloads /\ stage'[j] = "get" => \A p \in Principals \ (todo'[j] \cup {c.who}) : Settled(p)',
         loaded' => loaded \/ \A p \in Principals : Settled(p)'
  PROVE  OverInv'
<1>1. answers' \in Seq(Replies) /\ answers \in Seq(Replies) /\ Reloads \subseteq AllJobs
  BY Classes DEF LawInv, NetInv, NetOK
<1>2. \A t \in Told(answers') : \/ t \in Told(answers) /\ t.job # j
                                \/ t.job = j /\ t.who = c.who /\ ~t.v.ok /\ stage'[j] = c.wait
  BY <1>1, GoesNet
<1>3. \A i \in DOMAIN wire' : \/ i \in DOMAIN wire /\ wire'[i] = net.wire[i]
                              \/ wire'[i] = c /\ stage'[j] = c.wait
  BY <1>1, GoesNet
<1>4. ASSUME NEW t \in Told(answers'), t.job \in Reloads PROVE Informs(t)'
  <2>1. CASE t \in Told(answers) /\ t.job # j
    <3>1. Informs(t) /\ stage'[t.job] = stage[t.job] /\ todo'[t.job] = todo[t.job]
      BY <1>1, <1>4, <2>1 DEF FetchInv, Goes
    <3> QED
      BY <3>1 DEF Informs, Fetching
  <2>2. CASE t.job = j /\ t.who = c.who /\ ~t.v.ok /\ stage'[j] = c.wait
    BY <1>4, <2>2 DEF Informs, Fetching
  <2> QED
    BY <1>2, <2>1, <2>2
<1>5. ASSUME NEW i \in DOMAIN wire', wire'[i].live, wire'[i].job \in Reloads, wire'[i].wait = "get"
      PROVE  \A p \in Principals \ (todo'[wire'[i].job] \cup {wire'[i].who}) : Settled(p)'
  <2>1. CASE i \in DOMAIN wire /\ wire'[i] = net.wire[i]
    <3>1. /\ wire[i].live /\ wire[i].job = wire'[i].job /\ wire[i].who = wire'[i].who /\ wire[i].wait = "get"
          /\ wire[i].job # j
      BY <1>5, <2>1 DEF Loses, Alike
    <3>2. Fetching(wire[i].job, wire[i].who) /\ todo'[wire[i].job] = todo[wire[i].job]
      BY <1>5, <2>1, <3>1 DEF FetchInv
    <3> QED
      BY <3>1, <3>2 DEF Fetching
  <2>2. CASE wire'[i] = c /\ stage'[j] = c.wait
    BY <1>5, <2>2 DEF Goes
  <2> QED
    BY <1>3, <2>1, <2>2
<1>6. SyncInv'
  BY DEF SyncInv
<1> QED
  BY <1>4, <1>5, <1>6 DEF OverInv, FetchInv, Fetching

\* A step that starts neither a set nor a reload.
LEMMA GoesCross ==
  ASSUME LawInv, LawInv', NEW j \in AllJobs, NEW net, NEW c, Loses(j, net), Goes(j, net, c),
         CrossInv, UNCHANGED <<last, crossed>>, torn \subseteq torn',
         j \in Reloads => stage[j] \in Waiting, j \in Sets => stage'[j] \in Answered,
         j \in Sets /\ net.wire # wire => Who[j] \in torn'
  PROVE  CrossInv'
<1>1. answers' \in Seq(Replies) /\ answers \in Seq(Replies) /\ Reloads \subseteq AllJobs /\ Sets \subseteq AllJobs
  BY Classes DEF LawInv, NetInv, NetOK
<1>2. Waiting \cap Answered = {} /\ Answered \cap Idle = {}
  BY DEF Waiting, Answered, Idle
<1>3. \A i \in DOMAIN wire' : \/ i \in DOMAIN wire /\ wire'[i] = net.wire[i]
                              \/ wire'[i] = c
  BY <1>1, GoesNet
<1>4. \A k \in AllJobs : k # j => stage'[k] = stage[k]
  BY DEF Goes
<1>5. ASSUME NEW i \in DOMAIN wire', IsRow(wire'[i])
      PROVE  wire'[i].live \/ wire'[i].who \in torn'
  <2>1. CASE wire'[i] = c
    BY <2>1 DEF Goes
  <2>2. CASE i \in DOMAIN wire /\ wire'[i] = net.wire[i]
    <3>1. IsRow(wire[i]) /\ wire[i].who = wire'[i].who /\ wire[i].job \in Sets /\ wire[i].who = Who[wire[i].job]
      <4>1. IsRow(wire[i]) /\ wire[i].who = wire'[i].who
        BY <1>5, <2>2 DEF Loses, Alike, IsRow
      <4>2. CallOK(wire[i], View)
        BY <2>2 DEF LawInv, NetInv, NetOK
      <4> QED
        BY <4>1, <4>2 DEF CallOK, IsRow
    <3>2. wire[i].live \/ wire[i].who \in torn
      BY <2>2, <3>1 DEF CrossInv
    <3>3. CASE wire[i].live /\ ~net.wire[i].live
      <4>1. wire[i].job = j /\ net.wire # wire
        BY <2>2, <3>3 DEF Loses
      <4> QED
        BY <3>1, <4>1
    <3> QED
      BY <2>2, <3>1, <3>2, <3>3
  <2> QED
    BY <1>3, <2>1, <2>2
<1>6. \A k \in Sets : k \in crossed' => stage'[k] \notin Idle /\ last'[Who[k]] # k
  BY <1>1, <1>2, <1>4 DEF CrossInv
<1>7. \A k \in Sets : stage'[k] \in Waiting /\ k \notin crossed' => last'[Who[k]] = k
  BY <1>1, <1>2, <1>4 DEF CrossInv
<1>8. \A r \in Reloads : stage'[r] \in Waiting /\ r \notin crossed' => \A k \in Sets : stage'[k] \notin Waiting
  BY <1>1, <1>2, <1>4 DEF CrossInv
<1> QED
  BY <1>5, <1>6, <1>7, <1>8 DEF CrossInv

\* What Ask() and End() do.
LEMMA AskGoes ==
  ASSUME LawInv, NEW j \in AllJobs, NEW net, NEW wait, NEW row, NEW p, NEW v,
         Ask(j, wait, row, p, v, net), Letter(j, wait, row, p, v) \in Calls, j \in Sets => p = Who[j]
  PROVE  Goes(j, net, Letter(j, wait, row, p, v))
<1>1. DOMAIN stage = AllJobs
  BY DEF LawInv, LawTypeOK
<1> QED
  BY <1>1 DEF Goes, Ask, Letter, IsRow

\* The same of a handler that ends.
LEMMA EndGoes ==
  ASSUME LawInv, NEW j \in AllJobs, NEW net, NEW st \in Answered,
         stage' = [stage EXCEPT ![j] = st], wire' = net.wire, answers' = net.answers
  PROVE  Goes(j, net, Letter(j, "intent", "journal", "none", "none"))
<1>1. DOMAIN stage = AllJobs
  BY DEF LawInv, LawTypeOK
<1>2. Letter(j, "intent", "journal", "none", "none") \in Calls
  BY DEF Letter, Calls, Waiting, Values
<1> QED
  BY <1>1, <1>2 DEF Goes, Letter, IsRow

\* Ops that touch no overlay.
LEMMA OtherOver ==
  ASSUME LawInv, LawInv', OverInv, up # "down", up' # "down",
         NEW j \in AllJobs, j \notin Sets, j \notin Reloads, NEW net, NEW c, Loses(j, net), Goes(j, net, c),
         UNCHANGED <<forbidden, loaded, prior, todo, last, torn, crossed, list>>
  PROVE  OverInv'
<1>1. CrossInv /\ FetchInv /\ SyncInv
  BY DEF OverInv
<1>2. CrossInv'
  BY <1>1, GoesCross
<1>3. \A p \in Principals : Settled(p) => Settled(p)'
  BY GoesSettled DEF Restores
<1> QED
  BY <1>1, <1>2, <1>3, GoesOver

\* reloadForbidden() after its query: the rows it found are fetched; of the
\* others there was none to fetch.
LEMMA QueryOver ==
  ASSUME LawInv, LawInv', OverInv, up # "down", up' # "down",
         NEW j \in Reloads, NEW net, Loses(j, net), UNCHANGED list,
         NEW v \in Outcome, QueryAnswered(j, v, net), stage[j] = "query",
         v.ok => \A p \in Principals \ v.rows : Settled(p)
  PROVE  OverInv'
<1>1. CrossInv /\ FetchInv /\ SyncInv /\ j \in AllJobs /\ j \notin Sets /\ stage[j] \in Waiting
  BY Classes DEF OverInv, Waiting
<1>2. UNCHANGED <<forbidden, prior, last, torn, crossed>> /\ \A r \in Reloads : r # j => todo'[r] = todo[r]
  <2>1. DOMAIN todo = Reloads
    BY DEF LawInv, LawTypeOK
  <2>2. UNCHANGED <<forbidden, prior, last, torn, crossed>>
    BY DEF QueryAnswered, history
  <2>3. todo' = todo \/ \E p \in v.rows : todo' = [todo EXCEPT ![j] = v.rows \ {p}]
    BY DEF QueryAnswered
  <2> QED
    BY <2>1, <2>2, <2>3
<1>3. v.rows \subseteq Principals /\ todo \in [Reloads -> SUBSET Principals] /\ DOMAIN stage = AllJobs
  BY DEF Outcome, LawInv, LawTypeOK
<1>4. PICK c : /\ Goes(j, net, c)
               /\ stage'[j] = "get" => v.ok /\ v.rows \subseteq todo'[j] \cup {c.who}
               /\ loaded' => loaded \/ (v.ok /\ v.rows = {})
  <2>1. ASSUME NEW st \in {"ok", "failed"}, End(j, st, net),
               loaded' => loaded \/ (v.ok /\ v.rows = {})
        PROVE  \E c : /\ Goes(j, net, c)
                      /\ stage'[j] = "get" => v.ok /\ v.rows \subseteq todo'[j] \cup {c.who}
                      /\ loaded' => loaded \/ (v.ok /\ v.rows = {})
    <3>1. Goes(j, net, Letter(j, "intent", "journal", "none", "none"))
      BY <1>1, <2>1, EndGoes DEF End, Answered
    <3>2. stage'[j] # "get"
      BY <1>1, <1>3, <2>1 DEF End
    <3> QED
      BY <2>1, <3>1, <3>2
  <2>2. ASSUME Ask(j, "query", "list", "none", "none", net), loaded' = loaded
        PROVE  \E c : /\ Goes(j, net, c)
                      /\ stage'[j] = "get" => v.ok /\ v.rows \subseteq todo'[j] \cup {c.who}
                      /\ loaded' => loaded \/ (v.ok /\ v.rows = {})
    <3>1. Letter(j, "query", "list", "none", "none") \in Calls
      BY <1>1 DEF Letter, Calls, Waiting, Values
    <3>2. Goes(j, net, Letter(j, "query", "list", "none", "none"))
      BY <1>1, <2>2, <3>1, AskGoes
    <3>3. stage'[j] # "get"
      BY <1>1, <1>3, <2>2 DEF Ask
    <3> QED
      BY <2>2, <3>2, <3>3
  <2>3. ASSUME NEW p \in v.rows, v.ok, Ask(j, "get", "list", p, "none", net),
               todo' = [todo EXCEPT ![j] = v.rows \ {p}], loaded' = loaded
        PROVE  \E c : /\ Goes(j, net, c)
                      /\ stage'[j] = "get" => v.ok /\ v.rows \subseteq todo'[j] \cup {c.who}
                      /\ loaded' => loaded \/ (v.ok /\ v.rows = {})
    <3>1. Letter(j, "get", "list", p, "none") \in Calls /\ Letter(j, "get", "list", p, "none").who = p
      BY <1>1, <1>3 DEF Letter, Calls, Waiting, Values
    <3>2. Goes(j, net, Letter(j, "get", "list", p, "none"))
      BY <1>1, <2>3, <3>1, AskGoes
    <3>3. todo'[j] = v.rows \ {p}
      BY <1>3, <2>3
    <3> QED
      BY <2>3, <3>1, <3>2, <3>3
  <2>4. CASE ~v.ok
    <3>1. CASE j = Boot /\ attempt < MaxAttempts
      BY <2>2, <2>4, <3>1 DEF QueryAnswered
    <3>2. CASE ~(j = Boot /\ attempt < MaxAttempts)
      BY <2>1, <2>4, <3>2 DEF QueryAnswered
    <3> QED
      BY <3>1, <3>2
  <2>5. CASE v.ok
    <3>1. CASE v.rows = {}
      BY <2>1, <2>5, <3>1 DEF QueryAnswered
    <3>2. CASE v.rows # {}
      BY <2>3, <2>5, <3>2 DEF QueryAnswered
    <3> QED
      BY <3>1, <3>2
  <2> QED
    BY <2>4, <2>5
<1>5. CrossInv'
  BY <1>1, <1>2, <1>4, GoesCross
<1>6. \A p \in Principals : Settled(p) => Settled(p)'
  BY <1>1, <1>2, <1>4, GoesSettled DEF Restores
<1>7. stage'[j] = "get" => \A p \in Principals \ (todo'[j] \cup {c.who}) : Settled(p)'
  BY <1>4, <1>6
<1>8. loaded' => loaded \/ \A p \in Principals : Settled(p)'
  BY <1>4, <1>6
<1> QED
  BY <1>1, <1>2, <1>4, <1>5, <1>6, <1>7, <1>8, GoesOver

\* A principal of which no set is under way and no row is on the wire.
LEMMA NoRowAgrees ==
  ASSUME NEW w, NEW p, NEW x, NEW y, NEW j, NEW l,
         \A i \in DOMAIN w : ~RowAt(w, i, p), Same(l[p], x)
  PROVE  Agrees(w, p, x, y, j, l)
  BY DEF Agrees, Leaves

\* A reload fetches the row of p: the entry is the row, or may be torn.
LEMMA FetchSettles ==
  ASSUME LawInv, LawInv', CrossInv, NEW j \in Reloads, NEW net, NEW c, Loses(j, net), Goes(j, net, c),
         stage[j] \in Waiting, NEW p \in Principals, NEW v,
         torn' = (IF ~v.ok \/ j \in crossed THEN torn \cup {p} ELSE torn),
         forbidden' = (IF ~v.ok THEN forbidden ELSE [forbidden EXCEPT ![p] = v.val]),
         v.ok /\ j \notin crossed /\ p \notin torn => v.val = list[p],
         UNCHANGED <<list, last, crossed>>
  PROVE  Settled(p)'
<1>1. CASE ~v.ok \/ j \in crossed \/ p \in torn
  BY <1>1 DEF Settled, Doubt
<1>2. CASE v.ok /\ j \notin crossed /\ p \notin torn
  <2>1. j \in AllJobs /\ j \notin Sets /\ \A k \in Sets : stage[k] \notin Waiting
    BY <1>2, Classes DEF CrossInv
  <2>2. /\ wire \in Seq(Calls) /\ answers' \in Seq(Replies) /\ answers \in Seq(Replies)
        /\ \A i \in DOMAIN wire : wire[i].live => stage[wire[i].job] \in Waiting
        /\ \A t \in Told(answers) : stage[t.job] \in Waiting
    <3>1. \A i \in DOMAIN answers : stage[answers[i].job] \in Waiting
      BY DEF LawInv, NetInv, NetOK, Tells, View
    <3>2. \A i \in DOMAIN wire : wire[i].live => stage[wire[i].job] = wire[i].wait /\ wire[i] \in Calls
      BY DEF LawInv, NetInv, NetOK, Paired, View
    <3> QED
      BY <3>1, <3>2 DEF LawInv, NetInv, NetOK, Told, Calls
  <2>3. \A i \in DOMAIN wire : ~RowAt(wire, i, p)
    <3>1. ASSUME NEW i \in DOMAIN wire, RowAt(wire, i, p) PROVE FALSE
      BY <1>2, <2>1, <2>2, <3>1 DEF CrossInv, RowAt, IsRow
    <3> QED
      BY <3>1
  <2>4. \A i \in DOMAIN wire' : ~RowAt(wire', i, p)
    <3>1. \A i \in DOMAIN wire' : (i \in DOMAIN wire /\ wire'[i] = net.wire[i]) \/ wire'[i] = c
      BY <2>1, <2>2, GoesNet
    <3>2. ~IsRow(c)
      BY <2>1 DEF IsRow, Goes
    <3> QED
      BY <2>3, <3>1, <3>2 DEF RowAt, IsRow, Loses, Alike
  <2>5. ~Refused(last'[p], answers')
    <3>1. \A k : k # j => (Refused(k, answers') <=> Refused(k, answers))
      BY <2>1, <2>2, GoesNet
    <3>2. \A k : ~Refused(k, answers)
      BY <2>1, <2>2 DEF Refused
    <3> QED
      BY <2>1, <3>1, <3>2 DEF Refused
  <2>6. Keeps(p)' = list[p]
    <3>1. forbidden'[p] = v.val
      BY <1>2 DEF LawInv, LawTypeOK
    <3> QED
      BY <1>2, <2>5, <3>1 DEF Keeps
  <2>7. Same(list'[p], Keeps(p)')
    BY <2>6 DEF Same
  <2>8. Agrees(wire', p, Keeps(p)', Restores(p)', last'[p], list')
    BY <2>4, <2>7, NoRowAgrees
  <2> QED
    BY <2>8 DEF Settled, Synced
<1> QED
  BY <1>1, <1>2

\* reloadForbidden() after the fetch of a row.
LEMMA FetchOver ==
  ASSUME LawInv, LawInv', OverInv, up # "down", up' # "down",
         NEW j \in Reloads, NEW net, Loses(j, net), UNCHANGED list,
         NEW p \in Principals, NEW v, RowFetched(j, p, v, net), stage[j] = "get",
         Fetching(j, p), v.ok /\ j \notin crossed /\ p \notin torn => v.val = list[p]
  PROVE  OverInv'
<1>1. CrossInv /\ FetchInv /\ SyncInv /\ j \in AllJobs /\ j \notin Sets /\ stage[j] \in Waiting
  BY Classes DEF OverInv, Waiting
<1>2. /\ UNCHANGED <<prior, last, crossed>> /\ torn \subseteq torn' /\ \A r \in Reloads : r # j => todo'[r] = todo[r]
      /\ torn' = IF ~v.ok \/ j \in crossed THEN torn \cup {p} ELSE torn
      /\ forbidden' = IF ~v.ok THEN forbidden ELSE [forbidden EXCEPT ![p] = v.val]
  <2>1. DOMAIN todo = Reloads
    BY DEF LawInv, LawTypeOK
  <2>2. todo' = todo \/ \E q \in todo[j] : todo' = [todo EXCEPT ![j] = @ \ {q}]
    BY DEF RowFetched
  <2>3. /\ UNCHANGED <<prior, last, crossed>>
        /\ torn' = IF ~v.ok \/ j \in crossed THEN torn \cup {p} ELSE torn
        /\ forbidden' = IF ~v.ok THEN forbidden ELSE [forbidden EXCEPT ![p] = v.val]
    BY DEF RowFetched
  <2> QED
    BY <2>1, <2>2, <2>3
<1>3. /\ todo \in [Reloads -> SUBSET Principals] /\ DOMAIN stage = AllJobs
      /\ forbidden \in [Principals -> {"none", "some"}]
  BY DEF LawInv, LawTypeOK
<1>4. PICK c : /\ Goes(j, net, c)
               /\ stage'[j] = "get" => todo[j] \subseteq todo'[j] \cup {c.who}
               /\ loaded' => loaded \/ todo[j] = {}
  <2>1. CASE todo[j] = {}
    <3>1. End(j, "ok", net)
      BY <2>1 DEF RowFetched
    <3>2. Goes(j, net, Letter(j, "intent", "journal", "none", "none"))
      BY <1>1, <3>1, EndGoes DEF End, Answered
    <3> QED
      BY <2>1, <3>2
  <2>2. CASE todo[j] # {}
    <3>1. PICK q \in todo[j] : /\ Ask(j, "get", "list", q, "none", net)
                               /\ todo' = [todo EXCEPT ![j] = todo[j] \ {q}] /\ UNCHANGED loaded
      BY <2>2 DEF RowFetched
    <3>2. Letter(j, "get", "list", q, "none") \in Calls /\ Letter(j, "get", "list", q, "none").who = q
      BY <1>1, <1>3 DEF Letter, Calls, Waiting, Values
    <3>3. Goes(j, net, Letter(j, "get", "list", q, "none"))
      BY <1>1, <3>1, <3>2, AskGoes
    <3>4. todo'[j] = todo[j] \ {q}
      BY <1>3, <3>1
    <3> QED
      BY <3>1, <3>2, <3>3, <3>4
  <2> QED
    BY <2>1, <2>2
<1>5. CrossInv'
  BY <1>1, <1>2, <1>4, GoesCross
<1>6. Settled(p)'
  BY <1>1, <1>2, <1>4, FetchSettles
<1>7. ASSUME NEW q \in Principals, q # p, Settled(q) PROVE Settled(q)'
  <2>1. forbidden'[q] = forbidden[q]
    BY <1>2, <1>3, <1>7
  <2> QED
    BY <1>1, <1>2, <1>4, <1>7, <2>1, GoesSettled DEF Restores
<1>8. \A q \in Principals \ todo[j] : Settled(q)'
  BY <1>6, <1>7 DEF Fetching
<1>9. \A q \in Principals : Settled(q) => Settled(q)'
  BY <1>6, <1>7
<1>10. stage'[j] = "get" => \A q \in Principals \ (todo'[j] \cup {c.who}) : Settled(q)'
  BY <1>4, <1>8
<1>11. loaded' => loaded \/ \A q \in Principals : Settled(q)'
  BY <1>4, <1>8
<1> QED
  BY <1>1, <1>2, <1>4, <1>5, <1>9, <1>10, <1>11, GoesOver

\* A job that has asked for nothing has nothing under way.
LEMMA IdleLoses ==
  ASSUME LawInv, NEW j \in AllJobs, stage[j] \in Idle
  PROVE  /\ Loses(j, Net) /\ \A i \in DOMAIN wire : wire[i].job # j
         /\ \A t \in Told(answers) : t.job # j
<1>1. NetOK(wire, answers, View) /\ View.stage[j] \in Idle /\ View.stage[j] \notin Waiting
  BY DEF LawInv, NetInv, View, Idle, Waiting
<1>2. (\A i \in DOMAIN wire : wire[i].job # j) /\ Silent(j, wire, answers)
  BY <1>1, IdleNet
<1>3. wire \in Seq(Calls) /\ answers \in Seq(Replies)
  BY <1>1 DEF NetOK
<1>4. \A t \in Told(answers) : t.job # j
  BY <1>2 DEF Told, Silent
<1>5. Net.wire = wire /\ Net.answers = answers
  BY DEF Net
<1> QED
  BY <1>2, <1>3, <1>4, <1>5 DEF Loses, Alike

\* law.forbidden.reload@1, and onInit's reload, up to the query.
LEMMA ReloadOver ==
  ASSUME LawInv, LawInv', OverInv, up # "down", up' # "down",
         NEW j \in Reloads, stage[j] = "called", StartReload(j), UNCHANGED list
  PROVE  OverInv'
<1> DEFINE c == Letter(j, "query", "list", "none", "none")
<1>1. /\ CrossInv /\ FetchInv /\ SyncInv /\ j \in AllJobs /\ j \notin Sets /\ stage[j] \in Idle
      /\ Sets \subseteq AllJobs /\ Reloads \subseteq AllJobs
  BY Classes DEF OverInv, Idle
<1>2. Loses(j, Net) /\ answers' \in Seq(Replies) /\ answers \in Seq(Replies)
  BY <1>1, IdleLoses DEF LawInv, NetInv, NetOK
<1>3. /\ UNCHANGED <<forbidden, loaded, prior, todo, last, torn>>
      /\ crossed' = IF \E p \in Principals : Overlay(p) # {} THEN crossed \cup {j} ELSE crossed
      /\ Ask(j, "query", "list", "none", "none", Net)
  BY DEF StartReload, memory
<1>4. c \in Calls /\ ~IsRow(c) /\ c.wait = "query"
  BY <1>1 DEF Letter, Calls, Waiting, Values, IsRow
<1>5. Goes(j, Net, c)
  BY <1>1, <1>3, <1>4, AskGoes
<1>6. stage'[j] = "query" /\ \A k \in AllJobs : k # j => stage'[k] = stage[k]
  BY <1>3, <1>5 DEF Goes, Ask, LawInv, LawTypeOK
<1> HIDE DEF c
<1>7. CrossInv'
  <2>1. \A k \in Sets : k \in crossed' => stage'[k] \notin Idle /\ last'[Who[k]] # k
    BY <1>1, <1>3, <1>6 DEF CrossInv
  <2>2. \A k \in Sets : stage'[k] \in Waiting /\ k \notin crossed' => last'[Who[k]] = k
    BY <1>1, <1>3, <1>6 DEF CrossInv
  <2>3. ASSUME NEW r \in Reloads, stage'[r] \in Waiting, r \notin crossed', NEW k \in Sets, stage'[k] \in Waiting
        PROVE  FALSE
    <3>1. k # j /\ stage[k] \in Waiting /\ k \in AllJobs
      BY <1>1, <1>6, <2>3
    <3>2. CASE r = j
      <4>1. k \in Overlay(Who[k]) /\ Who[k] \in Principals
        BY <3>1, Classes DEF Overlay, InFlight, Sets
      <4> QED
        BY <1>3, <2>3, <3>2, <4>1
    <3>3. CASE r # j
      BY <1>1, <1>3, <1>6, <2>3, <3>1, <3>3 DEF CrossInv
    <3> QED
      BY <3>2, <3>3
  <2>4. \A i \in DOMAIN wire' : IsRow(wire'[i]) => wire'[i].live \/ wire'[i].who \in torn'
    <3>1. \A i \in DOMAIN wire' : (i \in DOMAIN wire /\ wire'[i] = wire[i]) \/ wire'[i] = c
      BY <1>1, <1>2, <1>5, GoesNet DEF Net
    <3> QED
      BY <1>1, <1>3, <1>4, <3>1 DEF CrossInv
  <2> QED
    BY <2>1, <2>2, <2>3, <2>4 DEF CrossInv
<1>8. \A p \in Principals : Settled(p) => Settled(p)'
  BY <1>1, <1>2, <1>3, <1>5, GoesSettled DEF Restores
<1> QED
  BY <1>1, <1>2, <1>3, <1>5, <1>6, <1>7, <1>8, GoesOver

\* law.forbidden.set@1 up to its append: p is left with its list once the row
\* is served, and with what it would have been left with if the row fails.
LEMMA SetStartSettles ==
  ASSUME LawInv, LawInv', CrossInv, NEW j \in Sets, stage[j] = "called", StartSet(j, Who[j]),
         UNCHANGED list, NEW p \in Principals, p = Who[j], Settled(p)
  PROVE  Settled(p)'
<1> DEFINE c == Letter(j, "append", "list", Who[j], List[j])
<1>1. p = Who[j]
  OBVIOUS
<1>2. /\ prior' = [prior EXCEPT ![j] = forbidden[p]]
      /\ forbidden' = [forbidden EXCEPT ![p] = List[j]]
      /\ last' = [last EXCEPT ![p] = j] /\ crossed' = crossed \cup Overlay(p)
      /\ torn' = torn
      /\ Ask(j, "append", "list", p, List[j], Net)
  BY <1>1 DEF StartSet
<1>3. /\ j \in AllJobs /\ stage[j] \in Idle /\ stage[j] \notin Waiting /\ j \notin crossed
      /\ List[j] \in {"none", "some"}
  BY Classes DEF Idle, Waiting, CrossInv
<1>4. /\ \A i \in DOMAIN wire : wire[i].job # j
      /\ \A t \in Told(answers) : t.job # j
  BY <1>3, IdleLoses
<1>5. /\ wire \in Seq(Calls) /\ answers \in Seq(Replies)
      /\ \A k \in Sets : last[p] = k => p = Who[k]
      /\ \A t \in Told(answers) : stage[t.job] \in Waiting
  BY DEF LawInv, NetInv, NetOK, JobsInv, Tells, View, Told
<1>6. c \in Calls /\ IsRow(c) /\ c.job = j /\ c.who = p /\ c.val = List[j]
  BY <1>1, <1>3 DEF Letter, Calls, Waiting, Values, IsRow
<1>7. forbidden'[p] = List[j] /\ last'[p] = j /\ Restores(p)' = forbidden[p]
  BY <1>2, <1>3 DEF LawInv, LawTypeOK, JobsInv, Restores
<1>8. \/ wire' = Append(wire, c) /\ answers' = answers
      \/ wire' = wire /\ answers' = Append(answers, [job |-> j, who |-> p, v |-> Nothing])
  <2>1. Net.wire = wire /\ Net.answers = answers
    BY DEF Net
  <2>2. c = [job |-> j, wait |-> "append", row |-> "list", who |-> p, val |-> List[j], live |-> TRUE]
    BY <1>1 DEF Letter
  <2> HIDE DEF c
  <2>3. CASE call'.verdict = "pass"
    BY <1>2, <2>1, <2>2, <2>3 DEF Ask
  <2>4. CASE call'.verdict # "pass"
    BY <1>2, <2>1, <2>4 DEF Ask
  <2> QED
    BY <2>3, <2>4
<1> HIDE DEF c
<1>9. Told(answers') = Told(answers) \/ Told(answers') = Told(answers) \cup {[job |-> j, who |-> p, v |-> Nothing]}
  BY <1>5, <1>8, ToldAppend
<1>10. ASSUME NEW k \in crossed', Refused(k, answers), Who[k] = p PROVE Settled(p)'
  <2>1. Refused(k, answers')
    BY <1>9, <1>10 DEF Refused
  <2> QED
    BY <1>10, <2>1 DEF Settled, Doubt
<1>11. CASE Doubt(p)
  <2>1. CASE p \in torn
    BY <1>2, <2>1 DEF Settled, Doubt
  <2>2. CASE \E k \in crossed : Refused(k, answers) /\ Who[k] = p
    BY <1>2, <1>10, <2>2
  <2> QED
    BY <1>11, <2>1, <2>2 DEF Doubt
<1>12. CASE Synced(p) /\ Refused(last[p], answers)
  <2>1. last[p] \in Sets /\ Who[last[p]] = p /\ stage[last[p]] \in Waiting /\ last[p] \in AllJobs
    BY <1>5, <1>12, Classes DEF Refused
  <2>2. last[p] \in Overlay(p)
    BY <2>1 DEF Overlay, InFlight, Sets
  <2> QED
    BY <1>2, <1>10, <1>12, <2>1, <2>2
<1>13. CASE Synced(p) /\ ~Refused(last[p], answers)
  <2>1. Leaves(wire, Len(wire) + 1, p, forbidden[p], list)
    BY <1>13 DEF Synced, Keeps, Agrees
  <2>2. CASE wire' = Append(wire, c) /\ answers' = answers
    <3>1. ~Refused(j, answers')
      BY <1>4, <2>2 DEF Refused
    <3>2. Keeps(p)' = List[j]
      BY <1>7, <3>1 DEF Keeps
    <3>3. Agrees(wire', p, List[j], forbidden[p], j, list)
      BY <1>4, <1>5, <1>6, <2>1, <2>2, AppendRow
    <3>4. Agrees(wire', p, Keeps(p)', Restores(p)', last'[p], list')
      BY <1>7, <3>2, <3>3
    <3> QED
      BY <3>4 DEF Settled, Synced
  <2>3. CASE wire' = wire /\ answers' = Append(answers, [job |-> j, who |-> p, v |-> Nothing])
    <3> DEFINE r == [job |-> j, who |-> p, v |-> Nothing]
    <3>1. r \in Told(answers') /\ r.job = j /\ ~r.v.ok
      BY <1>5, <2>3, ToldAppend DEF Nothing
    <3> HIDE DEF r
    <3>2. Refused(j, answers')
      BY <3>1 DEF Refused
    <3>3. Keeps(p)' = forbidden[p]
      BY <1>7, <3>2 DEF Keeps
    <3>4. Agrees(wire, p, forbidden[p], forbidden[p], j, list)
      BY <1>4, <2>1 DEF Agrees
    <3>5. Agrees(wire', p, Keeps(p)', Restores(p)', last'[p], list')
      BY <1>7, <2>3, <3>3, <3>4
    <3> QED
      BY <3>5 DEF Settled, Synced
  <2> QED
    BY <1>8, <2>2, <2>3
<1> QED
  BY <1>11, <1>12, <1>13 DEF Settled

\* law.forbidden.set@1 up to its append.
LEMMA SetOver ==
  ASSUME LawInv, LawInv', OverInv, up # "down", up' # "down",
         NEW j \in Sets, stage[j] = "called", StartSet(j, Who[j]), UNCHANGED list
  PROVE  OverInv'
<1> DEFINE c == Letter(j, "append", "list", Who[j], List[j])
<1>1. /\ CrossInv /\ FetchInv /\ SyncInv /\ j \in AllJobs /\ j \notin Reloads /\ stage[j] \in Idle
      /\ j \notin crossed /\ stage[j] \notin Waiting /\ List[j] \in {"none", "some"}
      /\ Sets \subseteq AllJobs /\ Reloads \subseteq AllJobs
  BY Classes DEF OverInv, Idle, Waiting, CrossInv
<1>2. PICK p \in Principals : p = Who[j]
  BY Classes
<1>3. /\ prior' = [prior EXCEPT ![j] = forbidden[p]]
      /\ forbidden' = [forbidden EXCEPT ![p] = List[j]]
      /\ last' = [last EXCEPT ![p] = j] /\ crossed' = crossed \cup Overlay(p)
      /\ UNCHANGED <<torn, loaded, todo>>
      /\ Ask(j, "append", "list", p, List[j], Net)
  BY <1>2 DEF StartSet
<1>4. Loses(j, Net) /\ answers' \in Seq(Replies) /\ answers \in Seq(Replies)
  BY <1>1, IdleLoses DEF LawInv, NetInv, NetOK
<1>5. c \in Calls /\ c.live
  BY <1>1, <1>2 DEF Letter, Calls, Waiting, Values
<1>6. Goes(j, Net, c)
  BY <1>1, <1>2, <1>3, <1>5, AskGoes
<1>7. \A k \in AllJobs : k # j => stage'[k] = stage[k]
  BY <1>6 DEF Goes
<1>8. /\ last'[p] = j /\ \A q \in Principals : q # p => last'[q] = last[q]
      /\ \A q \in Principals : q # p => forbidden'[q] = forbidden[q]
      /\ \A k \in Sets : k # j => prior'[k] = prior[k]
      /\ \A k \in Sets : Who[k] \in Principals
      /\ \A k \in Sets, q \in Principals : last[q] = k => q = Who[k]
  BY <1>3, Classes DEF LawInv, LawTypeOK, JobsInv
<1>9. \A k \in AllJobs : k \in Overlay(p) <=> stage[k] \in Waiting /\ (k \in Reloads \/ (k \in Sets /\ Who[k] = p))
  BY DEF Overlay, InFlight, Sets
<1> HIDE DEF c
<1>10. CrossInv'
  <2>1. ASSUME NEW k \in Sets, k \in crossed' PROVE stage'[k] \notin Idle /\ last'[Who[k]] # k
    <3>1. k \in AllJobs /\ (k \in crossed \/ k \in Overlay(p))
      BY <1>1, <1>3, <2>1
    <3>2. k # j /\ Waiting \cap Idle = {} /\ k \notin Reloads
      BY <1>1, <1>9, <3>1, Classes DEF Waiting, Idle
    <3>3. stage[k] \notin Idle /\ (k \in crossed => last[Who[k]] # k) /\ (k \in Overlay(p) => Who[k] = p)
      BY <1>1, <1>9, <3>1, <3>2 DEF CrossInv
    <3> QED
      BY <1>7, <1>8, <3>1, <3>2, <3>3
  <2>2. ASSUME NEW k \in Sets, stage'[k] \in Waiting, k \notin crossed' PROVE last'[Who[k]] = k
    <3>1. CASE k = j
      BY <1>2, <1>8, <3>1
    <3>2. CASE k # j
      <4>1. stage[k] \in Waiting /\ k \in AllJobs /\ k \notin crossed /\ k \notin Overlay(p)
        BY <1>1, <1>3, <1>7, <2>2, <3>2
      <4>2. Who[k] # p /\ last[Who[k]] = k
        BY <1>1, <1>9, <4>1 DEF CrossInv
      <4> QED
        BY <1>8, <4>2
    <3> QED
      BY <3>1, <3>2
  <2>3. ASSUME NEW r \in Reloads, stage'[r] \in Waiting, r \notin crossed' PROVE FALSE
    <3>1. r # j /\ r \in AllJobs /\ stage[r] \in Waiting
      BY <1>1, <1>7, <2>3
    <3> QED
      BY <1>3, <1>9, <2>3, <3>1
  <2>4. \A i \in DOMAIN wire' : IsRow(wire'[i]) => wire'[i].live \/ wire'[i].who \in torn'
    <3>1. \A i \in DOMAIN wire' : (i \in DOMAIN wire /\ wire'[i] = wire[i]) \/ wire'[i] = c
      BY <1>1, <1>4, <1>6, GoesNet DEF Net
    <3> QED
      BY <1>1, <1>3, <1>5, <3>1 DEF CrossInv, c
  <2> QED
    BY <2>1, <2>2, <2>3, <2>4 DEF CrossInv
<1>11. Settled(p) => Settled(p)'
  BY <1>1, <1>2, SetStartSettles
<1>12. ASSUME NEW q \in Principals, q # p, Settled(q) PROVE Settled(q)'
  <2>1. last[q] \in Sets => last[q] # j
    BY <1>2, <1>8, <1>12
  <2>2. Restores(q)' = Restores(q)
    BY <1>8, <1>12, <2>1 DEF Restores
  <2>3. torn \subseteq torn' /\ crossed \subseteq crossed'
    BY <1>3
  <2> QED
    BY <1>1, <1>2, <1>4, <1>6, <1>8, <1>12, <2>2, <2>3, GoesSettled
<1>13. \A q \in Principals : Settled(q) => Settled(q)'
  BY <1>11, <1>12
<1>14. torn \subseteq torn' /\ crossed \subseteq crossed'
  BY <1>3
<1> QED
  BY <1>1, <1>3, <1>4, <1>6, <1>10, <1>13, <1>14, GoesOver

\* law.forbidden.set@1 after its append: a set that learns that its append
\* failed restores the entry its row would have replaced.
LEMMA SetEndSettles ==
  ASSUME LawInv, CrossInv, NEW j \in Sets, stage[j] = "append", NEW p \in Principals, p = Who[j],
         NEW net, Loses(j, net), UNCHANGED list, NEW v, NEW late, SetAnswered(j, p, v, net, late),
         late => ~v.ok,
         ~late => net.wire = wire /\ \E t \in Told(answers) : t.job = j /\ t.v = v,
         Settled(p)
  PROVE  Settled(p)'
<1>1. /\ wire' = net.wire /\ answers' = net.answers
      /\ forbidden' = IF v.ok THEN forbidden ELSE [forbidden EXCEPT ![p] = prior[j]]
      /\ torn' = IF ~v.ok /\ (late \/ j \in crossed) THEN torn \cup {p} ELSE torn
      /\ UNCHANGED <<prior, last, crossed>>
  BY DEF SetAnswered, End
<1>2. /\ answers \in Seq(Replies) /\ net.answers \in Seq(Replies)
      /\ \A t, u \in Told(answers) : t.job = u.job => t = u
      /\ forbidden \in [Principals -> {"none", "some"}]
  BY DEF LawInv, LawTypeOK, NetInv, NetOK, Paired, Told, Loses
<1>3. Told(answers) \subseteq Replies /\ Told(net.answers) \subseteq Replies
  BY <1>2, ToldReplies
<1>4. ~Refused(j, answers') /\ \A k : k # j => (Refused(k, answers') <=> Refused(k, answers))
  BY <1>1, <1>3 DEF Refused, Loses
<1>5. CASE ~v.ok /\ (late \/ j \in crossed)
  BY <1>1, <1>5 DEF Settled, Doubt
<1>6. CASE v.ok
  <2>1. ~late /\ ~Refused(j, answers) /\ wire' = wire /\ forbidden' = forbidden /\ torn' = torn
    BY <1>1, <1>2, <1>6 DEF Refused
  <2>2. \A k : Refused(k, answers') <=> Refused(k, answers)
    BY <1>4, <2>1
  <2>3. Doubt(p) => Doubt(p)'
    BY <1>1, <2>1, <2>2 DEF Doubt
  <2>4. Keeps(p)' = Keeps(p) /\ Restores(p)' = Restores(p)
    BY <1>1, <2>1, <2>2 DEF Keeps, Restores
  <2>5. Synced(p) => Agrees(wire', p, Keeps(p)', Restores(p)', last'[p], list')
    BY <1>1, <2>1, <2>4 DEF Synced
  <2> QED
    BY <2>3, <2>5 DEF Settled, Synced
<1>7. CASE ~v.ok /\ ~late /\ j \notin crossed
  <2>1. Refused(j, answers) /\ wire' = wire /\ torn' = torn
    BY <1>1, <1>7 DEF Refused
  <2>2. last[p] = j /\ stage[j] \in Waiting
    BY <1>7 DEF CrossInv, Waiting
  <2>3. Doubt(p) => Doubt(p)'
    <3>1. CASE p \in torn
      BY <2>1, <3>1 DEF Doubt
    <3>2. ASSUME NEW k \in crossed, Refused(k, answers), Who[k] = p PROVE Doubt(p)'
      <4>1. k # j /\ Refused(k, answers') /\ k \in crossed'
        BY <1>1, <1>4, <1>7, <3>2
      <4> QED
        BY <3>2, <4>1 DEF Doubt
    <3> QED
      BY <3>1, <3>2 DEF Doubt
  <2>4. Keeps(p) = prior[j] /\ Restores(p) = prior[j]
    BY <2>1, <2>2 DEF Keeps, Restores
  <2>5. forbidden'[p] = prior[j] /\ last'[p] = j
    BY <1>1, <1>2, <1>7, <2>2
  <2>6. Keeps(p)' = prior[j] /\ Restores(p)' = prior[j]
    BY <1>1, <1>4, <2>5 DEF Keeps, Restores
  <2>7. Synced(p) => Agrees(wire', p, Keeps(p)', Restores(p)', last'[p], list')
    BY <2>1, <2>2, <2>4, <2>5, <2>6 DEF Synced
  <2> QED
    BY <2>3, <2>7 DEF Settled, Synced
<1> QED
  BY <1>5, <1>6, <1>7

\* law.forbidden.set@1 after its append, or when it gives up on it.
LEMMA SetEndOver ==
  ASSUME LawInv, LawInv', OverInv, up # "down", up' # "down",
         NEW j \in Sets, stage[j] = "append",
         NEW net, Loses(j, net), UNCHANGED list, NEW v, NEW late, SetAnswered(j, Who[j], v, net, late),
         late => ~v.ok,
         ~late => net.wire = wire /\ \E t \in Told(answers) : t.job = j /\ t.v = v
  PROVE  OverInv'
<1>1. /\ CrossInv /\ FetchInv /\ SyncInv /\ j \in AllJobs /\ j \notin Reloads
      /\ DOMAIN stage = AllJobs
  BY Classes DEF OverInv, LawInv, LawTypeOK
<1>2. PICK p \in Principals : p = Who[j]
  BY Classes
<1>3. /\ End(j, IF v.ok THEN "ok" ELSE "failed", net)
      /\ forbidden' = IF v.ok THEN forbidden ELSE [forbidden EXCEPT ![p] = prior[j]]
      /\ torn' = IF ~v.ok /\ (late \/ j \in crossed) THEN torn \cup {p} ELSE torn
      /\ UNCHANGED <<loaded, prior, todo, last, crossed>>
  BY <1>2 DEF SetAnswered
<1>4. PICK st \in Answered : st = IF v.ok THEN "ok" ELSE "failed"
  BY DEF Answered
<1>5. PICK c : Goes(j, net, c)
  BY <1>1, <1>3, <1>4, EndGoes DEF End
<1>6. stage'[j] \in Answered
  BY <1>1, <1>3, <1>4 DEF End
<1>7. torn \subseteq torn' /\ (net.wire # wire => p \in torn')
  BY <1>3
<1>8. CrossInv'
  BY <1>1, <1>2, <1>3, <1>5, <1>6, <1>7, GoesCross
<1>9. Settled(p) => Settled(p)'
  BY <1>1, <1>2, SetEndSettles
<1>10. ASSUME NEW q \in Principals, q # p, Settled(q) PROVE Settled(q)'
  <2>1. forbidden'[q] = forbidden[q]
    BY <1>3, <1>10 DEF LawInv, LawTypeOK
  <2>2. Restores(q)' = Restores(q) /\ last'[q] = last[q] /\ list'[q] = list[q] /\ crossed \subseteq crossed'
    BY <1>3 DEF Restores
  <2> QED
    BY <1>1, <1>2, <1>5, <1>7, <1>10, <2>1, <2>2, GoesSettled
<1>11. \A q \in Principals : Settled(q) => Settled(q)'
  BY <1>9, <1>10
<1> QED
  BY <1>1, <1>3, <1>5, <1>7, <1>8, <1>11, GoesOver

\* What job j learns, with outcome v about p, of the call it awaits.
Learns(j, p, v, net, late) ==
  /\ j \in AllJobs /\ v \in Outcome /\ Loses(j, net) /\ stage[j] \in Waiting
  /\ late => ~v.ok
  /\ ~late => net.wire = wire /\ \E t \in Told(answers) : t.job = j /\ t.v = v
  /\ j \in Identity \cup Sets => p = Who[j]
  /\ j \in Reloads /\ stage[j] = "query" /\ v.ok => \A q \in Principals \ v.rows : Settled(q)
  /\ j \in Reloads /\ stage[j] = "get" =>
       /\ p \in Principals /\ Fetching(j, p)
       /\ v.ok /\ j \notin crossed /\ p \notin torn => v.val = list[p]

\* The identity ops after their read, and after the append of their row.
LEMMA IdentityOver ==
  ASSUME LawInv, LawInv', OverInv, up # "down", up' # "down",
         NEW j \in Identity, NEW net, Loses(j, net), UNCHANGED list, NEW v,
         \/ RowRead(j, Who[j], v, net)
         \/ RowWritten(j, Who[j], v, net)
         \/ stage[j] = "called" /\ net = Net /\ StartIdentity(j, Who[j])
  PROVE  OverInv'
<1>1. j \in AllJobs /\ j \notin Sets /\ j \notin Reloads /\ Who[j] \in Principals
  BY Classes
<1>2. UNCHANGED <<forbidden, loaded, prior, todo, last, torn, crossed>>
  BY DEF RowRead, RowWritten, StartIdentity, memory, history
<1>3. \/ \E x \in {"active", "retired"} : Ask(j, "append", "rec", Who[j], x, net)
      \/ Ask(j, "get", "rec", Who[j], "none", net)
      \/ \E st \in Answered : End(j, st, net)
  <2>1. "ok" \in Answered /\ "failed" \in Answered
    BY DEF Answered
  <2>2. CASE RowRead(j, Who[j], v, net)
    BY <2>1, <2>2 DEF RowRead
  <2>3. CASE RowWritten(j, Who[j], v, net)
    BY <2>1, <2>3 DEF RowWritten
  <2> QED
    BY <2>2, <2>3 DEF StartIdentity
<1>4. /\ \A x \in {"active", "retired"} : Letter(j, "append", "rec", Who[j], x) \in Calls
      /\ Letter(j, "get", "rec", Who[j], "none") \in Calls
  BY <1>1 DEF Letter, Calls, Waiting, Values
<1>5. PICK c : Goes(j, net, c)
  <2>1. ASSUME NEW x \in {"active", "retired"}, Ask(j, "append", "rec", Who[j], x, net)
        PROVE  Goes(j, net, Letter(j, "append", "rec", Who[j], x))
    BY <1>1, <1>4, <2>1, AskGoes
  <2>2. ASSUME Ask(j, "get", "rec", Who[j], "none", net)
        PROVE  Goes(j, net, Letter(j, "get", "rec", Who[j], "none"))
    BY <1>1, <1>4, <2>2, AskGoes
  <2>3. ASSUME NEW st \in Answered, End(j, st, net)
        PROVE  \E c : Goes(j, net, c)
    BY <1>1, <2>3, EndGoes DEF End
  <2> QED
    BY <1>3, <2>1, <2>2, <2>3
<1> QED
  BY <1>1, <1>2, <1>5, OtherOver

\* law.consent.grant@1 with action revoke, and law.tokens.revoke@1.
LEMMA RevokeOver ==
  ASSUME LawInv, LawInv', OverInv, up # "down", up' # "down",
         NEW j \in Of("consent.revoke") \cup Of("tokens.revoke"), NEW net, Loses(j, net), UNCHANGED list,
         \/ IntentAnswered(j, net)
         \/ net = Net /\ (StartRevoke(j) \/ RevokeConsent(j, Who[j]))
  PROVE  OverInv'
<1>1. j \in AllJobs /\ j \notin Sets /\ j \notin Reloads
  BY LawAssumption DEF Of, Sets, Reloads, AllJobs
<1>2. UNCHANGED <<forbidden, loaded, prior, todo, last, torn, crossed>>
  BY DEF IntentAnswered, StartRevoke, RevokeConsent, memory, history
<1>3. PICK c : Goes(j, net, c)
  <2>1. "ok" \in Answered
    BY DEF Answered
  <2>2. CASE IntentAnswered(j, net) \/ (net = Net /\ RevokeConsent(j, Who[j]))
    <3>1. stage' = [stage EXCEPT ![j] = "ok"] /\ wire' = net.wire /\ answers' = net.answers
      BY <2>2 DEF IntentAnswered, RevokeConsent, End
    <3> QED
      BY <1>1, <2>1, <3>1, EndGoes
  <2>3. CASE net = Net /\ StartRevoke(j)
    <3>1. Letter(j, "intent", "journal", "none", "none") \in Calls
      BY <1>1 DEF Letter, Calls, Waiting, Values
    <3>2. Ask(j, "intent", "journal", "none", "none", net)
      BY <2>3 DEF StartRevoke
    <3> QED
      BY <1>1, <3>1, <3>2, AskGoes
  <2> QED
    BY <2>2, <2>3
<1> QED
  BY <1>1, <1>2, <1>3, OtherOver

\* Whatever a job awaits, its outcome keeps the invariant.
LEMMA ProceedOver ==
  ASSUME LawInv, LawInv', OverInv, up # "down", up' # "down", UNCHANGED list,
         NEW j, NEW p, NEW v, NEW net, NEW late, Learns(j, p, v, net, late), Proceed(j, p, v, net, late)
  PROVE  OverInv'
<1>1. j \in AllJobs /\ stage[j] \in Waiting /\ Expects(j, stage[j]) /\ Loses(j, net) /\ v \in Outcome
  BY DEF Learns, LawInv, JobsInv
<1>2. Of("forbidden.set") = Sets /\ Sets \cap Identity = {} /\ Identity \cap Reloads = {}
  BY Classes DEF Sets
<1>3. CASE stage[j] = "query"
  <2>1. j \in Reloads /\ QueryAnswered(j, v, net)
    BY <1>1, <1>3 DEF Proceed, Expects
  <2>2. v.ok => \A q \in Principals \ v.rows : Settled(q)
    BY <1>3, <2>1 DEF Learns
  <2> QED
    BY <1>1, <1>3, <2>1, <2>2, QueryOver
<1>4. CASE stage[j] = "get" /\ j \in Reloads
  <2>1. RowFetched(j, p, v, net)
    BY <1>4 DEF Proceed
  <2>2. p \in Principals /\ Fetching(j, p) /\ (v.ok /\ j \notin crossed /\ p \notin torn => v.val = list[p])
    BY <1>4 DEF Learns
  <2> QED
    BY <1>1, <1>4, <2>1, <2>2, FetchOver
<1>5. CASE stage[j] = "get" /\ j \notin Reloads
  <2>1. j \in Identity /\ RowRead(j, p, v, net) /\ p = Who[j]
    BY <1>1, <1>5 DEF Proceed, Expects, Learns
  <2> QED
    BY <1>1, <2>1, IdentityOver
<1>6. CASE stage[j] = "append" /\ j \in Sets
  <2>1. SetAnswered(j, p, v, net, late) /\ p = Who[j]
    BY <1>2, <1>6 DEF Proceed, Learns
  <2>2. (late => ~v.ok) /\ (~late => net.wire = wire /\ \E t \in Told(answers) : t.job = j /\ t.v = v)
    BY DEF Learns
  <2> QED
    BY <1>1, <1>6, <2>1, <2>2, SetEndOver
<1>7. CASE stage[j] = "append" /\ j \notin Sets
  <2>1. j \in Identity /\ RowWritten(j, p, v, net) /\ p = Who[j]
    BY <1>1, <1>2, <1>7 DEF Proceed, Expects, Learns
  <2> QED
    BY <1>1, <2>1, IdentityOver
<1>8. CASE stage[j] = "intent"
  <2>1. j \in Of("tokens.revoke") /\ IntentAnswered(j, net)
    BY <1>1, <1>8 DEF Proceed, Expects
  <2> QED
    BY <1>1, <2>1, RevokeOver
<1> QED
  BY <1>1, <1>3, <1>4, <1>5, <1>6, <1>7, <1>8 DEF Waiting

\* Every op that is handled keeps the invariant.
LEMMA HandleOver ==
  ASSUME LawInv, LawInv', OverInv, NEW j \in Jobs, Handle(j)
  PROVE  OverInv'
<1>1. /\ Kind[j] = "forbidden.set" => j \in Sets
      /\ Kind[j] = "forbidden.reload" => j \in Reloads
      /\ Kind[j] = "consent.revoke" => j \in Of("consent.revoke")
      /\ Kind[j] = "tokens.revoke" => j \in Of("tokens.revoke")
      /\ Kind[j] \notin {"forbidden.set", "forbidden.reload", "consent.revoke", "tokens.revoke"} => j \in Identity
  BY LawAssumption DEF Of, Sets, Reloads, Identity, Ops
<1>2. /\ stage[j] = "called" /\ UNCHANGED list /\ up # "down" /\ up' # "down" /\ j \in AllJobs
  BY DEF Handle, AllJobs
<1>3. Loses(j, Net)
  BY <1>2, IdleLoses DEF Idle
<1>4. \/ Kind[j] = "forbidden.set" /\ StartSet(j, Who[j])
      \/ Kind[j] = "forbidden.reload" /\ StartReload(j)
      \/ Kind[j] = "consent.revoke" /\ RevokeConsent(j, Who[j])
      \/ Kind[j] = "tokens.revoke" /\ StartRevoke(j)
      \/ /\ Kind[j] \notin {"forbidden.set", "forbidden.reload", "consent.revoke", "tokens.revoke"}
         /\ StartIdentity(j, Who[j])
  BY DEF Handle
<1>5. CASE Kind[j] = "forbidden.set" /\ StartSet(j, Who[j])
  BY <1>1, <1>2, <1>5, SetOver
<1>6. CASE Kind[j] = "forbidden.reload" /\ StartReload(j)
  BY <1>1, <1>2, <1>6, ReloadOver
<1>7. CASE Kind[j] = "consent.revoke" /\ RevokeConsent(j, Who[j])
  BY <1>1, <1>2, <1>3, <1>7, RevokeOver
<1>8. CASE Kind[j] = "tokens.revoke" /\ StartRevoke(j)
  BY <1>1, <1>2, <1>3, <1>8, RevokeOver
<1>9. CASE j \in Identity /\ StartIdentity(j, Who[j])
  BY <1>2, <1>3, <1>9, IdentityOver
<1> QED
  BY <1>1, <1>4, <1>5, <1>6, <1>7, <1>8, <1>9

\* Job j is told a[i], or gives up on it.
LEMMA DropLoses ==
  ASSUME LawInv, NEW i \in DOMAIN answers, NEW b \in Seq(Replies),
         \A k \in DOMAIN b : \E m \in DOMAIN answers : m # i /\ b[k] = answers[m],
         \A m \in DOMAIN answers : m # i => \E k \in DOMAIN b : b[k] = answers[m]
  PROVE  Loses(answers[i].job, [wire |-> wire, answers |-> b])
<1>1. /\ wire \in Seq(Calls) /\ answers \in Seq(Replies) /\ Paired(wire, answers, View)
  BY DEF LawInv, NetInv, NetOK
<1>2. PICK net : net = [wire |-> wire, answers |-> b]
  OBVIOUS
<1>3. net.wire = wire /\ net.answers = b
  BY <1>2
<1>4. \A t : t \in Told(b) <=> t \in Told(answers) /\ t.job # answers[i].job
  BY <1>1 DEF Told, Paired
<1>5. \A k \in DOMAIN wire : wire[k].job = answers[i].job => ~wire[k].live
  BY <1>1 DEF Paired
<1>6. Loses(answers[i].job, net)
  BY <1>1, <1>3, <1>4, <1>5 DEF Loses, Alike
<1> QED
  BY <1>2, <1>6

\* What an answer says of its job.
LEMMA AnswerSays ==
  ASSUME LawInv, FetchInv, NEW i \in DOMAIN answers, NEW t, t = answers[i]
  PROVE  /\ t \in Told(answers) /\ t.job \in AllJobs /\ t.v \in Outcome /\ stage[t.job] \in Waiting
         /\ t.job \in Identity \cup Sets => t.who = Who[t.job]
         /\ t.job \in Reloads /\ stage[t.job] = "query" /\ t.v.ok => \A q \in Principals \ t.v.rows : Settled(q)
         /\ t.job \in Reloads /\ stage[t.job] = "get" =>
              /\ t.who \in Principals /\ Fetching(t.job, t.who)
              /\ t.v.ok /\ t.job \notin crossed /\ t.who \notin torn => t.v.val = list[t.who]
<1>1. answers \in Seq(Replies) /\ Tells(t.job, t.who, t.v, wire, View)
  BY DEF LawInv, NetInv, NetOK
<1>2. t \in Told(answers) /\ t \in Replies
  BY <1>1 DEF Told
<1>3. t.job \in Reloads => Informs(t)
  BY <1>2 DEF FetchInv
<1> QED
  BY <1>1, <1>2, <1>3 DEF Replies, Tells, View, Informs

\* An answer arrives.
LEMMA ReceiveOver ==
  ASSUME LawInv, LawInv', OverInv, Receive
  PROVE  OverInv'
<1>1. answers # <<>> /\ up # "down" /\ UNCHANGED list /\ up' # "down" /\ FetchInv
  BY DEF Receive, Ready, OverInv
<1>2. answers \in Seq(Replies)
  BY DEF LawInv, NetInv, NetOK
<1>3. PICK t : t = answers[1]
  OBVIOUS
<1>4. 1 \in DOMAIN answers /\ Head(answers) = t
  BY <1>1, <1>2, <1>3
<1>5. PICK b : b = Tail(answers)
  OBVIOUS
<1>6. /\ b \in Seq(Replies)
      /\ \A k \in DOMAIN b : k + 1 \in DOMAIN answers /\ k + 1 # 1 /\ b[k] = answers[k + 1]
      /\ \A m \in DOMAIN answers : m # 1 => m - 1 \in DOMAIN b /\ b[m - 1] = answers[m]
  <2>1. /\ Len(answers) \in Nat /\ DOMAIN answers = 1..Len(answers)
        /\ b \in Seq(Replies) /\ Len(b) = Len(answers) - 1 /\ DOMAIN b = 1..(Len(answers) - 1)
        /\ \A k \in 1..(Len(answers) - 1) : b[k] = answers[k + 1]
    BY <1>1, <1>2, <1>5
  <2>2. \A m \in 1..Len(answers) : m # 1 => m - 1 \in 1..(Len(answers) - 1) /\ (m - 1) + 1 = m
    BY <2>1
  <2> QED
    BY <2>1, <2>2
<1>7. Loses(t.job, [wire |-> wire, answers |-> b])
  BY <1>3, <1>4, <1>6, DropLoses
<1>8. PICK net : net = [wire |-> wire, answers |-> b]
  OBVIOUS
<1>9. net.wire = wire
  BY <1>8
<1>10. Learns(t.job, t.who, t.v, net, FALSE)
  BY <1>1, <1>3, <1>4, <1>7, <1>8, <1>9, AnswerSays DEF Learns
<1>11. Proceed(t.job, t.who, t.v, net, FALSE)
  BY <1>4, <1>5, <1>8 DEF Receive
<1> QED
  BY <1>1, <1>10, <1>11, ProceedOver

\* A local deadline passes.
LEMMA GiveUpOver ==
  ASSUME LawInv, LawInv', OverInv, NEW j \in AllJobs, GiveUp(j)
  PROVE  OverInv'
<1>1. up # "down" /\ up' # "down" /\ UNCHANGED list /\ FetchInv /\ stage[j] \in Waiting
  BY DEF GiveUp, Ready, OverInv, InFlight
<1>2. /\ wire \in Seq(Calls) /\ answers \in Seq(Replies) /\ Paired(wire, answers, View)
      /\ \A k \in DOMAIN wire : CallOK(wire[k], View)
  BY DEF LawInv, NetInv, NetOK
<1>3. Nothing \in Outcome /\ ~Nothing.ok
  BY DEF Nothing, Outcome, Values
<1>4. ASSUME NEW i \in DOMAIN wire, wire[i].job = j, wire[i].live,
             Proceed(j, wire[i].who, Nothing, [wire |-> [wire EXCEPT ![i].live = FALSE], answers |-> answers], TRUE)
      PROVE  OverInv'
  <2>1. PICK p, w, net : p = wire[i].who /\ w = [wire EXCEPT ![i].live = FALSE] /\ net = [wire |-> w, answers |-> answers]
    OBVIOUS
  <2>2. net.wire = w /\ net.answers = answers
    BY <2>1
  <2>3. /\ DOMAIN w = DOMAIN wire
        /\ \A k \in DOMAIN wire : /\ w[k] \in Calls /\ w[k].job = wire[k].job /\ w[k].wait = wire[k].wait
                                  /\ w[k].row = wire[k].row /\ w[k].who = wire[k].who /\ w[k].val = wire[k].val
                                  /\ w[k].live <=> wire[k].live /\ k # i
    <3>1. \A c \in Calls : LET d == [c EXCEPT !.live = FALSE] IN
            /\ d \in Calls /\ d.job = c.job /\ d.wait = c.wait /\ d.row = c.row /\ d.who = c.who /\ d.val = c.val
            /\ ~d.live
      BY DEF Calls
    <3>2. DOMAIN w = DOMAIN wire /\ \A k \in DOMAIN wire : w[k] = IF k = i THEN [wire[i] EXCEPT !.live = FALSE] ELSE wire[k]
      BY <2>1
    <3>3. \A k \in DOMAIN wire : wire[k] \in Calls
      BY <1>2
    <3>4. wire[i] \in Calls /\ w[i] = [wire[i] EXCEPT !.live = FALSE]
      BY <3>2, <3>3
    <3>5. w[i] \in Calls /\ ~w[i].live /\ w[i].job = wire[i].job /\ w[i].wait = wire[i].wait
          /\ w[i].row = wire[i].row /\ w[i].who = wire[i].who /\ w[i].val = wire[i].val
      BY <3>1, <3>4
    <3>6. \A k \in DOMAIN wire : k # i => w[k] = wire[k]
      BY <3>2
    <3> QED
      BY <3>2, <3>3, <3>5, <3>6
  <2>4. w \in Seq(Calls)
    <3>1. DOMAIN wire = 1..Len(wire) /\ Len(wire) \in Nat
      BY <1>2
    <3>2. w = [k \in DOMAIN w |-> w[k]]
      BY <2>1
    <3>3. w \in [1..Len(wire) -> Calls]
      BY <2>3, <3>1, <3>2
    <3> QED
      BY <3>1, <3>3
  <2>5. Loses(j, net)
    <3>1. Alike(wire, w)
      BY <1>2, <2>3, <2>4 DEF Alike
    <3>2. \A k \in DOMAIN wire : /\ w[k].live => wire[k].live
                                 /\ wire[k].live /\ ~w[k].live => wire[k].job = j
                                 /\ wire[k].job = j => ~w[k].live
      BY <1>2, <1>4, <2>3 DEF Paired
    <3>3. \A t \in Told(answers) : t.job # j
      BY <1>2, <1>4 DEF Paired, Told
    <3> QED
      BY <1>2, <2>2, <3>1, <3>2, <3>3 DEF Loses
  <2>6. /\ j \in Identity \cup Sets => p = Who[j]
        /\ j \in Reloads /\ stage[j] = "get" => p \in Principals /\ Fetching(j, p)
    <3>1. CallOK(wire[i], View) /\ stage[j] = wire[i].wait
      BY <1>2, <1>4 DEF Paired, View
    <3>2. j \in Reloads /\ stage[j] = "get" => Fetching(j, p)
      BY <1>1, <1>4, <2>1, <3>1 DEF FetchInv
    <3> QED
      BY <1>4, <2>1, <3>1, <3>2, Classes DEF CallOK, Expects, IsRow
  <2>7. Learns(j, p, Nothing, net, TRUE)
    BY <1>1, <1>3, <2>5, <2>6 DEF Learns
  <2>8. Proceed(j, p, Nothing, net, TRUE)
    BY <1>4, <2>1
  <2> QED
    BY <1>1, <2>7, <2>8, ProceedOver
<1>5. ASSUME NEW i \in DOMAIN answers, answers[i].job = j,
             Proceed(j, answers[i].who, Nothing, [wire |-> wire, answers |-> Cut(answers, i)], TRUE)
      PROVE  OverInv'
  <2>1. PICK t, b, net : t = answers[i] /\ b = Cut(answers, i) /\ net = [wire |-> wire, answers |-> b]
    OBVIOUS
  <2>2. b \in Seq(Replies)
    BY <1>2, <2>1, CutAt
  <2>3. \A k \in DOMAIN b : \E m \in DOMAIN answers : m = (IF k < i THEN k ELSE k + 1) /\ b[k] = answers[m]
    BY <1>2, <2>1, CutAt
  <2>4. \A k \in DOMAIN b : \E m \in DOMAIN answers : m # i /\ b[k] = answers[m]
    <3>1. (\A k \in DOMAIN b : k \in Nat) /\ i \in Nat
      BY <1>2, <2>2
    <3> QED
      BY <2>3, <3>1
  <2>5. \A m \in DOMAIN answers : m # i => \E k \in DOMAIN b : b[k] = answers[m]
    <3>1. DOMAIN b = 1..(Len(answers) - 1) /\ DOMAIN answers = 1..Len(answers) /\ Len(answers) \in Nat /\ i \in Nat
      <4>1. Len(SubSeq(answers, 1, i - 1)) = i - 1 /\ Len(SubSeq(answers, i + 1, Len(answers))) = Len(answers) - i
        BY <1>2
      <4>2. SubSeq(answers, 1, i - 1) \in Seq(Replies) /\ SubSeq(answers, i + 1, Len(answers)) \in Seq(Replies)
        BY <1>2
      <4>3. Len(b) = (i - 1) + (Len(answers) - i)
        BY <2>1, <4>1, <4>2, ConcatProperties DEF Cut
      <4> QED
        BY <1>2, <2>2, <4>3
    <3>2. ASSUME NEW m \in DOMAIN answers, m # i PROVE \E k \in DOMAIN b : b[k] = answers[m]
      <4>1. PICK k : k = IF m < i THEN m ELSE m - 1
        OBVIOUS
      <4>2. k \in DOMAIN b /\ m = IF k < i THEN k ELSE k + 1
        BY <3>1, <3>2, <4>1
      <4> QED
        BY <2>3, <4>2
    <3> QED
      BY <3>2
  <2>6. Loses(j, net)
    BY <1>5, <2>1, <2>2, <2>4, <2>5, DropLoses
  <2>7. Learns(j, t.who, Nothing, net, TRUE)
    <3>1. t.job = j
      BY <1>5, <2>1
    <3> QED
      BY <1>1, <1>3, <2>1, <2>6, <3>1, AnswerSays DEF Learns
  <2>8. Proceed(j, t.who, Nothing, net, TRUE)
    BY <1>5, <2>1
  <2> QED
    BY <1>1, <2>7, <2>8, ProceedOver
<1> QED
  BY <1>4, <1>5 DEF GiveUp

\* Call c is answered with v, if its job still awaits it: what the vault does to
\* the calls, the answers and the lists.
Handles(i, c, v) ==
  /\ c = wire[i] /\ c \in Calls /\ CallOK(c, View) /\ (c.live => stage[c.job] = c.wait)
  /\ wire' = Cut(wire, i)
  /\ answers' = Heard(c, v)
  /\ UNCHANGED <<up, boots, memory, jobVars, history>>
  /\ \A p \in Principals : /\ list'[p] # list[p] => v.ok /\ IsRow(c) /\ c.who = p
                           /\ list[p] # "absent" => list'[p] # "absent"
  /\ v.ok /\ IsRow(c) => list'[c.who] = c.val /\ \A k \in DOMAIN wire : k < i => ~IsRow(wire[k])
  /\ v.ok /\ c.wait = "query" => \A p \in Principals \ v.rows : list[p] = "absent"
  /\ v.ok /\ c.wait = "get" /\ c.job \in Reloads => v.val = list[c.who]

\* Serving a call and failing it are such steps.
LEMMA VaultHandles ==
  ASSUME LawInv, NEW i \in DOMAIN wire, VaultServes(i) \/ VaultFails(i)
  PROVE  \E c, v : Handles(i, c, v)
<1>1. PICK c : c = wire[i]
  OBVIOUS
<1>2. /\ wire \in Seq(Calls) /\ c \in Calls /\ CallOK(c, View) /\ (c.live => stage[c.job] = c.wait)
      /\ DOMAIN wire = 1..Len(wire) /\ i \in 1..Len(wire) /\ Len(wire) \in Nat
  BY <1>1 DEF LawInv, NetInv, NetOK, Paired, View
<1>3. wire' = Cut(wire, i) /\ UNCHANGED <<up, boots, memory, jobVars, history>>
  BY DEF VaultServes, VaultFails
<1>4. CASE VaultServes(i)
  <2>1. PICK v : v = Reply(c, View)
    OBVIOUS
  <2>2. /\ answers' = Heard(c, v) /\ Served(c, View, View')
        /\ c.wait \in Reads \/ \A k \in 1..(i - 1) : wire[k].wait \in Reads
    BY <1>1, <1>4, <2>1 DEF VaultServes, Served, Reply, View, history, jobVars
  <2>3. ViewOK(View)
    BY DEF LawInv, LawTypeOK, JobsInv, ViewOK, View, Idle
  <2>4. Kept(c, View, View') /\ (IsRow(c) => list'[Who[c.job]] = List[c.job])
    <3>1. /\ Kept(c, View, View')
          /\ IsRow(c) => View'.list[Who[c.job]] = List[c.job]
      BY <1>2, <2>2, <2>3, ServeKeeps
    <3> QED
      BY <3>1 DEF View
  <2>5. IsRow(c) => list'[c.who] = c.val /\ \A k \in DOMAIN wire : k < i => ~IsRow(wire[k])
    <3>1. \A k \in DOMAIN wire : k < i => k \in 1..(i - 1)
      BY <1>2
    <3> QED
      BY <1>2, <2>2, <2>4, <3>1 DEF IsRow, CallOK, Reads
  <2>6. /\ v.ok
        /\ c.wait = "query" => \A p \in Principals \ v.rows : list[p] = "absent"
        /\ c.wait = "get" /\ c.job \in Reloads => v.val = list[c.who]
    BY <1>2, <2>1 DEF Reply, View, CallOK
  <2>7. \A p \in Principals : /\ list'[p] # list[p] => IsRow(c) /\ c.who = p
                              /\ list[p] # "absent" => list'[p] # "absent"
    BY <2>4 DEF Kept, View
  <2>8. Handles(i, c, v)
    BY <1>1, <1>2, <1>3, <2>2, <2>5, <2>6, <2>7 DEF Handles
  <2> QED
    BY <2>8
<1>5. CASE VaultFails(i)
  <2>1. answers' = Heard(c, Nothing) /\ list' = list /\ ~Nothing.ok
    BY <1>1, <1>5 DEF VaultFails, Nothing
  <2>2. Handles(i, c, Nothing)
    BY <1>1, <1>2, <1>3, <2>1 DEF Handles
  <2> QED
    BY <2>2
<1> QED
  BY <1>4, <1>5

\* What the step adds to the answers.
LEMMA HandlesTold ==
  ASSUME LawInv, NEW i \in DOMAIN wire, NEW c, NEW v, Handles(i, c, v)
  PROVE  /\ \A t \in Told(answers') : t \in Told(answers) \/ (c.live /\ t.job = c.job /\ t.who = c.who /\ t.v = v)
         /\ \A t \in Told(answers) : t \in Told(answers')
         /\ c.live => \E t \in Told(answers') : t.job = c.job /\ t.v = v
<1> DEFINE r == [job |-> c.job, who |-> c.who, v |-> v]
<1>1. r.job = c.job /\ r.who = c.who /\ r.v = v
  OBVIOUS
<1>2. answers' = IF c.live THEN Append(answers, r) ELSE answers
  BY DEF Handles, Heard
<1> HIDE DEF r
<1>3. answers \in Seq(Replies)
  BY DEF LawInv, NetInv, NetOK
<1>4. CASE c.live
  <2>1. Told(answers') = Told(answers) \cup {r}
    BY <1>2, <1>3, <1>4, ToldAppend
  <2> QED
    BY <1>1, <1>4, <2>1
<1>5. CASE ~c.live
  BY <1>2, <1>5
<1> QED
  BY <1>4, <1>5

\* A principal stays settled when the vault serves a call, or fails it.
LEMMA VaultSettles ==
  ASSUME LawInv, CrossInv, NEW i \in DOMAIN wire, NEW c, NEW v, Handles(i, c, v),
         NEW p \in Principals, Settled(p)
  PROVE  Settled(p)'
<1>1. /\ c = wire[i] /\ wire' = Cut(wire, i) /\ (c.live => stage[c.job] = c.wait) /\ CallOK(c, View)
      /\ UNCHANGED <<forbidden, prior, last, torn, crossed>>
      /\ list'[p] # list[p] => v.ok /\ IsRow(c) /\ c.who = p
      /\ v.ok /\ IsRow(c) => list'[c.who] = c.val /\ \A k \in DOMAIN wire : k < i => ~IsRow(wire[k])
  BY DEF Handles, memory, jobVars, history
<1>2. /\ wire \in Seq(Calls) /\ LastIsLast(wire, View)
      /\ \A k \in Sets : last[p] = k => p = Who[k]
  BY DEF LawInv, NetInv, NetOK, JobsInv
<1>3. /\ \A t \in Told(answers') : t \in Told(answers) \/ (c.live /\ t.job = c.job /\ t.who = c.who /\ t.v = v)
      /\ \A t \in Told(answers) : t \in Told(answers')
      /\ c.live => \E t \in Told(answers') : t.job = c.job /\ t.v = v
  BY HandlesTold
<1>4. \A k : Refused(k, answers) => Refused(k, answers')
  BY <1>3 DEF Refused
<1>5. \A k : k # c.job \/ ~c.live \/ v.ok => (Refused(k, answers') <=> Refused(k, answers))
  BY <1>3 DEF Refused
<1>6. Doubt(p) => Doubt(p)'
  BY <1>1, <1>4 DEF Doubt
<1>7. Restores(p)' = Restores(p)
  BY <1>1 DEF Restores
<1>8. c.live /\ c.job \in Sets => IsRow(c) /\ c.who = Who[c.job]
  BY <1>1, Classes DEF CallOK, Expects, IsRow
<1>9. ASSUME Synced(p), \A k : last[p] = k => (Refused(k, answers') <=> Refused(k, answers)),
             \/ ~RowAt(wire, i, p) /\ list'[p] = list[p]
             \/ RowAt(wire, i, p) /\ list'[p] = wire[i].val /\ \A k \in DOMAIN wire : k < i => ~RowAt(wire, k, p)
      PROVE  Settled(p)'
  <2>1. Keeps(p)' = Keeps(p)
    BY <1>1, <1>7, <1>9 DEF Keeps
  <2>2. Agrees(wire, p, Keeps(p), Restores(p), last[p], list)
    BY <1>9 DEF Synced
  <2>3. Agrees(Cut(wire, i), p, Keeps(p), Restores(p), last[p], list')
    BY <1>2, <1>9, <2>2, CutAgrees
  <2>4. Agrees(wire', p, Keeps(p)', Restores(p)', last'[p], list')
    BY <1>1, <1>7, <2>1, <2>3
  <2> QED
    BY <2>4 DEF Settled, Synced
<1>10. CASE Synced(p) /\ ~RowAt(wire, i, p)
  <2>1. list'[p] = list[p]
    BY <1>1, <1>10 DEF RowAt
  <2>2. ASSUME NEW k, last[p] = k PROVE Refused(k, answers') <=> Refused(k, answers)
    <3>1. CASE k \in Sets
      <4>1. p = Who[k]
        BY <1>2, <2>2, <3>1
      <4>2. k = c.job => ~c.live
        BY <1>1, <1>8, <1>10, <3>1, <4>1 DEF RowAt
      <4> QED
        BY <1>5, <4>2
    <3>2. CASE k \notin Sets
      BY <3>2 DEF Refused
    <3> QED
      BY <3>1, <3>2
  <2> QED
    BY <1>9, <1>10, <2>1, <2>2
<1>11. CASE RowAt(wire, i, p) /\ ~c.live
  <2>1. p \in torn
    BY <1>1, <1>11 DEF CrossInv, RowAt
  <2> QED
    BY <1>1, <2>1 DEF Settled, Doubt
<1>12. CASE Synced(p) /\ RowAt(wire, i, p) /\ v.ok
  <2>1. list'[p] = wire[i].val /\ \A k \in DOMAIN wire : k < i => ~RowAt(wire, k, p)
    BY <1>1, <1>12 DEF RowAt
  <2> QED
    BY <1>5, <1>9, <1>12, <2>1
<1>13. CASE Synced(p) /\ RowAt(wire, i, p) /\ ~v.ok /\ c.live
  <2>1. IsRow(c) /\ c.who = p /\ c.job \in Sets /\ Who[c.job] = p /\ stage[c.job] \in Waiting
    BY <1>1, <1>8, <1>13 DEF RowAt, IsRow, Waiting
  <2>2. Refused(c.job, answers')
    BY <1>3, <1>13, <2>1 DEF Refused
  <2>3. CASE c.job \in crossed
    BY <1>1, <2>1, <2>2, <2>3 DEF Settled, Doubt
  <2>4. CASE c.job \notin crossed
    <3>1. last[p] = c.job
      BY <2>1, <2>4 DEF CrossInv
    <3>2. Keeps(p)' = Restores(p)
      BY <1>1, <1>7, <2>2, <3>1 DEF Keeps
    <3>3. Agrees(wire, p, Keeps(p), Restores(p), c.job, list)
      BY <1>13, <3>1 DEF Synced
    <3>4. \A k, m \in DOMAIN wire : k < m /\ RowAt(wire, k, p) /\ wire[k].job = c.job => ~RowAt(wire, m, p)
      BY <1>2, <3>1 DEF LastIsLast, RowAt, View
    <3>5. Agrees(Cut(wire, i), p, Restores(p), Restores(p), c.job, list)
      BY <1>1, <1>2, <1>13, <3>3, <3>4, FailAgrees
    <3>6. list'[p] = list[p]
      BY <1>1, <1>13
    <3>7. Cut(wire, i) \in Seq(Calls)
      BY <1>2, CutAt
    <3>8. Alike(Cut(wire, i), Cut(wire, i))
      BY <3>7 DEF Alike
    <3>9. Agrees(Cut(wire, i), p, Restores(p), Restores(p), c.job, list')
      BY <3>5, <3>6, <3>8, AlikeAgrees
    <3>10. Agrees(wire', p, Keeps(p)', Restores(p)', last'[p], list')
      BY <1>1, <1>7, <3>1, <3>2, <3>9
    <3> QED
      BY <3>10 DEF Settled, Synced
  <2> QED
    BY <2>3, <2>4
<1>14. CASE Doubt(p)
  BY <1>6, <1>14 DEF Settled
<1> QED
  BY <1>10, <1>11, <1>12, <1>13, <1>14 DEF Settled

\* The vault serves a call, or fails it.
LEMMA VaultOver ==
  ASSUME LawInv, OverInv, NEW i \in DOMAIN wire, VaultServes(i) \/ VaultFails(i)
  PROVE  OverInv'
<1>1. PICK c, v : Handles(i, c, v)
  BY VaultHandles
<1>2. /\ c = wire[i] /\ c \in Calls /\ wire' = Cut(wire, i) /\ (c.live => stage[c.job] = c.wait) /\ CallOK(c, View)
      /\ UNCHANGED <<up, loaded, stage, todo, last, torn, crossed>>
      /\ \A p \in Principals : /\ list'[p] # list[p] => v.ok /\ IsRow(c) /\ c.who = p
                               /\ list[p] # "absent" => list'[p] # "absent"
      /\ v.ok /\ c.wait = "query" => \A p \in Principals \ v.rows : list[p] = "absent"
      /\ v.ok /\ c.wait = "get" /\ c.job \in Reloads => v.val = list[c.who]
  BY <1>1 DEF Handles, memory, jobVars, history
<1>3. CASE up = "down"
  BY <1>2, <1>3 DEF OverInv
<1>4. CASE up # "down"
  <2>1. CrossInv /\ FetchInv /\ SyncInv
    BY <1>4 DEF OverInv
  <2>2. \A p \in Principals : Settled(p) => Settled(p)'
    BY <1>1, <2>1, VaultSettles
  <2>3. \A k \in DOMAIN wire' : \E m \in DOMAIN wire : wire'[k] = wire[m]
    <3>1. wire \in Seq(Calls)
      BY DEF LawInv, NetInv, NetOK
    <3> QED
      BY <1>2, <3>1, CutAt
  <2>4. CrossInv'
    BY <1>2, <2>1, <2>3 DEF CrossInv
  <2>5. ASSUME NEW t \in Told(answers'), t.job \in Reloads
        PROVE  Informs(t)'
    <3>1. CASE t \in Told(answers)
      <4>1. Informs(t)
        BY <2>1, <2>5, <3>1 DEF FetchInv
      <4>2. ASSUME stage[t.job] = "get", t.v.ok, t.job \notin crossed, t.who \notin torn
            PROVE  t.v.val = list'[t.who]
        <5>1. t.v.val = list[t.who] /\ t.who \in Principals
          <6>1. PICK k \in DOMAIN answers : t = answers[k]
            BY <3>1 DEF Told
          <6> QED
            BY <2>1, <2>5, <4>1, <4>2, <6>1, AnswerSays DEF Informs
        <5>2. CASE list'[t.who] # list[t.who]
          <6>1. IsRow(c) /\ c.who = t.who
            BY <1>2, <5>1, <5>2
          <6>2. c.live
            BY <1>2, <2>1, <4>2, <6>1 DEF CrossInv
          <6>3. c.job \in Sets /\ stage[c.job] \in Waiting /\ stage[t.job] \in Waiting
            BY <1>2, <4>2, <6>1, <6>2 DEF IsRow, Waiting
          <6> QED
            BY <2>1, <2>5, <4>2, <6>3 DEF CrossInv
        <5> QED
          BY <5>1, <5>2
      <4> QED
        BY <1>2, <2>2, <4>1, <4>2 DEF Informs, Fetching
    <3>2. CASE c.live /\ t.job = c.job /\ t.who = c.who /\ t.v = v
      <4>1. stage[t.job] = "query" /\ v.ok => \A p \in Principals \ v.rows : Settled(p)'
        BY <1>2, <2>1, <2>2, <3>2 DEF SyncInv
      <4>2. stage[t.job] = "get" => Fetching(t.job, t.who)
        BY <1>2, <2>1, <2>5, <3>2 DEF FetchInv
      <4>3. stage[t.job] = "get" /\ v.ok => v.val = list'[t.who]
        <5>1. stage[t.job] = "get" => c.who \in Principals /\ ~IsRow(c)
          BY <1>2, <2>5, <3>2 DEF CallOK, IsRow
        <5> QED
          BY <1>2, <2>5, <3>2, <5>1
      <4> QED
        BY <1>2, <2>2, <3>2, <4>1, <4>2, <4>3 DEF Informs, Fetching
    <3> QED
      BY <1>1, <3>1, <3>2, HandlesTold
  <2>6. ASSUME NEW k \in DOMAIN wire', wire'[k].live, wire'[k].job \in Reloads, wire'[k].wait = "get"
        PROVE  \A p \in Principals \ (todo'[wire'[k].job] \cup {wire'[k].who}) : Settled(p)'
    <3>1. PICK m \in DOMAIN wire : wire'[k] = wire[m]
      BY <2>3
    <3>2. Fetching(wire[m].job, wire[m].who)
      BY <2>1, <2>6, <3>1 DEF FetchInv
    <3> QED
      BY <1>2, <2>2, <3>1, <3>2 DEF Fetching
  <2>7. SyncInv'
    BY <1>2, <2>1, <2>2 DEF SyncInv
  <2> QED
    BY <1>2, <1>4, <2>4, <2>5, <2>6, <2>7 DEF OverInv, FetchInv, Fetching
<1> QED
  BY <1>3, <1>4

\* Nothing that a principal's settlement is about moves.
LEMMA StillSettled ==
  ASSUME UNCHANGED <<wire, answers, forbidden, prior, last, torn, crossed, list>>, NEW p, Settled(p)
  PROVE  Settled(p)'
<1>1. Keeps(p)' = Keeps(p) /\ Restores(p)' = Restores(p)
  BY DEF Keeps, Restores
<1>2. Doubt(p) => Doubt(p)'
  BY DEF Doubt
<1>3. Synced(p) => Agrees(wire', p, Keeps(p)', Restores(p)', last'[p], list')
  BY <1>1 DEF Synced
<1> QED
  BY <1>2, <1>3 DEF Settled, Synced

\* A call of App is checked, and delivered if it passes; or nothing moves.
LEMMA PresentOver ==
  ASSUME LawInv, OverInv,
         \/ \E j \in Jobs, t \in Tokens \cup {Unknown} : Present(j, t)
         \/ UNCHANGED lawVars
  PROVE  OverInv'
<1>1. /\ UNCHANGED <<up, forbidden, loaded, list, prior, todo, wire, answers, last, torn, crossed>>
      /\ \A k \in AllJobs : stage'[k] = stage[k] \/ (stage[k] \in Idle /\ stage'[k] \in Idle)
  <2>1. CASE \E j \in Jobs, t \in Tokens \cup {Unknown} : Present(j, t)
    <3>1. PICK j \in Jobs, t \in Tokens \cup {Unknown} : Present(j, t)
      BY <2>1
    <3>2. PICK st \in {"called", "idle"} : stage' = [stage EXCEPT ![j] = st]
      BY <3>1 DEF Present
    <3>3. DOMAIN stage = AllJobs /\ stage[j] = "idle"
      BY <3>1 DEF Present, LawInv, LawTypeOK
    <3>4. \A k \in AllJobs : stage'[k] = stage[k] \/ (stage[k] \in Idle /\ stage'[k] \in Idle)
      BY <3>2, <3>3 DEF Idle
    <3> QED
      BY <3>1, <3>4 DEF Present, memory, history
  <2>2. CASE UNCHANGED lawVars
    BY <2>2 DEF lawVars, memory, jobVars, history
  <2> QED
    BY <2>1, <2>2
<1>2. \A k \in AllJobs : (stage'[k] \in Waiting => stage'[k] = stage[k]) /\ (stage'[k] \in Idle => stage[k] \in Idle)
  BY <1>1 DEF Idle, Waiting
<1>3. \A p : Settled(p) => Settled(p)'
  BY <1>1, StillSettled
<1>4. CASE up = "down"
  BY <1>1, <1>2, <1>4 DEF OverInv
<1>5. CASE up # "down"
  <2>1. CrossInv /\ FetchInv /\ SyncInv /\ Sets \subseteq AllJobs /\ Reloads \subseteq AllJobs
    BY <1>5, Classes DEF OverInv
  <2>2. CrossInv'
    BY <1>1, <1>2, <2>1 DEF CrossInv
  <2>3. ASSUME NEW t \in Told(answers), t.job \in Reloads PROVE Informs(t)'
    <3>1. Informs(t) /\ t.job \in AllJobs
      BY <2>1, <2>3 DEF FetchInv
    <3>2. "query" \in Waiting /\ "get" \in Waiting
      BY DEF Waiting
    <3> QED
      BY <1>1, <1>2, <1>3, <3>1, <3>2 DEF Informs, Fetching
  <2>4. \A r, q : Fetching(r, q) => \A p \in Principals \ (todo'[r] \cup {q}) : Settled(p)'
    BY <1>1, <1>3 DEF Fetching
  <2>5. SyncInv'
    BY <1>1, <1>3, <2>1 DEF SyncInv
  <2>6. \A i \in DOMAIN wire : wire[i].live /\ wire[i].job \in Reloads /\ wire[i].wait = "get" =>
          \A p \in Principals \ (todo'[wire[i].job] \cup {wire[i].who}) : Settled(p)'
    BY <2>1, <2>4 DEF FetchInv
  <2>7. FetchInv'
    BY <1>1, <2>3, <2>6 DEF FetchInv, Fetching
  <2> QED
    BY <1>1, <1>5, <2>2, <2>5, <2>7 DEF OverInv
<1> QED
  BY <1>4, <1>5

\* The compartment dies, and the host boots: nothing is under way.
LEMMA RestartOver ==
  ASSUME LawInv, OverInv, Die \/ BootHost
  PROVE  OverInv'
<1>1. CASE Die
  <2>1. \A j \in AllJobs : stage'[j] \notin Waiting
    BY <1>1 DEF Die, Waiting, LawInv, LawTypeOK
  <2> QED
    BY <1>1, <2>1 DEF Die, OverInv
<1>2. CASE BootHost
  <2>1. /\ wire' = <<>> /\ answers' = <<>> /\ torn' = {} /\ crossed' = {} /\ loaded' = FALSE /\ up' = "init"
        /\ forbidden' = [p \in Principals |-> "none"] /\ stage' = [stage EXCEPT ![Boot] = "called"]
        /\ up = "down"
    BY <1>2 DEF BootHost
  <2>2. \A j \in AllJobs : stage'[j] \notin Waiting
    BY <2>1 DEF OverInv, LawInv, LawTypeOK, Waiting
  <2>3. CrossInv'
    BY <2>1, <2>2, Classes DEF CrossInv
  <2>4. FetchInv'
    BY <2>1 DEF FetchInv, Told
  <2>5. ASSUME NEW p \in Principals, list'[p] = "absent" PROVE Settled(p)'
    <3>1. Keeps(p)' = "none"
      BY <2>1 DEF Keeps, Refused, Told
    <3>2. Same(list'[p], Keeps(p)')
      BY <2>5, <3>1 DEF Same
    <3>3. Agrees(wire', p, Keeps(p)', Restores(p)', last'[p], list')
      BY <2>1, <3>2, NoRowAgrees
    <3> QED
      BY <3>3 DEF Settled, Synced
  <2>6. SyncInv'
    BY <2>1, <2>5 DEF SyncInv
  <2> QED
    BY <2>1, <2>3, <2>4, <2>6 DEF OverInv
<1> QED
  BY <1>1, <1>2

\* Every step of the law, its vault and its compartment keeps the overlay's part.
LEMMA OverStep == LawInv /\ LawInv' /\ OverInv /\ [LawNext]_lawVars => OverInv'
<1> SUFFICES ASSUME LawInv, LawInv', OverInv, [LawNext]_lawVars PROVE OverInv'
  OBVIOUS
<1>1. ASSUME OnInit PROVE OverInv'
  <2>1. /\ Boot \in Reloads /\ stage[Boot] = "called" /\ StartReload(Boot) /\ UNCHANGED list
        /\ up # "down" /\ up' # "down"
    BY <1>1 DEF OnInit, Reloads
  <2> QED
    BY <2>1, ReloadOver
<1>2. CASE \E j \in Jobs, t \in Tokens \cup {Unknown} : Present(j, t)
  BY <1>2, PresentOver
<1>3. CASE \E j \in Jobs : Handle(j)
  BY <1>3, HandleOver
<1>4. CASE \E j \in AllJobs : GiveUp(j)
  BY <1>4, GiveUpOver
<1>5. CASE \E i \in DOMAIN wire : VaultServes(i) \/ VaultFails(i)
  BY <1>5, VaultOver
<1> QED
  BY <1>1, <1>2, <1>3, <1>4, <1>5, ReceiveOver, RestartOver, PresentOver DEF LawNext

\* Before the first boot nothing is under way.
LEMMA OverStart == LawInit => OverInv
<1> SUFFICES ASSUME LawInit PROVE OverInv
  OBVIOUS
<1>1. up = "down" /\ \A j \in AllJobs : stage[j] \in {"never", "idle"}
  BY DEF LawInit
<1> QED
  BY <1>1 DEF OverInv, Waiting

\* plugins/vivim-law, the overlay: with no set and no reload under way, a loaded
\* law enforces the lists the vault holds, for every principal whose entry no
\* overlap, lost row or late append has torn.
THEOREM OverlayMatches == LawSpec => []OverlayIsTheRow
<1>1. LawInv /\ OverInv => OverlayIsTheRow
  <2> SUFFICES ASSUME LawInv, OverInv, NEW p \in Principals, up = "up", loaded, Overlay(p) = {}, p \notin torn
               PROVE  Same(forbidden[p], list[p])
    BY DEF OverlayIsTheRow, Same
  <2>1. CrossInv /\ Settled(p)
    BY DEF OverInv, SyncInv
  <2>2. ASSUME NEW k \in Sets, stage[k] \in Waiting, Who[k] = p PROVE FALSE
    BY <2>2, Classes DEF Overlay, InFlight, Sets
  <2>3. /\ wire \in Seq(Calls) /\ Len(wire) \in Nat /\ DOMAIN wire = 1..Len(wire)
        /\ Paired(wire, answers, View) /\ \A i \in DOMAIN wire : CallOK(wire[i], View)
        /\ \A t \in Told(answers) : stage[t.job] \in Waiting
        /\ \A k \in Sets : last[p] = k => p = Who[k]
    BY DEF LawInv, NetInv, NetOK, JobsInv, Tells, View, Told
  <2>4. ASSUME NEW i \in DOMAIN wire, RowAt(wire, i, p) PROVE FALSE
    <3>1. wire[i].live /\ wire[i].job \in Sets /\ Who[wire[i].job] = p
      BY <2>1, <2>3, <2>4 DEF CrossInv, RowAt, IsRow, CallOK
    <3>2. stage[wire[i].job] \in Waiting
      BY <2>3, <2>4, <3>1 DEF Paired, View, RowAt, IsRow, Waiting
    <3> QED
      BY <2>2, <3>1, <3>2
  <2>5. ASSUME NEW k, Refused(k, answers), k \in Sets => Who[k] = p PROVE FALSE
    BY <2>2, <2>3, <2>5 DEF Refused
  <2>6. ~Doubt(p)
    BY <2>5 DEF Doubt
  <2>7. Keeps(p) = forbidden[p]
    BY <2>3, <2>5 DEF Keeps
  <2>8. Leaves(wire, Len(wire) + 1, p, forbidden[p], list)
    BY <2>1, <2>6, <2>7 DEF Settled, Synced, Agrees
  <2> QED
    BY <2>4, <2>8 DEF Leaves, Same
<1>2. LawInit => LawInv /\ OverInv
  BY LawStart, OverStart
<1>3. LawInv /\ OverInv /\ [LawNext]_lawVars => (LawInv /\ OverInv)'
  BY LawStep, OverStep
<1> QED
  BY <1>1, <1>2, <1>3, PTL DEF LawSpec
=============================================================================
