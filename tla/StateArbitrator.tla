--------------------------- MODULE StateArbitrator --------------------------
(***************************************************************************)
(* The state arbiter of the microhost (host/src/state.ts) for one key, as   *)
(* compartments reach it: host.state.acquire@1 and host.state.release@1     *)
(* (hostOp in host/src/ports.ts) called by handlers through the shim, whose *)
(* local deadline may give up on a call the host still executes.  The       *)
(* handlers follow the client protocol of                                  *)
(* testkit/test/fixtures/ghosts/ghost-lock: acquire, critical section,      *)
(* release, and nothing when the acquisition failed.                        *)
(***************************************************************************)
EXTENDS Naturals, Sequences

CONSTANTS
  Compartments,   \* principals of the arbiter
  Handlers,       \* op handlers that contend for the key
  Home,           \* Home[h]: the compartment handler h runs in
  Modes,          \* Modes[h]: the values of `mode` handler h passes to acquire
  MaxRequests     \* bound: requests of a compartment the host has not handled

Asked == {"shared", "exclusive", "none"}   \* "none": absent or not a mode

ASSUME ArbitratorAssumption ==
  /\ Home \in [Handlers -> Compartments]
  /\ Modes \in [Handlers -> SUBSET Asked]
  /\ MaxRequests \in Nat

VARIABLES
  holders,   \* keys.get(key): a second hold alike is dropped with the first
  chan,      \* per compartment, the host calls posted and not yet handled
  result,    \* the result on its way to the handler's pending port.call
  at,        \* where the handler stands
  mode,      \* the mode the handler last asked for
  up,        \* the compartment's thread runs
  revoked,   \* the compartment's capability tokens were revoked
  robbed     \* history: handlers whose hold another handler's release dropped

vars == <<holders, chan, result, at, mode, up, revoked, robbed>>

Holds == [principal : Compartments, mode : {"shared", "exclusive"}]
Requests == [by : Handlers, op : {"acquire", "release"}, mode : Asked]

Init ==
  /\ holders = {}
  /\ chan = [p \in Compartments |-> <<>>]
  /\ result = [h \in Handlers |-> "none"]
  /\ at = [h \in Handlers |-> "idle"]
  /\ mode \in [Handlers -> {"none"}]
  /\ up = [p \in Compartments |-> TRUE]
  /\ revoked = [p \in Compartments |-> FALSE]
  /\ robbed = {}

\* hostOp, state.acquire: anything but "shared" is an exclusive acquisition.
Lock(m) == IF m = "shared" THEN "shared" ELSE "exclusive"

\* Seeded fault: a writer ignores the readers.
FaultyConflict(m) == \E x \in holders : x.mode = "exclusive"

\* tryAcquire(): an exclusive hold conflicts with everything.
Conflict(m) ==
  \/ \E x \in holders : x.mode = "exclusive"
  \/ m = "exclusive" /\ holders # {}

\* release(): every hold of the principal goes.
Without(p) == {x \in holders : x.principal # p}

\* port.call: the shim posts the call; its result is matched by callId, so a
\* request the handler gave up on (no longer awaited) answers nobody.
Ask(h, op, m) ==
  LET p == Home[h] IN
  /\ up[p] /\ Len(chan[p]) < MaxRequests
  /\ chan' = [chan EXCEPT ![p] = Append(@, [by |-> h, op |-> op, mode |-> m])]

\* The handler starts: acquire first.
Start(h) ==
  /\ at[h] = "idle"
  /\ \E m \in Modes[h] : Ask(h, "acquire", m) /\ mode' = [mode EXCEPT ![h] = m]
  /\ at' = [at EXCEPT ![h] = "acquiring"]
  /\ robbed' = robbed \ {h}
  /\ UNCHANGED <<holders, result, up, revoked>>

\* End of the critical section.
Leave(h) ==
  /\ at[h] = "zone" /\ Ask(h, "release", "none")
  /\ at' = [at EXCEPT ![h] = "releasing"]
  /\ UNCHANGED <<holders, result, mode, up, revoked, robbed>>

\* The host answers a request; only the last request of a handler is awaited.
Answer(p, r) ==
  LET h == Head(chan[p]).by
      awaited == at[h] = (IF Head(chan[p]).op = "acquire" THEN "acquiring" ELSE "releasing")
                   /\ \A i \in 2..Len(chan[p]) : chan[p][i].by # h
  IN result' = IF up[p] /\ awaited THEN [result EXCEPT ![h] = r] ELSE result

\* The other handlers of p that a release by h finds with a hold of theirs.
Siblings(p, h) ==
  {g \in Handlers \ {h} :
     Home[g] = p /\ (at[g] = "zone" \/ (at[g] = "acquiring" /\ result[g] = "ok"))}

\* compartmentCall and hostOp: token check, then the arbiter, in one turn.
Serve(p) ==
  /\ chan[p] # <<>>
  /\ chan' = [chan EXCEPT ![p] = Tail(@)]
  /\ LET q == Head(chan[p]) IN
     \/ /\ revoked[p] /\ Answer(p, "REVOKED")
        /\ UNCHANGED <<holders, robbed>>
     \/ /\ ~revoked[p] /\ q.op = "acquire" /\ Conflict(Lock(q.mode))
        /\ Answer(p, "REFUSED")
        /\ UNCHANGED <<holders, robbed>>
     \/ /\ ~revoked[p] /\ q.op = "acquire" /\ ~Conflict(Lock(q.mode))
        /\ Answer(p, "ok")
        /\ holders' = holders \cup {[principal |-> p, mode |-> Lock(q.mode)]}
        /\ UNCHANGED robbed
     \/ /\ ~revoked[p] /\ q.op = "release"
        /\ Answer(p, "ok")
        /\ holders' = Without(p) /\ robbed' = robbed \cup Siblings(p, q.by)
  /\ UNCHANGED <<at, mode, up, revoked>>

\* Seeded fault: the critical section is entered whatever acquire answered.
FaultyReceive(h) ==
  /\ result[h] # "none" /\ up[Home[h]]
  /\ result' = [result EXCEPT ![h] = "none"]
  /\ at' = [at EXCEPT ![h] = IF @ = "acquiring" THEN "zone" ELSE "idle"]
  /\ UNCHANGED <<holders, chan, mode, up, revoked, robbed>>

\* The handler resumes with the result of its call.
Receive(h) ==
  /\ result[h] # "none" /\ up[Home[h]]
  /\ result' = [result EXCEPT ![h] = "none"]
  /\ at' = [at EXCEPT ![h] = IF @ = "acquiring" /\ result[h] = "ok" THEN "zone" ELSE "idle"]
  /\ UNCHANGED <<holders, chan, mode, up, revoked, robbed>>

\* The shim's local deadline: the handler goes on without the result.
GiveUp(h) ==
  /\ at[h] \in {"acquiring", "releasing"} /\ up[Home[h]]
  /\ at' = [at EXCEPT ![h] = "idle"]
  /\ result' = [result EXCEPT ![h] = "none"]
  /\ UNCHANGED <<holders, chan, mode, up, revoked, robbed>>

\* A crash or termination: the handlers are gone, the requests already posted
\* are still handled, and nothing tells the arbiter.
Crash(p) ==
  /\ up[p]
  /\ up' = [up EXCEPT ![p] = FALSE]
  /\ at' = [h \in Handlers |-> IF Home[h] = p THEN "idle" ELSE at[h]]
  /\ result' = [h \in Handlers |-> IF Home[h] = p THEN "none" ELSE result[h]]
  /\ UNCHANGED <<holders, chan, mode, revoked, robbed>>

\* host.tokens.revoke@1 for one compartment.
Revoke(p) ==
  /\ ~revoked[p]
  /\ revoked' = [revoked EXCEPT ![p] = TRUE]
  /\ UNCHANGED <<holders, chan, result, at, mode, up, robbed>>

Next ==
  \/ \E h \in Handlers : Start(h) \/ Leave(h) \/ Receive(h) \/ GiveUp(h)
  \/ \E p \in Compartments : Serve(p) \/ Crash(p) \/ Revoke(p)

Spec == Init /\ [][Next]_vars

-----------------------------------------------------------------------------
\* The type invariant.
TypeOK ==
  /\ holders \subseteq Holds
  /\ chan \in [Compartments -> Seq(Requests)]
  /\ result \in [Handlers -> {"none", "ok", "REFUSED", "REVOKED"}]
  /\ at \in [Handlers -> {"idle", "acquiring", "zone", "releasing"}]
  /\ mode \in [Handlers -> Asked]
  /\ up \in [Compartments -> BOOLEAN]
  /\ revoked \in [Compartments -> BOOLEAN]
  /\ robbed \subseteq Handlers

\* "two plugins racing on the same declared state key" (state.ts): whatever
\* times out, crashes or is revoked, two handlers are in the critical section
\* together only as readers, or because the hold of one of them was dropped by
\* a release of another handler of its compartment.
ZoneExclusion ==
  \A g, h \in Handlers :
    g # h /\ at[g] = "zone" /\ at[h] = "zone" =>
      \/ Lock(mode[g]) = "shared" /\ Lock(mode[h]) = "shared"
      \/ {g, h} \cap robbed # {}

\* release() drops every hold of the principal, and nothing else ends one: a
\* handler in the critical section, reader or writer, still has its hold, unless
\* a release of another handler of its compartment came after its acquisition.
ZoneIsHeld ==
  \A h \in Handlers : at[h] = "zone" /\ h \notin robbed =>
    [principal |-> Home[h], mode |-> Lock(mode[h])] \in holders
=============================================================================
