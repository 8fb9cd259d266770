# A TLA+ verification project for the vivim-omega microhost

vivim-omega is a plugin system. A small host (`src/host`) starts every plugin in
a worker thread of its own (a *compartment*), and plugins reach each other only
through *port calls* that the host routes. Everything that matters — who may call
what, what happens when a plugin hangs or dies, what a boot after a crash runs,
what the law and the vault still know then — is decided in the host, in a few
plugins with state of their own, and in the daemon that keeps a host resident. This
directory models that core in TLA+, checks it with TLC and proves with TLAPS every
invariant and action property that the runs check, for every value of the constants. Liveness
is checked and not proved.

Paths below are relative to `src/`. `PROJECT.json` has the exact map from
definitions to source lines, the runs, the mutants and the hazards.

## 1. Inventory

| Component | State | Operations | What makes it correct |
|---|---|---|---|
| Port router (`host/src/ports.ts`) | pending map, in-flight sets, two-tier waiting queues, compartment handles, token table, dormant map | `dispatch`, `callLaw`, `deliver`, `enqueue`, `admit`, `release`, `failInflight`, worker messages, `host.*` ops | one answer per call; nothing delivered past a refusal or past the answer; cap; no entry waits beside a free slot; a dead compartment strands nobody |
| Worker and boot (`host/src/worker.ts`, `boot.ts`, `main.ts`, `shim/src`) | thread, handle state, mailbox | hello, init, ready, deliver, crash, lazy spawn | one thread per entry; no handler without a context; a first touch ends |
| Recipe, canon, recovery (`host/src/recipe.ts`, `canon.ts`, `recovery.ts`) | build directories, recipe files, pin, swap file | compile, verify, pin, boot, fall back | what runs was verified; the last good composition is lost only through named gaps |
| State arbiter (`host/src/state.ts`) | holds per key | acquire, release | writers exclude everybody; a zone in use is held |
| vivim-law (`plugins/vivim-law`) | forbidden overlay, consent table, principals, amendments, journal; rows of the first three in the vault | `law.check`, consent, forbidden, principal, token and amendment ops | audit before act; an answered set is durable; memory agrees with the rows; an active consent has an identity; the retired stay retired |
| vivim-vault (`plugins/vivim-vault`) | content store, hot and cold objects, hash chain, full-text index, write queue | append, get, query, compact, verify, round trip | what was acknowledged is found; damage is seen; compaction loses nothing and keeps provenance hot |
| vivim-run: task pool (`plugins/vivim-run/src/queue.ts`, `pool.ts`) | priority queue, slots | submit, pump, execute, watchdog | bounded, priority order, every submit answered |
| vivim-run: process broker (`process-broker.ts`) | lanes, pending calls, timers | call, checkout, spawn, retire, shutdownAll | no lane shared, leaked or reused in an unknown state; every caller answered |
| vivim-run: health monitor (`health.ts`) | windows, backoffs, quarantine counts | poll, observe, quarantine, re-arm | a standing crash is quarantined; the backoff holds |
| Daemon (`surfaces/daemon`) | the running host, compile cache, build directory, isolate pool | use, call, shutdown, idle | a live host serves; none is forgotten; "current" is current |
| Daemon client (`surfaces/daemon-client`) | start lock, `daemon.json` | connect or start | one daemon per vault |
| Watchdog (`tooling/watchdog`) | miss and memory streaks, evictions | tick, probe answer | evicts once, for real silence, and always |
| Agents, director, intent, chat, mind, credentials, providers, discovery, NLCL, surfaces | mostly rows in the vault and pure functions | request handlers | budgets, plans executed in order |
| Contracts, SDK, platform, testkit, tooling | none, or files | validators, wrappers, gates | pure |

**How they interact.** A plugin posts `call` to its worker's parent port; the
router checks the token, asks the law compartment (`law.check@1`) if the op is
risky, and posts `deliver` to the provider's thread. A `return`, a deadline timer
or a thread event settles the promise. The law itself calls the vault, *through
the same router*, to journal the decision it is about to return. Host operations
(state, tokens, terminate) are executed by the router in the turn that receives
them. The only shared memory is inside the host thread; everything else is
messages, so the interleavings that matter are those of events of one JavaScript
thread with promise continuations in between, plus the death of a thread, plus
(for recovery and the vault) the death of the process between two writes. The
health monitor and the watchdog see the handles of the compartments through host
calls, late; the daemon owns one host at a time and replaces it.

**What is hard.** Late and duplicate returns; two legs of one call under one
causation id; slots freed on five different paths; the law calling back into a
queue it occupies; first touches racing with a start that fails, hangs or dies;
requests whose caller has given up but which the host or the vault still executes;
state changed before an await and rolled back after it; supervisors that act on
old statistics and overtake themselves; a crash
anywhere in a pin or an append. `PROJECT.json` lists each hazard at its line with the
properties aimed at it, or the reason why none is yet.

## 2. The modules

### PortRouter, CallContract, PortRouterProofs
`PortRouter` is the call path of `ports.ts` for compartments that are running. One
action is one turn of the host's event loop: `Submit` and `Continue` are `dispatch()`
before and after its `await` of the law; `WorkerReturn`, `TimerFires`, `WorkerError`,
`WorkerExit` and `Terminate` are the handlers of the events of those names. Each
includes the whole of what it triggers: `Release` takes the slot back, drops queued
deliveries whose deadline has passed, admits the first that may run and posts it,
all in the same turn. Time is an event: `Elapse(d)` says that d's deadline has
passed, `TimerFires(d)` that the timer callback ran; between the two anything may
happen, and a delivery still in the queue has no timer at all, as in the code.
A continuation (`Continue`) is an action of its own because other microtasks may
run between the settlement and the resumption. `posted`, `elapsed` and `gateAns`
are history or promise values.

`CallContract` is the promise to the caller without queues, gates, timers or
threads: one final answer, an op performed at most once and never after its
answer, `ok` only for an op that was performed, `REFUSED` only for one that was
not. `PortRouter` implements it under `asked`, `ran` and `reply` computed from the
router's state (`ImplementsContract`).

### JournalFold (proofs in PortRouterProofs)
The law compartment composed with the router, in the compositions that grant the
law `vault.append@1`: `law.check@1` decides, submits a gated append, and answers when
the append has been answered. The append's own check is not journalled (the
recursion guard). When `prompt` is TRUE deadlines pass only when no message can be
handled and no thread dies: it is the "nothing is slow" world, and what goes wrong there
goes wrong by design and not because of a slow worker. When it is FALSE deadlines and
crashes fall anywhere. A behaviour is one or the other from its start. The rows go to
another compartment than the law, as the vault is one (`FoldAssumption`).

### LazySpawn, LazySpawnProofs
One dormant entry: the singleflight spawn, `checkoutCompartment`, `init`, `ready`,
the 10 s wait, the crash and the termination, and the mailbox of the new thread.
Microtasks that resolve in one turn are one action. The admission cap is left to `PortRouter`.

### StateArbitrator, StateArbitratorProofs
One key, any number of compartments, and handlers that follow acquire – zone –
release as the `ghost-lock` fixture does. The requests travel in a FIFO channel per
compartment, so that a handler may give up (the shim's local deadline) on a
request the host still executes.

`holders` is a set although the code keeps an array: two holds of one principal in one mode
are dropped together, because `release()` drops every hold of the principal, so neither
their number nor their order is ever looked at. The history variable `robbed` marks the handlers whose
hold a release of *another* handler of their compartment dropped: `release()` drops every
hold of the principal. The exclusion is stated up to that.

### TokenTable (proofs in LawStateProofs)
`installTokens` (at boot and again at the lazy spawn), `checkToken` in the order of
its returns, and both forms of `host.tokens.revoke@1`. It has its own specification, which the proofs
are about, and no run of its own: `LawState` composes it, and its run evaluates the
check, the scoped revocation and the assumption.

### RecipeRecovery, RecipeRecoveryProofs
`compileComposition`, `atomicWrite`, `pinRecipe`, `bootWithRecovery` and `bootComposition`, one action per
write, for several *attempts* on one vault directory: the uses of a resident daemon, which
compile into the build directory a running host was booted from, and other processes. Each
may end (`Crash`) at any step. The source trees are edited in place (`Edit`) at any time.
`Verifies` is the verdict of `tryRecipe()`: the manifests are the ones the recipe hashes and
every source tree still has the `contentHash` of its entry, which covers everything in it but
`plugin.json` (`Code`). The boot proper verifies once more (`BootVerify`), checks the routing
(`Unroutable` are the recipes that verify but cannot be routed), and starts the law's compartment,
which may crash or miss its 10 s whatever the recipe (`StartLaw`). What is thrown for an incoming recipe is
caught and the pinned one is tried; what is thrown for the pinned one is not (phase `threw`).

A version stands for the bytes of a tree with its `plugin.json`, an entry for a plugin id. One moment each
are: `tryRecipe()`, and the read, hash and write of one entry of a compile. Incoming
recipe files are those of build directories. The history variable `moved` keeps the attempts whose recipe
stopped verifying, by an edit or another compile, after they had verified it.

### TaskPool (proofs in SupervisionProofs)
`queue.ts`, `pool.ts` and the watchdog of `run.submit@1`. One action includes the
`pump()` it triggers, which takes as many tasks as there are slots and completes expired
ones on the way. The queue is its three levels; `Shifted` is `take()` a number of times, level after
level, and `Order` the order in which it would take them all.

### ProcessBroker (proofs in SupervisionProofs)
`run.process.call@1` over one pool. A lane is named by the call that spawned it. `Reuse`,
`Spawn` and `Refuse` are the three ways through `call()` and `checkout()`; `Settle` is the
race (the return frame, the exit, the deadline, too many bad frames, a throwing write: only
the first counts) and `Resume` the code after it, an action of its own because other
events may come between. The child is unconstrained, and its pipe may deliver
after its exit.

### Handles, HealthMonitor, Watchdog (proofs in SupervisionProofs)
`Handles` is the part of `worker.ts` both supervisors look at: the error and exit events and
what they do to the state and the crash counter (an error is followed by its exit,
so one crash counts twice), and a thread that wedges.

`HealthMonitor` makes the two host calls of the loop messages: the statistics are
taken when the host serves them (`Stats`) and observed later (`Observe`, the whole of
`observe()` for all compartments); the order to terminate is not awaited.

`Watchdog` makes a tick a coroutine: `Run` is the loop of `tick()` from its start or
from an await to the next eviction; the ticks that await a termination are kept in
`suspended`, and the interval may fire meanwhile.

### Vault, VersionedStore, VaultProofs
One action per queued write (`enqueueWrite` serialises them), with failure, rollback and
death of the process inside it (blob written, transaction not; transaction committed,
answer not sent) or between two. A hash is the tuple it hashes, a cid the
content. The reads, `verify()` and the copy of `roundtrip()` are operators over a store, so
that `VerifyIsExact` can evaluate them on damaged stores too.

`VersionedStore` is the promise: per key a history that only grows, one
revision at a time, and acknowledgements of revisions in it. `Vault` implements it with the history
read off the chain (`ImplementsStore`): compaction, rollback and crash are stutters.
The link of a revision is found by its key and number (`LinkOf`), which is sound because a
key's revisions are numbered 1, 2, … along the chain (`RevsInv` in the proofs).

### LawState, LawStateProofs
The forbidden overlay, the consents and the identity rows of principals, with the vault
behind them. A job is one call of one op; it runs up to its vault call, and from
each answer to the next call. The network between law and vault keeps appends in order
(each waits at the gate first) and lets reads overtake; a call may fail, and its caller
may give up on it (`GiveUp`) while it still takes effect. The law's compartment
dies with its memory, and a second boot reloads the overlay. The module extends
`TokenTable`: the App's calls and the law's own vault calls present tokens, and `law.tokens.revoke@1`
may take away the law's own.

### Daemon, DaemonProofs
`use` requests run interleaved at the awaits of `ensureCurrent`: the boot, its recovery, and the
shutdown of the host that serves. `UseBoots` is everything up to the first await of the boot, including
the cache lookup, the compile into the build directory, the verification and the pin; `UseRecovers`
and `UseFails` are the other ends of that turn. `BootThrows` is what `bootComposition` may throw for any recipe; the thread
of the law it started then goes on, in nobody's hands (`strays`). `Arrives` makes the record and
shuts the old host down, `Swap` lets the new one serve.

Files are written at any time, and the content of a spec has four parts, because the daemon looks at them in
different ways: the restat sees the sources (`src`) only; the `contentHash` covers sources and `build/`;
the manifests cover `plugin.json` too; the cache key covers what the spec file itself says, its grants and
configuration. So an edit of anything but `src` leaves the mtime where it is, and the
drift check does not see it. `raced` and `excused` are history: they name the races the
properties have to except.

A consequence of the parts worth knowing: a cache record that hits by its restat over an edited `build/` is
refused by the verification, and is not dropped, so each use of that spec recovers the pinned
recipe until a source is touched.

## 3. The runs

| Run | Shows | Bounds |
|---|---|---|
| `router` | slots in use, gate shut and first, nobody forgotten, the refinement, every call answered | 3 calls (2 gated), 2 compartments, cap 1 |
| `journal_fold` | audit before act; the gate stands still only by the law's own rows | 2 mutations, 2 rows, cap 2, slow and prompt worlds |
| `lazy` | nobody stranded; waiters run after `onInit`; first touches end | 3 calls, one entry |
| `arbiter` | exclusion; holds last | 2 handlers of one compartment, 1 of another; 2 requests per channel (`MaxRequests`) |
| `recovery` | what runs was verified and only what verified is pinned; when the last good one is lost | 2 attempts side by side, a spec and its successor of one name, 2 entries each, one tree with 3 versions, one recipe that cannot be routed; any edits and crashes |
| `pool` | slots, order, no wasted call, every submit answered | 4 tasks, 3 levels, capacity 1, factor 3 |
| `broker` | lanes accounted for, clean reuse, when a lane is lost, every call answered | 4 calls (1 refusable), 2 lanes, 1 bad frame |
| `watchdog` | one eviction, real silence, the wedged always evicted | 3 compartments, `MissLimit` 2, `OverLimit` 1 |
| `health` | backoff; a standing crash is quarantined | 2 compartments (1 fails), backoffs to 4 polls (`MaxQuarantines` 2) |
| `vault` | acknowledged is found, verify exact, provenance, the refinement | 2 ids in 2 namespaces, 2 contents, 3 appends, 2 queued, any compactions and crashes |
| `law` | memory against rows, durability, identity, retirement | 4 mixes of 3 of 9 jobs, 2 boots, 2 attempts of the boot's reload |
| `daemon` | a live host, none forgotten, what is served as current has the current sources | 2 or 3 of 4 uses, 2 specs of one name, 1 recipe file, 2 writes with two uses and 1 with three, of any part |

Why the bounds are enough: in `router`, with cap 1, two gated calls and one ungated call at
the law, a delivery waits behind another at either compartment, a gate call meets
a normal one in the queue, and a late return can find a newer leg of its own call. In
`journal_fold` cap 2 with two mutations is the smallest instance in which all the slots of the law
are taken by checks that wait for rows. In `pool` one slot and factor 3 bring saturation, a
full queue with all three levels, and expiry in the queue. In `broker` two lanes allow a free one, a busy one and
a third call that finds the pool exhausted. In `watchdog` two ticks
can be suspended and a third sample the same compartment. In `vault` three appends give an old
revision, a newer one and a reference to the old one from another
namespace. In `law` each mix is a set of ops that touch the same entry:
two sets and a reload; a grant, a retirement and a registration; two grants and
a revocation; a set and a grant with the revocation of the law's own tokens. In `recovery` the versions
are the three that verification tells apart: two that differ in `plugin.json` alone and one of other code; two attempts suffice for
one to compile, edit or pin between two steps of the other. In `daemon` each mix
has two uses that overlap, with a cache hit or a change between a spec and its namesake or the recipe file; two
writes let one fall before a compile and one after. Every action fires and every
property is falsified by a seeded fault (the `Faulty...` operators, listed under
"mutants"), so no property holds for want of the interesting case.
`CHECK_DEADLOCK FALSE` is set where the finitely many calls, tasks or jobs of an instance
end, or everything crashed: there the system really rests.

The type invariants of all modules are stated and hold in these instances (one line in a
cfg checks them); the runs spend their properties on what can go wrong. All of them are proved.

### Where the code departs from its documents
Six sentences of the repository are refuted by instances kept here for the
reader, each with one property that quotes the sentence. They are not among the runs:
they *fail*, with the counterexample.

- `MCJournalBlocked.cfg` (on `MCJournalFold`), `DecisionNeverBlocked` — "a law decision is never
  blocked by a journal failure" (`plugins/vivim-law/src/index.ts:5`): at the
  cap, decisions wait for rows whose own check is queued behind them, although
  nothing is slow. `StallIsSelfInflicted` (run `journal_fold`) shows that this is the only way.
- `MCLazySpawnRetry.cfg` (on `MCLazySpawn`), `NextCallRetries` — "failures stay dormant so the next call
  retries" (`host/src/ports.ts:106`): the degraded handle
  stays registered, and the spawn branch needs its absence.
- `MCRecipeRecoveryBadPin.cfg` (on `MCRecipeRecovery`), `BootsOrPreserves` — "either yields a valid composition or
  preserves the previous one" (`host/src/recovery.ts:1`): a compile of the successor that dies after its first manifest has
  overwritten one the pin hashes, and the next boot is refused. `LostOnlyByGaps` (run `recovery`) shows
  the exact exceptions: a pin that cannot be routed (it is pinned before its boot has failed), a
  source tree that was edited in place, a manifest that another compile signed under the same name, and a law that did not start.
- `MCDaemonLeak.cfg` (on `MCDaemon`), `WorkersHaveAnOwner` — "assigned workers belong to their host owner
  and shut down with it" (`surfaces/daemon/src/daemon.ts:63`): a boot that throws after it started the
  law's compartment (`host/src/boot.ts:101`) leaves it running, and there is no host that owns it.
- `MCDaemonDrift.cfg` (on `MCDaemon`), `MatchesTheDisk` — "Ensure the running composition matches {specPath?, recipePath?};
  reboot when it doesn't" (`surfaces/daemon/src/daemon.ts:294`): an edit of the spec file, of a `plugin.json` or of `build/`
  is answered as current. `CurrentMeansCurrent` (run `daemon`) is about the sources.
- `MCDaemonCacheHit.cfg` (on `MCDaemon`), `HitsAreUnobservable` — "cache-hit and cold boots are unobservable
  to a correct caller" (`surfaces/daemon/src/cache.ts:21`): a hit boots what the build directory holds; when
  that no longer verifies the pinned recipe is booted in its place, where a compile would have verified.

The properties of the other modules name their exceptions, and each exception is something the
code does:

- *Router*: `register()` records `c.priority ?? "normal"`, so the `?? "gate"` fallback of `deliver()`
  is never taken and only a manifest that says so puts `law.check@1` into the gate
  tier (`DeclaresGate`). A second call to a lazy compartment may be handled before its `onInit` has
  settled (only the calls that waited for the spawn have `FirstTouchWaits`).
- *Arbiter*: a release drops the holds of the other handlers of its compartment; such a robbed
  reader's own later release drops a third handler's hold, a writer's included.
- *Law*: an append that a `forbidden.set` gave up on may land after its rollback; two
  overlapping sets roll back to each other's value; a reload overlaps a set; a row that
  cannot be fetched is skipped and the overlay counts as loaded (`OverlayIsTheRow` excepts
  these). A failed read of the identity row counts as no row, so a registration whose read
  failed writes a retired principal active again, against "can never be re-registered"
  (`RetiredIsForever` excepts it, and an op that read the row before the retirement). A grant accepts a retired row. An overlay that never loaded
  is not enforced.
- *Vault*: verify() does not see the loss of the newest links, and compares neither the cid of an
  object with that of its link nor a blob with its name.
- *Broker*: an idle lane that sent a bad frame, or whose child exited before it ever
  said ready, stays in the table and is never handed out again (`LaneLostOnlyWhenIdle` names the two cases).
- *Health*: one crash counts as two (error and exit); while a termination is refused or
  late the first-sight rule quarantines again in spite of the backoff (`BackoffOnceStopped`).
- *Watchdog*: ticks that resume from two evictions sample a compartment again in the same interval
  (`MissesAreIntervals` bounds it by the evictions).
- *Recovery*: what an attempt has verified may have stopped verifying when it pins or runs it, as another attempt
  compiles under the name or a source is edited in between (`moved` in `RunsOnlyVerified` and `PinnedAfterVerification`).
- *Daemon*: a source written while its host boots is missed; a rejected or throwing recipe leaves the pinned one
  running under the name of what was asked for; a cache hit may boot what another spec of that name
  compiled (`excused` in `CurrentMeansCurrent`). Two overlapping swaps leak a host (`raced` in
  `NoHostForgotten`), and the threads of a boot that threw belong to no host. While the old host is shut down, calls still go
  to it (`ServedByALiveHost`). A use in flight when the daemon closes may bring up a host after it:
  the properties speak of the open daemon.

### Fairness
Weak fairness on continuations, elapsing deadlines and timer callbacks: the event loop runs
them. Never on workers, children or provider calls: they may not answer.
`lazy` assumes that creating a thread either returns or throws.
`pool` has finitely many tasks, so it excludes lost slots, not starvation of a
low task by an endless stream of high ones, which strict priority permits; nothing is
assumed of the port call, the watchdog of `run.submit@1` is a timer. `broker` has fairness for the
deadline, the resumption and the kill cap, not for ready frames, returns or exits.
`watchdog` has it for the interval (`Tick`) alone: terminations may never end.
`health` has it for the interval, and strong fairness for `Stats` and `Observe`:
a poll may fail, but not for ever.

## 4. What is proved

Eight modules hold the proofs. All theorems are about the specifications the runs check, for
every value of the constants that satisfies the named assumption of the module
(sets need not be finite unless the assumption says so). Each is the same argument: an
inductive invariant, its lemmas of one step each, and the property from it. The
assumptions say what a constant is and little else; those that say more are mentioned below.
`PROJECT.json` lists the theorems; the ones whose property a run also checks name it.

### PortRouterProofs (PortRouter, CallContract, JournalFold)

| Theorem | Statement |
|---|---|
| `Inductive`, `TypeCorrect` | `IInv`, `TypeOK` |
| `CapHolds` | `InflightCap`: never more in flight than the cap |
| `LedgerExact` | `LedgerAgrees`: in-flight sets and pending map agree |
| `LegsApart` | `OneLegPerKey`: the two legs of a call never share the key at once |
| `FailClosed` | `GateFailClosed`: a risky op is delivered only after "allow" |
| `NeverLate` | `NoWorkAfterAnswer`: an action property |
| `NoLostWakeup` | `WorkConserving`: no delivery waits beside a free slot |
| `TiersHold` | `GateTierFirst`: the gate tier of a queue is ahead of the rest |
| `NoneForgotten` | `NobodyForgotten`: a call without its answer is queued, pending or about to resume |
| `Refines` | `ImplementsContract` |
| `AuditBeforeAct` | `RowBeforeOp` of `JournalFold` |
| `StallExplained` | `StallIsSelfInflicted` of `JournalFold` |

The inductive invariant is
`IInv == TypeOK /\ QueueInv /\ HistoryInv /\ PhasesAgree /\ LedgerAgrees /\ SlotInv`.
`LedgerAgrees` alone is not inductive: `Release` looks a delivery up by its causation
id, so one must know that the key identifies one leg (`PhasesAgree`: where the call
stands determines which leg may be queued, pending or resolved), that the queue
holds no delivery twice and none that is already pending (`QueueInv`), that what
was posted and answered is consistent with the phase (`HistoryInv`), and that the cap is
met by the counting of keys (`SlotInv`). The proof does not repeat itself for each of
the nine actions: steps are classified as *Enters* (a delivery enters by
`Enqueue`), *Frees* (`Release`), *Fails* (`FailInflight`) and *Quiet*, each part of the
invariant, and each of the three queue properties, is shown to be preserved by each
kind, and every action is shown to be of a kind.

A step of `JournalFold` is one of the router, so all of this carries over. On top come
`AuditInv` (the law answers a check "allow" only once the append of that very call's row is
answered, and an answered append stays so) and `PromptInv` (while nothing is slow no thread
is dead and each pending leg is in its worker's hands). `StallExplained` follows: in a
prompt state in which nothing can move but a check is pending, the router is still
work-conserving and forgets nobody, so the slots of the law are full of checks that
wait for rows whose own checks are in its queue.

### LawStateProofs (TokenTable, LawState)

The table: `TypeCorrect`, `RevocationIsFinal`, `PassNeedsAuthority`, `ScopeHolds`. `TypeOK` is
inductive here; the others are step properties, the first from a lemma that an
installed token keeps its generation while `revoked` only grows and the generation never falls.

The law: `LawInductive`, `LawTypeCorrect`, `SetStands` (`AnsweredSetStands`), `NeverHalfDone`
(`ConsentHasItsRow`) and `RetiredStays` (`RetiredIsForever`), from
`LawInv == LawTypeOK /\ NetInv /\ JobsInv /\ ConsentHasItsRow`. What is needed beyond the
properties is about the network: a job has at most one call it still awaits, or its answer
(`Paired`); what a call carries and what an answer says is tied to the rows of the
vault, *also after its job gave up on it* (`CallOK`, `Tells`); and behind the append of the
last set handled for a principal there is no other append of that principal's overlay
(`LastIsLast`), because appends keep their order. So once that append is served, nothing on
the wire can change the row again (`Durable`), whatever earlier sets were given up. For the
retired: a read that succeeded after the retirement cannot have said "no row"; only jobs
that failed to read (`blind`), or started before (not in `knew`), append "active".

The overlay: `OverlayMatches` (`OverlayIsTheRow`), from `LawInv` and a second invariant,
`OverInv == CrossInv /\ FetchInv /\ SyncInv` while the compartment is up. The property speaks of
states with no set or reload under way; what carries it there is `Settled(p)`: either the entry of `p` is in
`Doubt` (torn, or a set that overlapped another has failed and is about to restore a stale value), or
the appends on the wire, once served, leave the row at `Keeps(p)`, the entry that the memory will hold,
and what is on the wire *before* the append of the last set leaves it at the `prior` which
that set restores if its append fails (`Agrees`). The second half is what makes the first inductive:
when the last append fails, the row it would have replaced stays (`FailAgrees`), and when
a call before it is served or fails nothing else changes (`CutAgrees`). `CrossInv` says that of the sets
of a principal all but the last are crossed; `FetchInv` that a reload
has settled every principal it has passed, whatever was written behind it; `SyncInv` that a loaded overlay is settled, and
an absent row always is.

### VaultProofs (Vault, VersionedStore)

`TypeCorrect`, `AckedFound` (`AckedIsFound`), `VerifyExact` (`VerifyIsExact`: the store and
its copy pass, and a store with any damage of `Damaged` passes only if what is left of the chain is a readable prefix), `Provenance` (`ProvenanceKept`) and
`Refines` (`ImplementsStore`), from
`IInv == TypeOK /\ ChainInv /\ RevsInv /\ RowsInv /\ BlobsInv /\ HotInv /\ AckInv`. The revision of
an append is the maximum over the *chain* plus one, never over the rows, which compaction
moves: so the links of a key are numbered 1, 2, … in the order of the chain (`RevsInv`), a
link is known by key and revision, rows and links stand for each other (`RowsInv`), and the
newest revision is hot (`HotInv`), which the unqualified read relies on. The keys are finite.

### SupervisionProofs (ProcessBroker, TaskPool, Handles, HealthMonitor, Watchdog)

The supervisors of work in progress share a module: a lemma on the events of a thread serves the
health monitor and the watchdog, and one on counting the pool and the watchdog.

| Theorem | Statement |
|---|---|
| `Inductive`, `TypeCorrect` | `IInv`, `TypeOK` of the broker |
| `NoLaneLeaks` | `LanesAccountedFor` |
| `LostLanes` | `LaneLostOnlyWhenIdle` |
| `ReusedClean` | `CleanReuse`: an action property |
| `PoolInductive`, `PoolTyped` | `PoolInv`, `PoolTypeOK` |
| `NoSlotLeaks` | `SlotsAccountedFor`: slots and saturation bound |
| `StrictPriority` | `PriorityOrder`: an action property |
| `CallsNotWasted` | `NoWastedCall`: an action property |
| `HealthTyped` | `HealthTypeOK` |
| `BackoffRespected` | `BackoffOnceStopped`: an action property |
| `WatchInductive`, `WatchTyped` | `WatchInv`, `WatchTypeOK` |
| `EvictionsAreFinal` | `EvictedOnce` |
| `StreaksAreIntervals` | `MissesAreIntervals` |

*Process broker.* From `IInv == TypeOK /\ NewInv /\ OnInv /\ LaneInv /\ RoomInv /\ LimitInv`. A lane is
entered by one call at a time and left, on whatever path the race was settled, by the
continuation of that same call (`OnInv`); the flags of a lane are related to the
outcomes of the calls that used it (`LaneInv`); a child outside of the table is being shut
down (`RoomInv`). The calls are finitely many, for the counting, and none of them is "none".

*Task pool.* The three levels are read as one sequence. `ShiftedOrder` says that any number of `take()`s
drops that many tasks from its front, across the levels, `PushedOrder` that a push enters
behind the tasks of its level and keeps the order of the others. `pump()` is then a statement
about one sequence (`PumpEffect`): it takes the first n, starts the live ones, resolves the expired ones, and
stops only at the end or with all slots in use. `SlotsAccountedFor` is not inductive:
`PoolInv` adds that no task is queued twice or queued while it runs (or one task
would be taken for two slots, and a task that started could still stand in the queue), that what is queued or
runs was submitted, and that a queued task
has an answer only if its deadline passed, which is why a call that is made still has somebody to answer. The tasks are finitely many.

*Health monitor.* The backoff of a compartment outlives its quarantine. `BackoffInv` keeps what each way out
of the quarantine leaves behind: a running backoff stands for an order on its way, one that was refused, a compartment
that is stopped, or one whose thread failed after it was stopped. So if the first-sight rule
quarantines it again within the backoff and none of the histories explains it, it is stopped now and the answer observed is
older than that. For the types, a power of two is the number of subsets of an interval
(`PowersGrow`), which makes the backoffs grow with the quarantines without an induction.

*Watchdog.* `MissesAreIntervals` speaks of a streak and the intervals of silence, and is not inductive: a
tick that waits for a termination still has compartments to sample, and does so in an
interval that later ticks have already counted. `Paid` therefore bounds the streak *together
with the samples owed*: the misses, the probe in flight and the number of waiting ticks that still have the
compartment on their list are at most the silence plus the number of evictions (at least 1). A new tick that samples a
compartment takes it off all those lists and pays with its own interval of silence; a tick that resumes moves
one from the debt to the streak; only an eviction adds to the debt, and it adds one
to both sides, or takes the place of the tick that resumed. `OwedBound` (no more ticks wait than
compartments were evicted) is what an answer, which clears the streak and not the debt, needs. That each
waiting tick waits for a compartment of its own (`Apart`) and that only the
evicted have a full streak (`TracksInv`) give `EvictedOnce`. `RunEffect` describes the loop of `tick()` once, for
any list of compartments and any other ticks that wait; `TickStep` and `TerminatedStep` are its two uses.

### StateArbitratorProofs

`TypeCorrect`, `Exclusion` (`ZoneExclusion`) and `HoldsLast` (`ZoneIsHeld`), from
`IInv == TypeOK /\ ChanInv /\ HeldInv /\ ReadersInv`. A handler that gave up and asked
again has old requests in the channel, which the arbiter will execute and answer. What keeps an
old answer from being taken for the new one is the order of the channel: only the last
request of a handler is awaited (`LastInv`), and a handler that was answered has none left
(`QuietInv`). Two that are inside, unrobbed, are both readers (`ReadersInv`).

### DaemonProofs

`TypeCorrect`, `DriftCheckIsExact` (`CurrentMeansCurrent`), `AlwaysServed` (`ServedByALiveHost`) and
`NoneLeftRunning` (`NoHostForgotten`), from `IInv == Types /\ HostsInv /\ RacedInv
/\ ClockInv /\ RecordsInv /\ BootInv`. The drift check compares an mtime; what it says about the sources
rests on the clock: a target whose mtime is the one a record was made with has not had a source
written since, so what was compiled then has the sources it has now (`ClockInv`). The invariant says so of
the record that serves and of the records about to be swapped in (`RecordsInv`), and of the boots under way
(`BootInv`). Of the compile cache and the build directories nothing is needed: what a hit serves is verified against
the sources before it is booted. `HostsInv` says that only the host of an answered use can serve, or be shut down
by another use or the daemon; `RacedInv` that a use whose swap overlaps no other shuts down the host that serves, and
the others are in `raced`. The model's clock ticks at each write of a source: two writes within one tick
of a real file system's mtime are outside of what is proved. Nothing is proved of the threads in `strays`, nor of the parts
the restat does not see. `DaemonAssumption` gives the requests
and targets names of their own.

### LazySpawnProofs, RecipeRecoveryProofs

`LazySpawnProofs` (finitely many calls) proves `TypeCorrect`, `SingleFlight`,
`NoneStranded`, `ContextFirst` and `WaitersAfterInit` from
`IInv == TypeOK /\ FlightInv /\ MailInv /\ NobodyStranded`. `OneThread` is not inductive: one needs
that at most one call drives a spawn and that a spawn that has not registered its
handle is the first. `ContextFirst` needs that a thread without a context finds `init`
first in its mail, and that `ready` implies it has one.

`RecipeRecoveryProofs` proves `TypeCorrect`, `VerifiedRuns`, `PinIsVerified` and `LastGoodSurvives` from
`IInv == TypeOK /\ HandInv /\ VaultInv`. `HandInv` says what an attempt has in hand at each step: from its verification to the rename
and from the second verification to the end of its host it is a recipe that verifies or that the disk has moved under. `VaultInv` is about
the directory all attempts share: once anything ran or is about to there is a whole pin, and all the manifests of its entries are
in its build directory, each of a version that some spec *of that name* names at that entry, whatever compiles were interrupted or
ran between each other there. So a pin that does not verify differs from the disk at an entry that was edited or that
another compile has signed, which is what `Gap` says.

### What stays with TLC

- Liveness and fairness everywhere (`ENABLED` and reasoning under fairness are out of the
  prover's reach): `EveryCallAnswered` and its like in `router`, `lazy`, `pool`, `broker`,
  `watchdog`, `health`.
- That the faulty variants of a definition violate a property, and that the interesting
  cases occur, is what the runs and their mutants show; a proof says nothing of it.

No invariant and no action property of a run is left without its theorem.

## 5. Not modelled

Durations (deadlines are events in any order unless `prompt`), the wording of
errors, metrics, the kernel graph and status snapshots. Within the modelled parts:

- `TaskPool`: the refusal of an invalid op, which changes nothing.
- `RecipeRecovery`: the vault root key, the signatures and invariants of a recipe (those of compiled recipes hold); recipe files
  outside of build directories; edits within a `tryRecipe()`.
- `ProcessBroker`: the framing of lines; pools beside the one modelled, which share nothing.
- `Watchdog`: `stop()`, per-compartment cadences and limits, the callbacks.
- `HealthMonitor`: dormant compartments, which have no counters to observe.
- `Vault`: search ranking, envelopes and metadata, the SQLite drivers. `roundtrip()` is its
  copy followed by `verify()`; it does not compare the chain heads its header speaks of.
- `LawState`: amendments, journal rows (`JournalFold` has them) but for the intent of a token revocation;
  revoke-all, which the law's op never asks for; the lookup of consents by
  `law.check`.
- `Daemon`: the isolate pool, the wire protocol, the calls a host serves, the client's start lock; two specs that share a source tree;
  what a recipe file hashes (its verdict is a choice).

Of the system: the components with status `not_modelled` in `PROJECT.json`, each with the reason.

## 6. Plan

1. *Done*: PortRouter, CallContract, JournalFold, LazySpawn, StateArbitrator, TokenTable,
   RecipeRecovery, TaskPool; proofs of PortRouter, TokenTable, LazySpawn and RecipeRecovery.
2. *Done*: ProcessBroker, Handles with HealthMonitor and Watchdog, Vault with VersionedStore, LawState over
   TokenTable, Daemon.
3. *Done*: the proofs of section 4.
4. *Done*: the proofs about TaskPool, HealthMonitor and Watchdog.
5. The daemon's isolate pool and the client's start lock; then the agent's budgets and the director's tick,
   intent plans, chat and mind.
