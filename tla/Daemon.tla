------------------------------- MODULE Daemon -------------------------------
(***************************************************************************)
(* The resident daemon (surfaces/daemon/src/daemon.ts, cache.ts): one host  *)
(* serves a vault; a `use` request boots another composition and swaps it   *)
(* in, unless the sources of the running one have not moved.  Requests run  *)
(* interleaved at their awaits, and files are edited at any time.           *)
(*                                                                         *)
(* A target is a composition spec or a recipe file.  What a host runs, a    *)
(* build directory holds or a sha256 names is a target with its content.    *)
(* The content of a spec has four parts: its sources ("src"), the build/    *)
(* directories in them, their plugin.json ("manifest"), and what the spec   *)
(* itself says, its grants and configuration ("spec"); that of a recipe     *)
(* file is one ("src").  Left out: the isolate pool, the wire protocol, the *)
(* calls a host serves; no two specs share a source tree.                   *)
(***************************************************************************)
EXTENDS Naturals, FiniteSets

CONSTANTS
  Uses, Target,    \* `use` requests; Target[u]: what u asks for
  Specs, Recipes,  \* composition specs and recipe files
  Name,            \* Name[s]: spec.name, which names the build directory
  First,           \* the spec the daemon was started with
  Mixes,           \* bound: the uses and the number of writes of one behaviour
  Writable,        \* bound: <<target, part>> of the files that are written
  MaxWrites        \* bound: how often, at most

Targets == Specs \cup Recipes
Names == {Name[s] : s \in Specs}
Hosts == Uses \cup {First}    \* a host is named for the use that booted it
Parts == {"src", "build", "manifest", "spec"}
Content == [Parts -> {0, 1}]

ASSUME DaemonAssumption ==
  /\ Target \in [Uses -> Targets] /\ First \in Specs /\ First \notin Uses
  /\ Specs \cap Recipes = {} /\ MaxWrites \in Nat /\ Mixes \subseteq [uses : SUBSET Uses, writes : 0..MaxWrites]
  /\ "none" \notin Targets /\ "daemon" \notin Uses

VARIABLES
  content, mtime,  \* of a target on disk; the mtimes are those the restat looks at
  clock,           \* the time of the last write it can see
  writes,          \* the number of writes to come
  cache,           \* compileCache: per specCacheKey what was compiled and its restat, or None
  build,           \* the compile the build directory of a name holds whole, or None
  pinned,          \* the vault's pinned recipe
  state, runs,     \* of a host: "none", "booting", "up", "closing", "closed"; what it runs
  strays,          \* uses of which a boot threw and left its law's thread running
  running,         \* the daemon's record: host, spec, recipeSha, snapshot
  stage,           \* of a use: "never", "idle", "boot" (of what it asked for), "recover"
                   \* (of the pinned recipe), "close" (the host that served), "answered"
  snap, hit,       \* of a use: the restat and content it compiled; whether the cache served it
  next,            \* of a use: the record it will make `running`
  old,             \* of a use, or of the daemon's end: the host it shuts down
  open,            \* "open", "closing", "closed"
  raced, excused   \* history, see the properties

disk == <<content, mtime, clock, writes>>
vars == <<disk, cache, build, pinned, state, runs, strays, running, stage, snap, hit, next, old, open, raced, excused>>

Blank == [p \in Parts |-> 0]
None == [of |-> "none", c |-> Blank]
Now(t) == [of |-> t, c |-> content[t]]
InFlight == {u \in Uses : stage[u] \in {"boot", "recover", "close"}}
NoSnap == [c |-> Blank, m |-> 0]
NoRecord == [host |-> First, spec |-> First, sha |-> None, snapshot |-> 0]
NoSnapshot == MaxWrites + 1    \* {}: a host from a recipe file has no sources to watch

\* specCacheKey(): a spec with its grants and configuration.
Keys == Specs \X {0, 1}
Key(s) == <<s, content[s]["spec"]>>

Init ==
  /\ content = [t \in Targets |-> Blank] /\ mtime = [t \in Targets |-> 0] /\ clock = 0
  /\ cache = [k \in Keys |-> IF k = <<First, 0>> THEN NoSnap ELSE None]
  /\ build = [n \in Names |-> IF n = Name[First] THEN Now(First) ELSE None]
  /\ pinned = Now(First)
  /\ state = [h \in Hosts |-> IF h = First THEN "up" ELSE "none"] /\ strays = {}
  /\ runs = [h \in Hosts |-> IF h = First THEN Now(First) ELSE None]
  /\ running = [host |-> First, spec |-> First, sha |-> Now(First), snapshot |-> 0]
  /\ \E mix \in Mixes : /\ stage = [u \in Uses |-> IF u \in mix.uses THEN "idle" ELSE "never"]
                         /\ writes = mix.writes
  /\ hit = [u \in Uses |-> FALSE]
  /\ snap = [u \in Uses |-> NoSnap]
  /\ next = [u \in Uses |-> NoRecord] /\ old = [u \in Uses \cup {"daemon"} |-> First]
  /\ open = "open" /\ raced = {} /\ excused = {}

\* Use u is answered; what it kept is dropped.
Answer(u) ==
  /\ stage' = [stage EXCEPT ![u] = "answered"]
  /\ snap' = [snap EXCEPT ![u] = NoSnap] /\ hit' = [hit EXCEPT ![u] = FALSE]
  /\ next' = [next EXCEPT ![u] = NoRecord] /\ old' = [old EXCEPT ![u] = First]

\* A file of the target is written: other content, or the same.  The restat sees
\* sources only, not plugin.json, build/ or the spec file.
Write(t, p, c) ==
  /\ writes > 0 /\ writes' = writes - 1
  /\ <<t, p>> \in Writable /\ (t \in Recipes => p = "src")
  /\ content' = [content EXCEPT ![t][p] = c]
  /\ IF p = "src" THEN clock' = clock + 1 /\ mtime' = [mtime EXCEPT ![t] = clock'] ELSE UNCHANGED <<clock, mtime>>
  /\ excused' = IF p = "src" THEN excused \cup {u \in Uses : stage[u] = "boot" /\ ~hit[u] /\ Target[u] = t} ELSE excused
  /\ UNCHANGED <<cache, build, pinned, state, runs, strays, running, stage, snap, hit, next, old, open, raced>>

\* ensureCurrent(): the running host is taken to be current for t.
Matches(t) ==
  IF t \in Recipes THEN running.sha = Now(t)
  ELSE running.spec = t /\ running.snapshot # NoSnapshot /\ running.snapshot = mtime[t]

UseCurrent(u) ==
  /\ open # "closed" /\ stage[u] = "idle" /\ Matches(Target[u])
  /\ Answer(u)
  /\ UNCHANGED <<disk, cache, build, pinned, state, runs, strays, running, open, raced, excused>>

\* contentHash: the sources with their build/, without plugin.json.
Hashed(c) == <<c["src"], c["build"]>>

\* CompileCache.lookup(): the restat, or else the content hashes, agree.
CacheHit(s) ==
  LET r == cache[Key(s)] IN
  r # None /\ (r.m = mtime[s] \/ Hashed(r.c) = Hashed(content[s]))

\* tryRecipe(): the manifests in the build directory are those the recipe hashes,
\* and so are the sources.  What a recipe file hashes is not represented.
Verdicts(r) ==
  IF r.of \in Recipes THEN BOOLEAN
  ELSE {/\ r # None /\ build[Name[r.of]].of = r.of
        /\ build[Name[r.of]].c["manifest"] = r.c["manifest"] /\ Hashed(build[Name[r.of]].c) = Hashed(r.c)
        /\ Hashed(content[r.of]) = Hashed(r.c)}

\* bootFromSpec()/bootFromRecipe() get the recipe to boot: the cache serves what
\* the build directory holds, or the spec is compiled, or the file is read.
Served(t) == t \in Specs /\ CacheHit(t)
Incoming(t) == IF Served(t) THEN build[Name[t]] ELSE Now(t)
Wanted(u) == open # "closed" /\ stage[u] = "idle" /\ ~Matches(Target[u])

\* What use u keeps of it; a hit refreshes the restat of its record.
Keep(u) ==
  LET t == Target[u] IN
  /\ snap' = [snap EXCEPT ![u] = [c |-> content[t], m |-> mtime[t]]]
  /\ hit' = [hit EXCEPT ![u] = Served(t)]
Refresh(t) == cache' = IF Served(t) THEN [cache EXCEPT ![Key(t)].m = mtime[t]] ELSE cache

Boot(u, p, r) ==
  /\ stage' = [stage EXCEPT ![u] = p] /\ state' = [state EXCEPT ![u] = "booting"]
  /\ runs' = [runs EXCEPT ![u] = r]

\* bootWithRecovery() turns to the pinned recipe, or the request fails and the
\* old host goes on.
Recover(u) ==
  TRUE \in Verdicts(pinned) /\ Boot(u, "recover", pinned) /\ excused' = excused \cup {u}

Fail(u) ==
  /\ Answer(u) /\ state' = [state EXCEPT ![u] = "none"] /\ runs' = [runs EXCEPT ![u] = None]
  /\ excused' = excused \ {u}

\* Seeded fault: the host that serves is closed before the next one is booted.
FaultyUseBoots(u) ==
  /\ Wanted(u) /\ stage' = [stage EXCEPT ![u] = "boot"]
  /\ state' = [state EXCEPT ![u] = "booting", ![running.host] = "closed"]
  /\ runs' = [runs EXCEPT ![u] = Now(Target[u])]
  /\ UNCHANGED <<disk, cache, build, pinned, strays, running, snap, hit, next, old, open, raced, excused>>

\* Up to the first await of the boot: compile into the build directory unless
\* the cache serves it; the recipe verifies, is pinned and its boot begins.
UseBoots(u) ==
  LET t == Target[u]  r == Incoming(t) IN
  /\ Wanted(u) /\ (Served(t) \/ t \in Recipes => TRUE \in Verdicts(r))
  /\ build' = IF t \in Specs THEN [build EXCEPT ![Name[t]] = r] ELSE build
  /\ pinned' = r /\ Boot(u, "boot", r) /\ Keep(u) /\ Refresh(t)
  /\ excused' = IF r.of # t THEN excused \cup {u} ELSE excused
  /\ UNCHANGED <<disk, strays, running, next, old, open, raced>>

\* The recipe the cache serves, or that of the file, does not verify.
UseRecovers(u) ==
  LET t == Target[u] IN
  /\ Wanted(u) /\ (Served(t) \/ t \in Recipes) /\ FALSE \in Verdicts(Incoming(t))
  /\ \/ Recover(u) /\ Keep(u) /\ UNCHANGED <<next, old>>
     \/ FALSE \in Verdicts(pinned) /\ Fail(u)
  /\ Refresh(t)
  /\ UNCHANGED <<disk, build, pinned, strays, running, open, raced>>

\* The spec or a source cannot be read or compiled; some manifests are written.
UseFails(u) ==
  LET t == Target[u] IN
  /\ open # "closed" /\ stage[u] = "idle" /\ Fail(u)
  /\ \/ UNCHANGED build
     \/ /\ Wanted(u) /\ t \in Specs /\ ~Served(t)
        /\ build' = [build EXCEPT ![Name[t]] = None]
  /\ UNCHANGED <<disk, cache, pinned, strays, running, open, raced>>

\* bootComposition() throws: the sources have moved, an operation cannot be
\* routed, or the law was started and is not active within 10 s; then its thread
\* goes on.  What it throws for the incoming recipe is caught, and recovery
\* boots the recipe pinned by now; else the request fails.
BootThrows(u) ==
  /\ stage[u] \in {"boot", "recover"}
  /\ strays' \in {strays, strays \cup {u}}
  /\ \/ stage[u] = "boot" /\ Recover(u) /\ UNCHANGED <<snap, hit, next, old>>
     \/ (stage[u] = "boot" => FALSE \in Verdicts(pinned)) /\ Fail(u)
  /\ UNCHANGED <<disk, cache, build, pinned, running, open, raced>>

\* The record of a host that is up.
Made(u, snapshot) ==
  LET t == Target[u] IN
  IF t \in Specs THEN [host |-> u, spec |-> t, sha |-> build[Name[t]], snapshot |-> snapshot]
  ELSE [host |-> u, spec |-> "none", sha |-> Now(t), snapshot |-> NoSnapshot]

\* The host is up: a compile is remembered, the record to swap in is made, and
\* the host that serves now is shut down.
Arrives(u, snapshot) ==
  LET t == Target[u] IN
  /\ stage[u] \in {"boot", "recover"}
  /\ stage' = [stage EXCEPT ![u] = "close"]
  /\ cache' = IF t \in Specs /\ ~hit[u] THEN [cache EXCEPT ![<<t, snap[u].c["spec"]>>] = snap[u]] ELSE cache
  /\ next' = [next EXCEPT ![u] = Made(u, snapshot)]
  /\ state' = [state EXCEPT ![u] = "up", ![running.host] = IF @ = "closed" THEN @ ELSE "closing"]
  /\ old' = [old EXCEPT ![u] = running.host]
  /\ raced' = IF \E v \in Uses \ {u} : stage[v] = "close"
                THEN raced \cup {v \in Uses : v = u \/ stage[v] = "close"} ELSE raced
  /\ UNCHANGED <<disk, build, pinned, runs, strays, running, snap, hit, open, excused>>

\* Seeded fault: the sources are restated when the boot has ended, hit or not.
FaultyBootEnds(u) == Arrives(u, mtime[Target[u]])

\* A hit keeps the restat from before its boot, a compile makes one after it.
BootEnds(u) == Arrives(u, IF hit[u] THEN snap[u].m ELSE mtime[Target[u]])

\* Seeded fault: the old host is not shut down.
FaultySwap(u) ==
  /\ stage[u] = "close"
  /\ state' = [state EXCEPT ![old[u]] = "up"]
  /\ running' = next[u] /\ Answer(u)
  /\ UNCHANGED <<disk, cache, build, pinned, runs, strays, open, raced, excused>>

\* The old host is shut down (its threads are terminated); the next one serves.
Swap(u) ==
  /\ stage[u] = "close"
  /\ state' = [state EXCEPT ![old[u]] = "closed"] /\ runs' = [runs EXCEPT ![old[u]] = None]
  /\ running' = next[u] /\ Answer(u)
  /\ UNCHANGED <<disk, cache, build, pinned, strays, open, raced, excused>>

\* cleanup(), from the idle timer, a shutdown request or close(): the host that
\* serves is shut down, then the listener and daemon.json go.
CleanupBegins ==
  /\ open = "open" /\ open' = "closing"
  /\ old' = [old EXCEPT !["daemon"] = running.host]
  /\ state' = [state EXCEPT ![running.host] = IF @ = "closed" THEN @ ELSE "closing"]
  /\ UNCHANGED <<disk, cache, build, pinned, runs, strays, running, stage, snap, hit, next, raced, excused>>

CleanupEnds ==
  /\ open = "closing" /\ open' = "closed"
  /\ state' = [state EXCEPT ![old["daemon"]] = "closed"]
  /\ UNCHANGED <<disk, cache, build, pinned, runs, strays, running, stage, snap, hit, next, old, raced, excused>>

Next ==
  \/ \E t \in Targets, p \in Parts, c \in {0, 1} : Write(t, p, c)
  \/ \E u \in Uses : \/ UseCurrent(u) \/ UseBoots(u) \/ UseRecovers(u) \/ UseFails(u)
                      \/ BootThrows(u) \/ BootEnds(u) \/ Swap(u)
  \/ CleanupBegins \/ CleanupEnds

Spec == Init /\ [][Next]_vars

-----------------------------------------------------------------------------
\* The type invariant.
TypeOK ==
  LET Recipe == [of : Targets \cup {"none"}, c : Content] IN
  /\ content \in [Targets -> Content] /\ mtime \in [Targets -> 0..MaxWrites]
  /\ build \in [Names -> [of : Specs \cup {"none"}, c : Content]]
  /\ pinned \in Recipe /\ runs \in [Hosts -> Recipe]
  /\ state \in [Hosts -> {"none", "booting", "up", "closing", "closed"}] /\ strays \subseteq Uses
  /\ running.host \in Hosts /\ running.snapshot \in 0..NoSnapshot
  /\ stage \in [Uses -> {"never", "idle", "boot", "recover", "close", "answered"}]
  /\ open \in {"open", "closing", "closed"}

\* ensureCurrent boots the next host before it shuts down the one that serves:
\* while the daemon is open, requests meet a live host, whatever boots fail,
\* but for the moment in which a use is about to swap in its own.
ServedByALiveHost ==
  open = "open" => state[running.host] = "up" \/ \E u \in Uses : stage[u] = "close"

\* no host that bootWithRecovery() returns or is booting is left running behind
\* the daemon's back: one that does not serve is in the hands of a use in flight,
\* or of two uses whose swaps overlapped.  Of the threads of a boot that threw it
\* says nothing: they belong to no host (WorkersHaveAnOwner).
NoHostForgotten ==
  open = "open" => \A u \in Hosts : state[u] \in {"booting", "up"}
    => u = running.host \/ u \in InFlight \/ u \in raced

\* Host h runs the sources of t that lie on disk: those the restat looks at, or
\* the bytes of a recipe file.
Serves(h, t) == runs[h].of = t /\ runs[h].c["src"] = content[t]["src"]

\* "cheap drift check before serving": a use answered without a reboot is served
\* its target with the sources it now has.  The excused: a host whose sources
\* were written while what was compiled for it booted, one that recovery booted
\* instead, and one that a cache hit took from the build directory of another
\* spec.  It says nothing of plugin.json, build/ and the spec file, which the
\* check does not look at.
CurrentMeansCurrent ==
  \A t \in Targets : Matches(t) /\ running.host \notin excused => Serves(running.host, t)

\* daemon.ts: "assigned workers belong to their host owner and shut down with it".
WorkersHaveAnOwner == open = "open" => strays = {}

\* daemon.ts: "Ensure the running composition matches {specPath?, recipePath?};
\* reboot when it doesn't."
MatchesTheDisk ==
  \A t \in Targets : Matches(t) /\ running.host \notin excused => runs[running.host] = Now(t)

\* cache.ts: "cache-hit and cold boots are unobservable to a correct caller": a
\* spec is not booted from the pinned recipe where a compile would have verified.
HitsAreUnobservable ==
  [][\A u \in Uses : stage[u] = "idle" /\ stage'[u] = "recover" => Target[u] \in Recipes]_vars
=============================================================================
