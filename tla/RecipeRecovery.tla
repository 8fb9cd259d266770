--------------------------- MODULE RecipeRecovery ---------------------------
(***************************************************************************)
(* Compile, pin, boot and recover: compileComposition() and pinRecipe() in  *)
(* host/src/recipe.ts, atomicWrite() in host/src/canon.ts,                  *)
(* bootWithRecovery() in host/src/recovery.ts and bootComposition() in      *)
(* host/src/boot.ts.  Several attempts, of the resident daemon and of other *)
(* processes, work on one vault directory at a time and each may die        *)
(* between any two writes; the source trees are edited in place meanwhile.  *)
(*                                                                         *)
(* A version stands for the bytes of a source tree with its plugin.json: it *)
(* is what a manifest is signed for.  tryRecipe() is one moment, and so is  *)
(* the read, hash and write of one entry of a compile.                      *)
(***************************************************************************)
EXTENDS Naturals

CONSTANTS
  Attempts,    \* compiles and boots of one vault: uses of a daemon, processes
  Specs,       \* composition specs
  Entries,     \* number of entries of a composition; manifests are written in order
  Sources,     \* source trees
  SourceOf,    \* SourceOf[s][e]: the tree spec s names for its entry e
  VersionsOf,  \* VersionsOf[t]: what tree t is edited to and from
  Code,        \* Code[v]: what contentHash covers, all but plugin.json
  Names,       \* composition names: the build directory is vault/build/<name>
  NameOf,      \* the name of a spec
  Unroutable   \* recipes that verify but whose routing table has errors

Versions == UNION {VersionsOf[t] : t \in Sources}

\* A recipe: the spec it was compiled from and the versions it hashes.
Recipe == {r \in [of : Specs, v : [1..Entries -> Versions]] :
             \A e \in 1..Entries : r.v[e] \in VersionsOf[SourceOf[r.of][e]]}
None == [of |-> "none", v |-> "none"]

ASSUME RecoveryAssumption ==
  /\ Entries \in Nat
  /\ SourceOf \in [Specs -> [1..Entries -> Sources]]
  /\ NameOf \in [Specs -> Names]
  /\ "none" \notin Specs /\ "none" \notin Versions

VARIABLES
  tree,        \* the version a source tree holds
  manifest,    \* manifest[n][e]: the version the manifest file was signed for
  recipeFile,  \* recipe.json in the build directory of n
  pinned,      \* recipe.pinned
  tmps,        \* the attempts whose recipe.pinned.tmp-* file exists
  phase,       \* what an attempt is doing
  hand,        \* the recipe an attempt has in hand; what it runs once it is up
  source,      \* where it is from: "incoming" or "pinned"
  next,        \* compile: the entry to write next
  moved,       \* history: attempts under whose recipe the disk has changed since
               \* it was last verified
  everRan      \* history: some composition was booted from this vault

vars == <<tree, manifest, recipeFile, pinned, tmps, phase, hand, source, next, moved, everRan>>
disk == <<tree, manifest, recipeFile, pinned, tmps>>

Init ==
  /\ tree \in [Sources -> Versions] /\ \A t \in Sources : tree[t] \in VersionsOf[t]
  /\ manifest = [n \in Names |-> [e \in 1..Entries |-> "none"]]
  /\ recipeFile = [n \in Names |-> None] /\ pinned = None /\ tmps = {}
  /\ phase = [a \in Attempts |-> "off"] /\ hand = [a \in Attempts |-> None]
  /\ source = [a \in Attempts |-> "incoming"] /\ next = [a \in Attempts |-> 1]
  /\ moved = {} /\ everRan = FALSE

\* tryRecipe(): every manifest in the build directory is the one the recipe
\* hashes, and every source tree has the contentHash of its entry (signature,
\* root key and invariants hold of compiled recipes).
Verifies(r) ==
  /\ manifest[NameOf[r.of]] = r.v
  /\ \A e \in 1..Entries : Code[tree[SourceOf[r.of][e]]] = Code[r.v[e]]

\* An attempt goes on; between a verification and the use of its result, what
\* became of the disk is kept in `moved`.
Goto(a, p) ==
  /\ phase' = [phase EXCEPT ![a] = p]
  /\ moved' = IF <<phase[a], p>> \in {<<"pin", "rename">>, <<"start", "up">>} THEN moved ELSE moved \ {a}

DiskMoves ==
  moved' = moved \cup {b \in Attempts : /\ phase[b] \in {"pin", "rename", "start", "up"}
                                        /\ Verifies(hand[b]) /\ ~Verifies(hand[b])'}

\* A source tree is edited in place.
Edit(t, v) ==
  /\ v # tree[t] /\ tree' = [tree EXCEPT ![t] = v]
  /\ UNCHANGED <<manifest, recipeFile, pinned, tmps, phase, hand, source, next, everRan>>
  /\ DiskMoves

\* compileComposition() starts, then bootWithRecovery() gets its recipe.json.
StartCompile(a, s) ==
  /\ phase[a] = "off" /\ Goto(a, "compile")
  /\ hand' = [hand EXCEPT ![a] = [of |-> s, v |-> [e \in 1..Entries |-> tree[SourceOf[s][e]]]]]
  /\ next' = [next EXCEPT ![a] = 1] /\ source' = [source EXCEPT ![a] = "incoming"]
  /\ UNCHANGED <<disk, everRan>>

\* One entry: its tree is read and hashed, its manifest signed and written.
WriteManifest(a) ==
  LET s == hand[a].of  e == next[a]  v == tree[SourceOf[s][e]] IN
  /\ phase[a] = "compile" /\ e <= Entries
  /\ manifest' = [manifest EXCEPT ![NameOf[s]][e] = v]
  /\ hand' = [hand EXCEPT ![a].v[e] = v] /\ next' = [next EXCEPT ![a] = e + 1]
  /\ UNCHANGED <<tree, recipeFile, pinned, tmps, phase, source, everRan>>
  /\ DiskMoves

WriteRecipe(a) ==
  /\ phase[a] = "compile" /\ next[a] > Entries /\ Goto(a, "clean")
  /\ recipeFile' = [recipeFile EXCEPT ![NameOf[hand[a].of]] = hand[a]]
  /\ next' = [next EXCEPT ![a] = 1]
  /\ UNCHANGED <<tree, manifest, pinned, tmps, hand, source, everRan>>

\* bootWithRecovery() with a recipe.json that exists, or with none.
StartBoot(a) ==
  /\ phase[a] = "off" /\ Goto(a, "clean")
  /\ \E r \in {recipeFile[n] : n \in Names} \cup {None} : hand' = [hand EXCEPT ![a] = r]
  /\ source' = [source EXCEPT ![a] = "incoming"]
  /\ UNCHANGED <<disk, next, everRan>>

\* cleanupStaleSwap(): the temporary files of live attempts go too.
CleanStaleSwap(a) ==
  /\ phase[a] = "clean" /\ Goto(a, IF hand[a] = None THEN "fallback" ELSE "verify")
  /\ tmps' = {}
  /\ UNCHANGED <<tree, manifest, recipeFile, pinned, hand, source, next, everRan>>

\* Seeded fault: the incoming recipe is pinned before it is verified.
FaultyVerifyIncoming(a) ==
  /\ phase[a] = "verify" /\ Goto(a, "pin")
  /\ UNCHANGED <<disk, hand, source, next, everRan>>

\* The recipe.json that lies there by now is read and tried.
VerifyIncoming(a) ==
  LET r == recipeFile[NameOf[hand[a].of]] IN
  /\ phase[a] = "verify" /\ Goto(a, IF Verifies(r) THEN "pin" ELSE "fallback")
  /\ hand' = [hand EXCEPT ![a] = r]
  /\ UNCHANGED <<disk, source, next, everRan>>

\* Seeded fault: recipe.pinned is rewritten in place.
FaultyWritePinTmp(a) ==
  /\ phase[a] = "pin" /\ Goto(a, "rename") /\ pinned' = None /\ tmps' = tmps \cup {a}
  /\ UNCHANGED <<tree, manifest, recipeFile, hand, source, next, everRan>>

\* pinRecipe(): write the temporary file, then rename it, if it is still there,
\* or give the rename up; what pinRecipe() throws is caught.
WritePinTmp(a) ==
  /\ phase[a] = "pin" /\ Goto(a, "rename") /\ tmps' = tmps \cup {a}
  /\ UNCHANGED <<tree, manifest, recipeFile, pinned, hand, source, next, everRan>>

RenamePin(a) ==
  /\ phase[a] = "rename" /\ tmps' = tmps \ {a}
  /\ \/ a \in tmps /\ pinned' = hand[a] /\ Goto(a, "boot")
     \/ UNCHANGED pinned /\ Goto(a, "fallback")
  /\ UNCHANGED <<tree, manifest, recipeFile, hand, source, next, everRan>>

\* The pinned recipe: no pin, or one that does not verify, refuses to boot.
Fallback(a) ==
  /\ phase[a] = "fallback"
  /\ Goto(a, IF pinned # None /\ Verifies(pinned) THEN "boot" ELSE "refused")
  /\ hand' = [hand EXCEPT ![a] = pinned] /\ source' = [source EXCEPT ![a] = "pinned"]
  /\ UNCHANGED <<disk, next, everRan>>

\* What bootComposition() throws is caught for the incoming recipe only.
Thrown(a) == IF source[a] = "incoming" THEN "fallback" ELSE "threw"

\* Seeded fault: the boot trusts what was verified before the pin was written.
FaultyBootVerify(a) ==
  /\ phase[a] = "boot" /\ Goto(a, IF hand[a] \notin Unroutable THEN "start" ELSE Thrown(a))
  /\ UNCHANGED <<disk, hand, source, next, everRan>>

\* verifyCompositionAsync(): all is verified again, and the routing with it.
BootVerify(a) ==
  /\ phase[a] = "boot"
  /\ Goto(a, IF Verifies(hand[a]) /\ hand[a] \notin Unroutable THEN "start" ELSE Thrown(a))
  /\ UNCHANGED <<disk, hand, source, next, everRan>>

\* The law's compartment is active, or not within 10 s, or it crashed.
StartLaw(a) ==
  /\ phase[a] = "start"
  /\ \/ Goto(a, "up") /\ everRan' = TRUE
     \/ Goto(a, Thrown(a)) /\ UNCHANGED everRan
  /\ UNCHANGED <<disk, hand, source, next>>

\* The attempt ends: its process dies, the compile throws (a tree that cannot be
\* read), the host is shut down, or it was answered.
Crash(a) ==
  /\ phase[a] # "off" /\ Goto(a, "off")
  /\ hand' = [hand EXCEPT ![a] = None] /\ next' = [next EXCEPT ![a] = 1]
  /\ source' = [source EXCEPT ![a] = "incoming"]
  /\ UNCHANGED <<disk, everRan>>

Next ==
  \/ \E t \in Sources : \E v \in VersionsOf[t] : Edit(t, v)
  \/ \E a \in Attempts :
       \/ (\E s \in Specs : StartCompile(a, s)) \/ WriteManifest(a) \/ WriteRecipe(a)
       \/ StartBoot(a) \/ CleanStaleSwap(a) \/ VerifyIncoming(a) \/ WritePinTmp(a) \/ RenamePin(a)
       \/ Fallback(a) \/ BootVerify(a) \/ StartLaw(a) \/ Crash(a)

Spec == Init /\ [][Next]_vars

-----------------------------------------------------------------------------
Phases == {"off", "compile", "clean", "verify", "pin", "rename", "fallback", "boot",
           "start", "up", "refused", "threw"}

\* The type invariant.
TypeOK ==
  /\ tree \in [Sources -> Versions] /\ \A t \in Sources : tree[t] \in VersionsOf[t]
  /\ manifest \in [Names -> [1..Entries -> Versions \cup {"none"}]]
  /\ recipeFile \in [Names -> Recipe \cup {None}] /\ pinned \in Recipe \cup {None}
  /\ tmps \subseteq Attempts /\ phase \in [Attempts -> Phases]
  /\ hand \in [Attempts -> Recipe \cup {None}] /\ source \in [Attempts -> {"incoming", "pinned"}]
  /\ next \in [Attempts -> 1..Entries + 1] /\ moved \subseteq Attempts /\ everRan \in BOOLEAN

\* B4: what runs verified, manifests, sources and routing, after it was pinned
\* and before its law was started; if it no longer does, a source was edited or
\* a build directory compiled into since.
RunsOnlyVerified ==
  \A a \in Attempts : phase[a] = "up" => hand[a] \notin Unroutable /\ (Verifies(hand[a]) \/ a \in moved)

\* recovery.ts: incoming recipes are pinned only after verification, as a whole,
\* whatever crashes or works beside it; only an edit of a source or a compile
\* that slips in between the two can pin what no longer verifies.
PinnedAfterVerification ==
  [][pinned' # pinned =>
       \E a \in Attempts : /\ phase[a] = "rename" /\ pinned' = hand[a]
                           /\ Verifies(hand[a]) \/ a \in moved]_vars

\* Why a pinned recipe r does not boot: its routing, an edit of a source tree, or
\* a compile that signed another version under its name.
Gap(r) ==
  \/ r \in Unroutable
  \/ \E e \in 1..Entries : Code[tree[SourceOf[r.of][e]]] # Code[r.v[e]]
  \/ \E s \in Specs, e \in 1..Entries :
       /\ NameOf[s] = NameOf[r.of]
       /\ manifest[NameOf[s]][e] \in VersionsOf[SourceOf[s][e]] \ {r.v[e]}

\* A boot ends without a composition: it falls to the recipe tried last.
Loses(a) == phase[a] # phase'[a] /\ phase'[a] \in {"refused", "threw"}
Tried(a) == IF phase[a] = "fallback" THEN pinned ELSE hand[a]

\* Once a composition has run there is a whole pin, and a boot ends without a
\* composition only over a law that did not start or one of the gaps.
LosesByGap ==
  \A a \in Attempts : Loses(a) /\ everRan =>
    Tried(a) # None /\ (phase[a] = "start" \/ Gap(Tried(a)))

\* recovery.ts, "preserves the previous one": no crash, no rejected recipe and
\* no other attempt loses the last good composition but through a gap.
LostOnlyByGaps == [][LosesByGap]_vars

\* recovery.ts: "Boot either yields a valid composition or preserves the
\* previous one": once a composition has run, no attempt to boot ends without
\* one but for a law that does not start.
BootsOrPreserves == [][\A a \in Attempts : Loses(a) /\ phase[a] # "start" => ~everRan]_vars
=============================================================================
