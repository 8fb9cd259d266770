------------------------ MODULE RecipeRecoveryProofs ------------------------
(***************************************************************************)
(* Proofs about compile, pin, boot and recovery (RecipeRecovery), for all   *)
(* compositions, directory layouts, edits, numbers of attempts and crashes. *)
(*                                                                         *)
(* What was verified for one attempt is disturbed by the steps of the other *)
(* attempts and by edits: the inductive invariant says what still holds of  *)
(* the recipe in hand of each attempt.  A step either moves one attempt and *)
(* leaves sources and manifests alone (Own), or writes one of these and     *)
(* leaves every phase alone (DiskStep).                                     *)
(***************************************************************************)
EXTENDS RecipeRecovery, Integers, TLAPS

\* Each manifest of a name was signed for a version of a tree that some spec of
\* the name has for the entry.
There(n) == \A e \in 1..Entries : \E s \in Specs :
              NameOf[s] = n /\ manifest[n][e] \in VersionsOf[SourceOf[s][e]]

\* A recipe whose build directory was complete once.
Known(r) == r \in Recipe /\ There(NameOf[r.of])

\* The recipe an attempt has in hand.
HandInv ==
  \A a \in Attempts :
    /\ phase[a] \in {"compile", "verify"} => hand[a] \in Recipe
    /\ phase[a] \in {"clean", "verify"} /\ hand[a] # None => recipeFile[NameOf[hand[a].of]] \in Recipe
    /\ phase[a] \in {"pin", "rename", "boot", "start", "up"} => Known(hand[a])
    /\ phase[a] \in {"pin", "rename", "start", "up"} => Verifies(hand[a]) \/ a \in moved
    /\ phase[a] \in {"start", "up"} => hand[a] \notin Unroutable

\* The vault directory: a recipe.json is of the name of its build directory, and
\* there is a pin from the first boot on.
VaultInv ==
  /\ \A n \in Names : recipeFile[n] # None => NameOf[recipeFile[n].of] = n
  /\ pinned # None => Known(pinned)
  /\ everRan \/ (\E a \in Attempts : phase[a] \in {"boot", "start"}) => pinned # None

IInv == TypeOK /\ HandInv /\ VaultInv

-----------------------------------------------------------------------------
\* What the assumption says of recipes.
LEMMA RecipeFacts ==
  /\ None \notin Recipe
  /\ \A r \in Recipe : r.of \in Specs /\ NameOf[r.of] \in Names
  /\ \A r \in Recipe, e \in 1..Entries : r.v[e] \in VersionsOf[SourceOf[r.of][e]]
  /\ \A s \in Specs, e \in 1..Entries : SourceOf[s][e] \in Sources
  /\ \A t \in Sources : VersionsOf[t] \subseteq Versions
BY RecoveryAssumption DEF None, Recipe, Versions

LEMMA InitInv == Init => IInv
<1> SUFFICES ASSUME Init PROVE IInv
  OBVIOUS
<1>1. 1 \in 1..Entries + 1
  BY RecoveryAssumption
<1>2. TypeOK
  BY <1>1 DEF Init, TypeOK, Phases
<1>3. HandInv /\ VaultInv
  BY DEF Init, HandInv, VaultInv
<1> QED
  BY <1>2, <1>3 DEF IInv

\* A recipe that verifies has a complete build directory.
LEMMA VerifiesKnown ==
  ASSUME NEW r \in Recipe, Verifies(r)
  PROVE  Known(r)
BY RecipeFacts DEF Verifies, Known, There

\* One attempt moves on; the sources and the manifests stay.
LEMMA Own ==
  ASSUME IInv, NEW a \in Attempts, NEW p \in Phases, Goto(a, p), tree' = tree, manifest' = manifest,
         hand' \in [Attempts -> Recipe \cup {None}], \A b \in Attempts : b # a => hand'[b] = hand[b],
         \A n \in Names : recipeFile[n] \in Recipe => recipeFile'[n] \in Recipe,
         p \in {"compile", "verify"} => hand'[a] \in Recipe,
         p \in {"clean", "verify"} /\ hand'[a] # None => recipeFile'[NameOf[hand'[a].of]] \in Recipe,
         p \in {"pin", "rename", "boot", "start", "up"} => Known(hand'[a]),
         p \in {"pin", "start"} => Verifies(hand'[a]),
         p \in {"rename", "up"} => <<phase[a], p>> \in {<<"pin", "rename">>, <<"start", "up">>} /\ hand'[a] = hand[a],
         p \in {"start", "up"} => hand'[a] \notin Unroutable
  PROVE  /\ HandInv'
         /\ phase' \in [Attempts -> Phases] /\ moved' \subseteq Attempts
         /\ phase'[a] = p /\ \A b \in Attempts : b # a => phase'[b] = phase[b]
<1> USE DEF IInv
<1>1. /\ phase' \in [Attempts -> Phases] /\ moved' \subseteq Attempts
      /\ phase'[a] = p /\ \A b \in Attempts : b # a => phase'[b] = phase[b]
      /\ \A b \in Attempts : b # a => (b \in moved' <=> b \in moved)
      /\ p \in {"rename", "up"} => moved' = moved
  BY DEF Goto, TypeOK
<1>2. \A r : Known(r)' <=> Known(r)
  BY DEF Known, There
<1>3. \A r : Verifies(r)' <=> Verifies(r)
  BY DEF Verifies
<1>4. ASSUME NEW b \in Attempts
      PROVE  /\ phase'[b] \in {"compile", "verify"} => hand'[b] \in Recipe
             /\ phase'[b] \in {"clean", "verify"} /\ hand'[b] # None => recipeFile'[NameOf[hand'[b].of]] \in Recipe
             /\ phase'[b] \in {"pin", "rename", "boot", "start", "up"} => Known(hand'[b])
             /\ phase'[b] \in {"pin", "rename", "start", "up"} => Verifies(hand'[b]) \/ b \in moved'
             /\ phase'[b] \in {"start", "up"} => hand'[b] \notin Unroutable
  <2>1. CASE b # a
    <3>1. hand'[b] = hand[b] /\ phase'[b] = phase[b] /\ (b \in moved' <=> b \in moved)
      BY <1>1, <2>1
    <3>2. hand[b] # None => hand[b] \in Recipe /\ NameOf[hand[b].of] \in Names
      BY RecipeFacts DEF TypeOK
    <3> QED
      BY <3>1, <3>2 DEF HandInv
  <2>2. CASE b = a
    <3>1. p \in {"rename", "up"} => Verifies(hand'[a]) \/ a \in moved'
      BY <1>1 DEF HandInv
    <3> QED
      BY <1>1, <2>2, <3>1
  <2> QED
    BY <2>1, <2>2
<1>5. HandInv'
  BY <1>2, <1>3, <1>4 DEF HandInv, Known, Verifies, There
<1> QED
  BY <1>1, <1>5

\* A source tree or a manifest is written; the attempts stay where they are.
LEMMA DiskStep ==
  ASSUME IInv, DiskMoves, UNCHANGED <<phase, recipeFile, pinned, everRan>>,
         hand' \in [Attempts -> Recipe \cup {None}],
         \A b \in Attempts : phase[b] = "compile" => hand'[b] \in Recipe,
         \A b \in Attempts : phase[b] # "compile" => hand'[b] = hand[b],
         \A n \in Names : There(n) => There(n)'
  PROVE  HandInv' /\ VaultInv' /\ moved' \subseteq Attempts
<1> USE DEF IInv
<1>1. moved' \subseteq Attempts
  BY DEF DiskMoves, TypeOK
<1>2. ASSUME NEW r, Known(r) PROVE Known(r)'
  BY <1>2, RecipeFacts DEF Known
<1>3. HandInv'
  <2> SUFFICES ASSUME NEW b \in Attempts
               PROVE  /\ phase[b] \in {"compile", "verify"} => hand'[b] \in Recipe
                      /\ phase[b] \in {"clean", "verify"} /\ hand'[b] # None => recipeFile[NameOf[hand'[b].of]] \in Recipe
                      /\ phase[b] \in {"pin", "rename", "boot", "start", "up"} => Known(hand[b])'
                      /\ phase[b] \in {"pin", "rename", "start", "up"} => Verifies(hand[b])' \/ b \in moved'
                      /\ phase[b] \in {"start", "up"} => hand'[b] \notin Unroutable
    BY DEF HandInv
  <2>1. CASE phase[b] = "compile"
    BY <2>1
  <2>2. CASE phase[b] # "compile"
    <3>1. hand'[b] = hand[b]
      BY <2>2
    <3>2. phase[b] \in {"pin", "rename", "boot", "start", "up"} => Known(hand[b])'
      <4> SUFFICES ASSUME phase[b] \in {"pin", "rename", "boot", "start", "up"} PROVE Known(hand[b])'
        OBVIOUS
      <4>1. Known(hand[b])
        BY DEF HandInv
      <4> QED
        BY <4>1, <3>1, RecipeFacts DEF Known, There
    <3>3. phase[b] \in {"pin", "rename", "start", "up"} => Verifies(hand[b])' \/ b \in moved'
      BY DEF HandInv, DiskMoves
    <3> QED
      BY <3>1, <3>2, <3>3 DEF HandInv
  <2> QED
    BY <2>1, <2>2
<1>4. VaultInv'
  <2>1. pinned # None => Known(pinned)'
    BY RecipeFacts DEF VaultInv, Known, There
  <2> QED
    BY <2>1 DEF VaultInv
<1> QED
  BY <1>1, <1>3, <1>4

-----------------------------------------------------------------------------
\* A source tree is edited.
LEMMA EditInv ==
  ASSUME IInv, NEW t \in Sources, NEW v \in VersionsOf[t], Edit(t, v)
  PROVE  IInv'
<1> USE DEF IInv
<1>1. /\ tree' = [tree EXCEPT ![t] = v] /\ DiskMoves
      /\ UNCHANGED <<manifest, recipeFile, pinned, tmps, phase, hand, source, next, everRan>>
  BY DEF Edit
<1>2. tree' \in [Sources -> Versions] /\ \A u \in Sources : tree'[u] \in VersionsOf[u]
  BY <1>1, RecipeFacts DEF TypeOK
<1>3. \A n \in Names : There(n) => There(n)'
  BY <1>1 DEF There
<1>4. HandInv' /\ VaultInv' /\ moved' \subseteq Attempts
  BY <1>1, <1>3, DiskStep DEF TypeOK, HandInv
<1> QED
  BY <1>1, <1>2, <1>4 DEF TypeOK

\* A compile writes the manifest of an entry.
LEMMA WriteManifestInv ==
  ASSUME IInv, NEW a \in Attempts, WriteManifest(a)
  PROVE  IInv'
<1> USE DEF IInv
<1> DEFINE s == hand[a].of  e == next[a]  v == tree[SourceOf[s][e]]  n == NameOf[s]
<1>1. /\ phase[a] = "compile" /\ e <= Entries /\ DiskMoves
      /\ manifest' = [manifest EXCEPT ![n][e] = v]
      /\ hand' = [hand EXCEPT ![a].v[e] = v] /\ next' = [next EXCEPT ![a] = e + 1]
      /\ UNCHANGED <<tree, recipeFile, pinned, tmps, phase, source, everRan>>
  BY DEF WriteManifest
<1>2. /\ hand[a] \in Recipe /\ s \in Specs /\ n \in Names /\ e \in 1..Entries /\ e + 1 \in 1..Entries + 1
      /\ SourceOf[s][e] \in Sources /\ v \in VersionsOf[SourceOf[s][e]] /\ v \in Versions
  <2>1. hand[a] \in Recipe /\ s \in Specs /\ n \in Names
    BY <1>1, RecipeFacts DEF HandInv
  <2>2. e \in 1..Entries /\ e + 1 \in 1..Entries + 1
    BY <1>1, RecoveryAssumption DEF TypeOK
  <2>3. SourceOf[s][e] \in Sources
    BY <2>1, <2>2, RecipeFacts
  <2> QED
    BY <2>1, <2>2, <2>3 DEF TypeOK
<1>3. /\ manifest' \in [Names -> [1..Entries -> Versions \cup {"none"}]]
      /\ \A m \in Names, d \in 1..Entries :
           manifest'[m][d] = IF m = n /\ d = e THEN v ELSE manifest[m][d]
  BY <1>1, <1>2 DEF TypeOK
<1>4. /\ hand' \in [Attempts -> Recipe \cup {None}] /\ hand'[a] \in Recipe
      /\ \A b \in Attempts : b # a => hand'[b] = hand[b]
  <2>1. /\ hand[a].v \in [1..Entries -> Versions] /\ hand[a] \in [of : Specs, v : [1..Entries -> Versions]]
        /\ \A d \in 1..Entries : hand[a].v[d] \in VersionsOf[SourceOf[s][d]]
    BY <1>2 DEF Recipe
  <2>2. [hand[a] EXCEPT !.v[e] = v] \in Recipe
    <3> DEFINE r == [hand[a] EXCEPT !.v[e] = v]
    <3>1. r.of = s /\ r.v = [hand[a].v EXCEPT ![e] = v] /\ r \in [of : Specs, v : [1..Entries -> Versions]]
      BY <1>2, <2>1
    <3>2. \A d \in 1..Entries : r.v[d] \in VersionsOf[SourceOf[r.of][d]]
      BY <1>2, <2>1, <3>1
    <3> QED
      BY <3>1, <3>2 DEF Recipe
  <2>3. hand' = [hand EXCEPT ![a] = [hand[a] EXCEPT !.v[e] = v]]
    BY <1>1
  <2> HIDE DEF s, e, v
  <2> QED
    BY <2>2, <2>3 DEF TypeOK
<1>5. \A m \in Names : There(m) => There(m)'
  <2> SUFFICES ASSUME NEW m \in Names, There(m), NEW d \in 1..Entries
               PROVE  \E q \in Specs : NameOf[q] = m /\ manifest'[m][d] \in VersionsOf[SourceOf[q][d]]
    BY DEF There
  <2>1. CASE m = n /\ d = e
    BY <1>2, <1>3, <2>1
  <2>2. CASE ~(m = n /\ d = e)
    BY <1>3, <2>2 DEF There
  <2> QED
    BY <2>1, <2>2
<1>6. \A b \in Attempts : phase[b] = "compile" => hand'[b] \in Recipe
  BY <1>4 DEF HandInv
<1>7. \A b \in Attempts : phase[b] # "compile" => hand'[b] = hand[b]
  BY <1>1, <1>4
<1> HIDE DEF s, e, v, n
<1>8. HandInv' /\ VaultInv' /\ moved' \subseteq Attempts
  BY <1>1, <1>4, <1>5, <1>6, <1>7, DiskStep
<1> QED
  BY <1>1, <1>2, <1>3, <1>4, <1>8 DEF TypeOK

\* The parts of an attempt's own step that say nothing of the pin.
LEMMA KeepVault ==
  ASSUME IInv, NEW a \in Attempts, manifest' = manifest, pinned' = pinned, everRan' = everRan,
         \A n \in Names : recipeFile'[n] # None => NameOf[recipeFile'[n].of] = n,
         \A b \in Attempts : b # a => phase'[b] = phase[b],
         phase'[a] \in {"boot", "start"} => pinned # None
  PROVE  VaultInv'
<1> USE DEF IInv
<1>1. \A r : Known(r)' <=> Known(r)
  BY DEF Known, There
<1>2. pinned' # None => Known(pinned')
  BY DEF VaultInv
<1>3. everRan' \/ (\E b \in Attempts : phase'[b] \in {"boot", "start"}) => pinned' # None
  BY DEF VaultInv
<1> QED
  BY <1>1, <1>2, <1>3 DEF VaultInv, Known, There

\* compileComposition(), but for its manifests.
LEMMA CompileInv ==
  ASSUME IInv, NEW a \in Attempts, (\E s \in Specs : StartCompile(a, s)) \/ WriteRecipe(a)
  PROVE  IInv'
<1> USE DEF IInv
<1>1. CASE \E s \in Specs : StartCompile(a, s)
  <2>1. PICK s \in Specs : StartCompile(a, s)
    BY <1>1
  <2> DEFINE r == [of |-> s, v |-> [e \in 1..Entries |-> tree[SourceOf[s][e]]]]
  <2>2. r \in Recipe
    BY RecipeFacts DEF Recipe, TypeOK
  <2>3. /\ Goto(a, "compile") /\ hand' = [hand EXCEPT ![a] = r] /\ next' = [next EXCEPT ![a] = 1]
        /\ source' = [source EXCEPT ![a] = "incoming"] /\ UNCHANGED <<disk, everRan>>
    BY <2>1 DEF StartCompile
  <2> HIDE DEF r
  <2>4. /\ hand' \in [Attempts -> Recipe \cup {None}] /\ hand'[a] \in Recipe
        /\ \A b \in Attempts : b # a => hand'[b] = hand[b]
    BY <2>2, <2>3 DEF TypeOK
  <2>5. /\ HandInv' /\ phase' \in [Attempts -> Phases] /\ moved' \subseteq Attempts
        /\ phase'[a] = "compile" /\ \A b \in Attempts : b # a => phase'[b] = phase[b]
    BY <2>3, <2>4, Own DEF Phases, disk
  <2>6. VaultInv'
    BY <2>3, <2>5, KeepVault DEF disk, VaultInv
  <2>7. next' \in [Attempts -> 1..Entries + 1]
    BY <2>3, RecoveryAssumption DEF TypeOK
  <2> QED
    BY <2>3, <2>4, <2>5, <2>6, <2>7 DEF TypeOK, disk
<1>2. CASE WriteRecipe(a)
  <2>1. /\ phase[a] = "compile" /\ Goto(a, "clean")
        /\ recipeFile' = [recipeFile EXCEPT ![NameOf[hand[a].of]] = hand[a]]
        /\ next' = [next EXCEPT ![a] = 1]
        /\ UNCHANGED <<tree, manifest, pinned, tmps, hand, source, everRan>>
    BY <1>2 DEF WriteRecipe
  <2>2. hand[a] \in Recipe /\ NameOf[hand[a].of] \in Names
    BY <2>1, RecipeFacts DEF HandInv
  <2>3. /\ recipeFile' \in [Names -> Recipe \cup {None}] /\ recipeFile'[NameOf[hand[a].of]] = hand[a]
        /\ \A n \in Names : n # NameOf[hand[a].of] => recipeFile'[n] = recipeFile[n]
    BY <2>1, <2>2 DEF TypeOK
  <2>4. \A n \in Names : recipeFile[n] \in Recipe => recipeFile'[n] \in Recipe
    BY <2>2, <2>3
  <2>5. /\ HandInv' /\ phase' \in [Attempts -> Phases] /\ moved' \subseteq Attempts
        /\ phase'[a] = "clean" /\ \A b \in Attempts : b # a => phase'[b] = phase[b]
    BY <2>1, <2>2, <2>3, <2>4, Own DEF Phases, TypeOK
  <2>6. \A n \in Names : recipeFile'[n] # None => NameOf[recipeFile'[n].of] = n
    BY <2>3 DEF VaultInv
  <2>7. VaultInv'
    BY <2>1, <2>5, <2>6, KeepVault
  <2>8. next' \in [Attempts -> 1..Entries + 1]
    BY <2>1, RecoveryAssumption DEF TypeOK
  <2> QED
    BY <2>1, <2>3, <2>5, <2>7, <2>8 DEF TypeOK
<1> QED
  BY <1>1, <1>2

\* bootWithRecovery() up to the temporary file of the pin.
LEMMA VerifyInv ==
  ASSUME IInv, NEW a \in Attempts,
         StartBoot(a) \/ CleanStaleSwap(a) \/ VerifyIncoming(a) \/ WritePinTmp(a)
  PROVE  IInv'
<1> USE DEF IInv
<1>1. CASE StartBoot(a)
  <2>1. PICK r \in {recipeFile[n] : n \in Names} \cup {None} : hand' = [hand EXCEPT ![a] = r]
    BY <1>1 DEF StartBoot
  <2>2. /\ phase[a] = "off" /\ Goto(a, "clean") /\ source' = [source EXCEPT ![a] = "incoming"]
        /\ UNCHANGED <<disk, next, everRan>>
    BY <1>1 DEF StartBoot
  <2>3. r \in Recipe \cup {None} /\ (r # None => recipeFile[NameOf[r.of]] \in Recipe)
    BY <2>1 DEF TypeOK, VaultInv
  <2>4. /\ hand' \in [Attempts -> Recipe \cup {None}] /\ hand'[a] = r
        /\ \A b \in Attempts : b # a => hand'[b] = hand[b]
    BY <2>1, <2>3 DEF TypeOK
  <2>5. /\ HandInv' /\ phase' \in [Attempts -> Phases] /\ moved' \subseteq Attempts
        /\ phase'[a] = "clean" /\ \A b \in Attempts : b # a => phase'[b] = phase[b]
    BY <2>2, <2>3, <2>4, Own DEF Phases, disk
  <2>6. VaultInv'
    BY <2>2, <2>5, KeepVault DEF disk, VaultInv
  <2> QED
    BY <2>2, <2>4, <2>5, <2>6 DEF TypeOK, disk
<1>2. CASE CleanStaleSwap(a)
  <2> DEFINE p == IF hand[a] = None THEN "fallback" ELSE "verify"
  <2>1. /\ phase[a] = "clean" /\ Goto(a, p) /\ tmps' = {}
        /\ UNCHANGED <<tree, manifest, recipeFile, pinned, hand, source, next, everRan>>
    BY <1>2 DEF CleanStaleSwap
  <2>2. p \in Phases /\ p \in {"fallback", "verify"} /\ (p = "verify" => hand[a] \in Recipe)
    BY DEF Phases, TypeOK
  <2>3. hand[a] # None => recipeFile[NameOf[hand[a].of]] \in Recipe
    BY <2>1 DEF HandInv
  <2> HIDE DEF p
  <2>4. /\ HandInv' /\ phase' \in [Attempts -> Phases] /\ moved' \subseteq Attempts
        /\ phase'[a] = p /\ \A b \in Attempts : b # a => phase'[b] = phase[b]
    BY <2>1, <2>2, <2>3, Own DEF TypeOK
  <2>5. VaultInv'
    BY <2>1, <2>2, <2>4, KeepVault DEF VaultInv
  <2> QED
    BY <2>1, <2>4, <2>5 DEF TypeOK
<1>3. CASE VerifyIncoming(a)
  <2> DEFINE r == recipeFile[NameOf[hand[a].of]]  p == IF Verifies(r) THEN "pin" ELSE "fallback"
  <2>1. /\ phase[a] = "verify" /\ Goto(a, p) /\ hand' = [hand EXCEPT ![a] = r]
        /\ UNCHANGED <<disk, source, next, everRan>>
    BY <1>3 DEF VerifyIncoming
  <2>2. r \in Recipe
    BY <2>1, RecipeFacts DEF HandInv
  <2>3. p \in Phases /\ p \in {"pin", "fallback"} /\ (p = "pin" => Verifies(r) /\ Known(r))
    BY <2>2, VerifiesKnown DEF Phases
  <2> HIDE DEF p, r
  <2>4. /\ hand' \in [Attempts -> Recipe \cup {None}] /\ hand'[a] = r
        /\ \A b \in Attempts : b # a => hand'[b] = hand[b]
    BY <2>1, <2>2 DEF TypeOK
  <2>5. /\ HandInv' /\ phase' \in [Attempts -> Phases] /\ moved' \subseteq Attempts
        /\ phase'[a] = p /\ \A b \in Attempts : b # a => phase'[b] = phase[b]
    BY <2>1, <2>3, <2>4, Own DEF disk
  <2>6. VaultInv'
    BY <2>1, <2>3, <2>5, KeepVault DEF disk, VaultInv
  <2> QED
    BY <2>1, <2>4, <2>5, <2>6 DEF TypeOK, disk
<1>4. CASE WritePinTmp(a)
  <2>1. /\ phase[a] = "pin" /\ Goto(a, "rename") /\ tmps' = tmps \cup {a}
        /\ UNCHANGED <<tree, manifest, recipeFile, pinned, hand, source, next, everRan>>
    BY <1>4 DEF WritePinTmp
  <2>2. Known(hand[a])
    BY <2>1 DEF HandInv
  <2>3. /\ HandInv' /\ phase' \in [Attempts -> Phases] /\ moved' \subseteq Attempts
        /\ phase'[a] = "rename" /\ \A b \in Attempts : b # a => phase'[b] = phase[b]
    BY <2>1, <2>2, Own DEF TypeOK, Phases
  <2>4. VaultInv'
    BY <2>1, <2>3, KeepVault DEF VaultInv
  <2> QED
    BY <2>1, <2>3, <2>4 DEF TypeOK
<1> QED
  BY <1>1, <1>2, <1>3, <1>4

\* The rename of the pin and the fallback to it.
LEMMA PinStep ==
  ASSUME IInv, NEW a \in Attempts, RenamePin(a) \/ Fallback(a)
  PROVE  IInv'
<1> USE DEF IInv
<1>1. CASE RenamePin(a)
  <2> DEFINE p == phase'[a]
  <2>1. /\ phase[a] = "rename" /\ tmps' = tmps \ {a}
        /\ UNCHANGED <<tree, manifest, recipeFile, hand, source, next, everRan>>
        /\ \/ pinned' = hand[a] /\ Goto(a, "boot")
           \/ pinned' = pinned /\ Goto(a, "fallback")
    BY <1>1 DEF RenamePin
  <2>2. Known(hand[a]) /\ hand[a] \in Recipe /\ hand[a] # None
    BY <2>1, RecipeFacts DEF HandInv, Known
  <2>3. /\ HandInv' /\ phase' \in [Attempts -> Phases] /\ moved' \subseteq Attempts
        /\ phase'[a] \in {"boot", "fallback"} /\ \A b \in Attempts : b # a => phase'[b] = phase[b]
    <3>1. CASE Goto(a, "boot")
      BY <2>1, <2>2, <3>1, Own DEF TypeOK, Phases
    <3>2. CASE Goto(a, "fallback")
      BY <2>1, <2>2, <3>2, Own DEF TypeOK, Phases
    <3> QED
      BY <2>1, <3>1, <3>2
  <2>4. VaultInv'
    <3>1. CASE pinned' = pinned /\ Goto(a, "fallback")
      <4>1. phase'[a] = "fallback"
        BY <3>1 DEF Goto, TypeOK
      <4> QED
        BY <2>1, <2>3, <3>1, <4>1, KeepVault DEF VaultInv
    <3>2. CASE pinned' = hand[a]
      <4>1. \A r : Known(r)' <=> Known(r)
        BY <2>1 DEF Known, There
      <4>2. pinned' # None /\ recipeFile' = recipeFile /\ Known(pinned')
        BY <2>1, <2>2, <3>2
      <4> QED
        BY <4>1, <4>2 DEF VaultInv, Known, There
    <3> QED
      BY <2>1, <3>1, <3>2
  <2>5. pinned' \in Recipe \cup {None}
    BY <2>1, <2>2 DEF TypeOK
  <2> QED
    BY <2>1, <2>3, <2>4, <2>5 DEF TypeOK
<1>2. CASE Fallback(a)
  <2> DEFINE p == IF pinned # None /\ Verifies(pinned) THEN "boot" ELSE "refused"
  <2>1. /\ Goto(a, p) /\ hand' = [hand EXCEPT ![a] = pinned] /\ source' = [source EXCEPT ![a] = "pinned"]
        /\ UNCHANGED <<disk, next, everRan>>
    BY <1>2 DEF Fallback
  <2>2. p \in Phases /\ p \in {"boot", "refused"} /\ (p = "boot" => pinned # None /\ Known(pinned))
    BY DEF Phases, VaultInv
  <2> HIDE DEF p
  <2>3. /\ hand' \in [Attempts -> Recipe \cup {None}] /\ hand'[a] = pinned
        /\ \A b \in Attempts : b # a => hand'[b] = hand[b]
    BY <2>1 DEF TypeOK
  <2>4. /\ HandInv' /\ phase' \in [Attempts -> Phases] /\ moved' \subseteq Attempts
        /\ phase'[a] = p /\ \A b \in Attempts : b # a => phase'[b] = phase[b]
    BY <2>1, <2>2, <2>3, Own DEF disk
  <2>5. VaultInv'
    BY <2>1, <2>2, <2>4, KeepVault DEF disk, VaultInv
  <2> QED
    BY <2>1, <2>3, <2>4, <2>5 DEF TypeOK, disk
<1> QED
  BY <1>1, <1>2

\* The two halves of bootComposition(), and the end of an attempt.
LEMMA BootStep ==
  ASSUME IInv, NEW a \in Attempts, BootVerify(a) \/ StartLaw(a) \/ Crash(a)
  PROVE  IInv'
<1> USE DEF IInv
<1>0. Thrown(a) \in {"fallback", "threw"}
  BY DEF Thrown
<1>1. CASE BootVerify(a)
  <2> DEFINE p == IF Verifies(hand[a]) /\ hand[a] \notin Unroutable THEN "start" ELSE Thrown(a)
  <2>1. phase[a] = "boot" /\ Goto(a, p) /\ UNCHANGED <<disk, hand, source, next, everRan>>
    BY <1>1 DEF BootVerify
  <2>2. /\ p \in Phases /\ p \in {"start", "fallback", "threw"}
        /\ p = "start" => Verifies(hand[a]) /\ hand[a] \notin Unroutable
    BY <1>0 DEF Phases
  <2> HIDE DEF p
  <2>3. Known(hand[a]) /\ pinned # None
    BY <2>1 DEF HandInv, VaultInv
  <2>4. /\ HandInv' /\ phase' \in [Attempts -> Phases] /\ moved' \subseteq Attempts
        /\ phase'[a] = p /\ \A b \in Attempts : b # a => phase'[b] = phase[b]
    BY <2>1, <2>2, <2>3, Own DEF disk, TypeOK
  <2>5. VaultInv'
    BY <2>1, <2>3, <2>4, KeepVault DEF disk, VaultInv
  <2> QED
    BY <2>1, <2>4, <2>5 DEF TypeOK, disk
<1>2. CASE StartLaw(a)
  <2>1. /\ phase[a] = "start" /\ UNCHANGED <<disk, hand, source, next>>
        /\ \/ Goto(a, "up") /\ everRan' = TRUE
           \/ Goto(a, Thrown(a)) /\ everRan' = everRan
    BY <1>2 DEF StartLaw
  <2>2. Known(hand[a]) /\ hand[a] \notin Unroutable /\ pinned # None
    BY <2>1 DEF HandInv, VaultInv
  <2>3. /\ HandInv' /\ phase' \in [Attempts -> Phases] /\ moved' \subseteq Attempts
        /\ phase'[a] \in {"up", "fallback", "threw"} /\ \A b \in Attempts : b # a => phase'[b] = phase[b]
    <3>1. CASE Goto(a, "up")
      BY <2>1, <2>2, <3>1, Own DEF TypeOK, Phases, disk
    <3>2. CASE Goto(a, Thrown(a))
      <4>1. Thrown(a) \in Phases
        BY <1>0 DEF Phases
      <4> QED
        BY <1>0, <2>1, <2>2, <3>2, <4>1, Own DEF TypeOK, disk
    <3> QED
      BY <2>1, <3>1, <3>2
  <2>4. VaultInv'
    BY <2>1, <2>2 DEF VaultInv, Known, There, disk
  <2>5. everRan' \in BOOLEAN
    BY <2>1 DEF TypeOK
  <2> QED
    BY <2>1, <2>3, <2>4, <2>5 DEF TypeOK, disk
<1>3. CASE Crash(a)
  <2>1. /\ Goto(a, "off") /\ hand' = [hand EXCEPT ![a] = None] /\ next' = [next EXCEPT ![a] = 1]
        /\ source' = [source EXCEPT ![a] = "incoming"] /\ UNCHANGED <<disk, everRan>>
    BY <1>3 DEF Crash
  <2>2. /\ hand' \in [Attempts -> Recipe \cup {None}] /\ hand'[a] = None
        /\ \A b \in Attempts : b # a => hand'[b] = hand[b]
    BY <2>1 DEF TypeOK
  <2>3. /\ HandInv' /\ phase' \in [Attempts -> Phases] /\ moved' \subseteq Attempts
        /\ phase'[a] = "off" /\ \A b \in Attempts : b # a => phase'[b] = phase[b]
    BY <2>1, <2>2, Own DEF Phases, disk
  <2>4. VaultInv'
    BY <2>1, <2>3, KeepVault DEF disk, VaultInv
  <2>5. next' \in [Attempts -> 1..Entries + 1]
    BY <2>1, RecoveryAssumption DEF TypeOK
  <2> QED
    BY <2>1, <2>2, <2>3, <2>4, <2>5 DEF TypeOK, disk
<1> QED
  BY <1>1, <1>2, <1>3

-----------------------------------------------------------------------------
\* recipe.ts, recovery.ts, boot.ts: the invariant of a vault directory over all
\* compiles, edits, boots and crashes.
THEOREM Inductive == Spec => []IInv
<1>1. ASSUME IInv, [Next]_vars PROVE IInv'
  <2>1. CASE \E t \in Sources : \E v \in VersionsOf[t] : Edit(t, v)
    BY <1>1, <2>1, EditInv
  <2>2. ASSUME NEW a \in Attempts,
               \/ (\E s \in Specs : StartCompile(a, s)) \/ WriteManifest(a) \/ WriteRecipe(a)
               \/ StartBoot(a) \/ CleanStaleSwap(a) \/ VerifyIncoming(a) \/ WritePinTmp(a) \/ RenamePin(a)
               \/ Fallback(a) \/ BootVerify(a) \/ StartLaw(a) \/ Crash(a)
        PROVE  IInv'
    BY <1>1, <2>2, CompileInv, WriteManifestInv, VerifyInv, PinStep, BootStep
  <2>3. CASE UNCHANGED vars
    BY <1>1, <2>3 DEF vars, IInv, TypeOK, HandInv, VaultInv, Known, There, Verifies
  <2> QED
    BY <1>1, <2>1, <2>2, <2>3 DEF Next
<1> QED
  BY <1>1, InitInv, PTL DEF Spec

\* Every reachable vault directory and attempt has its type.
THEOREM TypeCorrect == Spec => []TypeOK
<1>1. IInv => TypeOK
  BY DEF IInv
<1> QED
  BY <1>1, Inductive, PTL

\* B4: what runs was verified after it was pinned, and nothing but an edit of a
\* source or a compile under its name has made it stop verifying since.
THEOREM VerifiedRuns == Spec => []RunsOnlyVerified
<1>1. IInv => RunsOnlyVerified
  BY DEF IInv, HandInv, RunsOnlyVerified
<1> QED
  BY <1>1, Inductive, PTL

\* recovery.ts: the pin only ever changes to a recipe verified as a whole by the
\* attempt that pins it.
THEOREM PinIsVerified == Spec => PinnedAfterVerification
<1> DEFINE Good == \E a \in Attempts : /\ phase[a] = "rename" /\ pinned' = hand[a]
                                       /\ Verifies(hand[a]) \/ a \in moved
<1>1. ASSUME IInv, Next, pinned' # pinned PROVE Good
  <2>1. PICK a \in Attempts : RenamePin(a)
    BY <1>1 DEF Next, Edit, StartCompile, WriteManifest, WriteRecipe, StartBoot, CleanStaleSwap,
       VerifyIncoming, WritePinTmp, Fallback, BootVerify, StartLaw, Crash, disk
  <2> QED
    BY <1>1, <2>1 DEF RenamePin, IInv, HandInv
<1>2. IInv /\ [Next]_vars => [pinned' # pinned => Good]_vars
  BY <1>1
<1> QED
  BY <1>2, Inductive, PTL DEF Spec, PinnedAfterVerification

\* A pinned recipe that does not verify or cannot be routed fell to one of the gaps.
LEMMA WhyNot ==
  ASSUME IInv, NEW r, Known(r), ~Verifies(r) \/ r \in Unroutable
  PROVE  Gap(r)
<1>1. r \in Recipe /\ There(NameOf[r.of]) /\ NameOf[r.of] \in Names /\ r.v \in [1..Entries -> Versions]
  BY RecipeFacts DEF Known, Recipe
<1>2. CASE r \in Unroutable
  BY <1>2 DEF Gap
<1>3. CASE manifest[NameOf[r.of]] # r.v
  <2> DEFINE written == manifest[NameOf[r.of]]
  <2>1. written \in [1..Entries -> Versions \cup {"none"}]
    BY <1>1 DEF IInv, TypeOK
  <2>2. PICK e \in 1..Entries : written[e] # r.v[e]
    <3> HIDE DEF written
    <3> SUFFICES ASSUME \A e \in 1..Entries : written[e] = r.v[e] PROVE FALSE
      OBVIOUS
    <3>1. written # r.v
      BY <1>3 DEF written
    <3>2. written = [e \in 1..Entries |-> written[e]] /\ r.v = [e \in 1..Entries |-> r.v[e]]
      BY <1>1, <2>1
    <3>3. [e \in 1..Entries |-> written[e]] = [e \in 1..Entries |-> r.v[e]]
      OBVIOUS
    <3> QED
      BY <3>1, <3>2, <3>3
  <2> QED
    BY <1>1, <2>2 DEF There, Gap
<1>4. CASE manifest[NameOf[r.of]] = r.v /\ ~Verifies(r)
  BY <1>4 DEF Verifies, Gap
<1> QED
  BY <1>2, <1>3, <1>4

\* recovery.ts, "preserves the previous one": once a composition has run, a boot
\* ends without one only over a law that did not start, a pin that cannot be
\* routed, an edited source, or a build directory another compile wrote into; no
\* rejected recipe and no crash outside a compile loses it.
THEOREM LastGoodSurvives == Spec => LostOnlyByGaps
<1>1. ASSUME IInv, Next PROVE LosesByGap
  <2> SUFFICES ASSUME NEW a \in Attempts, Loses(a), everRan
               PROVE  Tried(a) # None /\ (phase[a] = "start" \/ Gap(Tried(a)))
    BY DEF LosesByGap
  <2>1. Fallback(a) \/ BootVerify(a) \/ StartLaw(a)
    <3>1. phase'[a] # phase[a] /\ phase'[a] \in {"refused", "threw"} /\ phase \in [Attempts -> Phases]
      BY <1>1 DEF Loses, IInv, TypeOK
    <3>2. PICK b \in Attempts, p \in Phases : Goto(b, p) /\ (p \in {"refused", "threw"} =>
                                                Fallback(b) \/ BootVerify(b) \/ StartLaw(b))
      BY <1>1, <3>1 DEF Next, Edit, StartCompile, WriteManifest, WriteRecipe, StartBoot, CleanStaleSwap,
         VerifyIncoming, WritePinTmp, RenamePin, Fallback, BootVerify, StartLaw, Thrown, Crash, Phases
    <3>3. b = a /\ p = phase'[a]
      BY <3>1, <3>2 DEF Goto
    <3> QED
      BY <3>1, <3>2, <3>3
  <2>2. CASE Fallback(a)
    <3>1. phase[a] = "fallback" /\ Tried(a) = pinned /\ pinned # None /\ Known(pinned)
      BY <1>1, <2>2 DEF Fallback, Tried, IInv, VaultInv
    <3>2. ~Verifies(pinned)
      BY <1>1, <2>2, <3>1 DEF Fallback, Goto, Loses, IInv, TypeOK
    <3> QED
      BY <1>1, <3>1, <3>2, WhyNot
  <2>3. CASE BootVerify(a)
    <3>1. phase[a] = "boot" /\ Tried(a) = hand[a] /\ Known(hand[a]) /\ hand[a] # None
      BY <1>1, <2>3, RecipeFacts DEF BootVerify, Tried, IInv, HandInv, Known
    <3>2. ~Verifies(hand[a]) \/ hand[a] \in Unroutable
      BY <1>1, <2>3 DEF BootVerify, Goto, Loses, IInv, TypeOK
    <3> QED
      BY <1>1, <3>1, <3>2, WhyNot
  <2>4. CASE StartLaw(a)
    BY <1>1, <2>4, RecipeFacts DEF StartLaw, Tried, IInv, HandInv, Known
  <2> QED
    BY <2>1, <2>2, <2>3, <2>4
<1>2. IInv /\ [Next]_vars => [LosesByGap]_vars
  BY <1>1
<1> QED
  BY <1>2, Inductive, PTL DEF Spec, LostOnlyByGaps
=============================================================================
