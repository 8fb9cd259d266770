---------------------------- MODULE DaemonProofs ---------------------------
(***************************************************************************)
(* Proofs about Daemon for any specs, recipe files and `use` requests, and  *)
(* any number of writes.                                                    *)
(*                                                                         *)
(* That the drift check is exact of the sources it looks at rests on the    *)
(* clock: a target whose mtime is the one a record was made with has had no *)
(* source written since, so the sources compiled then are those it has now. *)
(* The inductive invariant says this of the record that serves, of the      *)
(* records about to be swapped in and of the boots under way.  Of the       *)
(* compile cache it needs nothing: what a hit serves is verified, against   *)
(* the sources, before it is booted.                                        *)
(***************************************************************************)
EXTENDS Daemon, TLAPS

Stages == {"never", "idle", "boot", "recover", "close", "answered"}
States == {"none", "booting", "up", "closing", "closed"}
Recipe == [of : Targets \cup {"none"}, c : Content]
Built == [of : Specs \cup {"none"}, c : Content]
Stat == [c : Content, m : 0..MaxWrites]
Record == [host : Hosts, spec : Specs \cup {"none"}, sha : Recipe, snapshot : 0..NoSnapshot]

\* The types of the state that TypeOK leaves out.
MoreTypes ==
  /\ clock \in 0..MaxWrites /\ writes \in 0..MaxWrites /\ clock + writes <= MaxWrites
  /\ cache \in [Keys -> Stat \cup {None}] /\ snap \in [Uses -> Stat]
  /\ hit \in [Uses -> BOOLEAN]
  /\ running \in Record /\ next \in [Uses -> Record]
  /\ old \in [Uses \cup {"daemon"} -> Hosts]
  /\ raced \subseteq Hosts /\ excused \subseteq Uses

Types == TypeOK /\ MoreTypes

\* A host is in flight, or its use is answered: then only can it serve, and only
\* a host that served is shut down by another use or by the daemon.
Done(h) == h \in Uses => stage[h] = "answered"

HostsInv ==
  /\ Done(running.host)
  /\ \A u \in Uses :
       /\ stage[u] \in {"never", "idle"} => state[u] = "none"
       /\ stage[u] = "close" => state[u] = "up" /\ next[u].host = u /\ Done(old[u])
  /\ open = "closing" => Done(old["daemon"])

\* Two swaps that overlap are known to; a use that overlaps none shuts down the
\* host that serves.
RacedInv ==
  \A u \in Uses : stage[u] = "close" =>
    /\ old[u] = running.host \/ running.host \in raced
    /\ \A v \in Uses : v # u /\ stage[v] = "close" => u \in raced

\* The clock is ahead of what was written.
ClockInv == \A t \in Targets : mtime[t] <= clock

\* A record is current as long as its snapshot is the mtime of its target.
RecordIsCurrent(r) ==
  /\ r.spec \in Specs =>
       /\ r.sha.of \notin Recipes /\ r.snapshot <= clock
       /\ r.host \notin excused /\ r.snapshot = mtime[r.spec] => Serves(r.host, r.spec)
  /\ r.spec \notin Specs =>
       /\ r.snapshot = NoSnapshot
       /\ r.host \notin excused =>
            runs[r.host].of = r.sha.of /\ runs[r.host].c["src"] = r.sha.c["src"]

RecordsInv ==
  /\ RecordIsCurrent(running)
  /\ \A u \in Uses : stage[u] = "close" => RecordIsCurrent(next[u])

\* A boot runs the sources of its target, or is excused; one the cache served
\* runs those of the restat before it.
BootIsCurrent(u) ==
  /\ stage[u] = "recover" => u \in excused
  /\ hit[u] => Target[u] \in Specs /\ snap[u].m <= clock
  /\ u \notin excused /\ (hit[u] => snap[u].m = mtime[Target[u]]) => Serves(u, Target[u])

BootInv == \A u \in Uses : stage[u] \in {"boot", "recover"} => BootIsCurrent(u)

IInv == Types /\ HostsInv /\ RacedInv /\ ClockInv /\ RecordsInv /\ BootInv

-----------------------------------------------------------------------------
\* What the types and the assumption say, with names for the sets.
LEMMA TypeFacts ==
  ASSUME Types
  PROVE  /\ Target \in [Uses -> Targets] /\ First \in Specs /\ First \notin Uses /\ First \in Hosts
         /\ Specs \cap Recipes = {} /\ MaxWrites \in Nat /\ NoSnapshot = MaxWrites + 1
         /\ "none" \notin Targets /\ "daemon" \notin Uses
         /\ content \in [Targets -> Content] /\ mtime \in [Targets -> 0..MaxWrites]
         /\ build \in [Names -> Built] /\ pinned \in Recipe /\ runs \in [Hosts -> Recipe]
         /\ state \in [Hosts -> States] /\ stage \in [Uses -> Stages]
         /\ \A t \in Targets : Now(t) \in Recipe /\ Now(t).of = t /\ Now(t).c = content[t]
         /\ None \in Recipe /\ None \in Built /\ NoSnap \in Stat /\ NoRecord \in Record
         /\ \A s \in Specs : s \in Targets /\ Name[s] \in Names /\ Key(s) \in Keys
         /\ \A r \in Built : r \in Recipe
<1> USE DaemonAssumption DEF Types, TypeOK, MoreTypes
<1>1. /\ Target \in [Uses -> Targets] /\ First \in Specs /\ First \notin Uses /\ First \in Hosts
      /\ Specs \cap Recipes = {} /\ MaxWrites \in Nat /\ NoSnapshot = MaxWrites + 1
      /\ "none" \notin Targets /\ "daemon" \notin Uses
  BY DEF Hosts, NoSnapshot
<1>2. /\ content \in [Targets -> Content] /\ mtime \in [Targets -> 0..MaxWrites]
      /\ build \in [Names -> Built] /\ pinned \in Recipe /\ runs \in [Hosts -> Recipe]
  BY DEF Recipe, Built
<1>3. \A t \in Targets : Now(t) \in Recipe /\ Now(t).of = t /\ Now(t).c = content[t]
  BY <1>2 DEF Now, Recipe
<1>4. 0 \in 0..MaxWrites /\ 0 \in 0..NoSnapshot /\ Blank \in Content
  BY <1>1 DEF Blank, Content
<1>5. None \in Recipe /\ None \in Built /\ NoSnap \in Stat
  BY <1>4 DEF None, NoSnap, Recipe, Built, Stat
<1>6. NoRecord \in Record
  BY <1>1, <1>4, <1>5 DEF NoRecord, Record
<1>7. \A s \in Specs : s \in Targets /\ Name[s] \in Names /\ Key(s) \in Keys
  <2> SUFFICES ASSUME NEW s \in Specs PROVE s \in Targets /\ Name[s] \in Names /\ Key(s) \in Keys
    OBVIOUS
  <2>1. s \in Targets /\ Name[s] \in Names
    BY DEF Targets, Names
  <2>2. content[s]["spec"] \in {0, 1}
    BY <1>2, <2>1 DEF Content, Parts
  <2> QED
    BY <2>1, <2>2 DEF Key, Keys
<1>8. \A r \in Built : r \in Recipe
  BY DEF Built, Recipe, Targets
<1>9. state \in [Hosts -> States] /\ stage \in [Uses -> Stages]
  BY DEF States, Stages
<1> QED
  BY <1>1, <1>2, <1>3, <1>5, <1>6, <1>7, <1>8, <1>9

\* A write: the clock moves past every mtime a record or a restat can hold, or
\* the sources stay as they are.
LEMMA WriteInv ==
  ASSUME IInv, NEW t \in Targets, NEW p \in Parts, NEW c \in {0, 1}, Write(t, p, c)
  PROVE  IInv'
<1> USE DEF IInv
<1>1. /\ writes > 0 /\ writes' = writes - 1 /\ content' = [content EXCEPT ![t][p] = c]
      /\ p = "src" => /\ clock' = clock + 1 /\ mtime' = [mtime EXCEPT ![t] = clock']
                      /\ excused' = excused \cup {u \in Uses : stage[u] = "boot" /\ ~hit[u] /\ Target[u] = t}
      /\ p # "src" => clock' = clock /\ mtime' = mtime /\ excused' = excused
      /\ UNCHANGED <<cache, build, pinned, state, runs, strays, running, stage, snap, hit, next, old, open, raced>>
  BY DEF Write
<1>2. /\ clock \in 0..MaxWrites /\ writes \in 0..MaxWrites /\ MaxWrites \in Nat /\ clock' \in 0..MaxWrites
      /\ writes' \in 0..MaxWrites /\ clock' + writes' <= MaxWrites
  BY <1>1, TypeFacts DEF MoreTypes, Types
<1>3. /\ mtime \in [Targets -> 0..MaxWrites] /\ mtime' \in [Targets -> 0..MaxWrites]
      /\ \A s \in Targets : (p = "src" /\ s = t) \/ mtime'[s] = mtime[s]
      /\ p = "src" => mtime'[t] = clock + 1
  BY <1>1, <1>2, TypeFacts
<1>4. content' \in [Targets -> Content]
  BY <1>1, TypeFacts DEF Content
<1>5. \A s \in Targets : (p = "src" /\ s = t) \/ content'[s]["src"] = content[s]["src"]
  BY <1>1, TypeFacts DEF Content, Parts
<1>6. excused' \subseteq Uses /\ excused \subseteq excused'
  BY <1>1 DEF MoreTypes, Types
<1>7. Types'
  <2>1. TypeOK'
    BY <1>1, <1>3, <1>4 DEF TypeOK, Types
  <2>2. MoreTypes'
    BY <1>1, <1>2, <1>6 DEF MoreTypes, Types
  <2> QED
    BY <2>1, <2>2 DEF Types
<1>8. HostsInv' /\ RacedInv'
  BY <1>1 DEF HostsInv, RacedInv, Done
<1>9. ClockInv'
  BY <1>1, <1>2, <1>3 DEF ClockInv
<1>10. \A h, s : s \in Targets /\ Serves(h, s) => (p = "src" /\ s = t) \/ (runs'[h].of = s /\ runs'[h].c["src"] = content'[s]["src"])
  BY <1>1, <1>5 DEF Serves
<1>11. ASSUME NEW r \in Record, RecordIsCurrent(r)
      PROVE  /\ r.spec \in Specs =>
                  /\ r.sha.of \notin Recipes /\ r.snapshot <= clock'
                  /\ r.host \notin excused' /\ r.snapshot = mtime'[r.spec] =>
                       runs'[r.host].of = r.spec /\ runs'[r.host].c["src"] = content'[r.spec]["src"]
             /\ r.spec \notin Specs =>
                  /\ r.snapshot = NoSnapshot
                  /\ r.host \notin excused' =>
                       runs'[r.host].of = r.sha.of /\ runs'[r.host].c["src"] = r.sha.c["src"]
  <2>1. r.snapshot \in Nat
    BY <1>2, TypeFacts DEF Record
  <2>2. CASE r.spec \in Specs
    <3>1. r.spec \in Targets /\ r.sha.of \notin Recipes /\ r.snapshot <= clock
      BY <1>11, <2>2, TypeFacts DEF RecordIsCurrent
    <3>2. r.snapshot <= clock'
      BY <1>1, <1>2, <2>1, <3>1
    <3>3. ASSUME r.host \notin excused', r.snapshot = mtime'[r.spec]
          PROVE  runs'[r.host].of = r.spec /\ runs'[r.host].c["src"] = content'[r.spec]["src"]
      <4>1. ~(p = "src" /\ r.spec = t)
        BY <1>2, <1>3, <2>1, <3>1, <3>3
      <4>2. Serves(r.host, r.spec)
        BY <1>3, <1>6, <1>11, <2>2, <3>1, <3>3, <4>1 DEF RecordIsCurrent
      <4> QED
        BY <1>10, <3>1, <4>1, <4>2
    <3> QED
      BY <2>2, <3>1, <3>2, <3>3
  <2>3. CASE r.spec \notin Specs
    BY <1>1, <1>6, <1>11, <2>3 DEF RecordIsCurrent
  <2> QED
    BY <2>2, <2>3
<1>12. RecordsInv'
  BY <1>1, <1>11 DEF RecordsInv, RecordIsCurrent, Serves, MoreTypes, Types
<1>13. BootInv'
  <2> SUFFICES ASSUME NEW u \in Uses, stage[u] \in {"boot", "recover"}
               PROVE  /\ stage[u] = "recover" => u \in excused'
                      /\ hit[u] => Target[u] \in Specs /\ snap[u].m <= clock'
                      /\ u \notin excused' /\ (hit[u] => snap[u].m = mtime'[Target[u]]) =>
                           runs'[u].of = Target[u] /\ runs'[u].c["src"] = content'[Target[u]]["src"]
    BY <1>1 DEF BootInv, BootIsCurrent, Serves
  <2>1. BootIsCurrent(u) /\ Target[u] \in Targets /\ snap[u].m \in 0..MaxWrites
    BY TypeFacts DEF BootInv, MoreTypes, Types, Stat
  <2>2. hit[u] => snap[u].m <= clock'
    BY <1>1, <1>2, <2>1 DEF BootIsCurrent
  <2>3. ASSUME u \notin excused', hit[u] => snap[u].m = mtime'[Target[u]]
        PROVE  runs'[u].of = Target[u] /\ runs'[u].c["src"] = content'[Target[u]]["src"]
    <3>1. stage[u] = "boot"
      BY <1>6, <2>1, <2>3 DEF BootIsCurrent
    <3>2. ~(p = "src" /\ Target[u] = t)
      BY <1>1, <1>2, <1>3, <2>1, <2>3, <3>1 DEF BootIsCurrent
    <3>3. Serves(u, Target[u])
      BY <1>3, <1>6, <2>1, <2>3, <3>2 DEF BootIsCurrent
    <3> QED
      BY <1>10, <2>1, <3>2, <3>3
  <2> QED
    BY <1>6, <2>1, <2>2, <2>3 DEF BootIsCurrent
<1> QED
  BY <1>7, <1>8, <1>9, <1>12, <1>13

\* A step of use u that neither swaps nor is about to: the records and the other
\* hosts are left alone, and if a boot of u goes on it is current.
LEMMA Alone ==
  ASSUME IInv, NEW u \in Uses,
         stage[u] \in {"idle", "boot", "recover"}, stage'[u] \in {"boot", "recover", "answered"},
         UNCHANGED <<disk, running, open, raced>>, old'["daemon"] = old["daemon"],
         \A v \in Uses : v # u => /\ stage'[v] = stage[v] /\ snap'[v] = snap[v] /\ hit'[v] = hit[v]
                                  /\ next'[v] = next[v] /\ old'[v] = old[v],
         \A h \in Hosts : h # u => /\ state'[h] = state[h] /\ runs'[h] = runs[h]
                                   /\ h \in excused' <=> h \in excused,
         stage'[u] \in {"boot", "recover"} => BootIsCurrent(u)'
  PROVE  HostsInv' /\ RacedInv' /\ ClockInv' /\ RecordsInv' /\ BootInv'
<1> USE DEF IInv
<1>1. running.host \in Hosts /\ running.host # u /\ \A v \in Uses : v \in Hosts
  BY DEF HostsInv, Done, MoreTypes, Types, Record, Hosts
<1>2. \A h : Done(h) => Done(h)'
  BY DEF Done
<1>3. \A v \in Uses : stage'[v] = "close" => v # u /\ stage[v] = "close" /\ next'[v] = next[v] /\ old'[v] = old[v]
  OBVIOUS
<1>4. HostsInv'
  <2>1. \A v \in Uses : stage'[v] \in {"never", "idle"} => state'[v] = "none"
    BY <1>1 DEF HostsInv
  <2>2. \A v \in Uses : stage'[v] = "close" => state'[v] = "up" /\ next'[v].host = v /\ Done(old[v])
    BY <1>1, <1>3 DEF HostsInv
  <2>3. \A v \in Uses : stage'[v] = "close" => Done(old[v])'
    BY <1>2, <1>3, <2>2 DEF Done
  <2> QED
    BY <1>2, <2>1, <2>2, <2>3 DEF HostsInv, Done
<1>5. RacedInv'
  BY <1>3 DEF RacedInv
<1>6. ClockInv'
  BY DEF ClockInv, disk
<1>7. \A h \in Hosts : h # u => runs'[h] = runs[h] /\ (h \in excused' <=> h \in excused)
  OBVIOUS
<1>8. clock' = clock /\ mtime' = mtime /\ content' = content /\ running' = running
  BY DEF disk
<1>9. ASSUME NEW r, RecordIsCurrent(r), r.host \in Hosts, r.host # u
      PROVE  /\ r.spec \in Specs =>
                  /\ r.sha.of \notin Recipes /\ r.snapshot <= clock'
                  /\ r.host \notin excused' /\ r.snapshot = mtime'[r.spec] =>
                       runs'[r.host].of = r.spec /\ runs'[r.host].c["src"] = content'[r.spec]["src"]
             /\ r.spec \notin Specs =>
                  /\ r.snapshot = NoSnapshot
                  /\ r.host \notin excused' =>
                       runs'[r.host].of = r.sha.of /\ runs'[r.host].c["src"] = r.sha.c["src"]
  BY <1>7, <1>8, <1>9 DEF RecordIsCurrent, Serves
<1>10. RecordsInv'
  <2>1. RecordIsCurrent(running)'
    BY <1>1, <1>8, <1>9 DEF RecordsInv, RecordIsCurrent, Serves
  <2>2. ASSUME NEW v \in Uses, stage'[v] = "close"
        PROVE  RecordIsCurrent(next[v])'
    <3>1. next'[v] = next[v] /\ RecordIsCurrent(next[v]) /\ next[v].host \in Hosts /\ next[v].host # u
      BY <1>1, <1>3, <2>2 DEF RecordsInv, HostsInv
    <3> DEFINE r == next[v]
    <3>2. r = next'[v] /\ RecordIsCurrent(r) /\ r.host \in Hosts /\ r.host # u
      BY <3>1
    <3> HIDE DEF r
    <3>3. /\ r.spec \in Specs =>
               /\ r.sha.of \notin Recipes /\ r.snapshot <= clock'
               /\ r.host \notin excused' /\ r.snapshot = mtime'[r.spec] =>
                    runs'[r.host].of = r.spec /\ runs'[r.host].c["src"] = content'[r.spec]["src"]
          /\ r.spec \notin Specs =>
               /\ r.snapshot = NoSnapshot
               /\ r.host \notin excused' =>
                    runs'[r.host].of = r.sha.of /\ runs'[r.host].c["src"] = r.sha.c["src"]
      BY <1>9, <3>2
    <3> QED
      BY <3>2, <3>3 DEF RecordIsCurrent, Serves
  <2> QED
    BY <2>1, <2>2 DEF RecordsInv
<1>11. BootInv'
  <2> SUFFICES ASSUME NEW v \in Uses, stage'[v] \in {"boot", "recover"}
               PROVE  BootIsCurrent(v)'
    BY DEF BootInv
  <2>1. CASE v # u
    <3>1. BootIsCurrent(v)
      BY <2>1 DEF BootInv
    <3> QED
      BY <1>1, <1>8, <2>1, <3>1 DEF BootIsCurrent, Serves
  <2> QED
    BY <2>1
<1> QED
  BY <1>4, <1>5, <1>6, <1>10, <1>11

\* A use that is answered, one way or another, has the types of Answer.
LEMMA AnswerTypes ==
  ASSUME Types, NEW u \in Uses, Answer(u)
  PROVE  /\ stage' \in [Uses -> Stages] /\ snap' \in [Uses -> Stat] /\ hit' \in [Uses -> BOOLEAN]
         /\ next' \in [Uses -> Record] /\ old' \in [Uses \cup {"daemon"} -> Hosts]
         /\ stage'[u] = "answered" /\ old'["daemon"] = old["daemon"]
         /\ \A v \in Uses : v # u =>
              /\ stage'[v] = stage[v] /\ snap'[v] = snap[v] /\ hit'[v] = hit[v]
              /\ next'[v] = next[v] /\ old'[v] = old[v]
<1>1. NoSnap \in Stat /\ NoRecord \in Record /\ First \in Hosts /\ "daemon" \notin Uses
  BY TypeFacts
<1> QED
  BY <1>1 DEF Answer, Types, TypeOK, MoreTypes, Stages

\* A request that fails: its host is no more.
LEMMA FailInv ==
  ASSUME IInv, NEW u \in Uses, Fail(u), stage[u] \in {"idle", "boot", "recover"},
         UNCHANGED <<disk, pinned, running, open, raced>>,
         build' \in [Names -> Built], cache' \in [Keys -> Stat \cup {None}], strays' \subseteq Uses
  PROVE  IInv'
<1>0. Types /\ Answer(u) /\ u \in Hosts
  BY DEF IInv, Fail, Hosts
<1>1. /\ stage' \in [Uses -> Stages] /\ snap' \in [Uses -> Stat] /\ hit' \in [Uses -> BOOLEAN]
      /\ next' \in [Uses -> Record] /\ old' \in [Uses \cup {"daemon"} -> Hosts]
      /\ stage'[u] = "answered" /\ old'["daemon"] = old["daemon"]
      /\ \A v \in Uses : v # u =>
           /\ stage'[v] = stage[v] /\ snap'[v] = snap[v] /\ hit'[v] = hit[v]
           /\ next'[v] = next[v] /\ old'[v] = old[v]
  BY <1>0, AnswerTypes
<1>2. /\ state' \in [Hosts -> States] /\ runs' \in [Hosts -> Recipe] /\ excused' \subseteq Uses
      /\ \A h \in Hosts : h # u => /\ state'[h] = state[h] /\ runs'[h] = runs[h]
                                   /\ h \in excused' <=> h \in excused
  BY <1>0, TypeFacts DEF Fail, States, MoreTypes, Types
<1>3. Types'
  <2>1. TypeOK'
    BY <1>0, <1>1, <1>2 DEF Types, TypeOK, disk, Recipe, Stages, States, Built
  <2>2. MoreTypes'
    BY <1>0, <1>1, <1>2 DEF Types, MoreTypes, disk
  <2> QED
    BY <2>1, <2>2 DEF Types
<1>4. HostsInv' /\ RacedInv' /\ ClockInv' /\ RecordsInv' /\ BootInv'
  BY <1>1, <1>2, Alone
<1> QED
  BY <1>3, <1>4 DEF IInv

\* A boot of recipe r begins: types, and what it leaves alone.
LEMMA BootTypes ==
  ASSUME Types, NEW u \in Uses, NEW p \in {"boot", "recover"}, NEW r \in Recipe, Boot(u, p, r)
  PROVE  /\ stage' \in [Uses -> Stages] /\ state' \in [Hosts -> States] /\ runs' \in [Hosts -> Recipe]
         /\ stage'[u] = p /\ runs'[u] = r
         /\ \A v \in Uses : v # u => stage'[v] = stage[v]
         /\ \A h \in Hosts : h # u => state'[h] = state[h] /\ runs'[h] = runs[h]
<1>1. u \in Hosts
  BY DEF Hosts
<1> QED
  BY <1>1, TypeFacts DEF Boot, Stages, States

\* What a use keeps of the restat before its boot.
LEMMA KeepTypes ==
  ASSUME Types, NEW u \in Uses, Keep(u)
  PROVE  /\ snap' \in [Uses -> Stat] /\ hit' \in [Uses -> BOOLEAN]
         /\ snap'[u].m = mtime[Target[u]] /\ (hit'[u] <=> Served(Target[u]))
         /\ \A v \in Uses : v # u => snap'[v] = snap[v] /\ hit'[v] = hit[v]
<1>1. Target[u] \in Targets /\ content[Target[u]] \in Content /\ mtime[Target[u]] \in 0..MaxWrites
  BY TypeFacts
<1>2. [c |-> content[Target[u]], m |-> mtime[Target[u]]] \in Stat
  BY <1>1 DEF Stat
<1>3. Served(Target[u]) \in BOOLEAN
  BY DEF Served, CacheHit
<1> QED
  BY <1>2, <1>3 DEF Keep, MoreTypes, Types

LEMMA RefreshTypes ==
  ASSUME Types, NEW t \in Targets, Refresh(t)
  PROVE  cache' \in [Keys -> Stat \cup {None}]
<1>1. CASE Served(t)
  <2>1. t \in Specs /\ Key(t) \in Keys /\ cache[Key(t)] # None /\ cache[Key(t)] \in Stat
    BY <1>1, TypeFacts DEF Served, CacheHit, MoreTypes, Types
  <2>2. mtime[t] \in 0..MaxWrites
    BY TypeFacts
  <2>3. [cache[Key(t)] EXCEPT !.m = mtime[t]] \in Stat
    BY <2>1, <2>2 DEF Stat
  <2> HIDE DEF Key
  <2> QED
    BY <1>1, <2>1, <2>3 DEF Refresh, MoreTypes, Types
<1>2. CASE ~Served(t)
  BY <1>2 DEF Refresh, MoreTypes, Types
<1> QED
  BY <1>1, <1>2

\* Recovery boots the pinned recipe for use u, which is excused from now on.
LEMMA RecoverInv ==
  ASSUME IInv, NEW u \in Uses, Recover(u), stage[u] \in {"idle", "boot"},
         UNCHANGED <<disk, build, pinned, running, next, old, open, raced>>,
         cache' \in [Keys -> Stat \cup {None}], strays' \subseteq Uses,
         Keep(u) \/ (stage[u] = "boot" /\ UNCHANGED <<snap, hit>>)
  PROVE  IInv'
<1> USE DEF IInv
<1>0. /\ Types /\ pinned \in Recipe /\ Boot(u, "recover", pinned) /\ excused' = excused \cup {u}
      /\ u \in Hosts /\ Target[u] \in Targets
  BY TypeFacts DEF Recover, Hosts
<1>1. /\ stage' \in [Uses -> Stages] /\ state' \in [Hosts -> States] /\ runs' \in [Hosts -> Recipe]
      /\ stage'[u] = "recover"
      /\ \A v \in Uses : v # u => stage'[v] = stage[v]
      /\ \A h \in Hosts : h # u => state'[h] = state[h] /\ runs'[h] = runs[h]
  BY <1>0, BootTypes
<1>2. /\ snap' \in [Uses -> Stat] /\ hit' \in [Uses -> BOOLEAN]
      /\ \A v \in Uses : v # u => snap'[v] = snap[v] /\ hit'[v] = hit[v]
      /\ hit'[u] => Target[u] \in Specs /\ snap'[u].m <= clock'
  <2>1. CASE Keep(u)
    <3>1. Served(Target[u]) => Target[u] \in Specs
      BY DEF Served
    <3>2. mtime[Target[u]] <= clock /\ clock' = clock
      BY <1>0 DEF ClockInv, disk
    <3> QED
      BY <1>0, <2>1, <3>1, <3>2, KeepTypes
  <2>2. CASE stage[u] = "boot" /\ UNCHANGED <<snap, hit>>
    <3>1. BootIsCurrent(u)
      BY <2>2 DEF BootInv
    <3> QED
      BY <1>0, <2>2, <3>1 DEF BootIsCurrent, MoreTypes, Types, disk
  <2> QED
    BY <2>1, <2>2
<1>3. Types'
  <2>1. TypeOK'
    BY <1>0, <1>1 DEF Types, TypeOK, disk, Recipe, Stages, States
  <2>2. MoreTypes'
    BY <1>0, <1>1, <1>2 DEF Types, MoreTypes, disk
  <2> QED
    BY <2>1, <2>2 DEF Types
<1>4. BootIsCurrent(u)'
  BY <1>0, <1>2 DEF BootIsCurrent
<1>5. \A h \in Hosts : h # u => (h \in excused' <=> h \in excused)
  BY <1>0
<1>6. HostsInv' /\ RacedInv' /\ ClockInv' /\ RecordsInv' /\ BootInv'
  BY <1>1, <1>2, <1>4, <1>5, Alone
<1> QED
  BY <1>3, <1>6

\* ensureCurrent() finds the running host current.
LEMMA UseCurrentInv ==
  ASSUME IInv, NEW u \in Uses, UseCurrent(u)
  PROVE  IInv'
<1>1. /\ Types /\ stage[u] = "idle" /\ Answer(u)
      /\ UNCHANGED <<disk, cache, build, pinned, state, runs, strays, running, open, raced, excused>>
  BY DEF IInv, UseCurrent
<1>2. /\ stage' \in [Uses -> Stages] /\ snap' \in [Uses -> Stat] /\ hit' \in [Uses -> BOOLEAN]
      /\ next' \in [Uses -> Record] /\ old' \in [Uses \cup {"daemon"} -> Hosts]
      /\ stage'[u] = "answered" /\ old'["daemon"] = old["daemon"]
      /\ \A v \in Uses : v # u =>
           /\ stage'[v] = stage[v] /\ snap'[v] = snap[v] /\ hit'[v] = hit[v]
           /\ next'[v] = next[v] /\ old'[v] = old[v]
  BY <1>1, AnswerTypes
<1>3. Types'
  <2>1. TypeOK'
    BY <1>1, <1>2 DEF Types, TypeOK, disk, Stages
  <2>2. MoreTypes'
    BY <1>1, <1>2 DEF Types, MoreTypes, disk
  <2> QED
    BY <2>1, <2>2 DEF Types
<1>4. HostsInv' /\ RacedInv' /\ ClockInv' /\ RecordsInv' /\ BootInv'
  BY <1>1, <1>2, Alone
<1> QED
  BY <1>3, <1>4 DEF IInv

\* A use boots the next host: what a hit serves from the build directory verifies
\* against the sources, what is compiled is compiled from them.
LEMMA UseBootsInv ==
  ASSUME IInv, NEW u \in Uses, UseBoots(u)
  PROVE  IInv'
<1> DEFINE t == Target[u]
           r == Incoming(t)
<1>0. Types /\ t \in Targets /\ u \in Hosts
  BY TypeFacts DEF IInv, Hosts
<1>1. /\ stage[u] = "idle" /\ (Served(t) \/ t \in Recipes => TRUE \in Verdicts(r))
      /\ build' = IF t \in Specs THEN [build EXCEPT ![Name[t]] = r] ELSE build
      /\ pinned' = r /\ Boot(u, "boot", r) /\ Keep(u) /\ Refresh(t)
      /\ excused' = IF r.of # t THEN excused \cup {u} ELSE excused
      /\ UNCHANGED <<disk, strays, running, next, old, open, raced>>
  BY DEF UseBoots, Wanted
<1>2. r \in Recipe /\ (t \in Specs => r \in Built)
  <2>1. CASE Served(t)
    <3>1. t \in Specs /\ r = build[Name[t]]
      BY <2>1 DEF Served, Incoming
    <3> QED
      BY <1>0, <3>1, TypeFacts
  <2>2. CASE ~Served(t)
    <3>1. r = Now(t) /\ r \in Recipe /\ r.of = t
      BY <1>0, <2>2, TypeFacts DEF Incoming
    <3> QED
      BY <3>1 DEF Built, Recipe
  <2> QED
    BY <2>1, <2>2
<1>3. r.of = t => r.c["src"] = content[t]["src"]
  <2>1. CASE Served(t)
    <3>1. TRUE \in Verdicts(r) /\ t \in Specs /\ t \notin Recipes
      BY <1>0, <1>1, <2>1, TypeFacts DEF Served
    <3>2. r.of = t => Hashed(content[t]) = Hashed(r.c)
      BY <3>1 DEF Verdicts
    <3> QED
      BY <3>2 DEF Hashed
  <2>2. CASE ~Served(t)
    <3>1. r.c = content[t]
      BY <1>0, <2>2, TypeFacts DEF Incoming
    <3> QED
      BY <3>1
  <2> QED
    BY <2>1, <2>2
<1> HIDE DEF r
<1>4. /\ stage' \in [Uses -> Stages] /\ state' \in [Hosts -> States] /\ runs' \in [Hosts -> Recipe]
      /\ stage'[u] = "boot" /\ runs'[u] = r
      /\ \A v \in Uses : v # u => stage'[v] = stage[v]
      /\ \A h \in Hosts : h # u => state'[h] = state[h] /\ runs'[h] = runs[h]
  BY <1>0, <1>1, <1>2, BootTypes
<1>5. /\ snap' \in [Uses -> Stat] /\ hit' \in [Uses -> BOOLEAN]
      /\ snap'[u].m = mtime[t] /\ (hit'[u] <=> Served(t))
      /\ \A v \in Uses : v # u => snap'[v] = snap[v] /\ hit'[v] = hit[v]
  BY <1>0, <1>1, KeepTypes
<1>6. cache' \in [Keys -> Stat \cup {None}]
  BY <1>0, <1>1, RefreshTypes
<1>7. build' \in [Names -> Built]
  BY <1>0, <1>1, <1>2, TypeFacts
<1>8. excused' \subseteq Uses /\ \A h \in Hosts : h # u => (h \in excused' <=> h \in excused)
  BY <1>0, <1>1 DEF Types, MoreTypes
<1>9. Types'
  <2>1. TypeOK'
    BY <1>0, <1>1, <1>2, <1>4, <1>7 DEF Types, TypeOK, disk, Recipe, Stages, States, Built
  <2>2. MoreTypes'
    BY <1>0, <1>1, <1>5, <1>6, <1>8 DEF Types, MoreTypes, disk
  <2> QED
    BY <2>1, <2>2 DEF Types
<1>10. BootIsCurrent(u)'
  <2>1. mtime[t] <= clock /\ clock' = clock /\ content' = content
    BY <1>0, <1>1 DEF IInv, ClockInv, disk
  <2>2. hit'[u] => t \in Specs /\ snap'[u].m <= clock'
    BY <1>5, <2>1 DEF Served
  <2>3. u \notin excused' => runs'[u].of = t /\ runs'[u].c["src"] = content'[t]["src"]
    BY <1>1, <1>3, <1>4, <2>1
  <2> QED
    BY <1>4, <2>2, <2>3 DEF BootIsCurrent, Serves
<1>11. HostsInv' /\ RacedInv' /\ ClockInv' /\ RecordsInv' /\ BootInv'
  BY <1>1, <1>4, <1>5, <1>8, <1>10, Alone
<1> QED
  BY <1>9, <1>11 DEF IInv

\* The recipe at hand is refused: the pinned one is booted, or the request fails.
LEMMA UseRecoversInv ==
  ASSUME IInv, NEW u \in Uses, UseRecovers(u)
  PROVE  IInv'
<1>1. /\ stage[u] = "idle" /\ Refresh(Target[u])
      /\ \/ Recover(u) /\ Keep(u) /\ UNCHANGED <<next, old>>
         \/ Fail(u)
      /\ UNCHANGED <<disk, build, pinned, strays, running, open, raced>>
  BY DEF UseRecovers, Wanted
<1>2. Types /\ Target[u] \in Targets /\ strays' \subseteq Uses /\ build' \in [Names -> Built]
  BY <1>1, TypeFacts DEF IInv, Types, TypeOK
<1>3. cache' \in [Keys -> Stat \cup {None}]
  BY <1>1, <1>2, RefreshTypes
<1>4. CASE Recover(u) /\ Keep(u) /\ UNCHANGED <<next, old>>
  BY <1>1, <1>2, <1>3, <1>4, RecoverInv
<1>5. CASE Fail(u)
  BY <1>1, <1>2, <1>3, <1>5, FailInv
<1> QED
  BY <1>1, <1>4, <1>5

\* The request fails before a boot; some manifests may have been written.
LEMMA UseFailsInv ==
  ASSUME IInv, NEW u \in Uses, UseFails(u)
  PROVE  IInv'
<1>1. /\ stage[u] = "idle" /\ Fail(u)
      /\ build' = build \/ (Target[u] \in Specs /\ build' = [build EXCEPT ![Name[Target[u]]] = None])
      /\ UNCHANGED <<disk, cache, pinned, strays, running, open, raced>>
  BY DEF UseFails
<1>2. Types /\ strays' \subseteq Uses /\ cache' \in [Keys -> Stat \cup {None}]
  BY <1>1 DEF IInv, Types, TypeOK, MoreTypes
<1>3. build' \in [Names -> Built]
  BY <1>1, <1>2, TypeFacts
<1> QED
  BY <1>1, <1>2, <1>3, FailInv

\* The boot throws: recovery goes on with the pinned recipe, or the request fails.
LEMMA BootThrowsInv ==
  ASSUME IInv, NEW u \in Uses, BootThrows(u)
  PROVE  IInv'
<1>1. /\ stage[u] \in {"boot", "recover"} /\ strays' \in {strays, strays \cup {u}}
      /\ \/ stage[u] = "boot" /\ Recover(u) /\ UNCHANGED <<snap, hit, next, old>>
         \/ Fail(u)
      /\ UNCHANGED <<disk, cache, build, pinned, running, open, raced>>
  BY DEF BootThrows
<1>2. strays' \subseteq Uses /\ cache' \in [Keys -> Stat \cup {None}] /\ build' \in [Names -> Built]
  BY <1>1, TypeFacts DEF IInv, Types, TypeOK, MoreTypes
<1>3. CASE stage[u] = "boot" /\ Recover(u) /\ UNCHANGED <<snap, hit, next, old>>
  BY <1>1, <1>2, <1>3, RecoverInv
<1>4. CASE Fail(u)
  BY <1>1, <1>2, <1>4, FailInv
<1> QED
  BY <1>1, <1>3, <1>4

\* The host is up, and the record it will serve with is made.
LEMMA BootEndsInv ==
  ASSUME IInv, NEW u \in Uses, BootEnds(u)
  PROVE  IInv'
<1> USE DEF IInv
<1> DEFINE t == Target[u]
           snapshot == IF hit[u] THEN snap[u].m ELSE mtime[t]
           rec == Made(u, snapshot)
<1>1. /\ stage[u] \in {"boot", "recover"} /\ stage' = [stage EXCEPT ![u] = "close"]
      /\ cache' = IF t \in Specs /\ ~hit[u] THEN [cache EXCEPT ![<<t, snap[u].c["spec"]>>] = snap[u]] ELSE cache
      /\ next' = [next EXCEPT ![u] = rec]
      /\ state' = [state EXCEPT ![u] = "up", ![running.host] = IF @ = "closed" THEN @ ELSE "closing"]
      /\ old' = [old EXCEPT ![u] = running.host]
      /\ raced' = IF \E v \in Uses \ {u} : stage[v] = "close"
                    THEN raced \cup {v \in Uses : v = u \/ stage[v] = "close"} ELSE raced
      /\ UNCHANGED <<disk, build, pinned, runs, strays, running, snap, hit, open, excused>>
  BY DEF BootEnds, Arrives
<1>2. /\ t \in Targets /\ snap[u] \in Stat /\ hit[u] \in BOOLEAN /\ clock \in 0..MaxWrites
      /\ u \in Hosts /\ running.host \in Hosts /\ MaxWrites \in Nat /\ mtime[t] \in 0..MaxWrites
      /\ BootIsCurrent(u) /\ mtime[t] <= clock
  BY <1>1, TypeFacts DEF MoreTypes, Types, BootInv, ClockInv, Hosts, Record
<1>3. running.host # u /\ Done(running.host)
  BY <1>1 DEF HostsInv, Done
<1>4. snapshot \in 0..MaxWrites /\ snapshot \in 0..NoSnapshot /\ NoSnapshot \in 0..NoSnapshot
  BY <1>2, TypeFacts DEF Stat
<1>5. ASSUME t \in Specs
      PROVE  rec \in Record /\ rec.host = u /\ RecordIsCurrent(rec)
  <2>1. rec = [host |-> u, spec |-> t, sha |-> build[Name[t]], snapshot |-> snapshot]
    BY <1>5 DEF Made
  <2>2. build[Name[t]] \in Built /\ build[Name[t]] \in Recipe
    BY <1>5, TypeFacts
  <2>3. build[Name[t]].of \notin Recipes
    BY <2>2, TypeFacts DEF Built, Targets
  <2>4. rec \in Record /\ rec.host = u
    BY <1>2, <1>4, <1>5, <2>1, <2>2 DEF Record
  <2>5. snapshot <= clock
    BY <1>2 DEF BootIsCurrent
  <2>6. u \notin excused /\ snapshot = mtime[t] => Serves(u, t)
    BY <1>2 DEF BootIsCurrent
  <2>7. RecordIsCurrent(rec)
    BY <1>5, <2>1, <2>3, <2>5, <2>6 DEF RecordIsCurrent
  <2> QED
    BY <2>4, <2>7
<1>6. ASSUME t \notin Specs
      PROVE  rec \in Record /\ rec.host = u /\ RecordIsCurrent(rec)
  <2>1. rec = [host |-> u, spec |-> "none", sha |-> Now(t), snapshot |-> NoSnapshot]
    BY <1>6 DEF Made
  <2>2. Now(t) \in Recipe /\ Now(t).of = t /\ Now(t).c = content[t] /\ "none" \notin Specs
    BY <1>2, TypeFacts DEF Targets
  <2>3. rec \in Record /\ rec.host = u
    BY <1>2, <1>4, <2>1, <2>2 DEF Record
  <2>4. u \notin excused => Serves(u, t)
    BY <1>2, <1>6 DEF BootIsCurrent
  <2>5. RecordIsCurrent(rec)
    BY <2>1, <2>2, <2>4 DEF RecordIsCurrent, Serves
  <2> QED
    BY <2>3, <2>5
<1>7. rec \in Record /\ rec.host = u /\ RecordIsCurrent(rec)
  BY <1>5, <1>6
<1> HIDE DEF rec, snapshot
<1>8. "daemon" \notin Uses
  BY TypeFacts
<1>9. /\ next' \in [Uses -> Record] /\ next'[u] = rec
      /\ old' \in [Uses \cup {"daemon"} -> Hosts] /\ old'[u] = running.host /\ old'["daemon"] = old["daemon"]
      /\ \A v \in Uses : v # u => next'[v] = next[v] /\ old'[v] = old[v]
  BY <1>1, <1>2, <1>7, <1>8 DEF MoreTypes, Types
<1>10. /\ stage' \in [Uses -> Stages] /\ state' \in [Hosts -> States]
       /\ stage'[u] = "close" /\ state'[u] = "up"
       /\ \A v \in Uses : v # u => stage'[v] = stage[v]
       /\ \A h \in Hosts : h # u /\ h # running.host => state'[h] = state[h]
  BY <1>1, <1>2, <1>3, TypeFacts DEF Stages, States
<1>11. cache' \in [Keys -> Stat \cup {None}]
  <2>1. t \in Specs => <<t, snap[u].c["spec"]>> \in Keys
    BY <1>2 DEF Stat, Content, Parts, Keys
  <2> QED
    BY <1>1, <1>2, <2>1 DEF MoreTypes, Types
<1>12. raced' \subseteq Hosts /\ raced \subseteq raced'
  BY <1>1 DEF MoreTypes, Types, Hosts
<1>13. Types'
  <2>1. TypeOK'
    BY <1>1, <1>10 DEF TypeOK, Types, disk, Stages, States
  <2>2. MoreTypes'
    BY <1>1, <1>9, <1>11, <1>12 DEF MoreTypes, Types, disk
  <2> QED
    BY <2>1, <2>2 DEF Types
<1>14. HostsInv'
  <2>1. \A h : Done(h) => Done(h)'
    BY <1>1, <1>10 DEF Done
  <2>2. Done(running.host)'
    BY <1>1, <1>3, <2>1
  <2>3. ASSUME NEW v \in Uses
        PROVE  /\ stage'[v] \in {"never", "idle"} => state'[v] = "none"
               /\ stage'[v] = "close" => state'[v] = "up" /\ next'[v].host = v /\ Done(old[v])'
    <3>1. CASE v = u
      BY <1>1, <1>3, <1>7, <1>9, <1>10, <2>2, <3>1
    <3>2. CASE v # u
      <4>1. stage[v] # "answered" => v # running.host
        BY <1>3 DEF Done
      <4>2. stage[v] = "close" => Done(old[v])'
        BY <1>9, <2>1, <3>2 DEF HostsInv, Done
      <4> QED
        BY <1>9, <1>10, <3>2, <4>1, <4>2 DEF HostsInv, Hosts
    <3> QED
      BY <3>1, <3>2
  <2>4. open' = "closing" => Done(old["daemon"])'
    BY <1>1, <1>9, <2>1 DEF HostsInv, Done
  <2> QED
    BY <2>2, <2>3, <2>4 DEF HostsInv
<1>15. RacedInv'
  <2> SUFFICES ASSUME NEW v \in Uses, stage'[v] = "close"
               PROVE  /\ old'[v] = running'.host \/ running'.host \in raced'
                      /\ \A w \in Uses : w # v /\ stage'[w] = "close" => v \in raced'
    BY DEF RacedInv
  <2>1. old'[v] = running'.host \/ running'.host \in raced'
    BY <1>1, <1>9, <1>10, <1>12 DEF RacedInv
  <2>2. ASSUME NEW w \in Uses, w # v, stage'[w] = "close"
        PROVE  v \in raced'
    <3>1. CASE v = u \/ w = u
      BY <1>1, <1>10, <2>2, <3>1
    <3>2. CASE v # u /\ w # u
      BY <1>10, <1>12, <2>2, <3>2 DEF RacedInv
    <3> QED
      BY <3>1, <3>2
  <2> QED
    BY <2>1, <2>2
<1>16. ClockInv'
  BY <1>1 DEF ClockInv, disk
<1>17. RecordsInv'
  <2>1. ASSUME NEW r, RecordIsCurrent(r)
        PROVE  /\ r.spec \in Specs =>
                    /\ r.sha.of \notin Recipes /\ r.snapshot <= clock'
                    /\ r.host \notin excused' /\ r.snapshot = mtime'[r.spec] =>
                         runs'[r.host].of = r.spec /\ runs'[r.host].c["src"] = content'[r.spec]["src"]
               /\ r.spec \notin Specs =>
                    /\ r.snapshot = NoSnapshot
                    /\ r.host \notin excused' =>
                         runs'[r.host].of = r.sha.of /\ runs'[r.host].c["src"] = r.sha.c["src"]
    BY <1>1, <2>1 DEF RecordIsCurrent, Serves, disk
  <2>2. RecordIsCurrent(running)'
    BY <1>1, <2>1 DEF RecordsInv, RecordIsCurrent, Serves
  <2>3. ASSUME NEW v \in Uses, stage'[v] = "close"
        PROVE  RecordIsCurrent(next[v])'
    <3>1. RecordIsCurrent(next'[v])
      BY <1>7, <1>9, <1>10, <2>3 DEF RecordsInv
    <3> QED
      BY <2>1, <3>1 DEF RecordIsCurrent, Serves
  <2> QED
    BY <2>2, <2>3 DEF RecordsInv
<1>18. BootInv'
  <2> SUFFICES ASSUME NEW v \in Uses, stage'[v] \in {"boot", "recover"}
               PROVE  BootIsCurrent(v)'
    BY DEF BootInv
  <2>1. v # u /\ BootIsCurrent(v) /\ stage'[v] = stage[v]
    BY <1>10 DEF BootInv
  <2> QED
    BY <1>1, <2>1 DEF BootIsCurrent, Serves, disk
<1> QED
  BY <1>13, <1>14, <1>15, <1>16, <1>17, <1>18

\* The old host is down, and the record made for this use serves.
LEMMA SwapInv ==
  ASSUME IInv, NEW u \in Uses, Swap(u)
  PROVE  IInv'
<1> USE DEF IInv
<1>1. /\ Types /\ stage[u] = "close" /\ Answer(u) /\ running' = next[u]
      /\ state' = [state EXCEPT ![old[u]] = "closed"] /\ runs' = [runs EXCEPT ![old[u]] = None]
      /\ UNCHANGED <<disk, cache, build, pinned, strays, open, raced, excused>>
  BY DEF Swap
<1>2. /\ stage' \in [Uses -> Stages] /\ snap' \in [Uses -> Stat] /\ hit' \in [Uses -> BOOLEAN]
      /\ next' \in [Uses -> Record] /\ old' \in [Uses \cup {"daemon"} -> Hosts]
      /\ stage'[u] = "answered" /\ old'["daemon"] = old["daemon"]
      /\ \A v \in Uses : v # u =>
           /\ stage'[v] = stage[v] /\ snap'[v] = snap[v] /\ hit'[v] = hit[v]
           /\ next'[v] = next[v] /\ old'[v] = old[v]
  BY <1>1, AnswerTypes
<1>3. /\ old[u] \in Hosts /\ Done(old[u]) /\ old[u] # u /\ next[u] \in Record /\ next[u].host = u /\ u \in Hosts
      /\ RecordIsCurrent(next[u])
  BY <1>1 DEF Types, MoreTypes, HostsInv, Done, Hosts, RecordsInv
<1>4. /\ runs' \in [Hosts -> Recipe] /\ state' \in [Hosts -> States]
      /\ \A h \in Hosts : h # old[u] => runs'[h] = runs[h] /\ state'[h] = state[h]
  BY <1>1, <1>3, TypeFacts DEF States
<1>5. Types'
  <2>1. TypeOK'
    BY <1>1, <1>2, <1>3, <1>4 DEF Types, TypeOK, disk, Recipe, Record, Stages, States
  <2>2. MoreTypes'
    BY <1>1, <1>2, <1>3 DEF Types, MoreTypes, disk
  <2> QED
    BY <2>1, <2>2 DEF Types
<1>6. \A h : Done(h) => Done(h)'
  BY <1>1, <1>2 DEF Done
<1>7. HostsInv'
  <2>1. Done(running.host)'
    BY <1>1, <1>2, <1>3 DEF Done
  <2>2. ASSUME NEW v \in Uses
        PROVE  /\ stage'[v] \in {"never", "idle"} => state'[v] = "none"
               /\ stage'[v] = "close" => state'[v] = "up" /\ next'[v].host = v /\ Done(old[v])'
    <3>1. CASE v = u
      BY <1>2, <3>1
    <3>2. CASE v # u
      <4>1. stage[v] # "answered" => v # old[u]
        BY <1>3 DEF Done
      <4>2. stage[v] = "close" => Done(old[v])'
        BY <1>2, <1>6, <3>2 DEF HostsInv, Done
      <4> QED
        BY <1>2, <1>4, <3>2, <4>1, <4>2 DEF HostsInv, Hosts
    <3> QED
      BY <3>1, <3>2
  <2>3. open' = "closing" => Done(old["daemon"])'
    BY <1>1, <1>2, <1>6 DEF HostsInv, Done
  <2> QED
    BY <2>1, <2>2, <2>3 DEF HostsInv
<1>8. RacedInv'
  <2> SUFFICES ASSUME NEW v \in Uses, stage'[v] = "close"
               PROVE  /\ old'[v] = running'.host \/ running'.host \in raced'
                      /\ \A w \in Uses : w # v /\ stage'[w] = "close" => v \in raced'
    BY DEF RacedInv
  <2>1. v # u /\ stage[v] = "close"
    BY <1>2
  <2>2. running'.host \in raced'
    BY <1>1, <1>3, <2>1 DEF RacedInv
  <2>3. \A w \in Uses : w # v /\ stage'[w] = "close" => v \in raced'
    BY <1>1, <1>2, <2>1 DEF RacedInv
  <2> QED
    BY <2>2, <2>3
<1>9. ClockInv'
  BY <1>1 DEF ClockInv, disk
<1>10. RecordsInv'
  <2>1. ASSUME NEW r, RecordIsCurrent(r), runs'[r.host] = runs[r.host]
        PROVE  /\ r.spec \in Specs =>
                    /\ r.sha.of \notin Recipes /\ r.snapshot <= clock'
                    /\ r.host \notin excused' /\ r.snapshot = mtime'[r.spec] =>
                         runs'[r.host].of = r.spec /\ runs'[r.host].c["src"] = content'[r.spec]["src"]
               /\ r.spec \notin Specs =>
                    /\ r.snapshot = NoSnapshot
                    /\ r.host \notin excused' =>
                         runs'[r.host].of = r.sha.of /\ runs'[r.host].c["src"] = r.sha.c["src"]
    BY <1>1, <2>1 DEF RecordIsCurrent, Serves, disk
  <2>2. runs'[next[u].host] = runs[next[u].host]
    BY <1>3, <1>4
  <2>3. RecordIsCurrent(running)'
    BY <1>1, <1>3, <2>1, <2>2 DEF RecordIsCurrent, Serves
  <2>4. ASSUME NEW v \in Uses, stage'[v] = "close"
        PROVE  RecordIsCurrent(next[v])'
    <3>1. v # u /\ stage[v] = "close" /\ next'[v] = next[v] /\ next[v].host = v /\ RecordIsCurrent(next[v])
      BY <1>2, <2>4 DEF HostsInv, RecordsInv
    <3>2. runs'[next[v].host] = runs[next[v].host]
      BY <1>3, <1>4, <3>1 DEF Done, Hosts
    <3> QED
      BY <2>1, <3>1, <3>2 DEF RecordIsCurrent, Serves
  <2> QED
    BY <2>3, <2>4 DEF RecordsInv
<1>11. BootInv'
  <2> SUFFICES ASSUME NEW v \in Uses, stage'[v] \in {"boot", "recover"}
               PROVE  BootIsCurrent(v)'
    BY DEF BootInv
  <2>1. v # u /\ stage'[v] = stage[v] /\ snap'[v] = snap[v] /\ hit'[v] = hit[v] /\ BootIsCurrent(v)
    BY <1>2 DEF BootInv
  <2>2. runs'[v] = runs[v]
    BY <1>3, <1>4, <2>1 DEF Done, Hosts
  <2> QED
    BY <1>1, <2>1, <2>2 DEF BootIsCurrent, Serves, disk
<1> QED
  BY <1>5, <1>7, <1>8, <1>9, <1>10, <1>11

\* cleanup() shuts the host that serves down, and the listener after it.
LEMMA CleanupInv ==
  ASSUME IInv, CleanupBegins \/ CleanupEnds
  PROVE  IInv'
<1> USE DEF IInv
<1>1. PICK h \in Hosts : /\ Done(h)
                         /\ \A g \in Hosts : g # h => state'[g] = state[g]
                         /\ state' \in [Hosts -> States]
                         /\ old' \in [Uses \cup {"daemon"} -> Hosts] /\ \A v \in Uses : old'[v] = old[v]
                         /\ open' \in {"closing", "closed"}
                         /\ open' = "closing" => old'["daemon"] = running.host
  <2>1. CASE CleanupBegins
    <3>1. running.host \in Hosts /\ Done(running.host) /\ "daemon" \notin Uses
      BY TypeFacts DEF MoreTypes, Types, Record, HostsInv
    <3> QED
      BY <2>1, <3>1, TypeFacts DEF CleanupBegins, States, Types, MoreTypes
  <2>2. CASE CleanupEnds
    <3>1. old["daemon"] \in Hosts /\ Done(old["daemon"])
      BY <2>2 DEF CleanupEnds, HostsInv, MoreTypes, Types
    <3> QED
      BY <2>2, <3>1, TypeFacts DEF CleanupEnds, States, Types, MoreTypes
  <2> QED
    BY <2>1, <2>2
<1>2. UNCHANGED <<disk, cache, build, pinned, runs, strays, running, stage, snap, hit, next, raced, excused>>
  BY DEF CleanupBegins, CleanupEnds
<1>3. Types'
  BY <1>1, <1>2 DEF Types, TypeOK, MoreTypes, disk, States
<1>4. \A v \in Uses : stage[v] # "answered" => v # h /\ v \in Hosts
  BY <1>1 DEF Done, Hosts
<1>5. HostsInv'
  <2>1. \A g : Done(g) <=> Done(g)'
    BY <1>2 DEF Done
  <2>2. \A v \in Uses : stage'[v] \in {"never", "idle"} => state'[v] = "none"
    BY <1>1, <1>2, <1>4 DEF HostsInv
  <2>3. \A v \in Uses : stage'[v] = "close" => state'[v] = "up" /\ next'[v].host = v /\ Done(old[v])
    BY <1>1, <1>2, <1>4 DEF HostsInv
  <2>4. \A v \in Uses : stage'[v] = "close" => Done(old[v])'
    BY <1>1, <2>1, <2>3 DEF Done
  <2> QED
    BY <1>1, <1>2, <2>1, <2>2, <2>3, <2>4 DEF HostsInv, Done
<1>6. RacedInv'
  BY <1>1, <1>2 DEF RacedInv
<1>7. ClockInv' /\ RecordsInv' /\ BootInv'
  BY <1>2 DEF ClockInv, RecordsInv, RecordIsCurrent, BootInv, BootIsCurrent, Serves, disk
<1> QED
  BY <1>3, <1>5, <1>6, <1>7

\* The daemon starts with the host of the first spec, compiled as it is on disk.
LEMMA InitInv == Init => IInv
<1> SUFFICES ASSUME Init
             PROVE  IInv
  OBVIOUS
<1> USE DaemonAssumption
<1>1. /\ First \in Specs /\ First \in Targets /\ First \in Hosts /\ First \notin Uses /\ MaxWrites \in Nat
      /\ Name[First] \in Names /\ NoSnapshot = MaxWrites + 1 /\ "none" \notin Targets
  BY DEF Hosts, Names, Targets, NoSnapshot
<1>2. 0 \in 0..MaxWrites /\ 0 \in 0..NoSnapshot /\ Blank \in Content
  BY <1>1 DEF Blank, Content
<1>3. /\ content = [t \in Targets |-> Blank] /\ mtime = [t \in Targets |-> 0] /\ clock = 0
      /\ cache = [k \in Keys |-> IF k = <<First, 0>> THEN NoSnap ELSE None]
      /\ pinned = Now(First) /\ running = [host |-> First, spec |-> First, sha |-> Now(First), snapshot |-> 0]
      /\ build = [n \in Names |-> IF n = Name[First] THEN Now(First) ELSE None]
      /\ state = [h \in Hosts |-> IF h = First THEN "up" ELSE "none"] /\ strays = {}
      /\ runs = [h \in Hosts |-> IF h = First THEN Now(First) ELSE None]
  BY DEF Init
<1>4. PICK mix \in Mixes : /\ stage = [u \in Uses |-> IF u \in mix.uses THEN "idle" ELSE "never"]
                           /\ writes = mix.writes
  BY DEF Init
<1>5. /\ hit = [u \in Uses |-> FALSE] /\ snap = [u \in Uses |-> NoSnap]
      /\ next = [u \in Uses |-> NoRecord] /\ old = [u \in Uses \cup {"daemon"} |-> First]
      /\ open = "open" /\ raced = {} /\ excused = {}
  BY DEF Init
<1>6. writes \in 0..MaxWrites
  <2>1. mix \in [uses : SUBSET Uses, writes : 0..MaxWrites]
    BY <1>4
  <2> QED
    BY <1>4, <2>1
<1>7. \A u \in Uses : stage[u] \in {"never", "idle"} /\ state[u] = "none"
  BY <1>1, <1>3, <1>4 DEF Hosts
<1>8. /\ Now(First) = [of |-> First, c |-> Blank] /\ Now(First) \in Recipe /\ Now(First) \in Built
      /\ None \in Recipe /\ None \in Built /\ NoSnap \in Stat /\ NoRecord \in Record
  BY <1>1, <1>2, <1>3 DEF Now, None, Recipe, Built, NoSnap, Stat, NoRecord, Record
<1>9. Types
  <2>1. TypeOK
    BY <1>1, <1>2, <1>3, <1>4, <1>5, <1>8 DEF TypeOK, Recipe, Built
  <2>2. clock + writes <= MaxWrites /\ clock \in 0..MaxWrites
    BY <1>1, <1>2, <1>3, <1>6
  <2>3. running \in Record
    BY <1>1, <1>2, <1>3, <1>8 DEF Record
  <2>4. cache \in [Keys -> Stat \cup {None}] /\ next \in [Uses -> Record]
    BY <1>3, <1>5, <1>8
  <2>5. MoreTypes
    BY <1>1, <1>5, <1>6, <1>8, <2>2, <2>3, <2>4 DEF MoreTypes
  <2> QED
    BY <2>1, <2>5 DEF Types
<1>10. HostsInv /\ RacedInv
  BY <1>1, <1>3, <1>5, <1>7 DEF HostsInv, RacedInv, Done
<1>11. ClockInv
  BY <1>3 DEF ClockInv
<1>12. RecordsInv
  <2>1. RecordIsCurrent(running)
    BY <1>1, <1>3, <1>8 DEF RecordIsCurrent, Serves
  <2> QED
    BY <1>7, <2>1 DEF RecordsInv
<1>13. BootInv
  BY <1>7 DEF BootInv
<1> QED
  BY <1>9, <1>10, <1>11, <1>12, <1>13 DEF IInv

\* Every step of the daemon and of its environment keeps the invariant.
LEMMA StepInv == IInv /\ [Next]_vars => IInv'
<1> SUFFICES ASSUME IInv, [Next]_vars
             PROVE  IInv'
  OBVIOUS
<1>1. ASSUME NEW t \in Targets, NEW p \in Parts, NEW c \in {0, 1}, Write(t, p, c)
      PROVE  IInv'
  BY <1>1, WriteInv
<1>2. ASSUME NEW u \in Uses, UseCurrent(u)
      PROVE  IInv'
  BY <1>2, UseCurrentInv
<1>3. ASSUME NEW u \in Uses, UseBoots(u)
      PROVE  IInv'
  BY <1>3, UseBootsInv
<1>4. ASSUME NEW u \in Uses, UseRecovers(u)
      PROVE  IInv'
  BY <1>4, UseRecoversInv
<1>5. ASSUME NEW u \in Uses, UseFails(u)
      PROVE  IInv'
  BY <1>5, UseFailsInv
<1>6. ASSUME NEW u \in Uses, BootThrows(u)
      PROVE  IInv'
  BY <1>6, BootThrowsInv
<1>7. ASSUME NEW u \in Uses, BootEnds(u)
      PROVE  IInv'
  BY <1>7, BootEndsInv
<1>8. ASSUME NEW u \in Uses, Swap(u)
      PROVE  IInv'
  BY <1>8, SwapInv
<1>9. CASE CleanupBegins \/ CleanupEnds
  BY <1>9, CleanupInv
<1>10. CASE UNCHANGED vars
  <2>1. Types' /\ HostsInv' /\ RacedInv' /\ ClockInv'
    BY <1>10 DEF IInv, vars, disk, Types, TypeOK, MoreTypes, HostsInv, RacedInv, ClockInv, Done
  <2>2. RecordsInv' /\ BootInv'
    BY <1>10 DEF IInv, vars, disk, RecordsInv, RecordIsCurrent, BootInv, BootIsCurrent, Serves
  <2> QED
    BY <2>1, <2>2 DEF IInv
<1> QED
  BY <1>1, <1>2, <1>3, <1>4, <1>5, <1>6, <1>7, <1>8, <1>9, <1>10 DEF Next

-----------------------------------------------------------------------------
\* The invariant holds of every behaviour of the daemon.
THEOREM Inductive == Spec => []IInv
  BY InitInv, StepInv, PTL DEF Spec

\* The type invariant, for any specs, recipe files, uses and number of writes.
THEOREM TypeCorrect == Spec => []TypeOK
<1>1. IInv => TypeOK
  BY DEF IInv, Types
<1> QED
  BY <1>1, Inductive, PTL

\* "cheap drift check before serving" (daemon.ts): whichever boots overlap, throw
\* or are recovered and whatever files are edited meanwhile, a use that is
\* answered without a reboot is served its target with the sources it now has,
\* unless its host is one of the excused.  It is a theorem about the sources:
\* plugin.json, build/ and the spec file may be edited unseen.
THEOREM DriftCheckIsExact == Spec => []CurrentMeansCurrent
<1>1. IInv => CurrentMeansCurrent
  <2> SUFFICES ASSUME IInv, NEW t \in Targets, Matches(t), running.host \notin excused
               PROVE  Serves(running.host, t)
    BY DEF CurrentMeansCurrent
  <2>0. Types /\ RecordIsCurrent(running)
    BY DEF IInv, RecordsInv
  <2>1. CASE t \in Recipes
    <3>1. running.sha = Now(t) /\ Now(t).of = t /\ Now(t).c = content[t]
      BY <2>0, <2>1, TypeFacts DEF Matches
    <3>2. running.spec \notin Specs
      BY <2>0, <2>1, <3>1 DEF RecordIsCurrent
    <3> QED
      BY <2>0, <3>1, <3>2 DEF RecordIsCurrent, Serves
  <2>2. CASE t \notin Recipes
    <3>1. t \in Specs /\ running.spec = t /\ running.snapshot = mtime[t]
      BY <2>2 DEF Matches, Targets
    <3> QED
      BY <2>0, <3>1 DEF RecordIsCurrent
  <2> QED
    BY <2>1, <2>2
<1> QED
  BY <1>1, Inductive, PTL

\* ensureCurrent() boots before it shuts down: while the daemon is open, a live
\* host serves, or a use is about to swap its own in.
THEOREM AlwaysServed == Spec => []ServedByALiveHost
<1>1. Init => ServedByALiveHost
  BY DaemonAssumption DEF Init, ServedByALiveHost, Hosts
<1>2. IInv /\ ServedByALiveHost /\ [Next]_vars => ServedByALiveHost'
  <2> SUFFICES ASSUME IInv, ServedByALiveHost, [Next]_vars, open' = "open"
               PROVE  state'[running'.host] = "up" \/ \E u \in Uses : stage'[u] = "close"
    BY DEF ServedByALiveHost
  <2>0. /\ running.host \in Hosts /\ Done(running.host)
        /\ state \in [Hosts -> States] /\ stage \in [Uses -> Stages]
    BY TypeFacts DEF IInv, HostsInv, Types, MoreTypes, Record
  <2>1. ASSUME open = "open", running' = running,
               \A h \in Hosts : Done(h) => state'[h] = state[h],
               \A u \in Uses : stage[u] = "close" => stage'[u] = "close"
        PROVE  state'[running'.host] = "up" \/ \E u \in Uses : stage'[u] = "close"
    BY <2>0, <2>1 DEF ServedByALiveHost
  <2>2. ASSUME NEW t \in Targets, NEW p \in Parts, NEW c \in {0, 1}, Write(t, p, c)
        PROVE  state'[running'.host] = "up" \/ \E u \in Uses : stage'[u] = "close"
    BY <2>1, <2>2 DEF Write
  <2>3. ASSUME NEW u \in Uses, UseCurrent(u)
        PROVE  state'[running'.host] = "up" \/ \E v \in Uses : stage'[v] = "close"
    BY <2>0, <2>1, <2>3 DEF UseCurrent, Answer
  <2>4. ASSUME NEW u \in Uses, UseBoots(u) \/ UseRecovers(u) \/ UseFails(u) \/ BootThrows(u)
        PROVE  state'[running'.host] = "up" \/ \E v \in Uses : stage'[v] = "close"
    <3>1. stage[u] \in {"idle", "boot", "recover"} /\ open = "open" /\ running' = running
      BY <2>4 DEF UseBoots, UseRecovers, UseFails, BootThrows, Wanted
    <3>2. Fail(u) \/ \E q \in {"boot", "recover"} : \E r \in {pinned, Incoming(Target[u])} : Boot(u, q, r)
      BY <2>4 DEF UseBoots, UseRecovers, UseFails, BootThrows, Recover
    <3>3. /\ \A h \in Hosts : h # u => state'[h] = state[h]
          /\ \A v \in Uses : v # u => stage'[v] = stage[v]
      BY <2>0, <3>2 DEF Fail, Boot, Answer
    <3> QED
      BY <2>1, <3>1, <3>3 DEF Done
  <2>5. ASSUME NEW u \in Uses, BootEnds(u)
        PROVE  \E v \in Uses : stage'[v] = "close"
    BY <2>0, <2>5 DEF BootEnds, Arrives
  <2>6. ASSUME NEW u \in Uses, Swap(u)
        PROVE  state'[running'.host] = "up"
    <3>1. next[u].host = u /\ state[u] = "up" /\ old[u] # u /\ u \in Hosts
      BY <2>6 DEF IInv, Swap, HostsInv, Done, Hosts
    <3> QED
      BY <2>0, <2>6, <3>1 DEF Swap
  <2>7. ~CleanupBegins /\ ~CleanupEnds
    BY DEF CleanupBegins, CleanupEnds
  <2>8. CASE UNCHANGED vars
    BY <2>8 DEF ServedByALiveHost, vars
  <2> QED
    BY <2>2, <2>3, <2>4, <2>5, <2>6, <2>7, <2>8 DEF Next
<1> QED
  BY <1>1, <1>2, Inductive, PTL DEF Spec

\* No host is left running behind the daemon's back: one that is booting or up
\* and does not serve is in the hands of a use in flight or of two swaps that
\* overlapped.  The thread of a law that a boot which threw had started is no
\* host, and nobody terminates it (strays).
THEOREM NoneLeftRunning == Spec => []NoHostForgotten
<1>1. Init => NoHostForgotten
  BY DaemonAssumption DEF Init, NoHostForgotten, Hosts
<1>2. IInv /\ NoHostForgotten /\ [Next]_vars => NoHostForgotten'
  <2> SUFFICES ASSUME IInv, NoHostForgotten, [Next]_vars, open' = "open",
                      NEW h \in Hosts, state'[h] \in {"booting", "up"}
               PROVE  h = running'.host \/ (h \in Uses /\ stage'[h] \in {"boot", "recover", "close"}) \/ h \in raced'
    BY DEF NoHostForgotten, InFlight
  <2>0. state \in [Hosts -> States] /\ stage \in [Uses -> Stages] /\ \A v \in Uses : v \in Hosts
    BY TypeFacts DEF IInv, Hosts
  <2>1. open = "open" => (state[h] \in {"booting", "up"}
          => h = running.host \/ (h \in Uses /\ stage[h] \in {"boot", "recover", "close"}) \/ h \in raced)
    BY DEF NoHostForgotten, InFlight
  <2>2. ASSUME NEW t \in Targets, NEW p \in Parts, NEW c \in {0, 1}, Write(t, p, c)
        PROVE  h = running'.host \/ (h \in Uses /\ stage'[h] \in {"boot", "recover", "close"}) \/ h \in raced'
    BY <2>1, <2>2 DEF Write
  <2>3. ASSUME NEW u \in Uses, UseCurrent(u)
        PROVE  h = running'.host \/ (h \in Uses /\ stage'[h] \in {"boot", "recover", "close"}) \/ h \in raced'
    <3>1. state' = state /\ running' = running /\ raced' = raced /\ open = "open" /\ state[u] = "none"
      BY <2>3 DEF IInv, UseCurrent, HostsInv
    <3>2. h # u /\ (h \in Uses => stage'[h] = stage[h])
      BY <2>0, <2>3, <3>1 DEF UseCurrent, Answer
    <3> QED
      BY <2>1, <3>1, <3>2
  <2>4. ASSUME NEW u \in Uses, UseBoots(u) \/ UseRecovers(u) \/ UseFails(u) \/ BootThrows(u)
        PROVE  h = running'.host \/ (h \in Uses /\ stage'[h] \in {"boot", "recover", "close"}) \/ h \in raced'
    <3>1. open = "open" /\ running' = running /\ raced' = raced
      BY <2>4 DEF UseBoots, UseRecovers, UseFails, BootThrows
    <3>2. Fail(u) \/ \E q \in {"boot", "recover"} : \E r \in {pinned, Incoming(Target[u])} : Boot(u, q, r)
      BY <2>4 DEF UseBoots, UseRecovers, UseFails, BootThrows, Recover
    <3>3. CASE h = u
      <4>1. ~Fail(u)
        BY <2>0, <3>3 DEF Fail
      <4> QED
        BY <2>0, <3>2, <3>3, <4>1 DEF Boot
    <3>4. CASE h # u
      <4>1. state'[h] = state[h] /\ (h \in Uses => stage'[h] = stage[h])
        BY <2>0, <3>2, <3>4 DEF Fail, Boot, Answer
      <4> QED
        BY <2>1, <3>1, <4>1
    <3> QED
      BY <3>3, <3>4
  <2>5. ASSUME NEW u \in Uses, BootEnds(u)
        PROVE  h = running'.host \/ (h \in Uses /\ stage'[h] \in {"boot", "recover", "close"}) \/ h \in raced'
    <3>1. open = "open" /\ running' = running /\ raced \subseteq raced'
          /\ stage' = [stage EXCEPT ![u] = "close"] /\ running.host \in Hosts
      BY <2>5 DEF IInv, BootEnds, Arrives, Types, MoreTypes, Record
    <3>2. h # u /\ h # running.host => state'[h] = state[h]
      BY <2>0, <2>5, <3>1 DEF BootEnds, Arrives
    <3> QED
      BY <2>0, <2>1, <3>1, <3>2
  <2>6. ASSUME NEW u \in Uses, Swap(u)
        PROVE  h = running'.host \/ (h \in Uses /\ stage'[h] \in {"boot", "recover", "close"}) \/ h \in raced'
    <3>1. /\ open = "open" /\ running'.host = u /\ raced' = raced
          /\ old[u] = running.host \/ running.host \in raced
      BY <2>6 DEF IInv, Swap, HostsInv, RacedInv
    <3>2. h # old[u] /\ state'[h] = state[h]
      BY <2>0, <2>6 DEF Swap
    <3>3. h # u /\ h \in Uses => stage'[h] = stage[h]
      BY <2>0, <2>6 DEF Swap, Answer
    <3> QED
      BY <2>1, <3>1, <3>2, <3>3
  <2>7. ~CleanupBegins /\ ~CleanupEnds
    BY DEF CleanupBegins, CleanupEnds
  <2>8. CASE UNCHANGED vars
    BY <2>1, <2>8 DEF vars
  <2> QED
    BY <2>2, <2>3, <2>4, <2>5, <2>6, <2>7, <2>8 DEF Next
<1> QED
  BY <1>1, <1>2, Inductive, PTL DEF Spec
=============================================================================
