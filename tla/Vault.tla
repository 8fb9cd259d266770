------------------------------- MODULE Vault -------------------------------
(***************************************************************************)
(* vivim.vault: the single-writer queue (sql.ts), append (changelog.ts),    *)
(* compaction, the proof walk (verify.ts), the copy (roundtrip.ts) and the  *)
(* reads, over four tables and a content-addressed blob store.              *)
(*                                                                         *)
(* A queued write runs in one turn, so no other operation sees half of it;  *)
(* the process may die inside it, between the blob and the transaction or   *)
(* between the commit and the answer.  A hash is its preimage: two entries  *)
(* have the same hash only if they are the same.  A cid is its content.     *)
(***************************************************************************)
EXTENDS Naturals, Sequences, FiniteSets, SequencesExt

CONSTANTS
  Keys,         \* the (ns, id) pairs
  Ns,           \* Ns[k]: the namespace of k
  Contents,     \* the data, and so the cids
  Refs,         \* the refs lists a writer may send
  MaxAppends,   \* appends asked for, at most
  MaxQueue      \* writes waiting, at most

ASSUME VaultAssumption ==
  /\ IsFiniteSet(Keys) /\ DOMAIN Ns = Keys
  /\ Refs \subseteq SUBSET (Keys \X (Nat \ {0}))
  /\ MaxAppends \in Nat /\ MaxQueue \in Nat

VARIABLES
  changelog,   \* the chain
  objects,     \* hot revisions
  cold,        \* cold_objects
  fts,         \* fts_index: the revisions that search finds
  cas,         \* the blobs under their final name
  queue,       \* writes behind enqueueWrite's tail
  up,          \* the process runs and the vault is open
  asked,       \* appends asked for so far
  acked        \* history: <<key, rev>> of the appends answered with success

vars == <<changelog, objects, cold, fts, cas, queue, up, asked, acked>>
disk == <<changelog, objects, cold, fts, cas>>

Genesis == <<>>
EntryHash(seq, k, rev, cid, prev) == <<seq, k, rev, cid, prev>>
ChainHead == IF changelog = <<>> THEN Genesis ELSE Last(changelog).hash

\* The stored revisions of table t with that key, and their newest.
RevsOf(t, k) == {o.rev : o \in {p \in t : p.key = k}}
Newest(S) == CHOOSE r \in S : \A q \in S : q <= r

\* MAX(rev) + 1 over the links of the key.
LinkRevs(k) == {changelog[i].rev : i \in {j \in DOMAIN changelog : changelog[j].key = k}}
NextRev(k) == IF LinkRevs(k) = {} THEN 1 ELSE Newest(LinkRevs(k)) + 1

Link(k, rev, cid) ==
  LET seq == Len(changelog) + 1 IN
  [seq |-> seq, key |-> k, rev |-> rev, cid |-> cid,
   prev |-> ChainHead, hash |-> EntryHash(seq, k, rev, cid, ChainHead)]

Init ==
  /\ changelog = <<>> /\ objects = {} /\ cold = {} /\ fts = {} /\ cas = {}
  /\ queue = <<>> /\ up = TRUE /\ asked = 0 /\ acked = {}

\* vault.append@1 and vault.compact@1: validated, then queued.
AskAppend(k, c, refs) ==
  /\ up /\ Len(queue) < MaxQueue /\ asked < MaxAppends
  /\ asked' = asked + 1
  /\ queue' = Append(queue, [op |-> "append", key |-> k, cid |-> c, refs |-> refs])
  /\ UNCHANGED <<disk, up, acked>>

AskCompact(ns, keep) ==
  /\ up /\ Len(queue) < MaxQueue
  /\ \A i \in DOMAIN queue : queue[i].op # "compact"
  /\ queue' = Append(queue, [op |-> "compact", ns |-> ns, keep |-> keep])
  /\ UNCHANGED <<disk, up, asked, acked>>

Heads(op) == up /\ queue # <<>> /\ Head(queue).op = op

\* The transaction of appendObject(): object, index row and link at once.
Committed(j) ==
  LET rev == NextRev(j.key) IN
  /\ objects' = objects \cup {[key |-> j.key, rev |-> rev, cid |-> j.cid, refs |-> j.refs]}
  /\ fts' = fts \cup {<<j.key, rev>>}
  /\ changelog' = Append(changelog, Link(j.key, rev, j.cid))
  /\ UNCHANGED cold

\* casPut, the transaction, the answer.
RunAppend ==
  /\ Heads("append")
  /\ cas' = cas \cup {Head(queue).cid}
  /\ Committed(Head(queue))
  /\ acked' = acked \cup {<<Head(queue).key, NextRev(Head(queue).key)>>}
  /\ queue' = Tail(queue)
  /\ UNCHANGED <<up, asked>>

\* Seeded fault: the rollback is not reported, the caller is told a revision.
FaultyAppendFails ==
  /\ Heads("append")
  /\ cas' \in {cas, cas \cup {Head(queue).cid}}
  /\ acked' = acked \cup {<<Head(queue).key, NextRev(Head(queue).key)>>}
  /\ queue' = Tail(queue)
  /\ UNCHANGED <<changelog, objects, cold, fts, up, asked>>

\* casPut throws, or the transaction does and is rolled back: the caller gets
\* the error, the next write runs, a blob may stay behind.
AppendFails ==
  /\ Heads("append")
  /\ cas' \in {cas, cas \cup {Head(queue).cid}}
  /\ queue' = Tail(queue)
  /\ UNCHANGED <<changelog, objects, cold, fts, up, asked, acked>>

\* Seeded fault: the blob is written after the commit.
FaultyDieInAppend ==
  /\ Heads("append")
  /\ Committed(Head(queue)) /\ UNCHANGED cas
  /\ up' = FALSE /\ queue' = <<>>
  /\ UNCHANGED <<asked, acked>>

\* The process dies inside the head append: with the blob alone on disk, or
\* with everything but the answer.
DieInAppend ==
  /\ Heads("append")
  /\ cas' = cas \cup {Head(queue).cid}
  /\ \/ Committed(Head(queue))
     \/ UNCHANGED <<changelog, objects, cold, fts>>
  /\ up' = FALSE /\ queue' = <<>>
  /\ UNCHANGED <<asked, acked>>

\* The refs of all live objects, of any namespace.
LiveRefs == UNION {o.refs : o \in objects}

\* Seeded fault: only the namespace's own refs protect.
FaultyMoved(ns, keep) ==
  LET own == UNION {o.refs : o \in {p \in objects : Ns[p.key] = ns}} IN
  {o \in objects :
     /\ Ns[o.key] = ns /\ <<o.key, o.rev>> \notin own
     /\ Cardinality({r \in RevsOf(objects, o.key) : r > o.rev}) >= keep}

\* What compact() moves: of each id all but the newest `keep`, unless a live
\* object refers to it.
Moved(ns, keep) ==
  {o \in objects :
     /\ Ns[o.key] = ns /\ <<o.key, o.rev>> \notin LiveRefs
     /\ Cardinality({r \in RevsOf(objects, o.key) : r > o.rev}) >= keep}

\* Seeded fault: the moved revisions are dropped for good.
FaultyRunCompactDrops ==
  /\ Heads("compact")
  /\ LET moved == Moved(Head(queue).ns, Head(queue).keep) IN
     /\ objects' = objects \ moved
     /\ fts' = {x \in fts : \A o \in moved : x # <<o.key, o.rev>>}
  /\ queue' = Tail(queue)
  /\ UNCHANGED <<changelog, cold, cas, up, asked, acked>>

\* compact(): rows move and leave the index in one transaction.
RunCompact ==
  /\ Heads("compact")
  /\ LET moved == Moved(Head(queue).ns, Head(queue).keep) IN
     /\ objects' = objects \ moved /\ cold' = cold \cup moved
     /\ fts' = {x \in fts : \A o \in moved : x # <<o.key, o.rev>>}
  /\ queue' = Tail(queue)
  /\ UNCHANGED <<changelog, cas, up, asked, acked>>

\* The transaction of the compaction is rolled back.
CompactFails ==
  /\ Heads("compact")
  /\ queue' = Tail(queue)
  /\ UNCHANGED <<disk, up, asked, acked>>

\* The process dies between two writes, and starts again.
Crash ==
  /\ up /\ up' = FALSE /\ queue' = <<>>
  /\ UNCHANGED <<disk, asked, acked>>

Open ==
  /\ ~up /\ up' = TRUE
  /\ UNCHANGED <<disk, queue, asked, acked>>

Next ==
  \/ \E k \in Keys, c \in Contents, refs \in Refs : AskAppend(k, c, refs)
  \/ \E k \in Keys, keep \in 1..2 : AskCompact(Ns[k], keep)
  \/ RunAppend \/ AppendFails \/ DieInAppend
  \/ RunCompact \/ CompactFails
  \/ Crash \/ Open

Spec == Init /\ [][Next]_vars

-----------------------------------------------------------------------------
\* The reads, over the tables of a store s.
Store == [changelog |-> changelog, objects |-> objects, cold |-> cold, fts |-> fts, cas |-> cas]

\* readObject() of a revision: hot, else cold; "none" when it is in neither or
\* its blob is missing.
ReadRev(s, k, rev) ==
  LET at(t) == {o \in t : o.key = k /\ o.rev = rev}
      row == IF at(s.objects) # {} THEN at(s.objects) ELSE at(s.cold)
  IN IF \E o \in row : o.cid \in s.cas THEN (CHOOSE o \in row : TRUE).cid ELSE "none"

\* readObject() without a revision: the newest hot one, else the newest cold one.
ReadLatest(s, k) ==
  LET revs == IF RevsOf(s.objects, k) # {} THEN RevsOf(s.objects, k) ELSE RevsOf(s.cold, k)
  IN IF revs = {} THEN 0 ELSE Newest(revs)

\* queryObjects(): the newest hot revision of each id.
Query(s, ns) ==
  {<<k, Newest(RevsOf(s.objects, k))>> :
     k \in {j \in Keys : Ns[j] = ns /\ RevsOf(s.objects, j) # {}}}

\* The proof walk, in its three parts.
ChainHolds(s) ==
  \A i \in DOMAIN s.changelog :
    LET e == s.changelog[i]
        prev == IF i = 1 THEN Genesis ELSE s.changelog[i - 1].hash
    IN e.seq = i /\ e.prev = prev /\ e.hash = EntryHash(e.seq, e.key, e.rev, e.cid, prev)

LinksResolve(s) ==
  \A i \in DOMAIN s.changelog :
    \E o \in s.objects \cup s.cold : o.key = s.changelog[i].key /\ o.rev = s.changelog[i].rev

BlobsResolve(s) == \A o \in s.objects \cup s.cold : o.cid \in s.cas

Verify(s) == ChainHolds(s) /\ LinksResolve(s) /\ BlobsResolve(s)

\* roundtrip(): rows and well-formed blobs as they are, the index rebuilt from
\* the copied blobs.
Copy(s) ==
  [s EXCEPT !.fts = {<<o.key, o.rev>> : o \in {p \in s.objects : p.cid \in s.cas}}]

\* What may happen to a store on disk: a blob, a row or a link is lost, or a
\* link is altered.
Damaged(s) ==
  {[s EXCEPT !.cas = @ \ {c}] : c \in s.cas}
  \cup {[s EXCEPT !.objects = @ \ {o}] : o \in s.objects}
  \cup {[s EXCEPT !.cold = @ \ {o}] : o \in s.cold}
  \cup {[s EXCEPT !.changelog = RemoveAt(@, i)] : i \in DOMAIN s.changelog}
  \cup {[s EXCEPT !.changelog[i].cid = c] : i \in DOMAIN s.changelog, c \in Contents}

-----------------------------------------------------------------------------
\* The rows of the hot and the cold table, and the writes of the queue.
Rows == [key : Keys, rev : Nat \ {0}, cid : Contents, refs : Refs]
Writes == [op : {"append"}, key : Keys, cid : Contents, refs : Refs]
          \cup [op : {"compact"}, ns : {Ns[k] : k \in Keys}, keep : 1..2]

\* The type invariant.
TypeOK ==
  /\ \A i \in DOMAIN changelog :
       /\ changelog[i].key \in Keys /\ changelog[i].cid \in Contents
       /\ changelog[i].rev \in Nat \ {0}
  /\ objects \cup cold \subseteq Rows
  /\ cas \subseteq Contents /\ up \in BOOLEAN /\ asked \in 0..MaxAppends
  /\ queue \in Seq(Writes) /\ Len(queue) <= MaxQueue
  /\ acked \subseteq Keys \X (Nat \ {0})

\* "compact moves, never deletes", "CAS is append-only": an append that was
\* answered can be read back at its revision, with the content its link names,
\* after any compaction, rollback or crash; and queries and reads of the newest
\* revision agree with the chain, so a plugin that reloads by query misses none.
AckedIsFound ==
  /\ \A a \in acked : \E i \in DOMAIN changelog :
       /\ changelog[i].key = a[1] /\ changelog[i].rev = a[2]
       /\ ReadRev(Store, a[1], a[2]) = changelog[i].cid
  /\ \A i \in DOMAIN changelog :
       LET k == changelog[i].key IN
       /\ ReadLatest(Store, k) = NextRev(k) - 1
       /\ <<k, NextRev(k) - 1>> \in Query(Store, Ns[k])

\* "verify() still passes after compaction", and after a crash or a rollback;
\* a copy is verified and equal to the store, search included; and "first
\* divergence is reported": when verify() passes over a damaged store, what is
\* left of the chain is a prefix of it whose links can all be read.  (The loss
\* of the newest links is not seen by verify().)
VerifyIsExact ==
  /\ Verify(Store) /\ Verify(Copy(Store)) /\ Copy(Store) = Store
  /\ \A s \in Damaged(Store) : Verify(s) =>
    /\ IsPrefix(s.changelog, changelog)
    /\ \A i \in DOMAIN s.changelog :
         ReadRev(s, s.changelog[i].key, s.changelog[i].rev) = s.changelog[i].cid

\* "provenance-required revisions survive": what a live object refers to does
\* not leave the hot tier while that object is live.
ProvenanceKept ==
  [][\A o \in objects \cap objects' : \A p \in objects :
       <<p.key, p.rev>> \in o.refs => p \in objects']_vars

\* The chain is the history of the abstract store, and nothing else changes it.
LinkOf(k, r) == CHOOSE i \in DOMAIN changelog : changelog[i].key = k /\ changelog[i].rev = r
History == [k \in Keys |-> [r \in 1..(NextRev(k) - 1) |-> changelog[LinkOf(k, r)].cid]]

Abstract == INSTANCE VersionedStore WITH history <- History

ImplementsStore == Abstract!Spec
=============================================================================
