---------------------------- MODULE VaultProofs ----------------------------
(***************************************************************************)
(* Proofs about Vault for any keys, contents and refs, and any number of    *)
(* appends and compactions.                                                 *)
(*                                                                         *)
(* A revision is numbered by the maximum over the chain, never over the     *)
(* rows, which compaction moves: so the links of a key are numbered 1, 2,   *)
(* ..., in the order of the chain, and a link is known by its key and its   *)
(* revision.  The inductive invariant adds that rows and links, blobs and   *)
(* index entries stand for each other, and that the newest revision of a    *)
(* key is hot, which reads and queries rely on.                             *)
(***************************************************************************)
EXTENDS Vault, FiniteSetTheorems, SequenceTheorems, TLAPS

\* The chain is a sequence whose links say where they stand and what precedes.
ChainInv ==
  /\ Len(changelog) \in Nat /\ changelog = [i \in 1..Len(changelog) |-> changelog[i]]
  /\ \A i \in DOMAIN changelog :
       LET e == changelog[i]
           prev == IF i = 1 THEN Genesis ELSE changelog[i - 1].hash
       IN e = [seq |-> i, key |-> e.key, rev |-> e.rev, cid |-> e.cid,
               prev |-> prev, hash |-> EntryHash(i, e.key, e.rev, e.cid, prev)]

\* The revisions of a key are 1, 2, ..., in the order of its links.
RevsInv ==
  /\ \A k \in Keys : NextRev(k) \in Nat \ {0} /\ LinkRevs(k) = 1..(NextRev(k) - 1)
  /\ \A i, j \in DOMAIN changelog :
       i < j /\ changelog[i].key = changelog[j].key => changelog[i].rev < changelog[j].rev

\* Every row has its link, every link its row.
RowsInv ==
  /\ \A o \in objects \cup cold : \E i \in DOMAIN changelog :
       changelog[i].key = o.key /\ changelog[i].rev = o.rev /\ changelog[i].cid = o.cid
  /\ \A i \in DOMAIN changelog : \E o \in objects \cup cold :
       o.key = changelog[i].key /\ o.rev = changelog[i].rev

\* A row has its blob; the index is that of the hot rows.
BlobsInv ==
  /\ \A o \in objects \cup cold : o.cid \in cas
  /\ fts = {<<o.key, o.rev>> : o \in objects}

\* The newest revision of a key is hot.
HotInv == \A k \in Keys : NextRev(k) > 1 => NextRev(k) - 1 \in RevsOf(objects, k)

\* What was answered is in the chain.
AckInv ==
  \A a \in acked : \E i \in DOMAIN changelog : changelog[i].key = a[1] /\ changelog[i].rev = a[2]

IInv == TypeOK /\ ChainInv /\ RevsInv /\ RowsInv /\ BlobsInv /\ HotInv /\ AckInv

-----------------------------------------------------------------------------
\* A sequence is a function from its positions.
LEMMA SeqIsFunction ==
  ASSUME NEW T, NEW a \in Seq(T)
  PROVE  a = [i \in 1..Len(a) |-> a[i]]
<1>1. a \in [1..Len(a) -> T]
  OBVIOUS
<1> QED
  BY <1>1

\* What a chain with one more entry is.
LEMMA Appended ==
  ASSUME NEW s, NEW e, Len(s) \in Nat, s = [i \in 1..Len(s) |-> s[i]]
  PROVE  /\ DOMAIN s = 1..Len(s)
         /\ Len(Append(s, e)) = Len(s) + 1 /\ DOMAIN Append(s, e) = 1..(Len(s) + 1)
         /\ Append(s, e) = [i \in 1..(Len(s) + 1) |-> Append(s, e)[i]]
         /\ \A i \in 1..Len(s) : Append(s, e)[i] = s[i]
         /\ Append(s, e)[Len(s) + 1] = e
<1> DEFINE T == {s[i] : i \in 1..Len(s)} \cup {e}
<1>1. s \in Seq(T)
  <2>1. s \in [1..Len(s) -> T]
    OBVIOUS
  <2> HIDE DEF T
  <2> QED
    BY <2>1
<1>2. e \in T
  OBVIOUS
<1> HIDE DEF T
<1>3. Append(s, e) \in Seq(T)
  BY <1>1, <1>2
<1>4. Len(Append(s, e)) = Len(s) + 1 /\ DOMAIN Append(s, e) = 1..(Len(s) + 1)
  BY <1>1, <1>2, <1>3
<1>5. DOMAIN s = 1..Len(s) /\ (\A i \in 1..Len(s) : Append(s, e)[i] = s[i]) /\ Append(s, e)[Len(s) + 1] = e
  BY <1>1, <1>2
<1>6. Append(s, e) = [i \in 1..(Len(s) + 1) |-> Append(s, e)[i]]
  BY <1>3, <1>4, SeqIsFunction
<1> QED
  BY <1>4, <1>5, <1>6

\* The newest of some revisions is the one no other exceeds.
LEMMA NewestIs ==
  ASSUME NEW S \in SUBSET Nat, NEW m \in S, \A q \in S : q <= m
  PROVE  Newest(S) = m
<1>1. \E r \in S : \A q \in S : q <= r
  OBVIOUS
<1>2. Newest(S) \in S /\ \A q \in S : q <= Newest(S)
  BY <1>1 DEF Newest
<1>3. Newest(S) \in Nat /\ m \in Nat /\ m <= Newest(S) /\ Newest(S) <= m
  BY <1>2
<1> QED
  BY <1>3

\* MAX(rev) + 1, when the revisions are 1..n.
LEMMA NextAfter ==
  ASSUME NEW n \in Nat
  PROVE  (IF 1..n = {} THEN 1 ELSE Newest(1..n) + 1) = n + 1
<1>1. CASE n = 0
  BY <1>1
<1>2. CASE n # 0
  <2>1. 1..n # {} /\ n \in 1..n /\ 1..n \in SUBSET Nat
    BY <1>2
  <2>2. Newest(1..n) = n
    BY <2>1, NewestIs
  <2> QED
    BY <2>1, <2>2
<1> QED
  BY <1>1, <1>2

\* A link is known by its key and its revision.
LEMMA OneLink ==
  ASSUME ChainInv, RevsInv, TypeOK, NEW i \in DOMAIN changelog, NEW j \in DOMAIN changelog,
         changelog[i].key = changelog[j].key, changelog[i].rev = changelog[j].rev
  PROVE  i = j
<1>1. i \in Nat /\ j \in Nat
  BY Appended DEF ChainInv
<1>2. changelog[i].rev \in Nat /\ changelog[j].rev \in Nat
  BY DEF TypeOK
<1> QED
  BY <1>1, <1>2 DEF RevsInv

\* The revision of a link is one of its key's.
LEMMA LinkInRange ==
  ASSUME RevsInv, TypeOK, NEW i \in DOMAIN changelog
  PROVE  changelog[i].rev \in 1..(NextRev(changelog[i].key) - 1)
<1>1. changelog[i].rev \in LinkRevs(changelog[i].key)
  BY DEF LinkRevs
<1> QED
  BY <1>1 DEF RevsInv, TypeOK

\* The transaction of an append, with its blob, keeps what is said of the disk.
LEMMA CommittedInv ==
  ASSUME IInv, NEW k \in Keys, NEW c \in Contents, NEW j, j.key = k, j.cid = c, j.refs \in Refs,
         Committed(j), cas' = cas \cup {c}
  PROVE  /\ ChainInv' /\ RevsInv' /\ RowsInv' /\ BlobsInv' /\ HotInv'
         /\ \A i \in DOMAIN changelog' :
              changelog'[i].key \in Keys /\ changelog'[i].cid \in Contents /\ changelog'[i].rev \in Nat \ {0}
         /\ objects' \cup cold' \subseteq Rows /\ cas' \subseteq Contents
         /\ \A i \in DOMAIN changelog : i \in DOMAIN changelog' /\ changelog'[i] = changelog[i]
         /\ \E i \in DOMAIN changelog' :
              changelog'[i].key = k /\ changelog'[i].rev = NextRev(k) /\ changelog'[i].cid = c
         /\ \A h \in Keys : NextRev(h)' = IF h = k THEN NextRev(k) + 1 ELSE NextRev(h)
<1> DEFINE n == Len(changelog)
           rev == NextRev(k)
           e == Link(k, rev, c)
           row == [key |-> k, rev |-> rev, cid |-> c, refs |-> j.refs]
<1>1. /\ objects' = objects \cup {row} /\ fts' = fts \cup {<<k, rev>>} /\ cold' = cold
      /\ changelog' = Append(changelog, e)
  BY DEF Committed
<1>2. /\ n \in Nat /\ DOMAIN changelog = 1..n
      /\ Len(changelog') = n + 1 /\ DOMAIN changelog' = 1..(n + 1)
      /\ changelog' = [i \in 1..(n + 1) |-> changelog'[i]]
      /\ \A i \in 1..n : changelog'[i] = changelog[i]
      /\ changelog'[n + 1] = e
  BY <1>1, Appended DEF IInv, ChainInv
<1>3. /\ e.seq = n + 1 /\ e.key = k /\ e.rev = rev /\ e.cid = c
      /\ e = [seq |-> n + 1, key |-> k, rev |-> rev, cid |-> c,
              prev |-> ChainHead, hash |-> EntryHash(n + 1, k, rev, c, ChainHead)]
  BY DEF Link
<1>4. ChainHead = IF n + 1 = 1 THEN Genesis ELSE changelog'[n].hash
  <2>1. changelog = <<>> <=> n = 0
    BY <1>2 DEF IInv, ChainInv
  <2> QED
    BY <1>2, <2>1 DEF ChainHead, Last
<1>5. rev \in Nat \ {0} /\ LinkRevs(k) = 1..(rev - 1)
  BY DEF IInv, RevsInv
<1> HIDE DEF n, rev, e, row
<1>6. ChainInv'
  <2>1. ASSUME NEW i \in DOMAIN changelog'
        PROVE  LET d == changelog'[i]
                   prev == IF i = 1 THEN Genesis ELSE changelog'[i - 1].hash
               IN d = [seq |-> i, key |-> d.key, rev |-> d.rev, cid |-> d.cid,
                       prev |-> prev, hash |-> EntryHash(i, d.key, d.rev, d.cid, prev)]
    <3>1. CASE i = n + 1
      BY <1>2, <1>3, <1>4, <3>1
    <3>2. CASE i # n + 1
      <4>1. i \in 1..n /\ (i # 1 => i - 1 \in 1..n)
        BY <1>2, <2>1, <3>2
      <4>2. changelog'[i] = changelog[i] /\ (i # 1 => changelog'[i - 1] = changelog[i - 1])
        BY <1>2, <4>1
      <4> QED
        BY <1>2, <4>1, <4>2 DEF IInv, ChainInv
    <3> QED
      BY <3>1, <3>2
  <2> QED
    BY <1>2, <2>1 DEF ChainInv
<1>7. \A h \in Keys : LinkRevs(h)' = IF h = k THEN 1..rev ELSE LinkRevs(h)
  <2> SUFFICES ASSUME NEW h \in Keys, NEW r
               PROVE  r \in LinkRevs(h)' <=> r \in (IF h = k THEN 1..rev ELSE LinkRevs(h))
    OBVIOUS
  <2>1. r \in LinkRevs(h) <=> \E i \in 1..n : changelog[i].key = h /\ changelog[i].rev = r
    BY <1>2 DEF LinkRevs
  <2>2. r \in LinkRevs(h)' <=> \E i \in 1..(n + 1) : changelog'[i].key = h /\ changelog'[i].rev = r
    BY <1>2 DEF LinkRevs
  <2>3. r \in LinkRevs(h)' <=> r \in LinkRevs(h) \/ (h = k /\ r = rev)
    BY <1>2, <1>3, <2>1, <2>2
  <2> QED
    BY <1>5, <2>3
<1>8. \A h \in Keys : NextRev(h)' = IF h = k THEN rev + 1 ELSE NextRev(h)
  <2>1. NextRev(k)' = rev + 1
    BY <1>5, <1>7, NextAfter DEF NextRev
  <2> QED
    BY <1>7, <2>1 DEF NextRev
<1>9. RevsInv'
  <2>1. \A h \in Keys : NextRev(h)' \in Nat \ {0} /\ LinkRevs(h)' = 1..(NextRev(h)' - 1)
    BY <1>5, <1>7, <1>8 DEF IInv, RevsInv
  <2>2. ASSUME NEW a \in DOMAIN changelog', NEW b \in DOMAIN changelog', a < b,
               changelog'[a].key = changelog'[b].key
        PROVE  changelog'[a].rev < changelog'[b].rev
    <3>1. a \in 1..n /\ changelog'[a] = changelog[a]
      BY <1>2, <2>2
    <3>2. CASE b = n + 1
      <4>1. changelog[a].rev \in 1..(rev - 1)
        BY <1>2, <1>3, <2>2, <3>1, <3>2, LinkInRange DEF IInv, rev
      <4> QED
        BY <1>2, <1>3, <1>5, <3>1, <3>2, <4>1
    <3>3. CASE b # n + 1
      BY <1>2, <2>2, <3>1, <3>3 DEF IInv, RevsInv
    <3> QED
      BY <3>2, <3>3
  <2> QED
    BY <2>1, <2>2 DEF RevsInv
<1>10. row.key = k /\ row.rev = rev /\ row.cid = c /\ row \in Rows
  BY <1>5 DEF row, Rows
<1>11. RowsInv'
  <2>1. ASSUME NEW o \in objects' \cup cold'
        PROVE  \E i \in DOMAIN changelog' :
                 changelog'[i].key = o.key /\ changelog'[i].rev = o.rev /\ changelog'[i].cid = o.cid
    <3>1. CASE o = row
      BY <1>2, <1>3, <1>10, <3>1
    <3>2. CASE o \in objects \cup cold
      <4>1. PICK i \in DOMAIN changelog :
              changelog[i].key = o.key /\ changelog[i].rev = o.rev /\ changelog[i].cid = o.cid
        BY <3>2 DEF IInv, RowsInv
      <4> QED
        BY <1>2, <4>1
    <3> QED
      BY <1>1, <3>1, <3>2
  <2>2. ASSUME NEW i \in DOMAIN changelog'
        PROVE  \E o \in objects' \cup cold' : o.key = changelog'[i].key /\ o.rev = changelog'[i].rev
    <3>1. CASE i = n + 1
      BY <1>1, <1>2, <1>3, <1>10, <3>1
    <3>2. CASE i # n + 1
      <4>1. i \in DOMAIN changelog /\ changelog'[i] = changelog[i]
        BY <1>2, <3>2
      <4>2. PICK o \in objects \cup cold : o.key = changelog[i].key /\ o.rev = changelog[i].rev
        BY <4>1 DEF IInv, RowsInv
      <4> QED
        BY <1>1, <4>1, <4>2
    <3> QED
      BY <3>1, <3>2
  <2> QED
    BY <2>1, <2>2 DEF RowsInv
<1>12. BlobsInv'
  <2>1. \A o \in objects' \cup cold' : o.cid \in cas'
    BY <1>1, <1>10 DEF IInv, BlobsInv
  <2>2. fts' = {<<o.key, o.rev>> : o \in objects'}
    BY <1>1, <1>10 DEF IInv, BlobsInv
  <2> QED
    BY <2>1, <2>2 DEF BlobsInv
<1>13. \A h \in Keys : RevsOf(objects', h) = IF h = k THEN RevsOf(objects, h) \cup {rev} ELSE RevsOf(objects, h)
  BY <1>1, <1>10 DEF RevsOf
<1>14. HotInv'
  <2> SUFFICES ASSUME NEW h \in Keys, NextRev(h)' > 1
               PROVE  NextRev(h)' - 1 \in RevsOf(objects', h)
    BY DEF HotInv, RevsOf
  <2> QED
    BY <1>5, <1>8, <1>13 DEF IInv, HotInv
<1>15. /\ \A i \in DOMAIN changelog' :
            changelog'[i].key \in Keys /\ changelog'[i].cid \in Contents /\ changelog'[i].rev \in Nat \ {0}
       /\ objects' \cup cold' \subseteq Rows /\ cas' \subseteq Contents
  <2>1. \A i \in DOMAIN changelog' : i = n + 1 \/ (i \in DOMAIN changelog /\ changelog'[i] = changelog[i])
    BY <1>2
  <2> QED
    BY <1>1, <1>2, <1>3, <1>5, <1>10, <2>1 DEF IInv, TypeOK
<1>16. \A i \in DOMAIN changelog : i \in DOMAIN changelog' /\ changelog'[i] = changelog[i]
  BY <1>2
<1>17. \E i \in DOMAIN changelog' :
         changelog'[i].key = k /\ changelog'[i].rev = NextRev(k) /\ changelog'[i].cid = c
  BY <1>2, <1>3 DEF rev
<1>18. \A h \in Keys : NextRev(h)' = IF h = k THEN NextRev(k) + 1 ELSE NextRev(h)
  BY <1>8 DEF rev
<1> QED
  BY <1>6, <1>9, <1>11, <1>12, <1>14, <1>15, <1>16, <1>17, <1>18

\* Compaction takes rows of whole revisions.
LEMMA MovedWhole ==
  ASSUME NEW ns, NEW keep, NEW o \in objects, NEW p \in Moved(ns, keep), o.key = p.key, o.rev = p.rev
  PROVE  o \in Moved(ns, keep)
  BY DEF Moved

\* Compaction leaves the newest revision of a key hot: keep is at least 1.
LEMMA NewestStays ==
  ASSUME IInv, NEW ns, NEW keep \in 1..2, NEW k \in Keys, NextRev(k) > 1
  PROVE  \E o \in objects \ Moved(ns, keep) : o.key = k /\ o.rev = NextRev(k) - 1
<1> DEFINE top == NextRev(k) - 1
<1>1. PICK o \in objects : o.key = k /\ o.rev = top
  BY DEF IInv, HotInv, RevsOf
<1>2. ASSUME NEW r \in RevsOf(objects, k), r > top
      PROVE  FALSE
  <2>1. PICK p \in objects : p.key = k /\ p.rev = r
    BY <1>2 DEF RevsOf
  <2>2. PICK i \in DOMAIN changelog : changelog[i].key = k /\ changelog[i].rev = r
    BY <2>1 DEF IInv, RowsInv
  <2>3. changelog[i].rev \in 1..top
    BY <2>2, LinkInRange DEF IInv
  <2> QED
    BY <1>2, <2>2, <2>3 DEF IInv, RevsInv
<1>3. {r \in RevsOf(objects, k) : r > top} = {}
  BY <1>2
<1> HIDE DEF top
<1>4. o \notin Moved(ns, keep)
  BY <1>1, <1>3, FS_EmptySet DEF Moved
<1> QED
  BY <1>1, <1>4 DEF top

\* A step that leaves the chain and the rows alone, or only adds blobs.
LEMMA SameChain ==
  ASSUME IInv, TypeOK', UNCHANGED <<changelog, objects, cold, fts>>, cas \subseteq cas', acked' \subseteq acked
  PROVE  IInv'
<1>1. \A k \in Keys : LinkRevs(k)' = LinkRevs(k) /\ NextRev(k)' = NextRev(k)
  BY DEF LinkRevs, NextRev
<1>2. ChainInv' /\ RowsInv' /\ BlobsInv' /\ AckInv'
  BY DEF IInv, ChainInv, RowsInv, BlobsInv, AckInv
<1>3. RevsInv'
  BY <1>1 DEF IInv, RevsInv
<1>4. HotInv'
  BY <1>1 DEF IInv, HotInv, RevsOf
<1> QED
  BY <1>2, <1>3, <1>4 DEF IInv

\* The head of the queue, and the queue without it.
LEMMA HeadOfQueue ==
  ASSUME TypeOK, NEW op, Heads(op)
  PROVE  /\ Head(queue) \in Writes /\ Head(queue).op = op
         /\ Tail(queue) \in Seq(Writes) /\ Len(Tail(queue)) <= MaxQueue
         /\ op = "append" => /\ Head(queue).key \in Keys /\ Head(queue).cid \in Contents
                             /\ Head(queue).refs \in Refs
         /\ op = "compact" => Head(queue).keep \in 1..2
<1>1. queue \in Seq(Writes) /\ queue # <<>> /\ Len(queue) <= MaxQueue /\ Head(queue).op = op /\ MaxQueue \in Nat
  BY VaultAssumption DEF TypeOK, Heads
<1>2. Len(queue) \in Nat \ {0} /\ Head(queue) \in Writes /\ Tail(queue) \in Seq(Writes)
      /\ Len(Tail(queue)) = Len(queue) - 1
  BY <1>1
<1>3. Len(Tail(queue)) <= MaxQueue
  BY <1>1, <1>2
<1> QED
  BY <1>1, <1>2, <1>3 DEF Writes

\* The queue of a process that died.
LEMMA NoQueue == <<>> \in Seq(Writes) /\ Len(<<>>) <= MaxQueue
<1>1. MaxQueue \in Nat /\ Len(<<>>) = 0
  BY VaultAssumption
<1> QED
  BY <1>1

\* A write joins the queue.
LEMMA Queued ==
  ASSUME TypeOK, NEW w \in Writes, Len(queue) < MaxQueue, queue' = Append(queue, w)
  PROVE  queue' \in Seq(Writes) /\ Len(queue') <= MaxQueue
<1>1. Len(queue) \in Nat /\ Len(queue') = Len(queue) + 1 /\ queue' \in Seq(Writes) /\ MaxQueue \in Nat
  BY VaultAssumption DEF TypeOK
<1> QED
  BY <1>1

\* The head append commits, is answered or not: IInv holds of what is on disk.
LEMMA AppendInv ==
  ASSUME IInv, Heads("append"), Committed(Head(queue)), cas' = cas \cup {Head(queue).cid},
         \/ acked' = acked
         \/ acked' = acked \cup {<<Head(queue).key, NextRev(Head(queue).key)>>},
         up' \in BOOLEAN, asked' = asked, queue' \in {<<>>, Tail(queue)}
  PROVE  IInv'
<1> DEFINE j == Head(queue)
<1>1. /\ j.key \in Keys /\ j.cid \in Contents /\ j.refs \in Refs
      /\ Tail(queue) \in Seq(Writes) /\ Len(Tail(queue)) <= MaxQueue
  BY HeadOfQueue DEF IInv
<1> HIDE DEF j
<1>2. /\ ChainInv' /\ RevsInv' /\ RowsInv' /\ BlobsInv' /\ HotInv'
      /\ \A i \in DOMAIN changelog' :
           changelog'[i].key \in Keys /\ changelog'[i].cid \in Contents /\ changelog'[i].rev \in Nat \ {0}
      /\ objects' \cup cold' \subseteq Rows /\ cas' \subseteq Contents
      /\ \A i \in DOMAIN changelog : i \in DOMAIN changelog' /\ changelog'[i] = changelog[i]
      /\ \E i \in DOMAIN changelog' : changelog'[i].key = j.key /\ changelog'[i].rev = NextRev(j.key)
  BY <1>1, CommittedInv DEF j
<1>3. NextRev(j.key) \in Nat \ {0}
  BY <1>1 DEF IInv, RevsInv
<1>4. TypeOK'
  <2>1. queue' \in Seq(Writes) /\ Len(queue') <= MaxQueue
    BY <1>1, NoQueue
  <2>2. acked' \subseteq Keys \X (Nat \ {0})
    BY <1>1, <1>3 DEF IInv, TypeOK, j
  <2> QED
    BY <1>2, <2>1, <2>2 DEF IInv, TypeOK
<1>5. AckInv'
  <2> SUFFICES ASSUME NEW a \in acked'
               PROVE  \E i \in DOMAIN changelog' : changelog'[i].key = a[1] /\ changelog'[i].rev = a[2]
    BY DEF AckInv
  <2>1. CASE a \in acked
    <3>1. PICK i \in DOMAIN changelog : changelog[i].key = a[1] /\ changelog[i].rev = a[2]
      BY <2>1 DEF IInv, AckInv
    <3> QED
      BY <1>2, <3>1
  <2>2. CASE a = <<j.key, NextRev(j.key)>>
    BY <1>2, <2>2
  <2> QED
    BY <2>1, <2>2 DEF j
<1> QED
  BY <1>2, <1>4, <1>5 DEF IInv

\* compact(): rows move to the cold table and leave the index.
LEMMA CompactInv ==
  ASSUME IInv, RunCompact
  PROVE  IInv'
<1>1. PICK moved : /\ moved = Moved(Head(queue).ns, Head(queue).keep)
                   /\ objects' = objects \ moved /\ cold' = cold \cup moved
                   /\ fts' = {x \in fts : \A o \in moved : x # <<o.key, o.rev>>}
  BY DEF RunCompact
<1>2. /\ Heads("compact") /\ queue' = Tail(queue)
      /\ UNCHANGED <<changelog, cas, up, asked, acked>>
  BY DEF RunCompact
<1>3. /\ Tail(queue) \in Seq(Writes) /\ Len(Tail(queue)) <= MaxQueue
      /\ Head(queue).keep \in 1..2
  BY <1>2, HeadOfQueue DEF IInv
<1>4. moved \subseteq objects
  BY <1>1 DEF Moved
<1>5. objects' \cup cold' = objects \cup cold
  BY <1>1, <1>4
<1>6. TypeOK'
  BY <1>2, <1>3, <1>5 DEF IInv, TypeOK
<1>7. ChainInv' /\ RowsInv' /\ AckInv'
  BY <1>2, <1>5 DEF IInv, ChainInv, RowsInv, AckInv
<1>8. \A k \in Keys : LinkRevs(k)' = LinkRevs(k) /\ NextRev(k)' = NextRev(k)
  BY <1>2 DEF LinkRevs, NextRev
<1>9. RevsInv'
  BY <1>2, <1>8 DEF IInv, RevsInv
<1>10. HotInv'
  <2> SUFFICES ASSUME NEW k \in Keys, NextRev(k) > 1
               PROVE  \E o \in objects' : o.key = k /\ o.rev = NextRev(k) - 1
    BY <1>8 DEF HotInv, RevsOf
  <2> QED
    BY <1>1, <1>3, NewestStays
<1>11. BlobsInv'
  <2>1. \A o \in objects' \cup cold' : o.cid \in cas'
    BY <1>2, <1>5 DEF IInv, BlobsInv
  <2>2. \A o \in objects' : \A p \in moved : <<o.key, o.rev>> # <<p.key, p.rev>>
    BY <1>1, MovedWhole
  <2>3. fts = {<<o.key, o.rev>> : o \in objects}
    BY DEF IInv, BlobsInv
  <2>4. fts' = {<<o.key, o.rev>> : o \in objects'}
    BY <1>1, <2>2, <2>3
  <2> QED
    BY <2>1, <2>4 DEF BlobsInv
<1> QED
  BY <1>6, <1>7, <1>9, <1>10, <1>11 DEF IInv

\* Every step keeps the inductive invariant.
LEMMA StepInv == IInv /\ [Next]_vars => IInv'
<1> SUFFICES ASSUME IInv, [Next]_vars PROVE IInv'
  OBVIOUS
<1>1. ASSUME NEW k \in Keys, NEW c \in Contents, NEW refs \in Refs, AskAppend(k, c, refs) PROVE IInv'
  <2>1. [op |-> "append", key |-> k, cid |-> c, refs |-> refs] \in Writes
    BY DEF Writes
  <2>2. queue' \in Seq(Writes) /\ Len(queue') <= MaxQueue
    BY <1>1, <2>1, Queued DEF AskAppend, IInv
  <2>3. TypeOK'
    BY <1>1, <2>2, VaultAssumption DEF AskAppend, IInv, TypeOK, disk
  <2> QED
    BY <1>1, <2>3, SameChain DEF AskAppend, disk
<1>2. ASSUME NEW k \in Keys, NEW keep \in 1..2, AskCompact(Ns[k], keep) PROVE IInv'
  <2>1. [op |-> "compact", ns |-> Ns[k], keep |-> keep] \in Writes
    BY DEF Writes
  <2>2. queue' \in Seq(Writes) /\ Len(queue') <= MaxQueue
    BY <1>2, <2>1, Queued DEF AskCompact, IInv
  <2>3. TypeOK'
    BY <1>2, <2>2 DEF AskCompact, IInv, TypeOK, disk
  <2> QED
    BY <1>2, <2>3, SameChain DEF AskCompact, disk
<1>3. CASE RunAppend
  BY <1>3, AppendInv DEF RunAppend, IInv, TypeOK
<1>4. CASE AppendFails
  <2>1. Head(queue).cid \in Contents /\ Tail(queue) \in Seq(Writes) /\ Len(Tail(queue)) <= MaxQueue
    BY <1>4, HeadOfQueue DEF AppendFails, IInv
  <2>2. TypeOK'
    BY <1>4, <2>1 DEF AppendFails, IInv, TypeOK
  <2> QED
    BY <1>4, <2>2, SameChain DEF AppendFails
<1>5. CASE DieInAppend
  <2>1. CASE Committed(Head(queue))
    BY <1>5, <2>1, AppendInv DEF DieInAppend
  <2>2. CASE UNCHANGED <<changelog, objects, cold, fts>>
    <3>1. Head(queue).cid \in Contents
      BY <1>5, HeadOfQueue DEF DieInAppend, IInv
    <3>2. TypeOK'
      BY <1>5, <2>2, <3>1, NoQueue DEF DieInAppend, IInv, TypeOK
    <3> QED
      BY <1>5, <2>2, <3>2, SameChain DEF DieInAppend
  <2> QED
    BY <1>5, <2>1, <2>2 DEF DieInAppend
<1>6. CASE RunCompact
  BY <1>6, CompactInv
<1>7. CASE CompactFails
  <2>1. Tail(queue) \in Seq(Writes) /\ Len(Tail(queue)) <= MaxQueue
    BY <1>7, HeadOfQueue DEF CompactFails, IInv
  <2>2. TypeOK'
    BY <1>7, <2>1 DEF CompactFails, IInv, TypeOK, disk
  <2> QED
    BY <1>7, <2>2, SameChain DEF CompactFails, disk
<1>8. CASE Crash
  <2>1. TypeOK'
    BY <1>8, NoQueue DEF Crash, IInv, TypeOK, disk
  <2> QED
    BY <1>8, <2>1, SameChain DEF Crash, disk
<1>9. CASE Open
  <2>1. TypeOK'
    BY <1>9 DEF Open, IInv, TypeOK, disk
  <2> QED
    BY <1>9, <2>1, SameChain DEF Open, disk
<1>10. CASE UNCHANGED vars
  <2>1. TypeOK'
    BY <1>10 DEF vars, IInv, TypeOK, disk
  <2> QED
    BY <1>10, <2>1, SameChain DEF vars, disk
<1> QED
  BY <1>1, <1>2, <1>3, <1>4, <1>5, <1>6, <1>7, <1>8, <1>9, <1>10 DEF Next

\* The vault starts empty.
LEMMA InitInv == Init => IInv
<1> SUFFICES ASSUME Init PROVE IInv
  OBVIOUS
<1>1. changelog = <<>> /\ DOMAIN changelog = {} /\ Len(changelog) = 0
  BY DEF Init
<1>2. TypeOK
  BY <1>1, VaultAssumption DEF Init, TypeOK
<1>3. ChainInv /\ RowsInv /\ BlobsInv /\ AckInv
  BY <1>1 DEF Init, ChainInv, RowsInv, BlobsInv, AckInv
<1>4. \A k \in Keys : LinkRevs(k) = {} /\ NextRev(k) = 1
  BY <1>1 DEF LinkRevs, NextRev
<1>5. RevsInv /\ HotInv
  <2>1. ASSUME NEW n, n = 1
        PROVE  n \in Nat \ {0} /\ 1..(n - 1) = {}
    BY <2>1
  <2>2. \A k \in Keys : NextRev(k) \in Nat \ {0} /\ LinkRevs(k) = 1..(NextRev(k) - 1)
    BY <1>4, <2>1
  <2> QED
    BY <1>1, <1>4, <2>2 DEF RevsInv, HotInv
<1> QED
  BY <1>2, <1>3, <1>5 DEF IInv

-----------------------------------------------------------------------------
\* A read of a revision, in any store that has a row for it, when the rows of
\* that revision have their blobs: it returns the content of one of them.
LEMMA ReadOf ==
  ASSUME NEW s, NEW k, NEW r,
         \E o \in s.objects \cup s.cold : o.key = k /\ o.rev = r,
         \A o \in s.objects \cup s.cold : o.key = k /\ o.rev = r => o.cid \in s.cas
  PROVE  \E o \in s.objects \cup s.cold : o.key = k /\ o.rev = r /\ ReadRev(s, k, r) = o.cid
<1> DEFINE at(t) == {o \in t : o.key = k /\ o.rev = r}
           row == IF at(s.objects) # {} THEN at(s.objects) ELSE at(s.cold)
<1>1. row # {} /\ \A o \in row : o.key = k /\ o.rev = r /\ o.cid \in s.cas /\ o \in s.objects \cup s.cold
  OBVIOUS
<1>2. ReadRev(s, k, r) = IF \E o \in row : o.cid \in s.cas THEN (CHOOSE o \in row : TRUE).cid ELSE "none"
  BY DEF ReadRev
<1> HIDE DEF row
<1>3. (CHOOSE o \in row : TRUE) \in row
  BY <1>1
<1> QED
  BY <1>1, <1>2, <1>3

\* The rows of the revision of a link have the content of the link.
LEMMA RowsOfLink ==
  ASSUME IInv, NEW i \in DOMAIN changelog, NEW o \in objects \cup cold,
         o.key = changelog[i].key, o.rev = changelog[i].rev
  PROVE  o.cid = changelog[i].cid
<1>1. PICK j \in DOMAIN changelog :
        changelog[j].key = o.key /\ changelog[j].rev = o.rev /\ changelog[j].cid = o.cid
  BY DEF IInv, RowsInv
<1>2. i = j
  BY <1>1, OneLink DEF IInv
<1> QED
  BY <1>1, <1>2

\* The newest revision, hot, is what queries and reads without a revision find.
LEMMA NewestRead ==
  ASSUME IInv, NEW i \in DOMAIN changelog, NEW k, k = changelog[i].key
  PROVE  /\ ReadLatest(Store, k) = NextRev(k) - 1
         /\ <<k, NextRev(k) - 1>> \in Query(Store, Ns[k])
<1> DEFINE top == NextRev(k) - 1
           S == RevsOf(objects, k)
<1>1. k \in Keys /\ NextRev(k) \in Nat \ {0} /\ LinkRevs(k) = 1..top
  BY DEF IInv, TypeOK, RevsInv
<1>2. NextRev(k) > 1
  <2>1. changelog[i].rev \in 1..top
    BY LinkInRange DEF IInv
  <2> QED
    BY <1>1, <2>1
<1>3. top \in S
  BY <1>1, <1>2 DEF IInv, HotInv
<1>4. \A r \in S : r \in 1..top
  <2> SUFFICES ASSUME NEW o \in objects, o.key = k PROVE o.rev \in 1..top
    BY DEF RevsOf
  <2>1. PICK j \in DOMAIN changelog : changelog[j].key = k /\ changelog[j].rev = o.rev
    BY DEF IInv, RowsInv
  <2> QED
    BY <2>1, LinkInRange DEF IInv
<1> HIDE DEF top, S
<1>5. S \in SUBSET Nat /\ \A r \in S : r <= top
  BY <1>4
<1>6. Newest(S) = top /\ S # {}
  BY <1>3, <1>5, NewestIs
<1>7. Store.objects = objects /\ Store.cold = cold
  BY DEF Store
<1>8. ReadLatest(Store, k) = top
  BY <1>6, <1>7 DEF ReadLatest, S
<1>9. <<k, top>> \in Query(Store, Ns[k])
  BY <1>1, <1>6, <1>7 DEF Query, S
<1> QED
  BY <1>8, <1>9 DEF top

\* Every link can be read in a store that has some of the rows and the blobs of
\* those rows, as long as each link still finds a row.
LEMMA LinksRead ==
  ASSUME IInv, NEW s, s.objects \subseteq objects, s.cold \subseteq cold, BlobsResolve(s),
         NEW i \in DOMAIN changelog,
         \E o \in s.objects \cup s.cold : o.key = changelog[i].key /\ o.rev = changelog[i].rev
  PROVE  ReadRev(s, changelog[i].key, changelog[i].rev) = changelog[i].cid
<1> DEFINE k == changelog[i].key
           r == changelog[i].rev
           c == changelog[i].cid
<1>1. \A o \in s.objects \cup s.cold : o.key = k /\ o.rev = r => o.cid = c
  BY RowsOfLink
<1>4. \A o \in s.objects \cup s.cold : o.cid \in s.cas
  BY DEF BlobsResolve
<1>2. \E o \in s.objects \cup s.cold : o.key = k /\ o.rev = r
  OBVIOUS
<1> HIDE DEF k, r, c
<1>3. ReadRev(s, k, r) = c
  BY <1>1, <1>2, <1>4, ReadOf
<1> QED
  BY <1>3 DEF k, r, c

\* The fields of the store.
LEMMA StoreIs ==
  /\ Store.changelog = changelog /\ Store.objects = objects /\ Store.cold = cold
  /\ Store.cas = cas /\ Store.fts = fts
  BY DEF Store

\* The invariant gives the property of the reads.
LEMMA InvAcked == IInv => AckedIsFound
<1> SUFFICES ASSUME IInv PROVE AckedIsFound
  OBVIOUS
<1>1. BlobsResolve(Store)
  BY StoreIs DEF BlobsResolve, IInv, BlobsInv
<1>2. ASSUME NEW i \in DOMAIN changelog
      PROVE  ReadRev(Store, changelog[i].key, changelog[i].rev) = changelog[i].cid
  <2>1. \E o \in Store.objects \cup Store.cold : o.key = changelog[i].key /\ o.rev = changelog[i].rev
    BY StoreIs DEF IInv, RowsInv
  <2> QED
    BY <1>1, <2>1, StoreIs, LinksRead
<1>3. ASSUME NEW a \in acked
      PROVE  \E i \in DOMAIN changelog :
               /\ changelog[i].key = a[1] /\ changelog[i].rev = a[2]
               /\ ReadRev(Store, a[1], a[2]) = changelog[i].cid
  <2>1. PICK i \in DOMAIN changelog : changelog[i].key = a[1] /\ changelog[i].rev = a[2]
    BY DEF IInv, AckInv
  <2> QED
    BY <1>2, <2>1
<1> QED
  BY <1>3, NewestRead DEF AckedIsFound

\* verify() passes over the store as it is.
LEMMA InvVerifies == IInv => Verify(Store) /\ Copy(Store) = Store
<1> SUFFICES ASSUME IInv PROVE Verify(Store) /\ Copy(Store) = Store
  OBVIOUS
<1>1. /\ Store.changelog = changelog /\ Store.objects = objects /\ Store.cold = cold
      /\ Store.cas = cas /\ Store.fts = fts
  BY StoreIs
<1>2. ChainHolds(Store)
  <2> SUFFICES ASSUME NEW i \in DOMAIN changelog
               PROVE  LET e == changelog[i]
                          prev == IF i = 1 THEN Genesis ELSE changelog[i - 1].hash
                      IN e.seq = i /\ e.prev = prev /\ e.hash = EntryHash(e.seq, e.key, e.rev, e.cid, prev)
    BY <1>1 DEF ChainHolds
  <2> DEFINE e == changelog[i]
             prev == IF i = 1 THEN Genesis ELSE changelog[i - 1].hash
  <2>1. e = [seq |-> i, key |-> e.key, rev |-> e.rev, cid |-> e.cid,
             prev |-> prev, hash |-> EntryHash(i, e.key, e.rev, e.cid, prev)]
    BY DEF IInv, ChainInv
  <2> HIDE DEF prev
  <2>2. e.seq = i /\ e.prev = prev /\ e.hash = EntryHash(i, e.key, e.rev, e.cid, prev)
    BY <2>1
  <2> QED
    BY <2>2 DEF prev
<1>3. LinksResolve(Store)
  BY <1>1 DEF LinksResolve, IInv, RowsInv
<1>4. BlobsResolve(Store)
  BY <1>1 DEF BlobsResolve, IInv, BlobsInv
<1>5. Copy(Store) = Store
  <2>1. {<<o.key, o.rev>> : o \in {p \in objects : p.cid \in cas}} = fts
    BY DEF IInv, BlobsInv
  <2>2. Copy(Store) = [Store EXCEPT !.fts = fts]
    BY <1>1, <2>1 DEF Copy
  <2> QED
    BY <2>2 DEF Store
<1> QED
  BY <1>2, <1>3, <1>4, <1>5 DEF Verify

\* The elements of two sequences, one after the other.
LEMMA ConcatParts ==
  ASSUME NEW T, NEW a \in Seq(T), NEW b \in Seq(T)
  PROVE  /\ a \o b \in Seq(T) /\ Len(a \o b) = Len(a) + Len(b)
         /\ \A j \in 1..Len(a) : (a \o b)[j] = a[j]
         /\ \A j \in 1..Len(b) : (a \o b)[Len(a) + j] = b[j]
  BY ConcatProperties

\* A sequence without its element i.
LEMMA RemovedAt ==
  ASSUME NEW T, NEW s \in Seq(T), NEW i \in 1..Len(s)
  PROVE  /\ RemoveAt(s, i) \in Seq(T) /\ Len(RemoveAt(s, i)) = Len(s) - 1
         /\ \A j \in 1..(i - 1) : RemoveAt(s, i)[j] = s[j]
         /\ \A j \in i..(Len(s) - 1) : RemoveAt(s, i)[j] = s[j + 1]
<1> DEFINE a == SubSeq(s, 1, i - 1)
           b == SubSeq(s, i + 1, Len(s))
           ab == a \o b
<1>1. a \in Seq(T) /\ b \in Seq(T)
  OBVIOUS
<1>2. Len(a) = i - 1 /\ \A j \in 1..(i - 1) : a[j] = s[j]
  OBVIOUS
<1>3. Len(b) = Len(s) - i /\ \A j \in 1..(Len(s) - i) : b[j] = s[i + j]
  OBVIOUS
<1> HIDE DEF a, b
<1>4. /\ ab \in Seq(T) /\ Len(ab) = Len(a) + Len(b)
      /\ \A j \in 1..Len(a) : ab[j] = a[j]
      /\ \A j \in 1..Len(b) : ab[Len(a) + j] = b[j]
  BY <1>1, ConcatParts
<1> HIDE DEF ab
<1>5. Len(s) \in Nat
  OBVIOUS
<1>6. \A j \in i..(Len(s) - 1) : ab[j] = s[j + 1]
  <2> SUFFICES ASSUME NEW j \in i..(Len(s) - 1) PROVE ab[j] = s[j + 1]
    OBVIOUS
  <2>1. j - (i - 1) \in 1..Len(b) /\ Len(a) + (j - (i - 1)) = j /\ i + (j - (i - 1)) = j + 1
    BY <1>2, <1>3, <1>5
  <2>2. b[j - (i - 1)] = s[i + (j - (i - 1))]
    BY <1>3, <2>1
  <2> QED
    BY <1>4, <2>1, <2>2
<1>7. Len(ab) = Len(s) - 1
  BY <1>2, <1>3, <1>4, <1>5
<1>8. \A j \in 1..(i - 1) : ab[j] = s[j]
  BY <1>2, <1>4
<1>9. RemoveAt(s, i) = ab
  BY DEF RemoveAt, ab, a, b
<1> QED
  BY <1>4, <1>6, <1>7, <1>8, <1>9

\* The chain is a sequence of its links, and each carries its own position.
LEMMA ChainIsSeq ==
  ASSUME ChainInv
  PROVE  /\ changelog \in Seq({changelog[i] : i \in DOMAIN changelog})
         /\ Len(changelog) \in Nat /\ DOMAIN changelog = 1..Len(changelog)
         /\ \A i \in DOMAIN changelog : changelog[i].seq = i
<1>1. Len(changelog) \in Nat /\ DOMAIN changelog = 1..Len(changelog)
  BY DEF ChainInv
<1> DEFINE T == {changelog[i] : i \in DOMAIN changelog}
<1>2. changelog \in [1..Len(changelog) -> T]
  BY <1>1 DEF ChainInv
<1> HIDE DEF T
<1>3. changelog \in Seq(T)
  BY <1>1, <1>2
<1>4. \A i \in DOMAIN changelog : changelog[i].seq = i
  BY DEF ChainInv
<1> QED
  BY <1>1, <1>3, <1>4 DEF T

\* A chain that lost a link is verified only if it lost its last one.
LEMMA LostLink ==
  ASSUME IInv, NEW i \in DOMAIN changelog, NEW s, s.changelog = RemoveAt(changelog, i), ChainHolds(s)
  PROVE  /\ IsPrefix(s.changelog, changelog)
         /\ \A j \in DOMAIN s.changelog : j \in DOMAIN changelog /\ s.changelog[j] = changelog[j]
<1> DEFINE T == {changelog[j] : j \in DOMAIN changelog}
           n == Len(changelog)
           t == RemoveAt(changelog, i)
<1>1. /\ changelog \in Seq(T) /\ n \in Nat /\ DOMAIN changelog = 1..n
      /\ \A j \in DOMAIN changelog : changelog[j].seq = j
  BY ChainIsSeq DEF IInv
<1> HIDE DEF T
<1>2. /\ t \in Seq(T) /\ Len(t) = n - 1
      /\ \A j \in 1..(i - 1) : t[j] = changelog[j]
      /\ \A j \in i..(n - 1) : t[j] = changelog[j + 1]
  <2>1. changelog \in Seq(T) /\ i \in 1..Len(changelog)
    BY <1>1
  <2>2. QED BY <2>1, RemovedAt
<1> HIDE DEF t, n
<1>3. DOMAIN t = 1..(n - 1)
  BY <1>2
<1>4. \A j \in DOMAIN t : t[j].seq = j
  BY DEF ChainHolds, t
<1>5. i = n
  <2> SUFFICES ASSUME i # n PROVE FALSE
    OBVIOUS
  <2>1. i \in DOMAIN t /\ t[i] = changelog[i + 1] /\ i + 1 \in DOMAIN changelog /\ i \in Nat
    BY <1>1, <1>2, <1>3
  <2> QED
    BY <1>1, <1>4, <2>1
<1>6. \A j \in DOMAIN t : j \in DOMAIN changelog /\ t[j] = changelog[j]
  BY <1>1, <1>2, <1>3, <1>5
<1>7. IsPrefix(t, changelog)
  <2>1. SubSeq(t, 1, n - 1) = [j \in 1..(n - 1) |-> t[j]]
    BY <1>1, <1>2, <1>5
  <2>2. SubSeq(changelog, 1, n - 1) = [j \in 1..(n - 1) |-> changelog[j]]
    BY <1>1, <1>5 DEF n
  <2>3. Len(t) <= Len(changelog) /\ Len(t) = n - 1
    BY <1>1, <1>2 DEF n
  <2> QED
    BY <1>3, <1>6, <2>1, <2>2, <2>3 DEF IsPrefix
<1> QED
  BY <1>6, <1>7 DEF t

\* A chain with an altered link is verified only if nothing was altered: the
\* hash of the link names its content.
LEMMA AlteredLink ==
  ASSUME IInv, NEW i \in DOMAIN changelog, NEW c, NEW s,
         s.changelog = [changelog EXCEPT ![i].cid = c], ChainHolds(s)
  PROVE  s.changelog = changelog
<1> DEFINE e == changelog[i]
           d == [e EXCEPT !.cid = c]
           prev == IF i = 1 THEN Genesis ELSE changelog[i - 1].hash
           prevd == IF i = 1 THEN Genesis ELSE s.changelog[i - 1].hash
<1>1. e = [seq |-> i, key |-> e.key, rev |-> e.rev, cid |-> e.cid,
           prev |-> prev, hash |-> EntryHash(i, e.key, e.rev, e.cid, prev)]
  BY DEF IInv, ChainInv
<1>2. changelog = [j \in DOMAIN changelog |-> changelog[j]]
  BY DEF IInv, ChainInv
<1>3. /\ DOMAIN s.changelog = DOMAIN changelog /\ s.changelog[i] = d
      /\ s.changelog = [j \in DOMAIN changelog |-> IF j = i THEN d ELSE changelog[j]]
  BY <1>2
<1>4. d.seq = i /\ d.hash = EntryHash(d.seq, d.key, d.rev, d.cid, prevd)
  BY <1>3 DEF ChainHolds
<1> HIDE DEF e, prev, prevd
<1>5. d = [seq |-> i, key |-> e.key, rev |-> e.rev, cid |-> c,
           prev |-> prev, hash |-> EntryHash(i, e.key, e.rev, e.cid, prev)]
  BY <1>1
<1> HIDE DEF d
<1>6. EntryHash(i, e.key, e.rev, e.cid, prev) = EntryHash(i, e.key, e.rev, c, prevd)
  BY <1>4, <1>5
<1>7. e.cid = c
  BY <1>6 DEF EntryHash
<1>8. d = e
  BY <1>1, <1>5, <1>7
<1> QED
  BY <1>2, <1>3, <1>8 DEF e

\* What VerifyIsExact says of one damaged store.
PrefixRead(s) ==
  /\ IsPrefix(s.changelog, changelog)
  /\ \A i \in DOMAIN s.changelog :
       ReadRev(s, s.changelog[i].key, s.changelog[i].rev) = s.changelog[i].cid

\* A store whose chain is whole and whose tables or blobs lost something.
LEMMA LostRows ==
  ASSUME IInv, NEW s, s.changelog = changelog, s.objects \subseteq objects, s.cold \subseteq cold, Verify(s)
  PROVE  PrefixRead(s)
<1>1. BlobsResolve(s) /\ LinksResolve(s)
  BY DEF Verify
<1>2. IsPrefix(changelog, changelog)
  BY ChainIsSeq DEF IInv, IsPrefix
<1>3. ASSUME NEW i \in DOMAIN changelog
      PROVE  ReadRev(s, changelog[i].key, changelog[i].rev) = changelog[i].cid
  <2>1. \E o \in s.objects \cup s.cold : o.key = changelog[i].key /\ o.rev = changelog[i].rev
    BY <1>1 DEF LinksResolve
  <2> QED
    BY <1>1, <2>1, LinksRead
<1> QED
  BY <1>2, <1>3 DEF PrefixRead

\* What verify() lets pass is a prefix of the chain that can be read.
LEMMA DamageSeen ==
  ASSUME IInv, NEW s \in Damaged(Store), Verify(s)
  PROVE  PrefixRead(s)
<1>1. CASE s \in {[Store EXCEPT !.cas = @ \ {c}] : c \in cas}
  <2>1. PICK c \in cas : s = [Store EXCEPT !.cas = @ \ {c}]
    BY <1>1
  <2>2. s.changelog = changelog /\ s.objects = objects /\ s.cold = cold
    BY <2>1 DEF Store
  <2> QED
    BY <2>2, LostRows
<1>2. CASE s \in {[Store EXCEPT !.objects = @ \ {o}] : o \in objects}
  <2>1. PICK o \in objects : s = [Store EXCEPT !.objects = @ \ {o}]
    BY <1>2
  <2>2. s.changelog = changelog /\ s.objects = objects \ {o} /\ s.cold = cold
    BY <2>1 DEF Store
  <2> QED
    BY <2>2, LostRows
<1>3. CASE s \in {[Store EXCEPT !.cold = @ \ {o}] : o \in cold}
  <2>1. PICK o \in cold : s = [Store EXCEPT !.cold = @ \ {o}]
    BY <1>3
  <2>2. s.changelog = changelog /\ s.objects = objects /\ s.cold = cold \ {o}
    BY <2>1 DEF Store
  <2> QED
    BY <2>2, LostRows
<1>4. CASE s \in {[Store EXCEPT !.changelog = RemoveAt(@, i)] : i \in DOMAIN changelog}
  <2>1. PICK i \in DOMAIN changelog : s = [Store EXCEPT !.changelog = RemoveAt(@, i)]
    BY <1>4
  <2>2. s.changelog = RemoveAt(changelog, i) /\ s.objects = objects /\ s.cold = cold
    BY <2>1 DEF Store
  <2>3. BlobsResolve(s) /\ ChainHolds(s)
    BY DEF Verify
  <2>4. /\ IsPrefix(s.changelog, changelog)
        /\ \A j \in DOMAIN s.changelog : j \in DOMAIN changelog /\ s.changelog[j] = changelog[j]
    BY <2>2, <2>3, LostLink
  <2>5. ASSUME NEW j \in DOMAIN changelog
        PROVE  ReadRev(s, changelog[j].key, changelog[j].rev) = changelog[j].cid
    <3>1. \E o \in s.objects \cup s.cold : o.key = changelog[j].key /\ o.rev = changelog[j].rev
      BY <2>2 DEF IInv, RowsInv
    <3> QED
      BY <2>2, <2>3, <3>1, LinksRead
  <2> QED
    BY <2>4, <2>5 DEF PrefixRead
<1>5. CASE s \in {[Store EXCEPT !.changelog[i].cid = c] : i \in DOMAIN changelog, c \in Contents}
  <2>1. PICK i \in DOMAIN changelog, c \in Contents : s = [Store EXCEPT !.changelog[i].cid = c]
    BY <1>5
  <2>2. s.changelog = [changelog EXCEPT ![i].cid = c] /\ s.objects = objects /\ s.cold = cold
    BY <2>1 DEF Store
  <2>3. s.changelog = changelog
    BY <2>2, AlteredLink DEF Verify
  <2> QED
    BY <2>2, <2>3, LostRows
<1> QED
  BY <1>1, <1>2, <1>3, <1>4, <1>5, StoreIs DEF Damaged

\* The invariant gives the property of verify().
LEMMA InvVerify == IInv => VerifyIsExact
<1> SUFFICES ASSUME IInv PROVE VerifyIsExact
  OBVIOUS
<1>1. Verify(Store) /\ Copy(Store) = Store /\ Verify(Copy(Store))
  BY InvVerifies
<1>2. \A s \in Damaged(Store) : Verify(s) => PrefixRead(s)
  BY DamageSeen
<1> QED
  BY <1>1, <1>2 DEF VerifyIsExact, PrefixRead

\* A revision is found in the chain by its key and its number.
Found ==
  \A k \in Keys, r \in Nat : \A i \in DOMAIN changelog :
    changelog[i].key = k /\ changelog[i].rev = r => LinkOf(k, r) = i

LEMMA FoundByRev == IInv => Found
<1> SUFFICES ASSUME IInv, NEW k \in Keys, NEW r \in Nat, NEW i \in DOMAIN changelog,
                    changelog[i].key = k, changelog[i].rev = r
             PROVE  LinkOf(k, r) = i
  BY DEF Found
<1> DEFINE l == LinkOf(k, r)
<1>1. l \in DOMAIN changelog /\ changelog[l].key = k /\ changelog[l].rev = r
  BY DEF LinkOf
<1> HIDE DEF l
<1>2. l = i
  BY <1>1, OneLink DEF IInv
<1> QED
  BY <1>2 DEF l

\* A step that leaves the chain alone leaves the history alone.
LEMMA SameHistory == changelog' = changelog => History' = History
  BY DEF History, LinkOf, NextRev, LinkRevs

\* A committed append adds one revision to the history of its key.
LEMMA OneRevision ==
  ASSUME IInv, IInv', NEW k \in Keys, NEW c \in Contents, NEW j, j.key = k, j.cid = c, j.refs \in Refs,
         Committed(j), cas' = cas \cup {c}
  PROVE  History' = [History EXCEPT ![k] = Append(@, c)] /\ Len(History[k]) + 1 = NextRev(k)
<1>1. Found
  BY FoundByRev
<1>2. Found'
  <2>1. IInv' => Found'
    BY FoundByRev, PTL
  <2> QED
    BY <2>1
<1>3. /\ \A i \in DOMAIN changelog : i \in DOMAIN changelog' /\ changelog'[i] = changelog[i]
      /\ \E i \in DOMAIN changelog' :
           changelog'[i].key = k /\ changelog'[i].rev = NextRev(k) /\ changelog'[i].cid = c
      /\ \A h \in Keys : NextRev(h)' = IF h = k THEN NextRev(k) + 1 ELSE NextRev(h)
  BY CommittedInv
<1>4. \A h \in Keys : NextRev(h) \in Nat \ {0} /\ LinkRevs(h) = 1..(NextRev(h) - 1)
  BY DEF IInv, RevsInv
<1>5. ASSUME NEW h \in Keys, NEW r \in 1..(NextRev(h) - 1)
      PROVE  changelog'[LinkOf(h, r)'].cid = changelog[LinkOf(h, r)].cid
  <2>1. PICK i \in DOMAIN changelog : changelog[i].key = h /\ changelog[i].rev = r
    BY <1>4 DEF LinkRevs
  <2>2. r \in Nat
    BY <1>4
  <2>3. LinkOf(h, r) = i
    BY <1>1, <2>1, <2>2 DEF Found
  <2>4. LinkOf(h, r)' = i
    BY <1>2, <1>3, <2>1, <2>2 DEF Found
  <2> QED
    BY <1>3, <2>3, <2>4
<1>6. PICK n \in Nat \ {0} : n = NextRev(k)
  BY <1>4
<1>7. changelog'[LinkOf(k, n)'].cid = c
  <2>1. PICK i \in DOMAIN changelog' : changelog'[i].key = k /\ changelog'[i].rev = n /\ changelog'[i].cid = c
    BY <1>3, <1>6
  <2>2. LinkOf(k, n)' = i
    BY <1>2, <2>1 DEF Found
  <2> QED
    BY <2>1, <2>2
<1>8. History = [h \in Keys |-> [r \in 1..(NextRev(h) - 1) |-> changelog[LinkOf(h, r)].cid]]
  BY DEF History
<1>9. History' = [h \in Keys |-> [r \in 1..(NextRev(h)' - 1) |-> changelog'[LinkOf(h, r)'].cid]]
  BY DEF History
<1>10. ASSUME NEW h \in Keys, h # k
       PROVE  History'[h] = History[h]
  <2>1. NextRev(h)' = NextRev(h)
    BY <1>3, <1>10
  <2> QED
    BY <1>5, <1>8, <1>9, <2>1
<1>11. History'[k] = Append(History[k], c) /\ Len(History[k]) = n - 1
  <2> DEFINE f == History[k]
             g == History'[k]
  <2>1. f = [r \in 1..(n - 1) |-> changelog[LinkOf(k, r)].cid]
    BY <1>6, <1>8
  <2>2. NextRev(k)' - 1 = n
    BY <1>3, <1>6
  <2>3. g = [r \in 1..n |-> changelog'[LinkOf(k, r)'].cid]
    BY <1>9, <2>2
  <2>4. \A r \in 1..(n - 1) : changelog'[LinkOf(k, r)'].cid = changelog[LinkOf(k, r)].cid
    BY <1>5, <1>6
  <2>5. \A r \in 1..n : g[r] = IF r = n THEN c ELSE f[r]
    BY <1>7, <2>1, <2>3, <2>4
  <2>6. DOMAIN f = 1..(n - 1) /\ f = [r \in 1..(n - 1) |-> f[r]]
    BY <2>1
  <2>7. DOMAIN g = 1..n /\ g = [r \in 1..n |-> g[r]]
    BY <2>3
  <2> HIDE DEF f, g
  <2>8. Len(f) = n - 1
    BY <2>6
  <2>9. /\ Append(f, c) = [r \in 1..n |-> Append(f, c)[r]]
        /\ \A r \in 1..(n - 1) : Append(f, c)[r] = f[r]
        /\ Append(f, c)[n] = c
    BY <2>6, <2>8, Appended
  <2>10. g = Append(f, c)
    <3>1. \A r \in 1..n : g[r] = Append(f, c)[r]
      BY <2>5, <2>9
    <3> QED
      BY <2>7, <2>9, <3>1
  <2> QED
    BY <2>8, <2>10 DEF f, g
<1>12. History' = [History EXCEPT ![k] = Append(@, c)]
  <2>1. DOMAIN History = Keys /\ History = [h \in Keys |-> History[h]] /\ History' = [h \in Keys |-> History'[h]]
    BY <1>8, <1>9
  <2> QED
    BY <1>10, <1>11, <2>1
<1> QED
  BY <1>6, <1>11, <1>12

\* Every step of the vault is a commit of the versioned store, or invisible.
LEMMA StepRefines ==
  ASSUME IInv, IInv', [Next]_vars
  PROVE  [Abstract!Next]_(Abstract!vars)
<1> DEFINE q == Head(queue)
<1>1. ASSUME Heads("append"), Committed(q), cas' = cas \cup {q.cid},
             acked' = acked \/ acked' = acked \cup {<<q.key, NextRev(q.key)>>}
      PROVE  Abstract!Next
  <2>1. q.key \in Keys /\ q.cid \in Contents /\ q.refs \in Refs
    BY <1>1, HeadOfQueue DEF IInv
  <2>2. PICK k \in Keys, c \in Contents : k = q.key /\ c = q.cid
    BY <2>1
  <2>3. History' = [History EXCEPT ![k] = Append(@, c)] /\ Len(History[k]) + 1 = NextRev(k)
    BY <1>1, <2>1, <2>2, OneRevision
  <2>4. Abstract!Commit(k, c)
    BY <1>1, <2>2, <2>3 DEF Abstract!Commit
  <2> QED
    BY <2>4 DEF Abstract!Next
<1>2. ASSUME changelog' = changelog, acked' = acked
      PROVE  UNCHANGED Abstract!vars
  BY <1>2, SameHistory DEF Abstract!vars
<1>3. CASE RunAppend
  BY <1>1, <1>3 DEF RunAppend
<1>4. CASE DieInAppend
  BY <1>1, <1>2, <1>4 DEF DieInAppend
<1>5. CASE \/ \E k \in Keys, c \in Contents, refs \in Refs : AskAppend(k, c, refs)
           \/ \E k \in Keys, keep \in 1..2 : AskCompact(Ns[k], keep)
           \/ AppendFails \/ RunCompact \/ CompactFails \/ Crash \/ Open \/ UNCHANGED vars
  <2>1. changelog' = changelog /\ acked' = acked
    BY <1>5 DEF AskAppend, AskCompact, AppendFails, RunCompact, CompactFails, Crash, Open, vars, disk
  <2> QED
    BY <1>2, <2>1
<1> QED
  BY <1>3, <1>4, <1>5 DEF Next

\* The vault starts as an empty versioned store.
LEMMA InitRefines == Init => Abstract!Init
<1> SUFFICES ASSUME Init PROVE Abstract!Init
  OBVIOUS
<1>1. \A k \in Keys : NextRev(k) - 1 = 0
  BY DEF Init, NextRev, LinkRevs
<1>2. \A k \in Keys : [r \in 1..(NextRev(k) - 1) |-> changelog[LinkOf(k, r)].cid] = <<>>
  <2> SUFFICES ASSUME NEW k \in Keys
               PROVE  [r \in 1..(NextRev(k) - 1) |-> changelog[LinkOf(k, r)].cid] = <<>>
    OBVIOUS
  <2>1. 1..(NextRev(k) - 1) = {}
    BY <1>1
  <2> QED
    BY <2>1
<1> QED
  BY <1>2 DEF Init, Abstract!Init, History

-----------------------------------------------------------------------------
\* Links, rows, blobs and index entries of vault/src stand for each other at
\* every moment, whatever fails, dies or is compacted.
THEOREM Inductive == Spec => []IInv
<1>1. Init => IInv
  BY InitInv
<1>2. IInv /\ [Next]_vars => IInv'
  BY StepInv
<1> QED
  BY <1>1, <1>2, PTL DEF Spec

\* Type correctness of the vault.
THEOREM TypeCorrect == Spec => []TypeOK
<1>1. IInv => TypeOK
  BY DEF IInv
<1> QED
  BY <1>1, Inductive, PTL

\* appendObject() and compact(): what was answered is read back at its revision
\* with its content, and the newest revision is the one queries and reads find.
THEOREM AckedFound == Spec => []AckedIsFound
<1>1. IInv => AckedIsFound
  BY InvAcked
<1> QED
  BY <1>1, Inductive, PTL

\* verify() and roundtrip(): the store and its copy are verified, and a damaged
\* store that is verified is a readable prefix of the chain.
THEOREM VerifyExact == Spec => []VerifyIsExact
<1>1. IInv => VerifyIsExact
  BY InvVerify
<1> QED
  BY <1>1, Inductive, PTL

\* compact(): what a live object refers to stays hot.
THEOREM Provenance == Spec => ProvenanceKept
<1> DEFINE A == \A o \in objects \cap objects' : \A p \in objects : <<p.key, p.rev>> \in o.refs => p \in objects'
<1>1. ASSUME [Next]_vars
      PROVE  A
  <2>1. CASE RunCompact
    <3>1. objects' = objects \ Moved(Head(queue).ns, Head(queue).keep)
      BY <2>1 DEF RunCompact
    <3>2. \A o, p \in objects : <<p.key, p.rev>> \in o.refs => p \notin Moved(Head(queue).ns, Head(queue).keep)
      BY DEF Moved, LiveRefs
    <3> QED
      BY <3>1, <3>2
  <2>2. CASE RunAppend \/ DieInAppend
    <3>1. objects \subseteq objects'
      BY <2>2 DEF RunAppend, DieInAppend, Committed
    <3> QED
      BY <3>1
  <2>3. CASE \/ \E k \in Keys, c \in Contents, refs \in Refs : AskAppend(k, c, refs)
             \/ \E k \in Keys, keep \in 1..2 : AskCompact(Ns[k], keep)
             \/ AppendFails \/ CompactFails \/ Crash \/ Open \/ UNCHANGED vars
    <3>1. objects' = objects
      BY <2>3 DEF AskAppend, AskCompact, AppendFails, CompactFails, Crash, Open, vars, disk
    <3> QED
      BY <3>1
  <2> QED
    BY <1>1, <2>1, <2>2, <2>3 DEF Next
<1>2. [Next]_vars => [A]_vars
  BY <1>1
<1> QED
  BY <1>2, PTL DEF Spec, ProvenanceKept

\* appendObject() in changelog.ts, behind a queue, over four tables and a blob
\* store that is compacted, fails and dies: to its callers the vault is the
\* versioned store, in which a revision once committed neither changes nor
\* disappears, and only committed revisions are acknowledged.
THEOREM Refines == Spec => ImplementsStore
<1>1. Init => Abstract!Init
  BY InitRefines
<1>2. IInv /\ IInv' /\ [Next]_vars => [Abstract!Next]_(Abstract!vars)
  BY StepRefines
<1> QED
  BY <1>1, <1>2, Inductive, PTL DEF Spec, ImplementsStore, Abstract!Spec

=============================================================================
