-------------------------- MODULE PortRouterProofs --------------------------
(***************************************************************************)
(* Proofs about PortRouter, for any number of compartments, calls and slots,*)
(* and about JournalFold, the router with the law's journal rows in it.     *)
(*                                                                          *)
(* The inductive invariant IInv joins the type invariant with the ledger,   *)
(* the phases of the legs, the history of what was posted and the shape of  *)
(* the queues.  Its core is that a leg which waits or is pending is exactly *)
(* the leg its call awaits: that makes the causation id, which both legs    *)
(* share, a safe key.  Every step of the router is of one of four kinds (a  *)
(* fresh leg enters, one leg is resolved and its slot passed on, a whole    *)
(* compartment fails, no leg moves).  Each kind keeps IInv, is a step of    *)
(* the contract of a port call, leaves no compartment idle with a queue,    *)
(* keeps the gates of a queue ahead of its ops and forgets no leg.          *)
(*                                                                          *)
(* The last section adds what the journal needs: the law answers a check    *)
(* "allow" only once the append of that call's row is answered, and while   *)
(* nothing is slow every pending leg is in its worker's hands.  The theorems*)
(* about the router rest on RouterAssumption only.                          *)
(***************************************************************************)
EXTENDS JournalFold, FiniteSetTheorems, SequenceTheorems, TLAPS

(* The inductive invariant.                                                *)

\* Each queue holds legs of its own compartment, each at most once.
QueueTypes ==
  /\ waiting \in [Compartments -> Seq(Deliveries)]
  /\ \A t \in Compartments : \A i \in DOMAIN waiting[t] : To(waiting[t][i]) = t
  /\ \A t \in Compartments : \A i, j \in DOMAIN waiting[t] : waiting[t][i] = waiting[t][j] => i = j

\* The same of the current queues, and a leg that waits was never posted.
QueueInv ==
  \A t \in Compartments :
    /\ \A i \in DOMAIN waiting[t] : To(waiting[t][i]) = t
    /\ \A i, j \in DOMAIN waiting[t] : waiting[t][i] = waiting[t][j] => i = j
    /\ Queued(t) \cap posted = {}

\* What the router posted tells the phase of the call.
HistoryInv ==
  /\ pending \subseteq posted
  /\ \A t \in Compartments : \A d \in held[t] : d \in posted /\ To(d) = t
  /\ \A c \in Calls : Gate(c) \in posted \cup Queued(Law) => stage[c] # "idle" /\ c \in Risky
  /\ \A c \in Calls : Op(c) \in posted \cup Queued(Target[c]) =>
       stage[c] = "op" /\ (c \in Risky => gateAns[c] = "allow")
  /\ \A c \in Calls : stage[c] = "idle" => gateAns[c] = "none"

\* A ledger is finite and within the cap.
SlotInv ==
  \A t \in Compartments :
    IsFiniteSet(inflight[t]) /\ Cardinality(inflight[t]) <= MaxConcurrentCalls[t]

IInv == TypeOK /\ QueueInv /\ HistoryInv /\ PhasesAgree /\ LedgerAgrees /\ SlotInv

-----------------------------------------------------------------------------
(* Queues.                                                                 *)

\* Array.splice(k, 0, d) of deliver().
Spliced(q, d, k) == SubSeq(q, 1, k) \o <<d>> \o SubSeq(q, k + 1, Len(q))

\* What stands where in the spliced queue.
LEMMA InsertedAt ==
  ASSUME NEW S, NEW q \in Seq(S), NEW d \in S, NEW k \in 0..Len(q)
  PROVE  /\ Spliced(q, d, k) \in Seq(S)
         /\ Len(Spliced(q, d, k)) = Len(q) + 1
         /\ \A i \in 1..Len(Spliced(q, d, k)) :
              Spliced(q, d, k)[i] = IF i <= k THEN q[i] ELSE IF i = k + 1 THEN d ELSE q[i - 1]
<1> DEFINE a == SubSeq(q, 1, k)
           b == SubSeq(q, k + 1, Len(q))
           g == a \o <<d>>
           p == g \o b
<1>a. a \in Seq(S) /\ Len(a) = k /\ \A i \in 1..k : a[i] = q[i]
  BY SubSeqProperties
<1>b. b \in Seq(S) /\ Len(b) = Len(q) - k /\ \A i \in 1..(Len(q) - k) : b[i] = q[k + i]
  BY SubSeqProperties
<1>c. <<d>> \in Seq(S) /\ Len(<<d>>) = 1 /\ <<d>>[1] = d
  OBVIOUS
<1> HIDE DEF a, b
<1>d. g \in Seq(S) /\ Len(g) = k + 1
  BY <1>a, <1>c, ConcatProperties
<1>e. \A i \in 1..(k + 1) : g[i] = IF i <= k THEN q[i] ELSE d
  BY <1>a, <1>c, ConcatProperties
<1> HIDE DEF g
<1>f. p \in Seq(S) /\ Len(p) = Len(q) + 1
  <2>1. p \in Seq(S) /\ Len(p) = Len(g) + Len(b)
    BY <1>b, <1>d, ConcatProperties
  <2>2. Len(g) + Len(b) = Len(q) + 1
    BY <1>b, <1>d
  <2> HIDE DEF p
  <2> QED
    BY <2>1, <2>2
<1>g. \A i \in 1..(Len(q) + 1) : p[i] = IF i <= k + 1 THEN g[i] ELSE b[i - (k + 1)]
  <2>1. Len(g) + Len(b) = Len(q) + 1
    BY <1>b, <1>d
  <2> QED
    BY <2>1, <1>b, <1>d, ConcatProperties
<1> HIDE DEF p
<1>h. ASSUME NEW i \in 1..(Len(q) + 1)
      PROVE  p[i] = IF i <= k THEN q[i] ELSE IF i = k + 1 THEN d ELSE q[i - 1]
  <2>1. CASE i <= k + 1
    BY <2>1, <1>e, <1>g
  <2>2. CASE ~(i <= k + 1)
    <3>1. i - (k + 1) \in 1..(Len(q) - k) /\ k + (i - (k + 1)) = i - 1
      BY <2>2
    <3>2. b[i - (k + 1)] = q[i - 1]
      BY <3>1, <1>b
    <3>3. i # k + 1 /\ ~(i <= k)
      BY <2>2
    <3> QED
      BY <2>2, <3>2, <3>3, <1>g
  <2> QED
    BY <2>1, <2>2
<1>1. /\ p \in Seq(S)
      /\ Len(p) = Len(q) + 1
      /\ \A i \in 1..Len(p) :
           p[i] = IF i <= k THEN q[i] ELSE IF i = k + 1 THEN d ELSE q[i - 1]
  BY <1>f, <1>h
<1> QED
  BY <1>1 DEF p, g, a, b, Spliced

\* The elements of the queue and d, still without a repetition when d was not
\* among them.
LEMMA InsertedElements ==
  ASSUME NEW S, NEW q \in Seq(S), NEW d \in S, NEW k \in 0..Len(q)
  PROVE  LET p == Spliced(q, d, k) IN
         /\ \A i \in DOMAIN q : q[i] # d
         /\ \A i, j \in DOMAIN q : q[i] = q[j] => i = j
         =>
         /\ p \in Seq(S)
         /\ {p[i] : i \in DOMAIN p} = {q[i] : i \in DOMAIN q} \cup {d}
         /\ \A i, j \in DOMAIN p : p[i] = p[j] => i = j
<1> DEFINE p == Spliced(q, d, k)
<1>1. /\ p \in Seq(S)
      /\ Len(p) = Len(q) + 1
      /\ \A i \in 1..Len(p) :
           p[i] = IF i <= k THEN q[i] ELSE IF i = k + 1 THEN d ELSE q[i - 1]
  <2>1. q \in Seq(S) /\ d \in S /\ k \in 0..Len(q)
    OBVIOUS
  <2> QED
    BY <2>1, InsertedAt DEF p
<1> HIDE DEF p
<1> DEFINE old(i) == IF i <= k THEN i ELSE i - 1
           new(i) == IF i <= k THEN i ELSE i + 1
<1> SUFFICES ASSUME \A i \in DOMAIN q : q[i] # d,
                    \A i, j \in DOMAIN q : q[i] = q[j] => i = j
             PROVE  /\ p \in Seq(S)
                    /\ {p[i] : i \in DOMAIN p} = {q[i] : i \in DOMAIN q} \cup {d}
                    /\ \A i, j \in DOMAIN p : p[i] = p[j] => i = j
  BY DEF p
<1>2. DOMAIN q = 1..Len(q) /\ Len(q) \in Nat /\ DOMAIN p = 1..(Len(q) + 1)
  BY <1>1
<1>3. \A i \in DOMAIN p :
        \/ i = k + 1 /\ p[i] = d
        \/ i # k + 1 /\ old(i) \in DOMAIN q /\ p[i] = q[old(i)]
  <2> TAKE i \in DOMAIN p
  <2>1. i \in 1..Len(p) /\ i \in 1..(Len(q) + 1)
    BY <1>1, <1>2
  <2>2. i # k + 1 => old(i) \in DOMAIN q
    BY <2>1, <1>2
  <2>3. p[i] = IF i <= k THEN q[i] ELSE IF i = k + 1 THEN d ELSE q[i - 1]
    BY <2>1, <1>1
  <2>4. ~(k + 1 <= k)
    OBVIOUS
  <2> QED
    BY <2>2, <2>3, <2>4
<1>4. \A i, j \in DOMAIN p : i # k + 1 /\ j # k + 1 /\ old(i) = old(j) => i = j
  BY <1>2
<1>5. \A i \in DOMAIN q : new(i) \in DOMAIN p /\ new(i) # k + 1 /\ old(new(i)) = i
  BY <1>2
<1>6. k + 1 \in DOMAIN p
  BY <1>2
<1> HIDE DEF old, new
<1>7. \A i, j \in DOMAIN p : p[i] = p[j] => i = j
  <2> SUFFICES ASSUME NEW i \in DOMAIN p, NEW j \in DOMAIN p, p[i] = p[j]
               PROVE  i = j
    OBVIOUS
  <2>1. CASE i = k + 1 \/ j = k + 1
    BY <2>1, <1>3
  <2>2. CASE i # k + 1 /\ j # k + 1
    <3>1. old(i) = old(j)
      BY <2>2, <1>3
    <3> QED
      BY <3>1, <2>2, <1>4
  <2> QED
    BY <2>1, <2>2
<1>8. \A i \in DOMAIN q : p[new(i)] = q[i]
  BY <1>3, <1>5
<1>9. {p[i] : i \in DOMAIN p} = {q[i] : i \in DOMAIN q} \cup {d}
  <2>1. ASSUME NEW i \in DOMAIN p
        PROVE  p[i] = d \/ \E j \in DOMAIN q : p[i] = q[j]
    BY <1>3
  <2>2. ASSUME NEW j \in DOMAIN q
        PROVE  \E i \in DOMAIN p : p[i] = q[j]
    BY <1>5, <1>8
  <2>3. \E i \in DOMAIN p : p[i] = d
    BY <1>3, <1>6
  <2> QED
    BY <2>1, <2>2, <2>3
<1> QED
  BY <1>1, <1>7, <1>9

\* shift() n + 1 times: what is left of a queue.
LEMMA SuffixQueue ==
  ASSUME NEW S, NEW q \in Seq(S), NEW n \in 0..Len(q)
  PROVE  LET p == SubSeq(q, n + 2, Len(q)) IN
         /\ p \in Seq(S)
         /\ DOMAIN p = 1..Len(p) /\ Len(p) \in Nat
         /\ Len(p) = IF n + 1 <= Len(q) THEN Len(q) - (n + 1) ELSE 0
         /\ \A i \in 1..Len(p) : p[i] = q[n + 1 + i]
  BY SubSeqProperties

-----------------------------------------------------------------------------
(* What the helpers of the handlers do to the queues.                      *)

\* The two legs of a call, their compartments and their fields.
LEMMA LegType ==
  /\ \A c \in Calls : Gate(c) \in Deliveries /\ Op(c) \in Deliveries /\ Gate(c) # Op(c)
  /\ \A c \in Calls : To(Gate(c)) = Law /\ To(Op(c)) = Target[c]
  /\ \A c \in Calls : Gate(c).call = c /\ Op(c).call = c /\ Gate(c).leg = "gate" /\ Op(c).leg = "op"
  /\ \A d \in Deliveries : d.call \in Calls /\ To(d) \in Compartments /\ (d = Gate(d.call) \/ d = Op(d.call))
  BY RouterAssumption DEF Deliveries, Gate, Op, To

\* Only the queue of t0 changes: what that means for every compartment.
LEMMA ReplacedQueue ==
  ASSUME TypeOK, QueueInv, NEW t0 \in Compartments, NEW p \in Seq(Deliveries),
         waiting' = [waiting EXCEPT ![t0] = p],
         \A i \in DOMAIN p : To(p[i]) = t0,
         \A i, j \in DOMAIN p : p[i] = p[j] => i = j
  PROVE  /\ waiting' \in [Compartments -> Seq(Deliveries)]
         /\ Queued(t0)' = {p[i] : i \in DOMAIN p}
         /\ \A t \in Compartments : t # t0 => Queued(t)' = Queued(t)
         /\ \A t \in Compartments : \A i \in DOMAIN waiting'[t] : To(waiting'[t][i]) = t
         /\ \A t \in Compartments : \A i, j \in DOMAIN waiting'[t] : waiting'[t][i] = waiting'[t][j] => i = j
<1>1. waiting'[t0] = p /\ \A t \in Compartments : t # t0 => waiting'[t] = waiting[t]
  BY DEF TypeOK
<1>2. waiting' \in [Compartments -> Seq(Deliveries)]
  BY DEF TypeOK
<1>3. Queued(t0)' = {p[i] : i \in DOMAIN p}
  BY <1>1 DEF Queued
<1>4. ASSUME NEW t \in Compartments, t # t0
      PROVE  Queued(t)' = Queued(t)
  BY <1>1, <1>4 DEF Queued
<1>5. ASSUME NEW t \in Compartments
      PROVE  /\ \A i \in DOMAIN waiting'[t] : To(waiting'[t][i]) = t
             /\ \A i, j \in DOMAIN waiting'[t] : waiting'[t][i] = waiting'[t][j] => i = j
  <2>1. CASE t = t0
    BY <2>1, <1>1
  <2>2. CASE t # t0
    BY <2>2, <1>1 DEF QueueInv
  <2> QED
    BY <2>1, <2>2
<1> QED
  BY <1>2, <1>3, <1>4, <1>5

\* deliver() with no free slot: d joins the queue of its compartment.
LEMMA WaitEffect ==
  ASSUME TypeOK, QueueInv, NEW d \in Deliveries, NEW k \in 0..Len(waiting[To(d)])
  PROVE  /\ d \notin Queued(To(d))
         /\ waiting' = [waiting EXCEPT ![To(d)] =
                          SubSeq(@, 1, k) \o <<d>> \o SubSeq(@, k + 1, Len(@))]
         =>
         /\ QueueTypes'
         /\ Queued(To(d))' = Queued(To(d)) \cup {d}
         /\ \A t \in Compartments : t # To(d) => Queued(t)' = Queued(t)
<1> DEFINE t0 == To(d)
           q == waiting[t0]
           p == Spliced(q, d, k)
<1> HIDE DEF t0, q, p
<1> SUFFICES ASSUME d \notin Queued(t0),
                    waiting' = [waiting EXCEPT ![t0] = p]
             PROVE  /\ QueueTypes'
                    /\ Queued(t0)' = Queued(t0) \cup {d}
                    /\ \A t \in Compartments : t # t0 => Queued(t)' = Queued(t)
  BY DEF t0, q, p, Spliced
<1>1. t0 \in Compartments /\ q \in Seq(Deliveries) /\ k \in 0..Len(q)
  BY LegType DEF TypeOK, t0, q
<1>2. /\ \A i \in DOMAIN q : q[i] # d /\ To(q[i]) = t0
      /\ \A i, j \in DOMAIN q : q[i] = q[j] => i = j
  BY <1>1 DEF QueueInv, Queued, q
<1>3. /\ p \in Seq(Deliveries)
      /\ {p[i] : i \in DOMAIN p} = {q[i] : i \in DOMAIN q} \cup {d}
      /\ \A i, j \in DOMAIN p : p[i] = p[j] => i = j
  BY <1>1, <1>2, InsertedElements DEF p
<1>4. \A i \in DOMAIN p : To(p[i]) = t0
  <2> TAKE i \in DOMAIN p
  <2>1. p[i] = d \/ \E j \in DOMAIN q : p[i] = q[j]
    BY <1>3
  <2> QED
    BY <2>1, <1>2 DEF t0
<1>5. Queued(t0) = {q[i] : i \in DOMAIN q}
  BY DEF Queued, q
<1> QED
  BY <1>1, <1>3, <1>4, <1>5, ReplacedQueue DEF QueueTypes

\* release(): the expired head of a queue and the entry behind it leave it.
LEMMA ServeEffect ==
  ASSUME TypeOK, QueueInv, NEW t0 \in Compartments, NEW n \in 0..Len(waiting[t0])
  PROVE  waiting' = [waiting EXCEPT ![t0] = SubSeq(@, n + 2, Len(@))]
         =>
         LET q    == waiting[t0]
             late == {q[i] : i \in 1..n}
             next == IF n < Len(q) THEN {q[n + 1]} ELSE {}
         IN /\ QueueTypes'
            /\ late \cup next \subseteq Queued(t0)
            /\ late \cap next = {}
            /\ Queued(t0)' = Queued(t0) \ (late \cup next)
            /\ \A t \in Compartments : t # t0 => Queued(t)' = Queued(t)
<1> DEFINE q == waiting[t0]
           p == SubSeq(q, n + 2, Len(q))
           late == {q[i] : i \in 1..n}
           next == IF n < Len(q) THEN {q[n + 1]} ELSE {}
<1> HIDE DEF q, p, late, next
<1> SUFFICES ASSUME waiting' = [waiting EXCEPT ![t0] = p]
             PROVE  /\ QueueTypes'
                    /\ late \cup next \subseteq Queued(t0)
                    /\ late \cap next = {}
                    /\ Queued(t0)' = Queued(t0) \ (late \cup next)
                    /\ \A t \in Compartments : t # t0 => Queued(t)' = Queued(t)
  BY DEF q, p, late, next
<1>1. q \in Seq(Deliveries) /\ n \in 0..Len(q) /\ DOMAIN q = 1..Len(q) /\ Len(q) \in Nat
  BY DEF TypeOK, q
<1>2. /\ \A i \in DOMAIN q : To(q[i]) = t0
      /\ \A i, j \in DOMAIN q : q[i] = q[j] => i = j
  BY DEF QueueInv, q
<1>3. /\ p \in Seq(Deliveries)
      /\ DOMAIN p = 1..Len(p) /\ Len(p) \in Nat
      /\ Len(p) = IF n + 1 <= Len(q) THEN Len(q) - (n + 1) ELSE 0
      /\ \A i \in 1..Len(p) : p[i] = q[n + 1 + i]
  BY <1>1, SuffixQueue DEF p
<1>4. \A i \in DOMAIN p : n + 1 + i \in DOMAIN q /\ p[i] = q[n + 1 + i]
  <2> SUFFICES ASSUME NEW i \in DOMAIN p
               PROVE  n + 1 + i \in DOMAIN q /\ p[i] = q[n + 1 + i]
    OBVIOUS
  <2>1. i \in 1..Len(p) /\ p[i] = q[n + 1 + i]
    BY <1>3
  <2>2. Len(p) = IF n + 1 <= Len(q) THEN Len(q) - (n + 1) ELSE 0
    BY <1>3
  <2>3. Len(q) \in Nat
    BY <1>1
  <2>4. n \in 0..Len(q)
    BY <1>1
  <2>5. n + 1 + i \in 1..Len(q)
    BY <2>1, <2>2, <2>3, <2>4
  <2>6. DOMAIN q = 1..Len(q)
    BY <1>1
  <2> QED
    BY <2>1, <2>5, <2>6
<1>5. \A i \in DOMAIN q : i > n + 1 => i - (n + 1) \in DOMAIN p /\ p[i - (n + 1)] = q[i]
  <2> SUFFICES ASSUME NEW i \in DOMAIN q, i > n + 1
               PROVE  i - (n + 1) \in DOMAIN p /\ p[i - (n + 1)] = q[i]
    OBVIOUS
  <2>1. i - (n + 1) \in 1..Len(p) /\ n + 1 + (i - (n + 1)) = i
    BY <1>1, <1>3
  <2> QED
    BY <2>1, <1>3
<1>6. \A i, j \in DOMAIN p : p[i] = p[j] => i = j
  <2> SUFFICES ASSUME NEW i \in DOMAIN p, NEW j \in DOMAIN p, p[i] = p[j]
               PROVE  i = j
    OBVIOUS
  <2>1. n + 1 + i = n + 1 + j
    BY <1>2, <1>4
  <2>2. n \in Int
    BY <1>1
  <2>3. i \in 1..Len(p) /\ j \in 1..Len(p)
    BY <1>3
  <2> QED
    BY <2>1, <2>2, <2>3
<1>7. Queued(t0) = {q[i] : i \in DOMAIN q}
  BY DEF Queued, q
<1>8. late = {q[i] : i \in 1..n} /\ 1..n \subseteq DOMAIN q
  BY <1>1 DEF late
<1>9. \A d : d \in next <=> n + 1 \in DOMAIN q /\ d = q[n + 1]
  BY <1>1 DEF next
<1>10. {p[i] : i \in DOMAIN p} = {q[i] : i \in DOMAIN q} \ (late \cup next)
  <2>1. ASSUME NEW i \in DOMAIN p
        PROVE  p[i] \in {q[j] : j \in DOMAIN q} \ (late \cup next)
    <3>1. n \in Nat /\ i \in Nat /\ i > 0
      <4>1. n \in Nat
        BY <1>1
      <4>2. i \in 1..Len(p)
        BY <1>3
      <4> QED
        BY <4>1, <4>2
    <3>2. n + 1 + i \notin 1..n /\ n + 1 + i # n + 1 /\ \A j \in 1..n : j # n + 1 + i
      BY <3>1
    <3>3. n + 1 + i \in DOMAIN q /\ p[i] = q[n + 1 + i]
      BY <1>4
    <3> QED
      BY <3>2, <3>3, <1>2, <1>8, <1>9
  <2>2. ASSUME NEW i \in DOMAIN q, q[i] \notin late \cup next
        PROVE  \E j \in DOMAIN p : p[j] = q[i]
    <3>1. i \notin 1..n /\ i # n + 1
      BY <2>2, <1>8, <1>9
    <3>2. i > n + 1
      BY <3>1, <1>1
    <3> QED
      BY <3>2, <1>5
  <2> QED
    BY <2>1, <2>2
<1>11. late \cup next \subseteq {q[i] : i \in DOMAIN q}
  BY <1>8, <1>9
<1>12. late \cap next = {}
  <2>1. n + 1 \notin 1..n
    BY <1>1
  <2> QED
    BY <2>1, <1>2, <1>8, <1>9
<1>13. \A i \in DOMAIN p : To(p[i]) = t0
  BY <1>2, <1>4
<1>14. p \in Seq(Deliveries)
  BY <1>3
<1>15. /\ QueueTypes'
       /\ Queued(t0)' = {p[i] : i \in DOMAIN p}
       /\ \A t \in Compartments : t # t0 => Queued(t)' = Queued(t)
  <2> HIDE DEF QueueTypes
  <2>1. /\ (waiting \in [Compartments -> Seq(Deliveries)])'
        /\ (\A t \in Compartments : \A i \in DOMAIN waiting[t] : To(waiting[t][i]) = t)'
        /\ (\A t \in Compartments : \A i, j \in DOMAIN waiting[t] : waiting[t][i] = waiting[t][j] => i = j)'
        /\ Queued(t0)' = {p[i] : i \in DOMAIN p}
        /\ \A t \in Compartments : t # t0 => Queued(t)' = Queued(t)
    BY ONLY <1>6, <1>13, <1>14, ReplacedQueue, TypeOK, QueueInv, t0 \in Compartments,
            waiting' = [waiting EXCEPT ![t0] = p]
  <2> QED
    BY ONLY <2>1 DEF QueueTypes
<1>16. late \cup next \subseteq Queued(t0)
  BY ONLY <1>7, <1>11
<1>17. Queued(t0)' = Queued(t0) \ (late \cup next)
  BY ONLY <1>7, <1>10, <1>15
<1> QED
  BY ONLY <1>12, <1>15, <1>16, <1>17

-----------------------------------------------------------------------------
(* A fresh leg enters its compartment.                                     *)

\* The leg d of the call c is the next one its phase of dispatch() delivers.
Fresh(c, d) ==
  /\ reply[c] = "none"
  /\ \/ d = Gate(c) /\ stage[c] = "idle" /\ c \in Risky
     \/ /\ d = Op(c)
        /\ \/ stage[c] = "idle" /\ c \notin Risky
           \/ stage[c] = "gate" /\ gateAns[c] = "allow"

\* That leg is delivered and dispatch() awaits it.
Enters(c, d) ==
  /\ Fresh(c, d)
  /\ Enqueue(d)
  /\ stage' = [stage EXCEPT ![c] = d.leg]
  /\ UNCHANGED <<handle, worker, elapsed, gateAns, reply>>

\* A leg that dispatch() is about to deliver was never delivered before, and no
\* leg of its call is on its way.
LEMMA FreshIsNew ==
  ASSUME IInv, NEW c \in Calls, NEW d \in Deliveries, Fresh(c, d)
  PROVE  /\ d.call = c
         /\ d \notin posted
         /\ \A t \in Compartments : d \notin Queued(t)
         /\ Gate(c) \notin pending \cup Queued(Law)
         /\ Op(c) \notin pending \cup Queued(Target[c])
         /\ d.leg = "op" => (c \in Risky => gateAns[c] = "allow")
<1>1. d \in {Gate(c), Op(c)} /\ d.call = c /\ (d = Gate(c) => To(d) = Law) /\ (d = Op(c) => To(d) = Target[c])
  BY LegType DEF Fresh
<1>2. Gate(c) \notin pending \cup Queued(Law) /\ Op(c) \notin pending \cup Queued(Target[c])
  BY DEF Fresh, IInv, PhasesAgree
<1>3. d \notin posted /\ d \notin Queued(To(d))
  BY <1>1 DEF Fresh, IInv, HistoryInv
<1>4. \A t \in Compartments : d \in Queued(t) => t = To(d)
  BY DEF IInv, QueueInv, Queued
<1>5. d.leg = "op" => (c \in Risky => gateAns[c] = "allow")
  BY LegType DEF Fresh
<1> QED
  BY <1>1, <1>2, <1>3, <1>4, <1>5

\* enqueue(): admitted at once or queued, nothing else moves.
LEMMA EntersEffect ==
  ASSUME IInv, NEW c \in Calls, NEW d \in Deliveries, Enters(c, d)
  PROVE  /\ QueueTypes'
         /\ \A t \in Compartments : t # To(d) => Queued(t)' = Queued(t)
         /\ \/ /\ Queued(To(d))' = Queued(To(d))
               /\ HasRoom(To(d))
               /\ inflight' = [inflight EXCEPT ![To(d)] = @ \cup {d.call}]
               /\ pending'  = pending \cup {d}
               /\ held'     = Post(held, To(d), {d})
               /\ posted'   = posted \cup {d}
            \/ /\ Queued(To(d))' = Queued(To(d)) \cup {d}
               /\ ~HasRoom(To(d))
               /\ UNCHANGED <<inflight, pending, held, posted>>
<1>1. TypeOK /\ QueueInv /\ d \notin Queued(To(d)) /\ To(d) \in Compartments
  BY FreshIsNew, LegType DEF Enters, IInv
<1>2. CASE HasRoom(To(d))
  <2>1. waiting' = waiting
    BY <1>2 DEF Enters, Enqueue
  <2>2. \A t \in Compartments : Queued(t)' = Queued(t)
    BY <2>1 DEF Queued
  <2>3. QueueTypes'
    BY <1>1, <2>1 DEF QueueTypes, QueueInv, TypeOK
  <2> QED
    BY <1>1, <1>2, <2>2, <2>3 DEF Enters, Enqueue
<1>3. CASE ~HasRoom(To(d))
  <2>1. PICK k \in 0..Len(waiting[To(d)]) :
          waiting' = [waiting EXCEPT ![To(d)] =
                        SubSeq(@, 1, k) \o <<d>> \o SubSeq(@, k + 1, Len(@))]
    BY <1>3 DEF Enters, Enqueue
  <2>2. /\ QueueTypes'
        /\ Queued(To(d))' = Queued(To(d)) \cup {d}
        /\ \A t \in Compartments : t # To(d) => Queued(t)' = Queued(t)
    BY <1>1, <2>1, WaitEffect, Zenon
  <2>3. UNCHANGED <<inflight, pending, held, posted>>
    BY <1>3 DEF Enters, Enqueue
  <2> QED
    BY <2>2, <2>3, <1>3
<1> QED
  BY <1>2, <1>3

\* Delivering a fresh leg keeps the inductive invariant.
LEMMA EntersInv ==
  ASSUME IInv, NEW c \in Calls, NEW d \in Deliveries, Enters(c, d)
  PROVE  IInv'
<1> DEFINE t0 == To(d)
           A == {e \in {d} : posted' # posted}
           W == {e \in {d} : posted' = posted}
<1>1. /\ d.call = c /\ d \notin posted /\ \A t \in Compartments : d \notin Queued(t)
      /\ Gate(c) \notin pending \cup Queued(Law)
      /\ Op(c) \notin pending \cup Queued(Target[c])
      /\ d.leg = "op" => (c \in Risky => gateAns[c] = "allow")
  BY FreshIsNew DEF Enters
<1>2. /\ d \in {Gate(c), Op(c)} /\ reply[c] = "none" /\ d.leg \in {"gate", "op"}
      /\ d = Gate(c) => stage[c] = "idle" /\ c \in Risky
      /\ stage[c] # "op" /\ Gate(c) # Op(c)
      /\ Gate(c).leg = "gate" /\ Op(c).leg = "op"
      /\ t0 \in Compartments
  BY LegType DEF Enters, Fresh
<1>3. /\ QueueTypes'
      /\ \A t \in Compartments : Queued(t)' = IF t = t0 THEN Queued(t) \cup W ELSE Queued(t)
      /\ pending' = pending \cup A /\ posted' = posted \cup A
      /\ \A t \in Compartments : held'[t] \subseteq held[t] \cup A
      /\ \A t \in Compartments : t # t0 => held'[t] = held[t] /\ inflight'[t] = inflight[t]
      /\ inflight'[t0] = inflight[t0] \cup {e.call : e \in A}
      /\ A # {} => HasRoom(t0)
      /\ held' \in [Compartments -> SUBSET Deliveries]
      /\ inflight' \in [Compartments -> SUBSET Calls]
      /\ A \subseteq {d} /\ W \subseteq {d} /\ A \cap W = {}
  <2>1. QueueTypes' /\ \A t \in Compartments : t # t0 => Queued(t)' = Queued(t)
    BY EntersEffect
  <2>2. CASE /\ Queued(t0)' = Queued(t0)
             /\ HasRoom(t0)
             /\ inflight' = [inflight EXCEPT ![t0] = @ \cup {d.call}]
             /\ pending'  = pending \cup {d}
             /\ held'     = Post(held, t0, {d})
             /\ posted'   = posted \cup {d}
    <3>1. A = {d} /\ W = {}
      BY <2>2, <1>1
    <3> HIDE DEF A, W
    <3> QED
      BY <2>1, <2>2, <3>1, <1>1, <1>2 DEF Post, IInv, TypeOK
  <2>3. CASE /\ Queued(t0)' = Queued(t0) \cup {d}
             /\ UNCHANGED <<inflight, pending, held, posted>>
    <3>1. A = {} /\ W = {d}
      BY <2>3
    <3> HIDE DEF A, W
    <3> QED
      BY <2>1, <2>3, <3>1, <1>1, <1>2 DEF IInv, TypeOK
  <2> QED
    BY <2>1, <2>2, <2>3, EntersEffect
<1>4. /\ stage' = [stage EXCEPT ![c] = d.leg]
      /\ UNCHANGED <<handle, worker, elapsed, gateAns, reply>>
  BY DEF Enters
<1> HIDE DEF A, W, t0
<1>5. TypeOK'
  BY <1>2, <1>3, <1>4 DEF IInv, TypeOK, QueueTypes
<1>6. QueueInv'
  <2>1. \A t \in Compartments : (Queued(t)' \cap posted') = {}
    BY <1>1, <1>3 DEF IInv, QueueInv
  <2> QED
    BY <2>1, <1>3 DEF QueueInv, QueueTypes
<1>7. \A x \in Calls : stage'[x] = IF x = c THEN d.leg ELSE stage[x]
  BY <1>4 DEF IInv, TypeOK
<1>8. \A x \in Calls : x # c => Gate(x) # d /\ Op(x) # d
  BY <1>1, LegType
<1>9. ASSUME NEW x \in Calls, x # c
      PROVE  /\ Gate(x) \in pending' <=> Gate(x) \in pending
             /\ Op(x) \in pending' <=> Op(x) \in pending
             /\ Gate(x) \in posted' <=> Gate(x) \in posted
             /\ Op(x) \in posted' <=> Op(x) \in posted
             /\ Gate(x) \in Queued(Law)' <=> Gate(x) \in Queued(Law)
             /\ Op(x) \in Queued(Target[x])' <=> Op(x) \in Queued(Target[x])
             /\ stage'[x] = stage[x]
  BY <1>3, <1>7, <1>8, <1>9, RouterAssumption
<1>10. HistoryInv'
  <2>1. pending' \subseteq posted'
    BY <1>3 DEF IInv, HistoryInv
  <2>2. \A t \in Compartments : \A e \in held'[t] : e \in posted' /\ To(e) = t
    BY <1>3 DEF IInv, HistoryInv, t0
  <2>3. \A x \in Calls : Gate(x) \in posted' \cup Queued(Law)' => stage'[x] # "idle" /\ x \in Risky
    BY <1>2, <1>3, <1>7, <1>9, RouterAssumption DEF IInv, HistoryInv
  <2>4. ASSUME NEW x \in Calls, Op(x) \in posted' \cup Queued(Target[x])'
        PROVE  stage'[x] = "op" /\ (x \in Risky => gateAns'[x] = "allow")
    <3>1. CASE x # c
      BY <2>4, <3>1, <1>4, <1>9 DEF IInv, HistoryInv
    <3>2. CASE x = c
      <4>1. Op(c) \notin posted \cup Queued(Target[c])
        BY <1>2 DEF IInv, HistoryInv
      <4>2. d = Op(c)
        BY <2>4, <3>2, <4>1, <1>3, RouterAssumption
      <4> QED
        BY <4>2, <3>2, <1>1, <1>2, <1>4, <1>7
    <3> QED
      BY <3>1, <3>2
  <2>5. \A x \in Calls : stage'[x] = "idle" => gateAns'[x] = "none"
    BY <1>2, <1>4, <1>7 DEF IInv, HistoryInv
  <2> QED
    BY <2>1, <2>2, <2>3, <2>4, <2>5 DEF HistoryInv
<1>11. PhasesAgree'
  <2>1. ASSUME NEW x \in Calls, Gate(x) \in pending' \cup Queued(Law)'
        PROVE  stage'[x] = "gate" /\ gateAns'[x] = "none" /\ reply'[x] = "none"
    <3>1. CASE x # c
      BY <2>1, <3>1, <1>4, <1>9 DEF IInv, PhasesAgree
    <3>2. CASE x = c
      <4>1. d = Gate(c)
        BY <2>1, <3>2, <1>1, <1>3, RouterAssumption
      <4> QED
        BY <4>1, <3>2, <1>2, <1>4, <1>7 DEF IInv, HistoryInv
    <3> QED
      BY <3>1, <3>2
  <2>2. ASSUME NEW x \in Calls, Op(x) \in pending' \cup Queued(Target[x])'
        PROVE  stage'[x] = "op" /\ reply'[x] = "none"
    <3>1. CASE x # c
      BY <2>2, <3>1, <1>4, <1>9 DEF IInv, PhasesAgree
    <3>2. CASE x = c
      <4>1. d = Op(c)
        BY <2>2, <3>2, <1>1, <1>3, RouterAssumption
      <4> QED
        BY <4>1, <3>2, <1>2, <1>4, <1>7
    <3> QED
      BY <3>1, <3>2
  <2>3. ASSUME NEW t \in Compartments, NEW e \in held'[t], e.leg = "gate"
        PROVE  gateAns'[e.call] # "allow"
    <3>1. CASE e \in held[t]
      BY <2>3, <3>1, <1>4 DEF IInv, PhasesAgree
    <3>2. CASE e = d
      <4>1. d = Gate(c)
        BY <2>3, <3>2, <1>2
      <4> QED
        BY <4>1, <3>2, <1>1, <1>2, <1>4 DEF IInv, HistoryInv
    <3> QED
      BY <3>1, <3>2, <1>3
  <2> QED
    BY <2>1, <2>2, <2>3 DEF PhasesAgree
<1>12. LedgerAgrees'
  <2> SUFFICES ASSUME NEW t \in Compartments
               PROVE  inflight'[t] = {e.call : e \in {x \in pending' : To(x) = t}}
    BY DEF LedgerAgrees
  <2>1. inflight[t] = {e.call : e \in {x \in pending : To(x) = t}}
    BY DEF IInv, LedgerAgrees
  <2>2. CASE t = t0
    BY <2>1, <2>2, <1>3 DEF t0
  <2>3. CASE t # t0
    <3>1. {x \in pending' : To(x) = t} = {x \in pending : To(x) = t}
      BY <2>3, <1>3 DEF t0
    <3> QED
      BY <3>1, <2>1, <2>3, <1>3
  <2> QED
    BY <2>2, <2>3
<1>13. SlotInv'
  <2> SUFFICES ASSUME NEW t \in Compartments
               PROVE  IsFiniteSet(inflight'[t]) /\ Cardinality(inflight'[t]) <= MaxConcurrentCalls[t]
    BY DEF SlotInv
  <2>1. IsFiniteSet(inflight[t]) /\ Cardinality(inflight[t]) <= MaxConcurrentCalls[t]
    BY DEF IInv, SlotInv
  <2>2. CASE inflight'[t] = inflight[t]
    BY <2>1, <2>2
  <2>3. CASE t = t0 /\ A # {}
    <3>1. inflight'[t] = inflight[t] \cup {c}
      BY <2>3, <1>1, <1>3
    <3>2. Cardinality(inflight[t]) < MaxConcurrentCalls[t]
      BY <2>3, <1>3 DEF HasRoom
    <3>3. /\ IsFiniteSet(inflight'[t])
          /\ Cardinality(inflight'[t]) = IF c \in inflight[t] THEN Cardinality(inflight[t])
                                         ELSE Cardinality(inflight[t]) + 1
      BY <3>1, <2>1, FS_AddElement
    <3>4. Cardinality(inflight[t]) \in Nat /\ MaxConcurrentCalls[t] \in Nat
      BY <2>1, FS_CardinalityType, RouterAssumption
    <3> QED
      BY <3>2, <3>3, <3>4
  <2> QED
    BY <2>2, <2>3, <1>3
<1> QED
  BY <1>5, <1>6, <1>10, <1>11, <1>12, <1>13 DEF IInv

-----------------------------------------------------------------------------
(* Legs are resolved, and others admitted in their place.                  *)

\* What a leg can be resolved with.
Outcomes(d) ==
  IF d.leg = "gate" THEN {"allow", "deny", "BUDGET", "DEGRADED"} ELSE {"ok", "BUDGET", "DEGRADED"}

\* The legs of S are resolved with f, those of N leave the queue of t0 and are
\* handed to its worker.
Resolves(t0, S, N, f) ==
  /\ \A e \in S : e \in pending \cup Queued(To(e))
  /\ N \subseteq Queued(t0) /\ S \cap N = {}
  /\ QueueTypes'
  /\ \A t \in Compartments : Queued(t)' = Queued(t) \ (S \cup N)
  /\ pending' = (pending \ S) \cup N
  /\ posted' = posted \cup N
  /\ held' \in [Compartments -> SUBSET Deliveries]
  /\ \A t \in Compartments : held'[t] \subseteq held[t] \cup (IF t = t0 THEN N ELSE {})
  /\ DOMAIN f = S /\ Settle(f)
  /\ \A e \in S : f[e] \in Outcomes(e) /\ (f[e] = "ok" => e \in posted)
  /\ \A e \in S : e.leg = "gate" /\ f[e] = "allow" => \A t \in Compartments : e \notin held'[t]
  /\ handle' \in [Compartments -> {"active", "degraded", "stopped"}]
  /\ worker' \in [Compartments -> {"up", "dying", "gone"}]
  /\ UNCHANGED <<elapsed, stage>>

\* Resolving live legs and admitting queued ones keeps what the invariant says
\* of queues, history and phases.
LEMMA ResolvesInv ==
  ASSUME IInv, NEW t0 \in Compartments, NEW S \in SUBSET Deliveries,
         NEW N \in SUBSET Deliveries, NEW f, Resolves(t0, S, N, f)
  PROVE  /\ inflight' \in [Compartments -> SUBSET Calls] => TypeOK'
         /\ QueueInv' /\ HistoryInv' /\ PhasesAgree'
<1>1. /\ \A x \in Calls : gateAns'[x] = IF Gate(x) \in S THEN f[Gate(x)] ELSE gateAns[x]
      /\ \A x \in Calls : reply'[x] = IF Op(x) \in S THEN f[Op(x)] ELSE reply[x]
      /\ gateAns' \in [Calls -> GateAnswers]
      /\ reply' \in [Calls -> Replies]
  <2>1. /\ gateAns' = [x \in Calls |-> IF Gate(x) \in S THEN f[Gate(x)] ELSE gateAns[x]]
        /\ reply' = [x \in Calls |-> IF Op(x) \in S THEN f[Op(x)] ELSE reply[x]]
    BY DEF Resolves, Settle
  <2>2. \A x \in Calls : Gate(x) \in S => f[Gate(x)] \in GateAnswers
    BY LegType DEF Resolves, Outcomes, GateAnswers
  <2>3. \A x \in Calls : Op(x) \in S => f[Op(x)] \in Replies
    BY LegType DEF Resolves, Outcomes, Replies
  <2>4. gateAns \in [Calls -> GateAnswers] /\ reply \in [Calls -> Replies]
    BY DEF IInv, TypeOK
  <2> QED
    BY <2>1, <2>2, <2>3, <2>4
<1>2. /\ \A x \in Calls : Gate(x) \in S => Gate(x) \in pending \cup Queued(Law)
      /\ \A x \in Calls : Op(x) \in S => Op(x) \in pending \cup Queued(Target[x])
  BY LegType DEF Resolves
<1>3. \A t \in Compartments : \A e \in Queued(t) : e \in Deliveries /\ To(e) = t /\ e \notin posted
  BY DEF IInv, QueueInv, TypeOK, Queued
<1>4. /\ \A e \in pending' \ pending : e \in N /\ e \in Queued(To(e))
      /\ \A e \in pending' : e \notin S
      /\ \A e \in posted' : e \in posted \/ (e \in N /\ e \in Queued(To(e)))
      /\ \A t \in Compartments : Queued(t)' = Queued(t) \ (S \cup N)
  BY <1>3 DEF Resolves
<1>5. inflight' \in [Compartments -> SUBSET Calls] => TypeOK'
  BY <1>1 DEF IInv, TypeOK, Resolves, QueueTypes
<1>6. QueueInv'
  <2>1. \A t \in Compartments : (Queued(t)' \cap posted') = {}
    BY <1>3, <1>4 DEF Resolves
  <2> QED
    BY <2>1 DEF Resolves, QueueInv, QueueTypes
<1>7. \A x \in Calls : stage'[x] = stage[x]
  BY DEF Resolves
<1>8. /\ \A x \in Calls : Gate(x) \in pending' \cup Queued(Law)' =>
                            Gate(x) \in pending \cup Queued(Law) /\ Gate(x) \notin S
      /\ \A x \in Calls : Op(x) \in pending' \cup Queued(Target[x])' =>
                            Op(x) \in pending \cup Queued(Target[x]) /\ Op(x) \notin S
      /\ \A x \in Calls : Gate(x) \in posted' \cup Queued(Law)' => Gate(x) \in posted \cup Queued(Law)
      /\ \A x \in Calls : Op(x) \in posted' \cup Queued(Target[x])' => Op(x) \in posted \cup Queued(Target[x])
  BY <1>4, LegType, RouterAssumption
<1>9. \A x \in Calls : stage[x] # "gate" => gateAns'[x] = gateAns[x]
  BY <1>1, <1>2 DEF IInv, PhasesAgree
<1>10. \A x \in Calls : stage[x] # "op" => reply'[x] = reply[x]
  BY <1>1, <1>2 DEF IInv, PhasesAgree
<1>11. HistoryInv'
  <2>1. pending' \subseteq posted'
    BY DEF IInv, HistoryInv, Resolves
  <2>2. \A t \in Compartments : \A e \in held'[t] : e \in posted' /\ To(e) = t
    BY <1>3 DEF IInv, HistoryInv, Resolves
  <2>3. \A x \in Calls : Gate(x) \in posted' \cup Queued(Law)' => stage'[x] # "idle" /\ x \in Risky
    BY <1>7, <1>8 DEF IInv, HistoryInv
  <2>4. \A x \in Calls : Op(x) \in posted' \cup Queued(Target[x])' =>
          stage'[x] = "op" /\ (x \in Risky => gateAns'[x] = "allow")
    BY <1>7, <1>8, <1>9 DEF IInv, HistoryInv
  <2>5. \A x \in Calls : stage'[x] = "idle" => gateAns'[x] = "none"
    BY <1>7, <1>9 DEF IInv, HistoryInv
  <2> QED
    BY <2>1, <2>2, <2>3, <2>4, <2>5 DEF HistoryInv
<1>12. PhasesAgree'
  <2>1. \A x \in Calls : Gate(x) \in pending' \cup Queued(Law)' =>
          stage'[x] = "gate" /\ gateAns'[x] = "none" /\ reply'[x] = "none"
    BY <1>1, <1>7, <1>8, <1>10 DEF IInv, PhasesAgree
  <2>2. \A x \in Calls : Op(x) \in pending' \cup Queued(Target[x])' =>
          stage'[x] = "op" /\ reply'[x] = "none"
    BY <1>1, <1>7, <1>8 DEF IInv, PhasesAgree
  <2>3. ASSUME NEW t \in Compartments, NEW e \in held'[t], e.leg = "gate"
        PROVE  gateAns'[e.call] # "allow"
    <3>1. e \in Deliveries /\ e.call \in Calls /\ e = Gate(e.call)
      <4>1. e \in Deliveries
        BY DEF Resolves
      <4> QED
        BY <4>1, <2>3, LegType
    <3>2. CASE e \in S
      BY <3>1, <3>2, <2>3, <1>1 DEF Resolves
    <3>3. CASE e \notin S /\ e \in held[t]
      BY <3>1, <3>3, <2>3, <1>1 DEF IInv, PhasesAgree
    <3>4. CASE e \notin S /\ e \in N
      <4>1. e \in Queued(Law)
        BY <3>1, <3>4, <1>3, LegType DEF Resolves
      <4> QED
        BY <4>1, <3>1, <3>4, <1>1 DEF IInv, PhasesAgree
    <3> QED
      BY <3>2, <3>3, <3>4 DEF Resolves
  <2> QED
    BY <2>1, <2>2, <2>3 DEF PhasesAgree
<1> QED
  BY <1>5, <1>6, <1>11, <1>12

\* Of the two legs of a call at most one is pending.
LEMMA OneLeg == IInv => OneLegPerKey
<1> SUFFICES ASSUME IInv, NEW d \in pending, NEW e \in pending, d.call = e.call
             PROVE  d = e
  BY DEF OneLegPerKey
<1>1. d \in Deliveries /\ e \in Deliveries
  BY DEF IInv, TypeOK
<1>2. ~(Gate(d.call) \in pending /\ Op(d.call) \in pending)
  BY <1>1, LegType DEF IInv, PhasesAgree
<1> QED
  BY <1>1, <1>2, LegType

\* The leg d is resolved with r, its slot is released and passed on.
Frees(d, r, hold) ==
  /\ d \in pending
  /\ Release(To(d), d.call, {d}, [e \in {d} |-> r], hold)
  /\ r \in Outcomes(d)
  /\ hold \in [Compartments -> SUBSET Deliveries]
  /\ \A t \in Compartments : hold[t] \subseteq held[t]
  /\ d.leg = "gate" /\ r = "allow" => \A t \in Compartments : d \notin hold[t]
  /\ UNCHANGED <<handle, worker, elapsed, stage>>

\* A return or a timer resolves one pending leg, the expired head of the queue
\* with it, and admits at most one leg.
LEMMA FreesEffect ==
  ASSUME IInv, NEW d \in Deliveries, NEW r, NEW hold, Frees(d, r, hold)
  PROVE  \E late \in SUBSET Deliveries, next \in SUBSET Deliveries :
           /\ Resolves(To(d), {d} \cup late, next,
                       [e \in {d} \cup late |-> IF e \in {d} THEN r ELSE "BUDGET"])
           /\ late \subseteq Queued(To(d))
           /\ d \notin late
           /\ inflight' = [inflight EXCEPT ![To(d)] = (@ \ {d.call}) \cup {e.call : e \in next}]
           /\ next = {} \/ \E e \in Deliveries : next = {e}
           /\ next = {} => Queued(To(d))' = {}
<1> DEFINE t0 == To(d)
           g == [e \in {d} |-> r]
<1>1. PICK n \in 0..Len(waiting[t0]) :
        LET q     == waiting[t0]
            late  == {q[i] : i \in 1..n}
            next  == IF n < Len(q) THEN {q[n + 1]} ELSE {}
        IN /\ Shifts(q, n)
           /\ waiting'  = [waiting EXCEPT ![t0] = SubSeq(@, n + 2, Len(@))]
           /\ inflight' = [inflight EXCEPT ![t0] = (@ \ {d.call}) \cup {e.call : e \in next}]
           /\ pending'  = (pending \ {d}) \cup next
           /\ held'     = Post(hold, t0, next)
           /\ posted'   = posted \cup next
           /\ Settle([e \in {d} \cup late |-> IF e \in {d} THEN g[e] ELSE "BUDGET"])
  BY DEF Frees, Release
<1> DEFINE q    == waiting[t0]
           late == {q[i] : i \in 1..n}
           next == IF n < Len(q) THEN {q[n + 1]} ELSE {}
           f    == [e \in {d} \cup late |-> IF e \in {d} THEN r ELSE "BUDGET"]
<1>2. TypeOK /\ QueueInv /\ t0 \in Compartments
  BY LegType DEF IInv
<1>3. /\ QueueTypes'
      /\ late \cup next \subseteq Queued(t0)
      /\ late \cap next = {}
      /\ Queued(t0)' = Queued(t0) \ (late \cup next)
      /\ \A t \in Compartments : t # t0 => Queued(t)' = Queued(t)
  BY <1>1, <1>2, ServeEffect
<1>4. next = {} \/ \E e : next = {e}
  OBVIOUS
<1>e. next = {} => Queued(t0)' = {}
  <2> SUFFICES ASSUME next = {} PROVE Queued(t0)' = {}
    OBVIOUS
  <2>1. q \in Seq(Deliveries)
    BY <1>2 DEF TypeOK
  <2>2. ~(n < Len(q)) /\ n \in 0..Len(q)
    OBVIOUS
  <2> HIDE DEF q
  <2>4. DOMAIN q = 1..n
    BY <2>1, <2>2
  <2>3. late = Queued(t0)
    BY <2>4 DEF Queued, q
  <2> QED
    BY <2>3, <1>3
<1>5. \A e \in {d} : g[e] = r
  OBVIOUS
<1>6. [e \in {d} \cup late |-> IF e \in {d} THEN g[e] ELSE "BUDGET"] = f
  BY <1>5
<1>7. /\ inflight' = [inflight EXCEPT ![t0] = (@ \ {d.call}) \cup {e.call : e \in next}]
      /\ pending'  = (pending \ {d}) \cup next
      /\ held'     = Post(hold, t0, next)
      /\ posted'   = posted \cup next
      /\ Settle(f)
  BY <1>1, <1>6
<1>8. DOMAIN f = {d} \cup late /\ f[d] = r /\ \A e \in late : e # d => f[e] = "BUDGET"
  OBVIOUS
<1> HIDE DEF late, next, f, g, t0, q
<1>9. \A t \in Compartments : \A e \in Queued(t) : e \in Deliveries /\ To(e) = t /\ e \notin posted
  BY <1>2 DEF QueueInv, TypeOK, Queued
<1>10. d \in pending /\ d \in posted /\ \A t \in Compartments : d \notin Queued(t)
  BY <1>9 DEF Frees, IInv, HistoryInv
<1>11. late \subseteq Deliveries /\ next \subseteq Deliveries /\ d \notin late /\ d \notin next
  BY <1>2, <1>3, <1>9, <1>10
<1>12. \A t \in Compartments : Queued(t)' = Queued(t) \ (({d} \cup late) \cup next)
  BY <1>3, <1>9, <1>10, <1>2
<1>13. /\ held' \in [Compartments -> SUBSET Deliveries]
       /\ \A t \in Compartments : held'[t] \subseteq hold[t] \cup (IF t = t0 THEN next ELSE {})
  BY <1>2, <1>7, <1>11 DEF Frees, Post
<1>14. \A e \in {d} \cup late : e \in pending \cup Queued(To(e))
  BY <1>2, <1>3, <1>9, <1>10
<1>15. \A e \in {d} \cup late : f[e] \in Outcomes(e) /\ (f[e] = "ok" => e \in posted)
  BY <1>8, <1>10 DEF Frees, Outcomes
<1>16. \A e \in {d} \cup late :
         e.leg = "gate" /\ f[e] = "allow" => \A t \in Compartments : e \notin held'[t]
  BY <1>8, <1>11, <1>13 DEF Frees
<1>17. Resolves(t0, {d} \cup late, next, f)
  <2>1. /\ handle' \in [Compartments -> {"active", "degraded", "stopped"}]
        /\ worker' \in [Compartments -> {"up", "dying", "gone"}]
        /\ UNCHANGED <<elapsed, stage>>
    BY DEF Frees, IInv, TypeOK
  <2>2. \A t \in Compartments : held'[t] \subseteq held[t] \cup (IF t = t0 THEN next ELSE {})
    BY <1>13 DEF Frees
  <2>3. next \subseteq Queued(t0) /\ ({d} \cup late) \cap next = {}
    BY <1>3, <1>11
  <2>4. pending' = (pending \ ({d} \cup late)) \cup next
    <3>1. late \cap pending = {}
      BY <1>2, <1>3, <1>9 DEF IInv, HistoryInv
    <3> QED
      BY <3>1, <1>7
  <2> QED
    BY <2>1, <2>2, <2>3, <2>4, <1>3, <1>7, <1>8, <1>12, <1>13, <1>14, <1>15, <1>16 DEF Resolves
<1>18. next = {} \/ \E e \in Deliveries : next = {e}
  BY <1>4, <1>11
<1> QED
  BY <1>3, <1>7, <1>11, <1>17, <1>18, <1>e DEF f, t0

\* A return or a timer keeps the inductive invariant: the key it frees was in
\* the ledger of that compartment and no other pending leg used it.
LEMMA FreesInv ==
  ASSUME IInv, NEW d \in Deliveries, NEW r, NEW hold, Frees(d, r, hold)
  PROVE  IInv'
<1> DEFINE t0 == To(d)
<1>1. PICK late \in SUBSET Deliveries, next \in SUBSET Deliveries :
        /\ Resolves(t0, {d} \cup late, next,
                    [e \in {d} \cup late |-> IF e \in {d} THEN r ELSE "BUDGET"])
        /\ late \subseteq Queued(t0)
        /\ d \notin late
        /\ inflight' = [inflight EXCEPT ![t0] = (@ \ {d.call}) \cup {e.call : e \in next}]
        /\ next = {} \/ \E e \in Deliveries : next = {e}
        /\ next = {} => Queued(To(d))' = {}
  BY FreesEffect, ZenonT(60)
<1>2. t0 \in Compartments /\ d.call \in Calls /\ d \in pending
  BY LegType DEF Frees
<1> HIDE DEF t0
<1>3. inflight' \in [Compartments -> SUBSET Calls]
  BY <1>1, <1>2, LegType DEF IInv, TypeOK
<1>4. TypeOK' /\ QueueInv' /\ HistoryInv' /\ PhasesAgree'
  <2>1. {d} \cup late \in SUBSET Deliveries
    OBVIOUS
  <2> QED
    BY <1>1, <1>2, <1>3, <2>1, ResolvesInv
<1>5. /\ pending' = (pending \ {d}) \cup next
      /\ \A e \in next : To(e) = t0
  <2>1. late \cap pending = {} /\ \A e \in Queued(t0) : To(e) = t0
    BY <1>1, <1>2 DEF IInv, HistoryInv, QueueInv, Queued
  <2>2. pending' = (pending \ ({d} \cup late)) \cup next /\ next \subseteq Queued(t0)
    BY <1>1 DEF Resolves
  <2> QED
    BY <2>1, <2>2
<1>6. \A e \in pending : e.call = d.call => e = d
  BY <1>2, OneLeg DEF OneLegPerKey
<1>7. /\ inflight'[t0] = (inflight[t0] \ {d.call}) \cup {e.call : e \in next}
      /\ \A t \in Compartments : t # t0 => inflight'[t] = inflight[t]
  BY <1>1, <1>2 DEF IInv, TypeOK
<1>8. LedgerAgrees'
  <2> SUFFICES ASSUME NEW t \in Compartments
               PROVE  inflight'[t] = {e.call : e \in {x \in pending' : To(x) = t}}
    BY DEF LedgerAgrees
  <2>1. inflight[t] = {e.call : e \in {x \in pending : To(x) = t}}
    BY DEF IInv, LedgerAgrees
  <2>2. CASE t = t0
    <3>1. {x \in pending' : To(x) = t0} = ({x \in pending : To(x) = t0} \ {d}) \cup next
      BY <1>5
    <3>2. {e.call : e \in {x \in pending : To(x) = t0} \ {d}} = inflight[t0] \ {d.call}
      BY <1>6, <2>1, <2>2, <1>2
    <3> QED
      BY <3>1, <3>2, <1>7, <2>2
  <2>3. CASE t # t0
    <3>1. {x \in pending' : To(x) = t} = {x \in pending : To(x) = t}
      BY <2>3, <1>5 DEF t0
    <3> QED
      BY <3>1, <2>1, <2>3, <1>7
  <2> QED
    BY <2>2, <2>3
<1>9. SlotInv'
  <2> SUFFICES ASSUME NEW t \in Compartments
               PROVE  IsFiniteSet(inflight'[t]) /\ Cardinality(inflight'[t]) <= MaxConcurrentCalls[t]
    BY DEF SlotInv
  <2>1. IsFiniteSet(inflight[t]) /\ Cardinality(inflight[t]) <= MaxConcurrentCalls[t]
    BY DEF IInv, SlotInv
  <2>2. CASE t # t0
    BY <2>1, <2>2, <1>7
  <2>3. CASE t = t0
    <3> DEFINE rest == inflight[t0] \ {d.call}
    <3>1. d.call \in inflight[t0]
      BY <1>2 DEF IInv, LedgerAgrees, t0
    <3>2. IsFiniteSet(rest) /\ Cardinality(rest) = Cardinality(inflight[t0]) - 1
      BY <2>1, <2>3, <3>1, FS_RemoveElement
    <3>3. /\ Cardinality(inflight[t0]) \in Nat /\ Cardinality(rest) \in Nat
          /\ MaxConcurrentCalls[t0] \in Nat
      BY <1>2, <2>1, <2>3, <3>2, FS_CardinalityType, RouterAssumption
    <3> HIDE DEF rest
    <3>4. CASE next = {}
      <4>1. inflight'[t0] = rest
        BY <1>7, <3>4 DEF rest
      <4> QED
        BY <4>1, <3>2, <3>3, <2>1, <2>3
    <3>5. CASE \E e \in Deliveries : next = {e}
      <4>1. PICK e \in Deliveries : next = {e}
        BY <3>5
      <4>2. inflight'[t0] = rest \cup {e.call}
        BY <1>7, <4>1 DEF rest
      <4>3. /\ IsFiniteSet(inflight'[t0])
            /\ Cardinality(inflight'[t0]) = IF e.call \in rest THEN Cardinality(rest)
                                           ELSE Cardinality(rest) + 1
        <5>1. /\ IsFiniteSet(rest \cup {e.call})
              /\ Cardinality(rest \cup {e.call}) = IF e.call \in rest THEN Cardinality(rest)
                                                   ELSE Cardinality(rest) + 1
          BY <3>2, FS_AddElement
        <5> QED
          BY <4>2, <5>1
      <4> QED
        BY <4>3, <3>2, <3>3, <2>1, <2>3
    <3> QED
      BY <3>4, <3>5, <1>1
  <2> QED
    BY <2>2, <2>3
<1> QED
  BY <1>4, <1>8, <1>9 DEF IInv

-----------------------------------------------------------------------------
(* A compartment fails: everything it holds or queues is resolved.         *)

\* failInflight(t0), whatever happens to the handle and to the thread.
Fails(t0) ==
  /\ FailInflight(t0)
  /\ handle' \in [Compartments -> {"active", "degraded", "stopped"}]
  /\ worker' \in [Compartments -> {"up", "dying", "gone"}]
  /\ held' \in [Compartments -> SUBSET Deliveries]
  /\ \A t \in Compartments : held'[t] \subseteq held[t]
  /\ UNCHANGED <<posted, elapsed, stage>>

\* failInflight() resolves exactly the legs pending or queued at t0.
LEMMA FailsEffect ==
  ASSUME IInv, NEW t0 \in Compartments, Fails(t0)
  PROVE  LET S == {e \in pending : To(e) = t0} \cup Queued(t0)
         IN  /\ S \subseteq Deliveries
             /\ Resolves(t0, S, {}, [e \in S |-> "DEGRADED"])
             /\ pending' = {e \in pending : To(e) # t0}
             /\ inflight' = [inflight EXCEPT ![t0] = {}]
<1> DEFINE lost == {e \in pending : e.call \in inflight[t0]}
           here == {e \in pending : To(e) = t0}
           S    == here \cup Queued(t0)
           f    == [e \in S |-> "DEGRADED"]
<1>1. lost = here
  <2>1. \A e, x \in pending : e.call = x.call => e = x
    BY OneLeg DEF OneLegPerKey
  <2>2. inflight[t0] = {e.call : e \in here}
    BY DEF IInv, LedgerAgrees
  <2> QED
    BY <2>1, <2>2
<1>2. /\ waiting'  = [waiting EXCEPT ![t0] = <<>>]
      /\ inflight' = [inflight EXCEPT ![t0] = {}]
      /\ pending'  = pending \ here
      /\ Settle(f)
  BY <1>1 DEF Fails, FailInflight
<1>3. \A t \in Compartments : \A e \in Queued(t) : e \in Deliveries /\ To(e) = t /\ e \notin posted
  BY DEF IInv, QueueInv, TypeOK, Queued
<1>4. S \subseteq Deliveries
  BY <1>3 DEF IInv, TypeOK
<1>5. /\ QueueTypes'
      /\ Queued(t0)' = {}
      /\ \A t \in Compartments : t # t0 => Queued(t)' = Queued(t)
  <2>1. TypeOK /\ QueueInv
    BY DEF IInv
  <2>2. <<>> \in Seq(Deliveries) /\ {<<>>[i] : i \in DOMAIN <<>>} = {}
    OBVIOUS
  <2>3. /\ \A i \in DOMAIN <<>> : To(<<>>[i]) = t0
        /\ \A i, j \in DOMAIN <<>> : <<>>[i] = <<>>[j] => i = j
    OBVIOUS
  <2> QED
    BY <2>1, <2>2, <2>3, <1>2, ReplacedQueue DEF QueueTypes
<1>6. \A t \in Compartments : Queued(t)' = Queued(t) \ (S \cup {})
  <2>1. \A t \in Compartments : t # t0 => Queued(t) \cap S = {}
    BY <1>3 DEF IInv, HistoryInv
  <2> QED
    BY <2>1, <1>5
<1>7. pending' = (pending \ S) \cup {}
  BY <1>2, <1>3 DEF IInv, HistoryInv
<1>8. \A e \in S : e \in pending \cup Queued(To(e))
  BY <1>3
<1>9. DOMAIN f = S /\ \A e \in S : f[e] = "DEGRADED"
  OBVIOUS
<1> HIDE DEF S, f
<1>10. Resolves(t0, S, {}, f)
  BY <1>2, <1>5, <1>6, <1>7, <1>8, <1>9 DEF Resolves, Fails, Outcomes
<1> QED
  BY <1>2, <1>4, <1>10 DEF S, f

\* A crash or a termination keeps the inductive invariant.
LEMMA FailsInv ==
  ASSUME IInv, NEW t0 \in Compartments, Fails(t0)
  PROVE  IInv'
<1> DEFINE S == {e \in pending : To(e) = t0} \cup Queued(t0)
           f == [e \in S |-> "DEGRADED"]
<1>1. /\ S \in SUBSET Deliveries
      /\ Resolves(t0, S, {}, f)
      /\ pending' = {e \in pending : To(e) # t0}
      /\ inflight' = [inflight EXCEPT ![t0] = {}]
  BY FailsEffect
<1> HIDE DEF S, f
<1>2. /\ inflight' \in [Compartments -> SUBSET Calls]
      /\ inflight'[t0] = {}
      /\ \A t \in Compartments : t # t0 => inflight'[t] = inflight[t]
  BY <1>1 DEF IInv, TypeOK
<1>3. TypeOK' /\ QueueInv' /\ HistoryInv' /\ PhasesAgree'
  BY <1>1, <1>2, ResolvesInv
<1>4. LedgerAgrees'
  <2> SUFFICES ASSUME NEW t \in Compartments
               PROVE  inflight'[t] = {e.call : e \in {x \in pending' : To(x) = t}}
    BY DEF LedgerAgrees
  <2>1. CASE t = t0
    <3>1. {x \in pending' : To(x) = t0} = {}
      BY <1>1
    <3> QED
      BY <2>1, <3>1, <1>2
  <2>2. CASE t # t0
    <3>1. {x \in pending' : To(x) = t} = {x \in pending : To(x) = t}
      BY <2>2, <1>1
    <3> QED
      BY <2>2, <3>1, <1>2 DEF IInv, LedgerAgrees
  <2> QED
    BY <2>1, <2>2
<1>5. SlotInv'
  <2> SUFFICES ASSUME NEW t \in Compartments
               PROVE  IsFiniteSet(inflight'[t]) /\ Cardinality(inflight'[t]) <= MaxConcurrentCalls[t]
    BY DEF SlotInv
  <2>1. CASE t = t0
    BY <2>1, <1>2, FS_EmptySet, RouterAssumption
  <2>2. CASE t # t0
    BY <2>2, <1>2 DEF IInv, SlotInv
  <2> QED
    BY <2>1, <2>2
<1> QED
  BY <1>3, <1>4, <1>5 DEF IInv

-----------------------------------------------------------------------------
(* Steps that move no leg.                                                 *)

\* Time, a late return, a thread that leaves or an answer without delivery.
Quiet ==
  /\ UNCHANGED <<waiting, inflight, pending, posted, stage, gateAns>>
  /\ handle' \in [Compartments -> {"active", "degraded", "stopped"}]
  /\ worker' \in [Compartments -> {"up", "dying", "gone"}]
  /\ held' \in [Compartments -> SUBSET Deliveries]
  /\ \A t \in Compartments : held'[t] \subseteq held[t]
  /\ elapsed' \subseteq Deliveries
  /\ reply' \in [Calls -> Replies]
  /\ \A c \in Calls : reply'[c] # reply[c] =>
       /\ stage[c] = "idle" \/ (stage[c] = "gate" /\ gateAns[c] # "none")
       /\ reply[c] = "none" /\ reply'[c] # "none" /\ reply'[c] # "ok"

\* A step that moves no leg keeps the inductive invariant.
LEMMA QuietInv == IInv /\ Quiet => IInv'
<1> SUFFICES ASSUME IInv, Quiet PROVE IInv'
  OBVIOUS
<1>1. \A t \in Compartments : Queued(t)' = Queued(t)
  BY DEF Quiet, Queued
<1>2. TypeOK'
  BY DEF Quiet, IInv, TypeOK
<1>3. QueueInv'
  <2>1. waiting' = waiting /\ posted' = posted
    BY DEF Quiet
  <2> QED
    BY <1>1, <2>1 DEF IInv, QueueInv
<1>4. HistoryInv'
  BY <1>1, RouterAssumption DEF Quiet, IInv, HistoryInv
<1>5. PhasesAgree'
  BY <1>1, RouterAssumption DEF Quiet, IInv, PhasesAgree
<1>6. LedgerAgrees' /\ SlotInv'
  BY DEF Quiet, IInv, LedgerAgrees, SlotInv
<1> QED
  BY <1>2, <1>3, <1>4, <1>5, <1>6 DEF IInv

-----------------------------------------------------------------------------
(* The actions.                                                            *)

\* A worker returns a leg nobody waits for any more, or the one leg that is
\* pending under its causation id.
LEMMA FoundIsHeld ==
  ASSUME IInv, NEW t \in Compartments, NEW d \in held[t]
  PROVE  Found(d) = {} \/ (d \in pending /\ Found(d) = {d})
<1>1. d \in Deliveries /\ d \in posted /\ To(d) = t
  BY DEF IInv, TypeOK, HistoryInv
<1>2. ASSUME NEW e \in pending, e.call = d.call
      PROVE  e = d
  <2>1. e \in Deliveries /\ e \in posted
    BY DEF IInv, TypeOK, HistoryInv
  <2>2. CASE d = Gate(d.call) /\ e = Op(d.call)
    <3>1. gateAns[d.call] # "allow"
      BY <2>2, <1>1, LegType DEF IInv, PhasesAgree
    <3>2. d.call \in Risky /\ gateAns[d.call] = "allow"
      BY <2>1, <2>2, <1>1, LegType DEF IInv, HistoryInv
    <3> QED
      BY <3>1, <3>2
  <2>3. CASE d = Op(d.call) /\ e = Gate(d.call)
    <3>1. stage[d.call] = "gate" /\ stage[d.call] = "op"
      BY <2>3, <1>1, LegType DEF IInv, PhasesAgree, HistoryInv
    <3> QED
      BY <3>1
  <2> QED
    BY <2>1, <2>2, <2>3, <1>1, <1>2, LegType
<1> QED
  BY <1>2 DEF Found

\* Every step of the router is of one of four kinds.
StepKind ==
  \/ \E c \in Calls, d \in Deliveries : Enters(c, d)
  \/ \E d \in Deliveries : \E r, hold : Frees(d, r, hold)
  \/ \E t \in Compartments : Fails(t)
  \/ Quiet

\* The state check of dispatch() answers at once or delivers the op leg.
LEMMA RouteKind ==
  ASSUME IInv, NEW c \in Calls, Fresh(c, Op(c)), Route(c),
         UNCHANGED <<handle, worker, elapsed, gateAns>>
  PROVE  StepKind
<1>1. Op(c) \in Deliveries /\ Op(c).leg = "op"
  BY LegType
<1>2. CASE handle[Target[c]] = "active"
  <2>1. Enters(c, Op(c))
    BY <1>1, <1>2 DEF Route, Enters
  <2> QED
    BY <1>1, <2>1, Zenon DEF StepKind
<1>3. CASE handle[Target[c]] # "active"
  <2>1. /\ reply' = [reply EXCEPT ![c] = "DEGRADED"]
        /\ UNCHANGED <<waiting, inflight, pending, held, posted, stage>>
    BY <1>3 DEF Route
  <2>2. reply[c] = "none" /\ (stage[c] = "idle" \/ (stage[c] = "gate" /\ gateAns[c] # "none"))
    BY LegType DEF Fresh
  <2>3. Quiet
    BY <2>1, <2>2 DEF Quiet, IInv, TypeOK, Replies
  <2> QED
    BY <2>3 DEF StepKind
<1> QED
  BY <1>2, <1>3

\* Each action of the router is one of the four kinds of step.
LEMMA StepKinds == IInv /\ [Next]_vars => StepKind
<1> SUFFICES ASSUME IInv, [Next]_vars PROVE StepKind
  OBVIOUS
<1>1. ASSUME NEW c \in Calls, Submit(c) PROVE StepKind
  <2>1. CASE c \in Risky
    <3>1. Gate(c) \in Deliveries /\ Gate(c).leg = "gate"
      BY LegType
    <3>2. Enters(c, Gate(c))
      BY <1>1, <2>1, <3>1 DEF Submit, Enters, Fresh
    <3> QED
      BY <3>1, <3>2, Zenon DEF StepKind
  <2>2. CASE c \notin Risky
    BY <1>1, <2>2, RouteKind DEF Submit, Fresh
  <2> QED
    BY <2>1, <2>2
<1>2. ASSUME NEW c \in Calls, Continue(c) PROVE StepKind
  <2>1. CASE gateAns[c] = "allow"
    BY <1>2, <2>1, RouteKind DEF Continue, Fresh
  <2>2. CASE gateAns[c] # "allow"
    <3>1. /\ reply' = [reply EXCEPT ![c] = Refusal(c)]
          /\ UNCHANGED <<handle, worker, elapsed, gateAns, waiting, inflight, pending, held, posted, stage>>
          /\ stage[c] = "gate" /\ gateAns[c] # "none" /\ reply[c] = "none"
      BY <1>2, <2>2 DEF Continue
    <3>2. Refusal(c) \in {"BUDGET", "DEGRADED", "REFUSED"}
      BY <2>2, <3>1 DEF IInv, TypeOK, Refusal, GateAnswers
    <3>3. Quiet
      BY <3>1, <3>2 DEF Quiet, IInv, TypeOK, Replies
    <3> QED
      BY <3>3 DEF StepKind
  <2> QED
    BY <2>1, <2>2
<1>3. ASSUME NEW d \in Deliveries, Elapse(d) PROVE StepKind
  <2>1. Quiet
    BY <1>3 DEF Elapse, Quiet, IInv, TypeOK
  <2> QED
    BY <2>1 DEF StepKind
<1>4. ASSUME NEW d \in Deliveries, TimerFires(d) PROVE StepKind
  <2>1. Frees(d, "BUDGET", held)
    BY <1>4 DEF TimerFires, Frees, IInv, TypeOK, Outcomes
  <2> QED
    BY <2>1, Zenon DEF StepKind
<1>5. ASSUME NEW t \in Compartments, NEW d \in Deliveries, NEW r \in Results(d), WorkerReturn(t, d, r)
      PROVE  StepKind
  <2> DEFINE hold == [held EXCEPT ![t] = @ \ {d}]
  <2>1. d \in held[t] /\ UNCHANGED <<handle, worker, elapsed, stage>>
    BY <1>5 DEF WorkerReturn
  <2>2. /\ hold \in [Compartments -> SUBSET Deliveries]
        /\ \A u \in Compartments : hold[u] \subseteq held[u]
        /\ d \notin hold[t]
    BY DEF IInv, TypeOK
  <2>3. CASE Found(d) = {}
    <3>1. /\ held' = hold
          /\ UNCHANGED <<waiting, inflight, pending, posted, gateAns, reply>>
      BY <1>5, <2>3 DEF WorkerReturn
    <3>2. Quiet
      BY <2>1, <2>2, <3>1 DEF Quiet, IInv, TypeOK
    <3> QED
      BY <3>2 DEF StepKind
  <2>4. CASE d \in pending /\ Found(d) = {d}
    <3>1. To(d) = t /\ \A u \in Compartments : d \in held[u] => u = t
      BY <2>1 DEF IInv, HistoryInv
    <3>2. Release(To(d), d.call, {d}, [e \in {d} |-> r], hold)
      BY <1>5, <2>4, <3>1 DEF WorkerReturn
    <3>3. r \in Outcomes(d)
      BY DEF Results, Outcomes
    <3>4. \A u \in Compartments : d \notin hold[u]
      BY <2>2, <3>1
    <3> HIDE DEF hold
    <3>5. Frees(d, r, hold)
      BY <2>1, <2>2, <2>4, <3>2, <3>3, <3>4 DEF Frees
    <3> QED
      BY <3>5, Zenon DEF StepKind
  <2> QED
    BY <2>1, <2>3, <2>4, FoundIsHeld
<1>6. ASSUME NEW t \in Compartments, WorkerError(t) PROVE StepKind
  <2>1. Fails(t)
    BY <1>6 DEF WorkerError, Fails, IInv, TypeOK
  <2> QED
    BY <2>1 DEF StepKind
<1>7. ASSUME NEW t \in Compartments, Terminate(t) PROVE StepKind
  <2>1. Fails(t)
    BY <1>7 DEF Terminate, Fails, IInv, TypeOK
  <2> QED
    BY <2>1 DEF StepKind
<1>8. ASSUME NEW t \in Compartments, NEW code \in {0, 1}, WorkerExit(t, code) PROVE StepKind
  <2>1. /\ worker' = [worker EXCEPT ![t] = "gone"]
        /\ held' = [held EXCEPT ![t] = {}]
        /\ UNCHANGED <<posted, elapsed, stage>>
    BY <1>8 DEF WorkerExit
  <2>2. CASE /\ handle' = [handle EXCEPT ![t] = "degraded"]
             /\ FailInflight(t)
    <3>1. Fails(t)
      BY <2>1, <2>2 DEF Fails, IInv, TypeOK
    <3> QED
      BY <3>1 DEF StepKind
  <2>3. CASE UNCHANGED <<handle, waiting, inflight, pending, gateAns, reply>>
    <3>1. Quiet
      BY <2>1, <2>3 DEF Quiet, IInv, TypeOK
    <3> QED
      BY <3>1 DEF StepKind
  <2> QED
    BY <1>8, <2>2, <2>3 DEF WorkerExit
<1>9. ASSUME UNCHANGED vars PROVE StepKind
  <2>1. Quiet
    BY <1>9 DEF vars, Quiet, IInv, TypeOK
  <2> QED
    BY <2>1 DEF StepKind
<1> QED
  BY <1>1, <1>2, <1>3, <1>4, <1>5, <1>6, <1>7, <1>8, <1>9 DEF Next

\* The induction step.
LEMMA StepInv == IInv /\ [Next]_vars => IInv'
<1> SUFFICES ASSUME IInv, StepKind PROVE IInv'
  BY StepKinds
<1>1. CASE \E c \in Calls, d \in Deliveries : Enters(c, d)
  BY <1>1, EntersInv
<1>2. CASE \E d \in Deliveries : \E r, hold : Frees(d, r, hold)
  BY <1>2, FreesInv, Zenon
<1>3. CASE \E t \in Compartments : Fails(t)
  BY <1>3, FailsInv
<1>4. CASE Quiet
  BY <1>4, QuietInv
<1> QED
  BY <1>1, <1>2, <1>3, <1>4 DEF StepKind

\* The base case.
LEMMA InitInv == Init => IInv
<1> SUFFICES ASSUME Init PROVE IInv
  OBVIOUS
<1>1. \A t \in Compartments : Queued(t) = {}
  BY DEF Init, Queued
<1>2. TypeOK
  BY DEF Init, TypeOK, GateAnswers, Replies
<1>3. QueueInv
  BY <1>1 DEF Init, QueueInv
<1>4. HistoryInv /\ PhasesAgree /\ LedgerAgrees
  BY <1>1, RouterAssumption DEF Init, HistoryInv, PhasesAgree, LedgerAgrees
<1>5. SlotInv
  BY FS_EmptySet, RouterAssumption DEF Init, SlotInv
<1> QED
  BY <1>2, <1>3, <1>4, <1>5 DEF IInv

-----------------------------------------------------------------------------
(* Who waits, and in which order.                                          *)

\* A queue is empty when it has no elements.
LEMMA NobodyQueued ==
  ASSUME waiting \in [Compartments -> Seq(Deliveries)], NEW t \in Compartments
  PROVE  waiting[t] = <<>> <=> Queued(t) = {}
<1> DEFINE q == waiting[t]
<1>1. q \in Seq(Deliveries)
  OBVIOUS
<1> HIDE DEF q
<1>2. q = <<>> <=> Len(q) = 0
  BY <1>1
<1>3. Len(q) = 0 <=> DOMAIN q = {}
  BY <1>1
<1>4. Queued(t) = {} <=> DOMAIN q = {}
  BY DEF Queued, q
<1> QED
  BY <1>2, <1>3, <1>4 DEF q

\* enqueue(): a delivery waits only behind a full compartment, so delivering
\* one never leaves a slot free beside a waiting one.
LEMMA EntersConserving ==
  ASSUME IInv, WorkConserving, NEW c \in Calls, NEW d \in Deliveries, Enters(c, d),
         NEW t \in Compartments, Queued(t)' # {}
  PROVE  Cardinality(inflight'[t]) = MaxConcurrentCalls[t]
<1>1. Queued(t) # {} => Cardinality(inflight[t]) = MaxConcurrentCalls[t]
  BY NobodyQueued DEF WorkConserving, IInv, TypeOK
<1>2. Cardinality(inflight[t]) \in Nat /\ MaxConcurrentCalls[t] \in Nat
      /\ Cardinality(inflight[t]) <= MaxConcurrentCalls[t]
  BY FS_CardinalityType, RouterAssumption DEF IInv, SlotInv
<1>3. CASE t # To(d)
  <2>1. inflight'[t] = inflight[t] /\ Queued(t)' = Queued(t)
    BY <1>3, EntersEffect DEF IInv, TypeOK
  <2> QED
    BY <2>1, <1>1
<1>4. CASE t = To(d) /\ Queued(t)' = Queued(t) /\ HasRoom(t)
  BY <1>1, <1>2, <1>4 DEF HasRoom
<1>5. CASE t = To(d) /\ ~HasRoom(t) /\ inflight' = inflight
  BY <1>2, <1>5 DEF HasRoom
<1> QED
  BY <1>3, <1>4, <1>5, EntersEffect

\* release(): the slot that is freed goes to the next entry that may still run,
\* so as long as one waits the compartment stays full.
LEMMA FreesConserving ==
  ASSUME IInv, WorkConserving, NEW d \in Deliveries, NEW r, NEW hold, Frees(d, r, hold)
  PROVE  \A t \in Compartments :
           Queued(t)' # {} => Cardinality(inflight'[t]) = MaxConcurrentCalls[t]
<1> DEFINE t0 == To(d)
<1>1. PICK late \in SUBSET Deliveries, next \in SUBSET Deliveries :
        /\ Resolves(t0, {d} \cup late, next,
                    [e \in {d} \cup late |-> IF e \in {d} THEN r ELSE "BUDGET"])
        /\ late \subseteq Queued(t0)
        /\ d \notin late
        /\ inflight' = [inflight EXCEPT ![t0] = (@ \ {d.call}) \cup {e.call : e \in next}]
        /\ next = {} \/ \E e \in Deliveries : next = {e}
        /\ next = {} => Queued(To(d))' = {}
  BY FreesEffect, ZenonT(60)
<1> SUFFICES ASSUME NEW t \in Compartments, Queued(t)' # {}
             PROVE  Cardinality(inflight'[t]) = MaxConcurrentCalls[t]
  OBVIOUS
<1>2. t0 \in Compartments /\ d \in pending
  BY LegType DEF Frees
<1>3. Queued(t)' \subseteq Queued(t) /\ next \subseteq Queued(t0)
  BY <1>1 DEF Resolves
<1>4. Queued(t) # {} /\ Cardinality(inflight[t]) = MaxConcurrentCalls[t]
  BY <1>3, NobodyQueued DEF WorkConserving, IInv, TypeOK
<1>5. CASE t # t0
  <2>1. inflight'[t] = inflight[t]
    BY <1>1, <1>5 DEF IInv, TypeOK
  <2> QED
    BY <2>1, <1>4
<1>6. CASE t = t0
  <2> DEFINE rest == inflight[t0] \ {d.call}
  <2>1. PICK e \in Deliveries : next = {e}
    BY <1>1, <1>6
  <2>2. e \in Queued(t0) /\ To(e) = t0 /\ e \notin posted
    BY <1>3, <2>1, <1>2 DEF IInv, QueueInv, Queued
  <2>3. e.call \notin inflight[t0]
    <3> SUFFICES ASSUME NEW x \in pending, x.call = e.call PROVE FALSE
      BY <1>2 DEF IInv, LedgerAgrees
    <3>1. x \in Deliveries /\ x \in posted
      BY DEF IInv, TypeOK, HistoryInv
    <3>2. x # e
      BY <2>2, <3>1
    <3>3. CASE x = Gate(e.call) /\ e = Op(e.call)
      BY <3>3, <2>2, LegType DEF IInv, PhasesAgree
    <3>4. CASE x = Op(e.call) /\ e = Gate(e.call)
      BY <3>4, <2>2, LegType DEF IInv, PhasesAgree
    <3> QED
      BY <3>1, <3>2, <3>3, <3>4, LegType
  <2>4. d.call \in inflight[t0]
    BY <1>2 DEF IInv, LedgerAgrees
  <2>5. IsFiniteSet(inflight[t0])
    BY <1>2 DEF IInv, SlotInv
  <2>6. IsFiniteSet(rest) /\ Cardinality(rest) = Cardinality(inflight[t0]) - 1
    BY <2>4, <2>5, FS_RemoveElement
  <2>7. e.call \notin rest
    BY <2>3
  <2>8. inflight'[t0] = rest \cup {e.call}
    <3>1. {x.call : x \in next} = {e.call}
      BY <2>1
    <3> QED
      BY <1>1, <1>2, <3>1 DEF IInv, TypeOK
  <2> HIDE DEF rest
  <2>9. Cardinality(rest \cup {e.call}) = Cardinality(rest) + 1
    BY <2>6, <2>7, FS_AddElement
  <2>10. Cardinality(inflight[t0]) \in Nat
    BY <2>5, FS_CardinalityType
  <2> QED
    BY <1>4, <1>6, <2>6, <2>8, <2>9, <2>10
<1> QED
  BY <1>5, <1>6

\* No step wakes too few.
LEMMA StepConserving == IInv /\ WorkConserving /\ [Next]_vars => WorkConserving'
<1> SUFFICES ASSUME IInv, WorkConserving, [Next]_vars,
                    NEW t \in Compartments, Queued(t)' # {}
             PROVE  Cardinality(inflight'[t]) = MaxConcurrentCalls[t]
  <2>1. IInv /\ WorkConserving /\ [Next]_vars => waiting' \in [Compartments -> Seq(Deliveries)]
    BY StepInv DEF IInv, TypeOK
  <2>2. ASSUME waiting' \in [Compartments -> Seq(Deliveries)], NEW t \in Compartments
        PROVE  waiting'[t] = <<>> <=> Queued(t)' = {}
    <3> DEFINE q == waiting'[t]
    <3>1. q \in Seq(Deliveries)
      BY <2>2
    <3> HIDE DEF q
    <3>2. q = <<>> <=> DOMAIN q = {}
      BY <3>1
    <3>3. Queued(t)' = {} <=> DOMAIN q = {}
      BY DEF Queued, q
    <3> QED
      BY <3>2, <3>3 DEF q
  <2> QED
    BY <2>1, <2>2 DEF WorkConserving
<1>1. CASE \E c \in Calls, d \in Deliveries : Enters(c, d)
  BY <1>1, EntersConserving
<1>2. CASE \E d \in Deliveries : \E r, hold : Frees(d, r, hold)
  BY <1>2, FreesConserving, Zenon
<1>3. CASE \E u \in Compartments : Fails(u)
  <2>1. PICK u \in Compartments : Fails(u)
    BY <1>3
  <2>2. /\ waiting' = [waiting EXCEPT ![u] = <<>>]
        /\ inflight' = [inflight EXCEPT ![u] = {}]
    BY <2>1 DEF Fails, FailInflight
  <2>3. t # u
    BY <2>2 DEF Queued, IInv, TypeOK
  <2>4. waiting'[t] = waiting[t] /\ inflight'[t] = inflight[t]
    BY <2>2, <2>3 DEF IInv, TypeOK
  <2>5. Queued(t)' = Queued(t)
    BY <2>4 DEF Queued
  <2> QED
    BY <2>4, <2>5, NobodyQueued DEF WorkConserving, IInv, TypeOK
<1>4. CASE Quiet
  <2>1. Queued(t)' = Queued(t) /\ inflight' = inflight
    BY <1>4 DEF Quiet, Queued
  <2> QED
    BY <2>1, NobodyQueued DEF WorkConserving, IInv, TypeOK
<1> QED
  BY <1>1, <1>2, <1>3, <1>4, StepKinds DEF StepKind

\* deliver(): a delivery takes its place behind the gate tier or at the end.
LEMMA PlacedInTier ==
  ASSUME NEW q \in Seq(Deliveries), NEW d \in Deliveries, NEW k \in 0..Len(q), Place(q, d, k),
         \A i, j \in DOMAIN q : i < j /\ Priority(q[j]) = "gate" => Priority(q[i]) = "gate"
  PROVE  LET p == Spliced(q, d, k) IN
         \A i, j \in DOMAIN p : i < j /\ Priority(p[j]) = "gate" => Priority(p[i]) = "gate"
<1> DEFINE p == Spliced(q, d, k)
<1>1. /\ p \in Seq(Deliveries) /\ Len(p) = Len(q) + 1
      /\ \A i \in 1..Len(p) : p[i] = IF i <= k THEN q[i] ELSE IF i = k + 1 THEN d ELSE q[i - 1]
  <2>1. q \in Seq(Deliveries) /\ d \in Deliveries /\ k \in 0..Len(q)
    OBVIOUS
  <2> QED
    BY <2>1, InsertedAt DEF p
<1>2. DOMAIN q = 1..Len(q) /\ Len(q) \in Nat /\ k \in Nat /\ k <= Len(q)
  OBVIOUS
<1>3. /\ Priority(d) = "gate" => \A i \in 1..k : Priority(q[i]) = "gate"
      /\ Priority(d) = "gate" /\ k < Len(q) => Priority(q[k + 1]) # "gate"
      /\ Priority(d) # "gate" => k = Len(q)
  <2>1. "normal" # "gate"
    OBVIOUS
  <2> QED
    BY <2>1 DEF Place
<1> SUFFICES ASSUME NEW i \in 1..Len(p), NEW j \in 1..Len(p), i < j, Priority(p[j]) = "gate"
             PROVE  Priority(p[i]) = "gate"
  <2>1. DOMAIN p = 1..Len(p)
    BY <1>1
  <2> QED
    BY <2>1 DEF p
<1> HIDE DEF p
<1>4. CASE j <= k
  <2>1. p[i] = q[i] /\ p[j] = q[j] /\ i \in DOMAIN q /\ j \in DOMAIN q
    BY <1>1, <1>2, <1>4
  <2> QED
    BY <2>1
<1>5. CASE j = k + 1
  <2>1. p[j] = d /\ p[i] = q[i] /\ i \in 1..k
    BY <1>1, <1>2, <1>5
  <2> QED
    BY <2>1, <1>3
<1>6. CASE j > k + 1
  <2>1. p[j] = q[j - 1] /\ j - 1 \in DOMAIN q /\ k < Len(q) /\ k + 1 \in DOMAIN q /\ k + 1 <= j - 1
    BY <1>1, <1>2, <1>6
  <2>2. Priority(d) = "gate" /\ Priority(q[k + 1]) # "gate" /\ Priority(q[j - 1]) = "gate"
    BY <2>1, <1>3
  <2>3. k + 1 # j - 1
    BY <2>2
  <2>4. k + 1 < j - 1
    BY <2>1, <2>3, <1>2
  <2>5. Priority(q[k + 1]) = "gate"
    BY <2>1, <2>2, <2>4
  <2> QED
    BY <2>2, <2>5
<1> QED
  BY <1>2, <1>4, <1>5, <1>6

\* What one queue says of the two tiers.
Tiered(q) == \A i, j \in DOMAIN q : i < j /\ Priority(q[j]) = "gate" => Priority(q[i]) = "gate"

\* No step lets a normal delivery pass one of the gate tier.
LEMMA StepTiered == IInv /\ GateTierFirst /\ [Next]_vars => GateTierFirst'
<1> SUFFICES ASSUME IInv, \A t \in Compartments : Tiered(waiting[t]), [Next]_vars,
                    NEW t \in Compartments
             PROVE  Tiered(waiting'[t])
  BY DEF GateTierFirst, Tiered, Priority
<1>0. waiting \in [Compartments -> Seq(Deliveries)]
  BY DEF IInv, TypeOK
<1>1. CASE \E c \in Calls, d \in Deliveries : Enters(c, d)
  <2>1. PICK c \in Calls, d \in Deliveries : Enters(c, d)
    BY <1>1
  <2>2. CASE waiting' = waiting
    BY <2>2
  <2>3. CASE waiting' # waiting
    <3> DEFINE q == waiting[To(d)]
    <3>1. PICK k \in 0..Len(q) :
            /\ Place(q, d, k)
            /\ waiting' = [waiting EXCEPT ![To(d)] = Spliced(q, d, k)]
      BY <2>1, <2>3 DEF Enters, Enqueue, Spliced
    <3>2. To(d) \in Compartments /\ q \in Seq(Deliveries) /\ k \in 0..Len(q)
      BY <1>0, LegType
    <3>3. Tiered(q)
      BY <3>2
    <3>4. t # To(d) => waiting'[t] = waiting[t]
      BY <1>0, <3>1
    <3>5. t = To(d) => waiting'[t] = Spliced(q, d, k)
      BY <1>0, <3>1
    <3> HIDE DEF q
    <3>6. Tiered(Spliced(q, d, k))
      BY <3>1, <3>2, <3>3, PlacedInTier DEF Tiered
    <3> QED
      BY <3>4, <3>5, <3>6
  <2> QED
    BY <2>2, <2>3
<1>2. CASE \E d \in Deliveries : \E r, hold : Frees(d, r, hold)
  <2>1. PICK d \in Deliveries : \E n \in 0..Len(waiting[To(d)]) :
          waiting' = [waiting EXCEPT ![To(d)] = SubSeq(@, n + 2, Len(@))]
    <3>1. PICK d \in Deliveries : \E r, hold : Frees(d, r, hold)
      BY <1>2
    <3> PICK r, hold : Frees(d, r, hold)
      BY <3>1
    <3>2. \E n \in 0..Len(waiting[To(d)]) :
            waiting' = [waiting EXCEPT ![To(d)] = SubSeq(@, n + 2, Len(@))]
      BY DEF Frees, Release
    <3>3. QED BY <3>2
  <2> DEFINE q == waiting[To(d)]
  <2>2. PICK n \in 0..Len(q) : waiting' = [waiting EXCEPT ![To(d)] = SubSeq(q, n + 2, Len(q))]
    BY <2>1
  <2>3. q \in Seq(Deliveries) /\ n \in 0..Len(q) /\ Tiered(q)
    BY <1>0, LegType
  <2>4. t # To(d) => waiting'[t] = waiting[t]
    BY <1>0, <2>2
  <2>5. t = To(d) => waiting'[t] = SubSeq(q, n + 2, Len(q))
    BY <1>0, <2>2
  <2> HIDE DEF q
  <2> DEFINE p == SubSeq(q, n + 2, Len(q))
  <2>6. /\ DOMAIN p = 1..Len(p) /\ Len(p) \in Nat
        /\ Len(p) = IF n + 1 <= Len(q) THEN Len(q) - (n + 1) ELSE 0
        /\ \A i \in 1..Len(p) : p[i] = q[n + 1 + i]
    BY <2>3, SuffixQueue
  <2> HIDE DEF p
  <2>7. Tiered(p)
    <3> SUFFICES ASSUME NEW i \in DOMAIN p, NEW j \in DOMAIN p, i < j, Priority(p[j]) = "gate"
                 PROVE  Priority(p[i]) = "gate"
      BY DEF Tiered
    <3>1. Len(p) \in Nat /\ i \in 1..Len(p) /\ j \in 1..Len(p) /\ DOMAIN q = 1..Len(q) /\ Len(q) \in Nat /\ n \in Nat
      BY <2>3, <2>6
    <3>2. n + 1 + i \in DOMAIN q /\ n + 1 + j \in DOMAIN q
      <4>1. Len(p) > 0
        BY <3>1
      <4>2. Len(p) = Len(q) - (n + 1)
        BY <4>1, <2>6
      <4> QED
        BY <4>2, <3>1
    <3>3. n + 1 + i < n + 1 + j
      BY <3>1
    <3>4. p[i] = q[n + 1 + i] /\ p[j] = q[n + 1 + j]
      BY <3>1, <2>6
    <3> QED
      BY <3>2, <3>3, <3>4, <2>3 DEF Tiered
  <2> QED
    BY <2>4, <2>5, <2>7 DEF p
<1>3. CASE \E u \in Compartments : Fails(u)
  <2>1. PICK u \in Compartments : waiting' = [waiting EXCEPT ![u] = <<>>]
    BY <1>3 DEF Fails, FailInflight
  <2>2. waiting'[t] = <<>> \/ waiting'[t] = waiting[t]
    BY <2>1, <1>0
  <2>3. Tiered(<<>>)
    BY DEF Tiered
  <2> QED
    BY <2>2, <2>3
<1>4. CASE Quiet
  BY <1>4 DEF Quiet
<1> QED
  BY <1>1, <1>2, <1>3, <1>4, StepKinds DEF StepKind

-----------------------------------------------------------------------------
(* Nobody is forgotten.                                                    *)

\* A call that was asked and not answered still has somebody to answer it.
Remembered(c) ==
  reply[c] = "none" =>
    \/ stage[c] = "idle"
    \/ stage[c] = "gate" /\ (gateAns[c] # "none" \/ Gate(c) \in pending \cup Queued(Law))
    \/ stage[c] = "op" /\ Op(c) \in pending \cup Queued(Target[c])

\* Resolving legs answers them or wakes their dispatch(); what is admitted is
\* pending.
LEMMA ResolvesRemembers ==
  ASSUME IInv, NobodyForgotten, NEW t0 \in Compartments, NEW S \in SUBSET Deliveries,
         NEW N \in SUBSET Deliveries, NEW f, Resolves(t0, S, N, f), NEW c \in Calls
  PROVE  Remembered(c)'
<1>1. /\ gateAns'[c] = IF Gate(c) \in S THEN f[Gate(c)] ELSE gateAns[c]
      /\ reply'[c] = IF Op(c) \in S THEN f[Op(c)] ELSE reply[c]
  BY DEF Resolves, Settle
<1>2. \A e \in S : f[e] # "none"
  BY DEF Resolves, Outcomes
<1>3. /\ Gate(c) \in (pending \cup Queued(Law)) \ S => Gate(c) \in pending' \cup Queued(Law)'
      /\ Op(c) \in (pending \cup Queued(Target[c])) \ S => Op(c) \in pending' \cup Queued(Target[c])'
  BY LegType, RouterAssumption DEF Resolves
<1>4. stage' = stage /\ Remembered(c)
  BY DEF Resolves, NobodyForgotten, Remembered
<1> QED
  BY <1>1, <1>2, <1>3, <1>4 DEF Remembered

\* No step forgets a call.
LEMMA StepRemembers == IInv /\ NobodyForgotten /\ [Next]_vars => NobodyForgotten'
<1> SUFFICES ASSUME IInv, NobodyForgotten, [Next]_vars, NEW c \in Calls PROVE Remembered(c)'
  BY DEF NobodyForgotten, Remembered
<1>0. Remembered(c)
  BY DEF NobodyForgotten, Remembered
<1>1. CASE \E x \in Calls, d \in Deliveries : Enters(x, d)
  <2>1. PICK x \in Calls, d \in Deliveries : Enters(x, d)
    BY <1>1
  <2>2. /\ stage' = [stage EXCEPT ![x] = d.leg] /\ UNCHANGED <<gateAns, reply>>
        /\ d = Gate(x) \/ d = Op(x)
    BY <2>1 DEF Enters, Fresh
  <2>3. /\ pending \subseteq pending' /\ \A t \in Compartments : Queued(t) \subseteq Queued(t)'
        /\ d \in pending' \cup Queued(To(d))'
    BY <2>1, EntersEffect
  <2>4. CASE c = x
    <3>1. stage'[c] = d.leg
      BY <2>2, <2>4 DEF IInv, TypeOK
    <3> QED
      BY <2>2, <2>3, <2>4, <3>1, LegType DEF Remembered
  <2>5. CASE c # x
    <3>1. stage'[c] = stage[c]
      BY <2>2, <2>5 DEF IInv, TypeOK
    <3> QED
      BY <1>0, <2>2, <2>3, <3>1, RouterAssumption DEF Remembered
  <2> QED
    BY <2>4, <2>5
<1>2. CASE \E d \in Deliveries : \E r, hold : Frees(d, r, hold)
  <2>1. PICK d \in Deliveries : \E r, hold : Frees(d, r, hold)
    BY <1>2
  <2>2. PICK late \in SUBSET Deliveries, next \in SUBSET Deliveries : \E f :
          Resolves(To(d), {d} \cup late, next, f)
    BY <2>1, FreesEffect, ZenonT(60)
  <2>3. PICK f : Resolves(To(d), {d} \cup late, next, f)
    BY <2>2
  <2>4. To(d) \in Compartments /\ {d} \cup late \in SUBSET Deliveries
    BY LegType
  <2> QED
    BY <2>3, <2>4, ResolvesRemembers
<1>3. CASE \E t \in Compartments : Fails(t)
  <2>1. PICK t \in Compartments : Fails(t)
    BY <1>3
  <2>2. PICK S \in SUBSET Deliveries : \E f : Resolves(t, S, {}, f)
    BY <2>1, FailsEffect
  <2>3. PICK f : Resolves(t, S, {}, f)
    BY <2>2
  <2> QED
    BY <2>3, ResolvesRemembers
<1>4. CASE Quiet
  <2>1. \A t \in Compartments : Queued(t)' = Queued(t)
    BY <1>4 DEF Quiet, Queued
  <2>2. UNCHANGED <<pending, stage, gateAns>> /\ (reply'[c] = "none" => reply[c] = "none")
    BY <1>4 DEF Quiet
  <2> QED
    BY <1>0, <2>1, <2>2, RouterAssumption DEF Remembered
<1> QED
  BY <1>1, <1>2, <1>3, <1>4, StepKinds DEF StepKind

-----------------------------------------------------------------------------
(* The theorems.                                                           *)

\* The queues, the ledger, the history and the phases of dispatch() fit
\* together in every reachable state of the router.
THEOREM Inductive == Spec => []IInv
  BY InitInv, StepInv, PTL DEF Spec

\* Every variable keeps its type: in particular a law leg is only ever resolved
\* with a decision or a failure, an op leg with a PortResult register.
THEOREM TypeCorrect == Spec => []TypeOK
<1>1. IInv => TypeOK
  BY DEF IInv
<1> QED
  BY <1>1, Inductive, PTL

\* enqueue()/release(): the admission cap holds for any number of compartments,
\* calls and slots.
THEOREM CapHolds == Spec => []InflightCap
<1>1. IInv => InflightCap
  BY DEF IInv, SlotInv, InflightCap
<1> QED
  BY <1>1, Inductive, PTL

\* inc/decInflight: no slot leaks and none is freed twice.
THEOREM LedgerExact == Spec => []LedgerAgrees
<1>1. IInv => LedgerAgrees
  BY DEF IInv
<1> QED
  BY <1>1, Inductive, PTL

\* callLaw()/deliver(): the two legs that share a causation id are never
\* pending together, and each one lives in its own phase of dispatch().
THEOREM LegsApart == Spec => [](OneLegPerKey /\ PhasesAgree)
<1>1. IInv => OneLegPerKey /\ PhasesAgree
  BY OneLeg DEF IInv
<1> QED
  BY <1>1, Inductive, PTL

\* dispatch(): no risky op reaches its implementation unless the law answered
\* "allow" to that very call, whatever crashes, expires or returns late.
THEOREM FailClosed == Spec => []GateFailClosed
<1>1. IInv => GateFailClosed
  <2> SUFFICES ASSUME IInv, NEW c \in Risky, Op(c) \in posted
               PROVE  gateAns[c] = "allow"
    BY DEF GateFailClosed
  <2> QED
    BY RouterAssumption DEF IInv, HistoryInv
<1> QED
  BY <1>1, Inductive, PTL

\* A leg that waits or is pending belongs to a call without an answer.
LEMMA LiveIsUnanswered ==
  ASSUME IInv, NEW d \in Deliveries, d \in pending \cup Queued(To(d))
  PROVE  reply[d.call] = "none" /\ stage[d.call] # "idle"
  BY LegType DEF IInv, PhasesAgree

\* What a worker is newly handed, in any step.
LEMMA NoWorkStep ==
  ASSUME IInv, [Next]_vars, NEW t \in Compartments, NEW d \in held'[t] \ held[t]
  PROVE  d \notin posted /\ reply[d.call] = "none" /\ reply'[d.call] = "none"
<1>1. CASE \E c \in Calls, e \in Deliveries : Enters(c, e)
  <2>1. PICK c \in Calls, e \in Deliveries : Enters(c, e)
    BY <1>1
  <2>2. held'[t] \subseteq held[t] \cup {e}
    <3>1. held' = held \/ held' = Post(held, To(e), {e})
      BY <2>1, EntersEffect
    <3>2. t \in DOMAIN held
      BY DEF IInv, TypeOK
    <3> QED
      BY <3>1, <3>2 DEF Post
  <2>3. e \notin posted /\ e.call = c /\ reply[c] = "none" /\ reply' = reply
    BY <2>1, FreshIsNew DEF Enters, Fresh
  <2> QED
    BY <2>2, <2>3
<1>2. CASE \E e \in Deliveries : \E r, hold : Frees(e, r, hold)
  <2>1. PICK e \in Deliveries : \E r, hold : Frees(e, r, hold)
    BY <1>2
  <2>2. PICK late \in SUBSET Deliveries, next \in SUBSET Deliveries : \E f :
          Resolves(To(e), {e} \cup late, next, f)
    BY <2>1, FreesEffect, ZenonT(60)
  <2>f. PICK f : Resolves(To(e), {e} \cup late, next, f)
    BY <2>2
  <2>3. d \in next /\ d \in Queued(To(e)) /\ d \in Deliveries /\ d \notin {e} \cup late
    BY <2>f DEF Resolves
  <2>4. To(d) = To(e) /\ d \notin posted
    BY <2>3, LegType DEF IInv, QueueInv, Queued
  <2>5. reply[d.call] = "none"
    BY <2>3, <2>4, LiveIsUnanswered
  <2>6. reply'[d.call] = reply[d.call]
    <3>1. Op(d.call) \notin {e} \cup late
      <4>1. CASE d = Op(d.call)
        BY <4>1, <2>3
      <4>2. CASE d = Gate(d.call)
        <5>1. stage[d.call] = "gate"
          BY <4>2, <2>3, <2>4, LegType DEF IInv, PhasesAgree
        <5>2. \A x \in {e} \cup late : x \in pending \cup Queued(To(x))
          BY <2>f DEF Resolves
        <5> QED
          BY <5>1, <5>2, <2>3, LegType DEF IInv, PhasesAgree
      <4> QED
        BY <4>1, <4>2, <2>3, LegType
    <3>2. reply' = [x \in Calls |-> IF Op(x) \in DOMAIN f THEN f[Op(x)] ELSE reply[x]]
      BY <2>f DEF Resolves, Settle
    <3>3. DOMAIN f = {e} \cup late /\ d.call \in Calls
      BY <2>f, <2>3, LegType DEF Resolves
    <3> QED
      BY <3>1, <3>2, <3>3
  <2> QED
    BY <2>4, <2>5, <2>6
<1>3. CASE \E u \in Compartments : Fails(u)
  BY <1>3 DEF Fails
<1>4. CASE Quiet
  BY <1>4 DEF Quiet
<1> QED
  BY <1>1, <1>2, <1>3, <1>4, StepKinds DEF StepKind

\* admit()/post: a worker is handed no leg twice, and none whose caller was
\* already answered.
THEOREM NeverLate == Spec => NoWorkAfterAnswer
<1>1. IInv /\ [Next]_vars =>
        [\A t \in Compartments : \A d \in held'[t] \ held[t] :
           d \notin posted /\ reply[d.call] = "none" /\ reply'[d.call] = "none"]_vars
  BY NoWorkStep
<1> QED
  BY <1>1, Inductive, PTL DEF Spec, NoWorkAfterAnswer

\* release() pumps exactly one entry, and that is enough: a delivery waits only
\* while every slot of its compartment is taken.
THEOREM NoLostWakeup == Spec => []WorkConserving
<1>1. Init => WorkConserving
  BY DEF Init, WorkConserving
<1> QED
  BY <1>1, StepConserving, Inductive, PTL DEF Spec

\* deliver(): whatever arrives and leaves, every delivery of the gate tier waits
\* ahead of every normal one.
THEOREM TiersHold == Spec => []GateTierFirst
<1>1. Init => GateTierFirst
  BY DEF Init, GateTierFirst
<1> QED
  BY <1>1, StepTiered, Inductive, PTL DEF Spec

\* failInflight(), release() and the timers: a call that was asked and has no
\* answer is queued, pending, or about to resume, after any crash, termination
\* or expiry.
THEOREM NoneForgotten == Spec => []NobodyForgotten
<1>1. Init => NobodyForgotten
  BY DEF Init, NobodyForgotten
<1> QED
  BY <1>1, StepRemembers, Inductive, PTL DEF Spec

-----------------------------------------------------------------------------
(* The router implements the contract of a port call.                      *)

\* The router starts where the contract starts.
LEMMA InitContract == Init => Contract!Init
<1> SUFFICES ASSUME Init PROVE Contract!Init
  OBVIOUS
<1>1. Asked = {} /\ Ran = {}
  BY DEF Init, Asked, Ran
<1> QED
  BY <1>1 DEF Init, Contract!Init

\* The view of one call in a step that resolves S and admits N.
LEMMA ResolvesContract ==
  ASSUME IInv, NEW t0 \in Compartments, NEW S \in SUBSET Deliveries,
         NEW N \in SUBSET Deliveries, NEW f, Resolves(t0, S, N, f)
  PROVE  Contract!Next
<1>1. /\ \A x \in Calls : reply'[x] = IF Op(x) \in S THEN f[Op(x)] ELSE reply[x]
      /\ stage' = stage
      /\ posted' = posted \cup N
      /\ \A x \in Calls : Op(x) \in S =>
           f[Op(x)] \in {"ok", "BUDGET", "DEGRADED"} /\ (f[Op(x)] = "ok" => Op(x) \in posted)
  <2>1. \A x \in Calls : Op(x) \in S => f[Op(x)] \in Outcomes(Op(x)) /\ (f[Op(x)] = "ok" => Op(x) \in posted)
    BY DEF Resolves
  <2> QED
    BY <2>1, LegType DEF Resolves, Settle, Outcomes
<1>2. \A x \in Calls : Op(x) \in S \cup N => reply[x] = "none" /\ stage[x] = "op"
  <2>1. \A e \in Queued(t0) : To(e) = t0
    BY DEF IInv, QueueInv, Queued
  <2>2. \A e \in S \cup N : e \in pending \cup Queued(To(e))
    BY <2>1 DEF Resolves
  <2> QED
    BY <2>2, LegType DEF IInv, PhasesAgree
<1>3. \A x \in Calls : Op(x) \in N => Op(x) \notin posted /\ Op(x) \notin S
  BY DEF IInv, QueueInv, Resolves
<1>4. /\ Asked = {x \in Calls : stage[x] # "idle" \/ reply[x] # "none"}
      /\ Asked' = {x \in Calls : stage'[x] # "idle" \/ reply'[x] # "none"}
      /\ Ran = {x \in Calls : Op(x) \in posted}
      /\ Ran' = {x \in Calls : Op(x) \in posted'}
  BY DEF Asked, Ran
<1>5. Asked \subseteq Asked'
  BY <1>1, <1>2, <1>4
<1>6. ASSUME NEW x \in Calls
      PROVE  Contract!Rests(x) \/ Contract!Runs(x) \/ Contract!Answers(x)
  <2>1. CASE Op(x) \in S
    <3>1. x \in Asked' /\ (x \in Ran' <=> x \in Ran)
      BY <2>1, <1>1, <1>2, <1>3, <1>4
    <3>2. reply[x] = "none" /\ reply'[x] \in {"ok", "BUDGET", "DEGRADED"}
          /\ (reply'[x] = "ok" => x \in Ran)
      BY <2>1, <1>1, <1>2, <1>4
    <3> QED
      BY <3>1, <3>2 DEF Contract!Answers, Contract!Registers
  <2>2. CASE Op(x) \in N
    BY <2>2, <1>1, <1>2, <1>3, <1>4 DEF Contract!Runs
  <2>3. CASE Op(x) \notin S \cup N
    BY <2>3, <1>1, <1>4 DEF Contract!Rests
  <2> QED
    BY <2>1, <2>2, <2>3
<1> QED
  BY <1>5, <1>6 DEF Contract!Next

\* Delivering a leg is a step of the contract: an op leg that is admitted runs
\* its call, anything else is invisible.
LEMMA EntersContract ==
  ASSUME IInv, NEW c \in Calls, NEW d \in Deliveries, Enters(c, d)
  PROVE  Contract!Next
<1>1. /\ stage' = [stage EXCEPT ![c] = d.leg] /\ d.leg # "idle" /\ reply' = reply
      /\ reply[c] = "none"
      /\ d.call = c /\ d \notin posted
  BY FreshIsNew, LegType DEF Enters, Fresh
<1>2. posted' = posted \/ posted' = posted \cup {d}
  BY EntersEffect
<1>3. \A x \in Calls : stage'[x] = IF x = c THEN d.leg ELSE stage[x]
  BY <1>1 DEF IInv, TypeOK
<1>4. /\ Asked = {x \in Calls : stage[x] # "idle" \/ reply[x] # "none"}
      /\ Asked' = {x \in Calls : stage'[x] # "idle" \/ reply'[x] # "none"}
      /\ Ran = {x \in Calls : Op(x) \in posted}
      /\ Ran' = {x \in Calls : Op(x) \in posted'}
  BY DEF Asked, Ran
<1>5. Asked \subseteq Asked' /\ c \in Asked'
  BY <1>1, <1>3, <1>4
<1>6. ASSUME NEW x \in Calls
      PROVE  Contract!Rests(x) \/ Contract!Runs(x)
  <2>1. CASE Op(x) = d /\ posted' = posted \cup {d}
    <3>1. x = c
      BY <2>1, <1>1, LegType
    <3>2. x \notin Ran /\ x \in Ran'
      BY <2>1, <1>1, <1>4
    <3> QED
      BY <3>1, <3>2, <1>1, <1>5 DEF Contract!Runs
  <2>2. CASE ~(Op(x) = d /\ posted' = posted \cup {d})
    <3>1. x \in Ran' <=> x \in Ran
      BY <2>2, <1>2, <1>4
    <3> QED
      BY <3>1, <1>1 DEF Contract!Rests
  <2> QED
    BY <2>1, <2>2
<1> QED
  BY <1>5, <1>6 DEF Contract!Next

\* A step that moves no leg answers a call that never ran, or nothing.
LEMMA QuietContract ==
  ASSUME IInv, Quiet
  PROVE  Contract!Next
<1>1. /\ Asked = {x \in Calls : stage[x] # "idle" \/ reply[x] # "none"}
      /\ Asked' = {x \in Calls : stage'[x] # "idle" \/ reply'[x] # "none"}
      /\ Ran = {x \in Calls : Op(x) \in posted}
      /\ Ran' = {x \in Calls : Op(x) \in posted'}
  BY DEF Asked, Ran
<1>2. Ran' = Ran /\ Asked \subseteq Asked'
  BY <1>1 DEF Quiet
<1>3. ASSUME NEW x \in Calls
      PROVE  Contract!Rests(x) \/ Contract!Answers(x)
  <2>1. CASE reply'[x] = reply[x]
    BY <2>1, <1>2 DEF Contract!Rests
  <2>2. CASE reply'[x] # reply[x]
    <3>1. /\ reply[x] = "none" /\ reply'[x] \in {"BUDGET", "DEGRADED", "REFUSED"}
          /\ stage[x] # "op"
      BY <2>2 DEF Quiet, Replies
    <3>2. x \notin Ran
      BY <3>1, <1>1 DEF IInv, HistoryInv
    <3>3. x \in Asked'
      BY <3>1, <1>1
    <3> QED
      BY <3>1, <3>2, <3>3, <1>2 DEF Contract!Answers, Contract!Registers
  <2> QED
    BY <2>1, <2>2
<1> QED
  BY <1>2, <1>3 DEF Contract!Next

\* Every step of the router is a step of the contract or a stutter.
LEMMA StepContract == IInv /\ [Next]_vars => Contract!Next
<1> SUFFICES ASSUME IInv, StepKind PROVE Contract!Next
  BY StepKinds
<1>1. CASE \E c \in Calls, d \in Deliveries : Enters(c, d)
  BY <1>1, EntersContract
<1>2. CASE \E d \in Deliveries : \E r, hold : Frees(d, r, hold)
  <2>1. PICK d \in Deliveries : \E r, hold : Frees(d, r, hold)
    BY <1>2
  <2>2. PICK late \in SUBSET Deliveries, next \in SUBSET Deliveries : \E f :
          Resolves(To(d), {d} \cup late, next, f)
    BY <2>1, FreesEffect, ZenonT(60)
  <2>f. PICK f : Resolves(To(d), {d} \cup late, next, f)
    BY <2>2
  <2>3. To(d) \in Compartments /\ {d} \cup late \in SUBSET Deliveries
    BY LegType
  <2> QED
    BY <2>f, <2>3, ResolvesContract
<1>3. CASE \E t \in Compartments : Fails(t)
  <2>1. PICK t \in Compartments : Fails(t)
    BY <1>3
  <2>2. PICK S \in SUBSET Deliveries : \E f : Resolves(t, S, {}, f)
    BY <2>1, FailsEffect
  <2>f. PICK f : Resolves(t, S, {}, f)
    BY <2>2
  <2> QED
    BY <2>f, ResolvesContract
<1>4. CASE Quiet
  BY <1>4, QuietContract
<1> QED
  BY <1>1, <1>2, <1>3, <1>4 DEF StepKind

\* dispatch() keeps the contract of a port call: one final answer, the op
\* performed at most once and never after the answer, "ok" only for an op that
\* was performed and REFUSED only for one that was not.
THEOREM Refines == Spec => ImplementsContract
<1>1. IInv /\ [Next]_vars => [Contract!Next]_Contract!vars
  BY StepContract
<1> QED
  BY <1>1, InitContract, Inductive, PTL DEF Spec, ImplementsContract, Contract!Spec

-----------------------------------------------------------------------------
(* The journal folded into the vault (JournalFold).                        *)

\* The law's journaling is a use of the router: its steps are the router's.
LEMMA FoldIsRouting == [FoldNext]_foldVars => [Next]_vars
<1> SUFFICES ASSUME [FoldNext]_foldVars PROVE [Next]_vars
  OBVIOUS
<1>1. ASSUME NEW c \in Outer, Router(Submit(c)) \/ Decide(c) \/ WriteRow(c) \/ CheckReturns(c)
      PROVE  [Next]_vars
  <2>1. c \in Calls /\ JournalOf[c] \in Calls /\ Gate(c) \in Deliveries /\ Law \in Compartments
    BY FoldAssumption, RouterAssumption, LegType
  <2>2. CASE CheckReturns(c)
    <3>1. WorkerReturn(Law, Gate(c), decided[c])
      BY <2>2 DEF CheckReturns, Router
    <3>2. decided[c] \in Results(Gate(c))
      BY <3>1 DEF WorkerReturn
    <3> QED
      BY <2>1, <3>1, <3>2 DEF Next
  <2>3. CASE ~CheckReturns(c)
    BY <1>1, <2>1, <2>3 DEF Next, Router, Decide, WriteRow
  <2> QED
    BY <2>2, <2>3
<1>2. ASSUME NEW c \in Calls, Router(Continue(c)) PROVE [Next]_vars
  BY <1>2 DEF Router, Next
<1>3. ASSUME NEW d \in Deliveries, OtherReturn(d) \/ FoldElapse(d) \/ Router(TimerFires(d))
      PROVE  [Next]_vars
  BY <1>3, LegType DEF OtherReturn, FoldElapse, Router, Next
<1>4. ASSUME NEW t \in Compartments, Router(WorkerError(t)) PROVE [Next]_vars
  BY <1>4 DEF Router, Next
<1>5. ASSUME UNCHANGED foldVars PROVE [Next]_vars
  BY <1>5 DEF foldVars
<1> QED
  BY <1>1, <1>2, <1>3, <1>4, <1>5 DEF FoldNext

\* Only the law's own return of a call's check allows the call.
LEMMA AllowedByItsCheck ==
  ASSUME IInv, NEW t \in Compartments, NEW d \in Deliveries, NEW r, WorkerReturn(t, d, r),
         NEW c \in Calls, gateAns'[c] = "allow", gateAns[c] # "allow"
  PROVE  d = Gate(c) /\ r = "allow"
<1>1. Found(d) # {} /\ Release(t, d.call, Found(d), [e \in Found(d) |-> r], [held EXCEPT ![t] = @ \ {d}])
  BY DEF WorkerReturn
<1>2. PICK late : Settle([e \in Found(d) \cup late |-> IF e \in Found(d) THEN [x \in Found(d) |-> r][e] ELSE "BUDGET"])
  BY <1>1, Zenon DEF Release
<1>3. Gate(c) \in Found(d) /\ r = "allow"
  BY <1>2 DEF Settle
<1>4. Found(d) = {d}
  BY <1>1, FoundIsHeld DEF WorkerReturn
<1> QED
  BY <1>3, <1>4

\* No other step of the law's or of the router allows a call.
LEMMA NobodyElseAllows ==
  ASSUME IInv, NEW c \in Calls, gateAns'[c] = "allow", gateAns[c] # "allow",
         \/ \E x \in Calls : Submit(x) \/ Continue(x)
         \/ \E d \in Deliveries : Elapse(d) \/ TimerFires(d)
         \/ \E t \in Compartments : WorkerError(t)
  PROVE  FALSE
<1>1. ASSUME NEW x \in Calls, Submit(x) \/ Continue(x) PROVE FALSE
  BY <1>1 DEF Submit, Continue
<1>2. ASSUME NEW d \in Deliveries, Elapse(d) PROVE FALSE
  BY <1>2 DEF Elapse
<1>3. ASSUME NEW d \in Deliveries, TimerFires(d) PROVE FALSE
  <2>1. Release(To(d), d.call, {d}, [e \in {d} |-> "BUDGET"], held)
    BY <1>3 DEF TimerFires
  <2>2. PICK late : Settle([e \in {d} \cup late |-> IF e \in {d} THEN [x \in {d} |-> "BUDGET"][e] ELSE "BUDGET"])
    BY <2>1, Zenon DEF Release
  <2> QED
    BY <2>2 DEF Settle
<1>4. ASSUME NEW t \in Compartments, WorkerError(t) PROVE FALSE
  <2>1. FailInflight(t)
    BY <1>4 DEF WorkerError
  <2>2. PICK S : Settle([e \in S |-> "DEGRADED"])
    BY <2>1, Zenon DEF FailInflight
  <2> QED
    BY <2>2 DEF Settle
<1> QED
  BY <1>1, <1>2, <1>3, <1>4

\* A call the law allowed has its row's append answered.
AuditInv == \A c \in Outer : gateAns[c] = "allow" => reply[JournalOf[c]] # "none"

\* While nothing is slow no thread dies and a pending leg is in its worker's hands.
PromptInv ==
  prompt => \A t \in Compartments : worker[t] = "up" /\ \A d \in pending : To(d) = t => d \in held[t]

\* Once answered, a row's append stays so; the check waits for it.
LEMMA StepAudit == IInv /\ AuditInv /\ [FoldNext]_foldVars => AuditInv'
<1> SUFFICES ASSUME IInv, AuditInv, [FoldNext]_foldVars, NEW c \in Outer, gateAns'[c] = "allow"
             PROVE  reply'[JournalOf[c]] # "none"
  BY DEF AuditInv
<1>1. c \in Calls /\ JournalOf[c] \in Calls /\ c \notin Rows
  BY FoldAssumption DEF Rows
<1>2. reply[JournalOf[c]] # "none" => reply'[JournalOf[c]] # "none"
  <2>1. Contract!Next
    BY FoldIsRouting, StepContract
  <2> QED
    BY <1>1, <2>1 DEF Contract!Next, Contract!Rests, Contract!Runs, Contract!Answers
<1>3. CASE gateAns[c] = "allow"
  BY <1>2, <1>3 DEF AuditInv
<1>4. CASE gateAns[c] # "allow"
  <2>1. ASSUME NEW x \in Outer, CheckReturns(x)
        PROVE  reply[JournalOf[c]] # "none"
    <3>1. WorkerReturn(Law, Gate(x), decided[x]) /\ RowSettled(x) /\ x \in Calls
      BY <2>1, FoldAssumption DEF CheckReturns, Router
    <3>2. Gate(x) = Gate(c)
      BY <1>1, <1>4, <3>1, AllowedByItsCheck, LegType, RouterAssumption
    <3>3. x = c
      BY <1>1, <3>1, <3>2, LegType
    <3> QED
      BY <3>1, <3>3 DEF RowSettled
  <2>2. ASSUME NEW d \in Deliveries, OtherReturn(d)
        PROVE  FALSE
    <3>1. PICK r : WorkerReturn(To(d), d, r)
      BY <2>2 DEF OtherReturn, Router
    <3>2. d = Gate(c)
      BY <1>1, <1>4, <3>1, AllowedByItsCheck, LegType
    <3> QED
      BY <1>1, <2>2, <3>2, LegType DEF OtherReturn
  <2>3. ASSUME \/ \E x \in Calls : Submit(x) \/ Continue(x)
               \/ \E d \in Deliveries : Elapse(d) \/ TimerFires(d)
               \/ \E t \in Compartments : WorkerError(t)
        PROVE  FALSE
    BY <1>1, <1>4, <2>3, NobodyElseAllows
  <2>4. CASE UNCHANGED vars
    BY <1>4, <2>4 DEF vars
  <2>5. \A x \in Outer : x \in Calls /\ JournalOf[x] \in Calls
    BY FoldAssumption, RouterAssumption
  <2> QED
    BY <1>2, <2>1, <2>2, <2>3, <2>4, <2>5
    DEF FoldNext, foldVars, Router, Decide, WriteRow, FoldElapse
<1> QED
  BY <1>3, <1>4

\* What a worker is posted it holds until it returns it.
LEMMA EntersHeld ==
  ASSUME IInv, NEW c \in Calls, NEW d \in Deliveries, Enters(c, d), prompt, PromptInv,
         NEW e \in pending'
  PROVE  e \in held'[To(e)]
<1>1. \/ pending' = pending /\ held' = held
      \/ pending' = pending \cup {d} /\ held' = Post(held, To(d), {d})
  BY EntersEffect
<1>2. /\ \A x \in Deliveries : To(x) \in Compartments /\ worker[To(x)] = "up"
      /\ \A x \in pending : x \in Deliveries /\ x \in held[To(x)]
      /\ DOMAIN held = Compartments
  BY LegType DEF PromptInv, IInv, TypeOK
<1>3. e \in Deliveries
  BY <1>1, <1>2
<1> QED
  BY <1>1, <1>2, <1>3 DEF Post

\* The leg a release admits is in its worker's hands, and so are the others.
LEMMA ReleaseHeld ==
  ASSUME IInv, NEW t \in Compartments, NEW d \in Deliveries, To(d) = t, prompt, PromptInv,
         NEW f, NEW hold, \A x \in pending \ {d} : x \in hold[To(x)],
         DOMAIN hold = Compartments,
         Release(t, d.call, {d}, f, hold), NEW e \in pending'
  PROVE  e \in held'[To(e)]
<1>1. PICK n \in 0..Len(waiting[t]) :
        LET next == IF n < Len(waiting[t]) THEN {waiting[t][n + 1]} ELSE {}
        IN  pending' = (pending \ {d}) \cup next /\ held' = Post(hold, t, next)
  BY Zenon DEF Release
<1> DEFINE next == IF n < Len(waiting[t]) THEN {waiting[t][n + 1]} ELSE {}
<1>2. \A x \in next : To(x) = t
  <2>1. waiting[t] \in Seq(Deliveries)
    BY DEF IInv, TypeOK
  <2>2. n < Len(waiting[t]) => n + 1 \in DOMAIN waiting[t]
    BY <2>1
  <2> QED
    BY <2>2 DEF IInv, QueueInv
<1>3. worker[t] = "up"
  BY DEF PromptInv
<1>4. pending' = (pending \ {d}) \cup next /\ held' = Post(hold, t, next)
  BY <1>1
<1> HIDE DEF next
<1>5. CASE e \in next
  BY <1>2, <1>3, <1>4, <1>5 DEF Post
<1>6. CASE e \in pending \ {d}
  <2>1. To(e) \in Compartments
    BY <1>6, LegType DEF IInv, TypeOK
  <2> QED
    BY <1>4, <1>6, <2>1 DEF Post
<1> QED
  BY <1>4, <1>5, <1>6

\* While nothing is slow no step loses what a worker holds.
LEMMA StepPrompt == IInv /\ PromptInv /\ [FoldNext]_foldVars => PromptInv'
<1> SUFFICES ASSUME IInv, PromptInv, [FoldNext]_foldVars, prompt
             PROVE  \A t \in Compartments : worker'[t] = "up" /\ \A e \in pending' : To(e) = t => e \in held'[t]
  BY DEF PromptInv, FoldNext, foldVars, Router, Decide, WriteRow, CheckReturns, OtherReturn, FoldElapse
<1>1. /\ \A x \in Deliveries : To(x) \in Compartments
      /\ \A x \in pending : x \in Deliveries /\ x \in held[To(x)]
      /\ \A t \in Compartments : worker[t] = "up"
      /\ DOMAIN held = Compartments
  BY LegType DEF PromptInv, IInv, TypeOK
<1>2. ASSUME NEW c \in Calls, Submit(c) \/ Continue(c)
      PROVE  worker' = worker /\ \A e \in pending' : e \in held'[To(e)]
  <2>1. worker' = worker
    BY <1>2 DEF Submit, Continue
  <2>2. CASE UNCHANGED <<pending, held>>
    BY <1>1, <2>1, <2>2
  <2>3. CASE \E d \in Deliveries : Enters(c, d)
    BY <2>1, <2>3, EntersHeld
  <2>4. UNCHANGED <<pending, held>> \/ \E d \in Deliveries : Enters(c, d)
    <3>1. CASE Submit(c)
      BY <3>1, LegType DEF Submit, Route, Enters, Fresh
    <3>2. CASE Continue(c)
      BY <3>2, LegType DEF Continue, Route, Enters, Fresh
    <3> QED
      BY <1>2, <3>1, <3>2
  <2> QED
    BY <2>1, <2>2, <2>3, <2>4
<1>3. ASSUME NEW d \in Deliveries, TimerFires(d)
      PROVE  worker' = worker /\ \A e \in pending' : e \in held'[To(e)]
  <2>1. worker' = worker /\ Release(To(d), d.call, {d}, [e \in {d} |-> "BUDGET"], held)
    BY <1>3 DEF TimerFires
  <2> QED
    BY <1>1, <2>1, ReleaseHeld
<1>4. ASSUME NEW t \in Compartments, NEW d \in Deliveries, NEW r, WorkerReturn(t, d, r)
      PROVE  worker' = worker /\ \A e \in pending' : e \in held'[To(e)]
  <2> DEFINE hold == [held EXCEPT ![t] = @ \ {d}]
  <2>1. worker' = worker /\ d \in held[t] /\ To(d) = t
    BY <1>4 DEF WorkerReturn, IInv, HistoryInv
  <2>2. DOMAIN hold = Compartments /\ \A x \in pending \ {d} : x \in hold[To(x)]
    BY <1>1
  <2>3. CASE Found(d) = {}
    <3>1. pending' = pending /\ held' = hold /\ d \notin pending
      BY <1>4, <2>3 DEF WorkerReturn, Found
    <3> QED
      BY <2>1, <2>2, <3>1
  <2>4. CASE Found(d) = {d}
    <3>1. Release(t, d.call, {d}, [e \in {d} |-> r], hold)
      BY <1>4, <2>4 DEF WorkerReturn
    <3> HIDE DEF hold
    <3> QED
      BY <2>1, <2>2, <3>1, ReleaseHeld
  <2> QED
    BY <2>1, <2>3, <2>4, FoundIsHeld
<1>5. ASSUME UNCHANGED <<worker, pending, held>>
      PROVE  worker' = worker /\ \A e \in pending' : e \in held'[To(e)]
  BY <1>1, <1>5
<1>6. worker' = worker /\ \A e \in pending' : e \in held'[To(e)]
  <2>1. \A x \in Outer : x \in Calls /\ JournalOf[x] \in Calls /\ Gate(x) \in Deliveries
    BY FoldAssumption, RouterAssumption, LegType
  <2>2. ASSUME NEW c \in Outer, Router(Submit(c)) \/ Decide(c) \/ WriteRow(c) \/ CheckReturns(c)
        PROVE  worker' = worker /\ \A e \in pending' : e \in held'[To(e)]
    <3>1. CASE Router(Submit(c)) \/ WriteRow(c)
      BY <1>2, <2>1, <3>1 DEF Router, WriteRow
    <3>2. CASE Decide(c)
      BY <1>5, <3>2 DEF Decide, vars
    <3>3. CASE CheckReturns(c)
      <4>1. WorkerReturn(Law, Gate(c), decided[c]) /\ Law \in Compartments
        BY <3>3, RouterAssumption DEF CheckReturns, Router
      <4> QED
        BY <1>4, <2>1, <4>1
    <3> QED
      BY <2>2, <3>1, <3>2, <3>3
  <2>3. ASSUME NEW d \in Deliveries, OtherReturn(d) \/ FoldElapse(d) \/ Router(TimerFires(d))
        PROVE  worker' = worker /\ \A e \in pending' : e \in held'[To(e)]
    <3>1. CASE OtherReturn(d)
      <4>1. PICK r : WorkerReturn(To(d), d, r)
        BY <3>1 DEF OtherReturn, Router
      <4> QED
        BY <1>1, <1>4, <4>1
    <3>2. CASE FoldElapse(d)
      BY <1>5, <3>2 DEF FoldElapse, Router, Elapse
    <3>3. CASE Router(TimerFires(d))
      BY <1>3, <3>3 DEF Router
    <3> QED
      BY <2>3, <3>1, <3>2, <3>3
  <2>4. ASSUME NEW c \in Calls, Router(Continue(c))
        PROVE  worker' = worker /\ \A e \in pending' : e \in held'[To(e)]
    BY <1>2, <2>4 DEF Router
  <2>5. CASE UNCHANGED foldVars
    BY <1>5, <2>5 DEF foldVars, vars
  <2> QED
    BY <2>2, <2>3, <2>4, <2>5 DEF FoldNext
<1> QED
  BY <1>1, <1>6

\* What the law's journal adds to the router's invariant.
FoldInv == AuditInv /\ PromptInv

\* Both hold in every reachable state, with what holds of every router.
THEOREM FoldInductive == FoldSpec => [](IInv /\ WorkConserving /\ NobodyForgotten /\ FoldInv)
<1>1. FoldInit => Init /\ FoldInv
  <2> SUFFICES ASSUME FoldInit PROVE Init /\ FoldInv
    OBVIOUS
  <2>1. Init /\ \A c \in Outer : gateAns[c] = "none"
    BY FoldAssumption, RouterAssumption DEF FoldInit, Init
  <2>2. PromptInv
    BY <2>1 DEF Init, PromptInv
  <2> QED
    BY <2>1, <2>2 DEF FoldInv, AuditInv
<1>2. FoldSpec => Spec
  BY <1>1, FoldIsRouting, PTL DEF FoldSpec, Spec
<1>3. FoldSpec => [](IInv /\ WorkConserving /\ NobodyForgotten)
  BY <1>2, Inductive, NoLostWakeup, NoneForgotten, PTL
<1>4. IInv /\ FoldInv /\ [FoldNext]_foldVars => FoldInv'
  BY StepAudit, StepPrompt DEF FoldInv
<1> QED
  BY <1>1, <1>3, <1>4, PTL DEF FoldSpec

\* "audit before act" (law.check@1 awaits its journal call): whatever is slow,
\* times out or dies, an allowed mutation reaches its implementation only after
\* the append of its row was answered.
THEOREM AuditBeforeAct == FoldSpec => []RowBeforeOp
<1>1. IInv /\ FoldInv => RowBeforeOp
  BY FoldAssumption, RouterAssumption DEF IInv, HistoryInv, FoldInv, AuditInv, RowBeforeOp
<1> QED
  BY <1>1, FoldInductive, PTL

\* law.check@1 waits for a row whose own check waits in the law's queue: with
\* nothing slow and nothing dying this is the only way the gate stands still.
THEOREM StallExplained == FoldSpec => []StallIsSelfInflicted
<1>1. IInv /\ WorkConserving /\ NobodyForgotten /\ FoldInv => StallIsSelfInflicted
  <2> SUFFICES ASSUME IInv, WorkConserving, NobodyForgotten, PromptInv, prompt, ~Movable,
                      NEW c0 \in Outer, Gate(c0) \in pending
               PROVE  /\ Cardinality(inflight[Law]) = MaxConcurrentCalls[Law]
                      /\ inflight[Law] \subseteq Outer
                      /\ \A c \in inflight[Law] : Gate(JournalOf[c]) \in Queued(Law)
    BY DEF FoldInv, StallIsSelfInflicted
  <2>1. /\ Law \in Compartments /\ \A x \in Deliveries : To(x) \in Compartments
        /\ \A x \in pending : x \in Deliveries /\ x \in held[To(x)]
        /\ \A t \in Compartments : worker[t] = "up"
        /\ \A c \in Outer : c \in Calls /\ JournalOf[c] \in Calls /\ JournalOf[c] \in Rows
        /\ \A c \in Outer : Target[JournalOf[c]] # Law /\ Target[JournalOf[c]] \in Compartments
        /\ Calls = Outer \cup Rows
    BY FoldAssumption, RouterAssumption, LegType DEF PromptInv, IInv, TypeOK, Rows
  \* Every pending leg is a check of the outer call whose row is not answered.
  <2>2. ASSUME NEW d \in pending
        PROVE  /\ d.leg = "gate" /\ d.call \in Outer /\ d = Gate(d.call)
               /\ stage[JournalOf[d.call]] # "idle" /\ reply[JournalOf[d.call]] = "none"
    <3>1. d \in Deliveries /\ d \in held[To(d)] /\ To(d) \in Compartments
      BY <2>1
    <3>2. ~(d.leg = "op" \/ d.call \in Rows \/ decided[d.call] = "none"
              \/ stage[JournalOf[d.call]] = "idle" \/ RowSettled(d.call))
      BY <2>1, <3>1 DEF Movable
    <3> QED
      BY <2>1, <3>1, <3>2, LegType DEF RowSettled
  \* That row's check waits at the law.
  <2>3. ASSUME NEW c \in Outer, Gate(c) \in pending
        PROVE  Gate(JournalOf[c]) \in Queued(Law)
    <3> DEFINE w == JournalOf[c]
    <3>1. stage[w] # "idle" /\ reply[w] = "none" /\ w \in Calls /\ w \in Rows /\ w \notin Outer
      BY <2>1, <2>2, <2>3, LegType, FoldAssumption
    <3>2. gateAns[w] = "none" \/ stage[w] # "gate"
      BY <3>1 DEF Movable
    <3>3. Gate(w) \notin pending /\ Op(w) \notin pending
      BY <2>2, <3>1, LegType
    <3>4. Op(w) \notin Queued(Target[w])
      <4> SUFFICES ASSUME Op(w) \in Queued(Target[w]) PROVE FALSE
        OBVIOUS
      <4>1. Target[w] \in Compartments /\ Target[w] # Law
        BY <2>1
      <4>2. waiting[Target[w]] # <<>>
        BY DEF Queued
      <4>3. inflight[Target[w]] # {}
        BY <4>1, <4>2, FS_EmptySet, RouterAssumption DEF WorkConserving
      <4>4. PICK d \in pending : To(d) = Target[w]
        BY <4>1, <4>3 DEF IInv, LedgerAgrees
      <4> QED
        BY <2>1, <2>2, <4>1, <4>4, LegType
    <3> QED
      BY <3>1, <3>2, <3>3, <3>4 DEF NobodyForgotten
  <2>4. \A c \in inflight[Law] : c \in Outer /\ Gate(c) \in pending
    BY <2>1, <2>2 DEF IInv, LedgerAgrees
  <2>5. waiting[Law] # <<>>
    <3>1. Gate(JournalOf[c0]) \in Queued(Law)
      BY <2>3
    <3> QED
      BY <3>1 DEF Queued
  <2> QED
    BY <2>1, <2>3, <2>4, <2>5 DEF WorkConserving
<1> QED
  BY <1>1, FoldInductive, PTL

=============================================================================
