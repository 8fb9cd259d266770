------------------------ MODULE StateArbitratorProofs -----------------------
(***************************************************************************)
(* Proofs about StateArbitrator for any number of compartments and handlers *)
(* and any depth of the host-call channels.                                 *)
(*                                                                         *)
(* The arbiter answers whoever asked, also a handler that gave up and asked *)
(* again: its old requests are still in the channel.  What keeps an answer  *)
(* from being taken for another one is the order of the channel: only the   *)
(* last request of a handler is awaited, and a handler that was answered    *)
(* has none left.  The inductive invariant says so of every channel, and    *)
(* then relates the holds to the handlers inside, or about to enter.        *)
(***************************************************************************)
EXTENDS StateArbitrator, SequenceTheorems, TLAPS

\* The handler is in the critical section or has the answer that lets it in.
Inside(h) == at[h] = "zone" \/ (at[h] = "acquiring" /\ result[h] = "ok")

\* The requests of a channel come from handlers of its compartment.
ReqInv == \A p \in Compartments : \A i \in DOMAIN chan[p] : Home[chan[p][i].by] = p

\* A result is on its way only to a handler that waits for one.
RestInv == \A h \in Handlers : at[h] \in {"idle", "zone"} => result[h] = "none"

\* A handler that is inside or was answered has no request left in its channel.
QuietInv ==
  \A h \in Handlers : at[h] = "zone" \/ result[h] # "none" =>
    \A i \in DOMAIN chan[Home[h]] : chan[Home[h]][i].by # h

\* The last request of a handler that waits to acquire is that acquisition.
LastInv ==
  \A h \in Handlers : at[h] = "acquiring" =>
    \A i \in DOMAIN chan[Home[h]] :
      /\ chan[Home[h]][i].by = h
      /\ \A j \in DOMAIN chan[Home[h]] : j > i => chan[Home[h]][j].by # h
      => chan[Home[h]][i].op = "acquire" /\ chan[Home[h]][i].mode = mode[h]

\* Whoever is inside has its hold, unless a sibling's release dropped it.
HeldInv ==
  \A h \in Handlers : Inside(h) /\ h \notin robbed =>
    [principal |-> Home[h], mode |-> Lock(mode[h])] \in holders

\* Two that are inside with their holds are readers.
ReadersInv ==
  \A g, h \in Handlers :
    g # h /\ Inside(g) /\ Inside(h) /\ g \notin robbed /\ h \notin robbed =>
      Lock(mode[g]) = "shared" /\ Lock(mode[h]) = "shared"

ChanInv == ReqInv /\ RestInv /\ QuietInv /\ LastInv
IInv == TypeOK /\ ChanInv /\ HeldInv /\ ReadersInv

-----------------------------------------------------------------------------
\* port.call: posting a request lengthens the channel of its compartment.
LEMMA Posted ==
  ASSUME TypeOK, NEW h \in Handlers, NEW op \in {"acquire", "release"}, NEW m \in Asked, Ask(h, op, m)
  PROVE  /\ Home[h] \in Compartments
         /\ chan' \in [Compartments -> Seq(Requests)]
         /\ \A c \in Compartments : \A i \in DOMAIN chan[c] : i \in DOMAIN chan'[c] /\ chan'[c][i] = chan[c][i]
         /\ \A c \in Compartments : \A i \in DOMAIN chan'[c] :
              i \in DOMAIN chan[c] \/ (c = Home[h] /\ i = Len(chan[c]) + 1)
         /\ Len(chan[Home[h]]) \in Nat /\ DOMAIN chan[Home[h]] = 1..Len(chan[Home[h]])
         /\ Len(chan[Home[h]]) + 1 \in DOMAIN chan'[Home[h]]
         /\ chan'[Home[h]][Len(chan[Home[h]]) + 1] = [by |-> h, op |-> op, mode |-> m]
<1> DEFINE q == [by |-> h, op |-> op, mode |-> m]
<1>1. Home[h] \in Compartments
  BY ArbitratorAssumption
<1>2. chan[Home[h]] \in Seq(Requests) /\ q \in Requests
  BY <1>1 DEF TypeOK, Requests
<1>3. chan' = [chan EXCEPT ![Home[h]] = Append(chan[Home[h]], q)]
  BY DEF Ask
<1> HIDE DEF q
<1>4. Append(chan[Home[h]], q) \in Seq(Requests)
  BY <1>2
<1>5. chan' \in [Compartments -> Seq(Requests)] /\ chan'[Home[h]] = Append(chan[Home[h]], q)
      /\ \A c \in Compartments : c # Home[h] => chan'[c] = chan[c]
  BY <1>1, <1>3, <1>4 DEF TypeOK
<1>6. /\ DOMAIN chan'[Home[h]] = 1..(Len(chan[Home[h]]) + 1)
      /\ DOMAIN chan[Home[h]] = 1..Len(chan[Home[h]]) /\ Len(chan[Home[h]]) \in Nat
      /\ \A i \in 1..Len(chan[Home[h]]) : chan'[Home[h]][i] = chan[Home[h]][i]
      /\ chan'[Home[h]][Len(chan[Home[h]]) + 1] = q
  BY <1>2, <1>5
<1>7. /\ \A c \in Compartments : \A i \in DOMAIN chan[c] : i \in DOMAIN chan'[c] /\ chan'[c][i] = chan[c][i]
      /\ \A c \in Compartments : \A i \in DOMAIN chan'[c] :
           i \in DOMAIN chan[c] \/ (c = Home[h] /\ i = Len(chan[c]) + 1)
  <2> SUFFICES ASSUME NEW c \in Compartments
               PROVE  /\ \A i \in DOMAIN chan[c] : i \in DOMAIN chan'[c] /\ chan'[c][i] = chan[c][i]
                      /\ \A i \in DOMAIN chan'[c] : i \in DOMAIN chan[c] \/ (c = Home[h] /\ i = Len(chan[c]) + 1)
    OBVIOUS
  <2>1. CASE c = Home[h]
    BY <1>6, <2>1
  <2>2. CASE c # Home[h]
    BY <1>5, <2>2
  <2> QED
    BY <2>1, <2>2
<1> QED
  BY <1>1, <1>5, <1>6, <1>7 DEF q

\* The host takes the request at the head of the channel of p.
LEMMA Taken ==
  ASSUME TypeOK, NEW p \in Compartments, chan[p] # <<>>, chan' = [chan EXCEPT ![p] = Tail(@)]
  PROVE  /\ chan' \in [Compartments -> Seq(Requests)]
         /\ \A c \in Compartments : c # p => chan'[c] = chan[c]
         /\ Len(chan[p]) \in Nat \ {0} /\ DOMAIN chan[p] = 1..Len(chan[p])
         /\ DOMAIN chan'[p] = 1..(Len(chan[p]) - 1)
         /\ \A i \in DOMAIN chan'[p] : chan'[p][i] = chan[p][i + 1]
         /\ Head(chan[p]) = chan[p][1] /\ chan[p][1] \in Requests
<1>1. chan[p] \in Seq(Requests)
  BY DEF TypeOK
<1>2. Tail(chan[p]) \in Seq(Requests)
  BY <1>1
<1>3. chan' \in [Compartments -> Seq(Requests)] /\ chan'[p] = Tail(chan[p])
      /\ \A c \in Compartments : c # p => chan'[c] = chan[c]
  BY <1>2 DEF TypeOK
<1>4. /\ Len(chan[p]) \in Nat \ {0} /\ DOMAIN chan[p] = 1..Len(chan[p])
      /\ Head(chan[p]) = chan[p][1] /\ chan[p][1] \in Requests
  BY <1>1, EmptySeq
<1>5. Len(Tail(chan[p])) = Len(chan[p]) - 1
      /\ \A i \in 1..(Len(chan[p]) - 1) : Tail(chan[p])[i] = chan[p][i + 1]
  BY <1>1, <1>4
<1>6. DOMAIN chan'[p] = 1..(Len(chan[p]) - 1)
  BY <1>2, <1>3, <1>5
<1> QED
  BY <1>3, <1>4, <1>5, <1>6

\* acquire: the handler waits, is not inside, and its request is the last.
LEMMA StartInv ==
  ASSUME IInv, NEW h \in Handlers, Start(h)
  PROVE  IInv'
<1> USE DEF IInv, ChanInv
<1>1. PICK m \in Modes[h] : Ask(h, "acquire", m) /\ mode' = [mode EXCEPT ![h] = m]
  BY DEF Start
<1>2. m \in Asked
  BY ArbitratorAssumption
<1>3. /\ at[h] = "idle" /\ at' = [at EXCEPT ![h] = "acquiring"]
      /\ robbed' = robbed \ {h} /\ holders' = holders /\ result' = result /\ up' = up /\ revoked' = revoked
  BY DEF Start
<1> DEFINE p == Home[h]
<1>4. /\ p \in Compartments
      /\ chan' \in [Compartments -> Seq(Requests)]
      /\ \A c \in Compartments : \A i \in DOMAIN chan[c] : i \in DOMAIN chan'[c] /\ chan'[c][i] = chan[c][i]
      /\ \A c \in Compartments : \A i \in DOMAIN chan'[c] :
           i \in DOMAIN chan[c] \/ (c = p /\ i = Len(chan[c]) + 1)
      /\ Len(chan[p]) \in Nat /\ DOMAIN chan[p] = 1..Len(chan[p]) /\ Len(chan[p]) + 1 \in DOMAIN chan'[p]
      /\ chan'[p][Len(chan[p]) + 1] = [by |-> h, op |-> "acquire", mode |-> m]
  BY <1>1, <1>2, Posted
<1> HIDE DEF p
<1>5. TypeOK'
  BY <1>1, <1>2, <1>3, <1>4 DEF TypeOK
<1>6. ReqInv'
  BY <1>4 DEF ReqInv, p
<1>7. RestInv'
  BY <1>3 DEF RestInv, TypeOK
<1>8. \A g \in Handlers : g # h => at'[g] = at[g] /\ mode'[g] = mode[g]
  BY <1>1, <1>3 DEF TypeOK
<1>9. at'[h] = "acquiring" /\ mode'[h] = m /\ result'[h] = "none"
  BY <1>1, <1>3 DEF TypeOK, RestInv
<1>10. \A g \in Handlers : Home[g] \in Compartments
  BY ArbitratorAssumption
<1>11. QuietInv'
  <2> SUFFICES ASSUME NEW g \in Handlers, at'[g] = "zone" \/ result'[g] # "none",
                      NEW i \in DOMAIN chan'[Home[g]]
               PROVE  chan'[Home[g]][i].by # g
    BY DEF QuietInv
  <2>1. g # h
    BY <1>9
  <2>2. \A j \in DOMAIN chan[Home[g]] : chan[Home[g]][j].by # g
    BY <1>3, <1>8, <2>1 DEF QuietInv
  <2>3. CASE i \in DOMAIN chan[Home[g]]
    BY <1>4, <1>10, <2>2, <2>3
  <2>4. CASE i \notin DOMAIN chan[Home[g]]
    <3>1. Home[g] = p /\ i = Len(chan[p]) + 1
      BY <1>4, <1>10, <2>4
    <3> QED
      BY <1>4, <2>1, <3>1
  <2> QED
    BY <2>3, <2>4
<1>12. LastInv'
  <2> SUFFICES ASSUME NEW g \in Handlers, at'[g] = "acquiring", NEW i \in DOMAIN chan'[Home[g]],
                      chan'[Home[g]][i].by = g,
                      \A j \in DOMAIN chan'[Home[g]] : j > i => chan'[Home[g]][j].by # g
               PROVE  chan'[Home[g]][i].op = "acquire" /\ chan'[Home[g]][i].mode = mode'[g]
    BY DEF LastInv
  <2>1. CASE g = h
    <3>1. i = Len(chan[p]) + 1
      BY <1>4, <2>1 DEF p
    <3> QED
      BY <1>4, <1>9, <2>1, <3>1 DEF p
  <2>2. CASE g # h
    <3>1. /\ i \in DOMAIN chan[Home[g]] /\ chan'[Home[g]][i] = chan[Home[g]][i]
          /\ \A j \in DOMAIN chan[Home[g]] : j \in DOMAIN chan'[Home[g]] /\ chan'[Home[g]][j] = chan[Home[g]][j]
      BY <1>4, <1>10, <2>2 DEF p
    <3> QED
      BY <1>8, <2>2, <3>1 DEF LastInv
  <2> QED
    BY <2>1, <2>2
<1>13. \A g \in Handlers : Inside(g)' => g # h /\ Inside(g) /\ (g \in robbed <=> g \in robbed') /\ mode'[g] = mode[g]
  BY <1>3, <1>8, <1>9 DEF Inside
<1>14. HeldInv'
  BY <1>3, <1>13 DEF HeldInv
<1>15. ReadersInv'
  BY <1>13 DEF ReadersInv
<1> QED
  BY <1>5, <1>6, <1>7, <1>11, <1>12, <1>14, <1>15

\* release: the handler has left its critical section.
LEMMA LeaveInv ==
  ASSUME IInv, NEW h \in Handlers, Leave(h)
  PROVE  IInv'
<1> USE DEF IInv, ChanInv
<1>1. /\ at[h] = "zone" /\ at' = [at EXCEPT ![h] = "releasing"] /\ mode' = mode
      /\ robbed' = robbed /\ holders' = holders /\ result' = result /\ up' = up /\ revoked' = revoked
      /\ Ask(h, "release", "none")
  BY DEF Leave
<1> DEFINE p == Home[h]
<1>2. /\ p \in Compartments
      /\ chan' \in [Compartments -> Seq(Requests)]
      /\ \A c \in Compartments : \A i \in DOMAIN chan[c] : i \in DOMAIN chan'[c] /\ chan'[c][i] = chan[c][i]
      /\ \A c \in Compartments : \A i \in DOMAIN chan'[c] :
           i \in DOMAIN chan[c] \/ (c = p /\ i = Len(chan[c]) + 1)
      /\ Len(chan[p]) \in Nat /\ DOMAIN chan[p] = 1..Len(chan[p]) /\ Len(chan[p]) + 1 \in DOMAIN chan'[p]
      /\ chan'[p][Len(chan[p]) + 1] = [by |-> h, op |-> "release", mode |-> "none"]
  BY <1>1, Posted DEF Asked
<1> HIDE DEF p
<1>3. TypeOK'
  BY <1>1, <1>2 DEF TypeOK
<1>4. ReqInv'
  BY <1>2 DEF ReqInv, p
<1>5. RestInv'
  BY <1>1 DEF RestInv, TypeOK
<1>6. \A g \in Handlers : g # h => at'[g] = at[g]
  BY <1>1 DEF TypeOK
<1>7. at'[h] = "releasing" /\ result'[h] = "none"
  BY <1>1 DEF TypeOK, RestInv
<1>8. \A g \in Handlers : Home[g] \in Compartments
  BY ArbitratorAssumption
<1>9. QuietInv'
  <2> SUFFICES ASSUME NEW g \in Handlers, at'[g] = "zone" \/ result'[g] # "none",
                      NEW i \in DOMAIN chan'[Home[g]]
               PROVE  chan'[Home[g]][i].by # g
    BY DEF QuietInv
  <2>1. g # h
    BY <1>7
  <2>2. \A j \in DOMAIN chan[Home[g]] : chan[Home[g]][j].by # g
    BY <1>1, <1>6, <2>1 DEF QuietInv
  <2>3. CASE i \in DOMAIN chan[Home[g]]
    BY <1>2, <1>8, <2>2, <2>3
  <2>4. CASE i \notin DOMAIN chan[Home[g]]
    <3>1. Home[g] = p /\ i = Len(chan[p]) + 1
      BY <1>2, <1>8, <2>4
    <3> QED
      BY <1>2, <2>1, <3>1
  <2> QED
    BY <2>3, <2>4
<1>10. LastInv'
  <2> SUFFICES ASSUME NEW g \in Handlers, at'[g] = "acquiring", NEW i \in DOMAIN chan'[Home[g]],
                      chan'[Home[g]][i].by = g,
                      \A j \in DOMAIN chan'[Home[g]] : j > i => chan'[Home[g]][j].by # g
               PROVE  chan'[Home[g]][i].op = "acquire" /\ chan'[Home[g]][i].mode = mode'[g]
    BY DEF LastInv
  <2>1. g # h
    BY <1>7
  <2>2. /\ i \in DOMAIN chan[Home[g]] /\ chan'[Home[g]][i] = chan[Home[g]][i]
        /\ \A j \in DOMAIN chan[Home[g]] : j \in DOMAIN chan'[Home[g]] /\ chan'[Home[g]][j] = chan[Home[g]][j]
    BY <1>2, <1>8, <2>1 DEF p
  <2> QED
    BY <1>1, <1>6, <2>1, <2>2 DEF LastInv
<1>11. \A g \in Handlers : Inside(g)' => Inside(g)
  BY <1>1, <1>6, <1>7 DEF Inside
<1>12. HeldInv'
  BY <1>1, <1>11 DEF HeldInv
<1>13. ReadersInv'
  BY <1>1, <1>11 DEF ReadersInv
<1> QED
  BY <1>3, <1>4, <1>5, <1>9, <1>10, <1>12, <1>13

\* Serve, whatever the arbiter decided: r answers the request of h at the head.
Served(p, r, h) ==
  /\ chan[p] # <<>> /\ chan' = [chan EXCEPT ![p] = Tail(@)]
  /\ h = Head(chan[p]).by /\ Answer(p, r)
  /\ at' = at /\ mode' = mode

\* What an answer does, whatever it says: the result reaches the handler only
\* when the request at the head is the last one of that handler, and then the
\* handler waits for that very request.
LEMMA ServedChannel ==
  ASSUME IInv, NEW p \in Compartments, NEW r \in {"ok", "REFUSED", "REVOKED"}, NEW h \in Handlers,
         Served(p, r, h)
  PROVE  /\ ChanInv'
         /\ chan' \in [Compartments -> Seq(Requests)]
         /\ result' \in [Handlers -> {"none", "ok", "REFUSED", "REVOKED"}]
         /\ Head(chan[p]) \in Requests /\ Home[h] = p /\ at[h] # "zone"
         /\ \A g \in Handlers : g # h => result'[g] = result[g]
         /\ at[h] = "acquiring" /\ result'[h] = "ok" =>
                  r = "ok" /\ Head(chan[p]).op = "acquire" /\ Head(chan[p]).mode = mode[h]
<1> USE DEF IInv, ChanInv
<1>1. /\ chan' \in [Compartments -> Seq(Requests)]
      /\ \A c \in Compartments : c # p => chan'[c] = chan[c]
      /\ Len(chan[p]) \in Nat \ {0} /\ DOMAIN chan[p] = 1..Len(chan[p])
      /\ DOMAIN chan'[p] = 1..(Len(chan[p]) - 1)
      /\ \A i \in DOMAIN chan'[p] : chan'[p][i] = chan[p][i + 1]
      /\ Head(chan[p]) = chan[p][1] /\ chan[p][1] \in Requests
  BY Taken DEF Served
<1> DEFINE q == Head(chan[p])
           awaited == /\ at[h] = IF q.op = "acquire" THEN "acquiring" ELSE "releasing"
                      /\ \A i \in 2..Len(chan[p]) : chan[p][i].by # h
<1>2. result' = IF up[p] /\ awaited THEN [result EXCEPT ![h] = r] ELSE result
  BY DEF Answer, Served
<1>3. q = chan[p][1] /\ q \in Requests /\ q.by = h /\ q.op \in {"acquire", "release"} /\ 1 \in DOMAIN chan[p]
  BY <1>1 DEF Requests, Served
<1>4. Home[h] = p
  BY <1>3 DEF ReqInv
<1> HIDE DEF q
<1>5. at[h] # "zone" /\ result[h] = "none"
  BY <1>3, <1>4 DEF QuietInv
<1>6. /\ result' \in [Handlers -> {"none", "ok", "REFUSED", "REVOKED"}]
      /\ \A g \in Handlers : g # h => result'[g] = result[g]
      /\ result'[h] # "none" => awaited /\ result'[h] = r
  BY <1>2, <1>3, <1>5 DEF TypeOK
<1>7. \A g \in Handlers : Home[g] \in Compartments
  BY ArbitratorAssumption
<1>8. \A c \in Compartments : \A i \in DOMAIN chan'[c] :
        \/ c # p /\ i \in DOMAIN chan[c] /\ chan'[c][i] = chan[c][i]
        \/ c = p /\ i + 1 \in 2..Len(chan[c]) /\ i + 1 \in DOMAIN chan[c] /\ i \in Nat /\ chan'[c][i] = chan[c][i + 1]
  <2> SUFFICES ASSUME NEW c \in Compartments, NEW i \in DOMAIN chan'[c]
               PROVE  \/ c # p /\ i \in DOMAIN chan[c] /\ chan'[c][i] = chan[c][i]
                      \/ c = p /\ i + 1 \in 2..Len(chan[c]) /\ i + 1 \in DOMAIN chan[c] /\ i \in Nat
                         /\ chan'[c][i] = chan[c][i + 1]
    OBVIOUS
  <2>1. CASE c = p
    BY <1>1, <2>1
  <2>2. CASE c # p
    BY <1>1, <2>2
  <2> QED
    BY <2>1, <2>2
<1>9. ReqInv'
  BY <1>8 DEF ReqInv
<1>10. RestInv'
  BY <1>3, <1>6 DEF RestInv, Served
<1>11. QuietInv'
  <2> SUFFICES ASSUME NEW g \in Handlers, at'[g] = "zone" \/ result'[g] # "none",
                      NEW i \in DOMAIN chan'[Home[g]]
               PROVE  chan'[Home[g]][i].by # g
    BY DEF QuietInv
  <2>1. CASE g = h
    <3>1. awaited
      BY <1>5, <1>6, <2>1 DEF Served
    <3>2. i + 1 \in 2..Len(chan[p]) /\ chan'[p][i] = chan[p][i + 1]
      BY <1>4, <1>8, <2>1
    <3> QED
      BY <1>4, <2>1, <3>1, <3>2
  <2>2. CASE g # h
    <3>1. \A j \in DOMAIN chan[Home[g]] : chan[Home[g]][j].by # g
      BY <1>6, <2>2 DEF QuietInv, Served
    <3> QED
      BY <1>7, <1>8, <3>1
  <2> QED
    BY <2>1, <2>2
<1>12. LastInv'
  <2> SUFFICES ASSUME NEW g \in Handlers, at[g] = "acquiring", NEW i \in DOMAIN chan'[Home[g]],
                      chan'[Home[g]][i].by = g,
                      \A j \in DOMAIN chan'[Home[g]] : j > i => chan'[Home[g]][j].by # g
               PROVE  chan'[Home[g]][i].op = "acquire" /\ chan'[Home[g]][i].mode = mode[g]
    BY DEF LastInv, Served
  <2>1. CASE Home[g] # p
    <3>1. chan'[Home[g]] = chan[Home[g]]
      BY <1>1, <1>7, <2>1
    <3>2. i \in DOMAIN chan[Home[g]] /\ chan[Home[g]][i].by = g
      BY <3>1
    <3>3. \A j \in DOMAIN chan[Home[g]] : j > i => chan[Home[g]][j].by # g
      BY <3>1
    <3>4. chan[Home[g]][i].op = "acquire" /\ chan[Home[g]][i].mode = mode[g]
      BY <3>2, <3>3 DEF LastInv
    <3> QED
      BY <3>1, <3>4
  <2>2. CASE Home[g] = p
    <3>1. i + 1 \in DOMAIN chan[p] /\ chan'[p][i] = chan[p][i + 1] /\ i \in Nat
      BY <1>7, <1>8, <2>2
    <3>2. ASSUME NEW j \in DOMAIN chan[p], j > i + 1
          PROVE  chan[p][j].by # g
      <4>1. j \in 1..Len(chan[p]) /\ j - 1 \in DOMAIN chan'[p] /\ j - 1 > i /\ (j - 1) + 1 = j
        BY <1>1, <3>1, <3>2
      <4>2. chan'[p][j - 1] = chan[p][j]
        BY <1>1, <4>1
      <4> QED
        BY <2>2, <4>1, <4>2
    <3> QED
      BY <2>2, <3>1, <3>2 DEF LastInv
  <2> QED
    BY <2>1, <2>2
<1>13. ASSUME at[h] = "acquiring", result'[h] = "ok"
       PROVE  r = "ok" /\ q.op = "acquire" /\ q.mode = mode[h]
  <2>1. awaited /\ r = "ok" /\ at[h] = "acquiring"
    BY <1>3, <1>5, <1>6, <1>13 DEF Inside
  <2>2. q.op = "acquire"
    BY <1>3, <2>1
  <2>3. \A j \in DOMAIN chan[p] : j > 1 => chan[p][j].by # h
    BY <1>1, <2>1
  <2> QED
    BY <1>3, <1>4, <2>1, <2>2, <2>3 DEF LastInv
<1> QED
  BY <1>1, <1>3, <1>4, <1>5, <1>6, <1>9, <1>10, <1>11, <1>12, <1>13 DEF q

\* The host handles the request at the head of a channel.
LEMMA ServeInv ==
  ASSUME IInv, NEW p \in Compartments, Serve(p)
  PROVE  IInv'
<1> DEFINE q == Head(chan[p])
<1>1. /\ chan[p] # <<>> /\ chan' = [chan EXCEPT ![p] = Tail(@)]
      /\ at' = at /\ mode' = mode /\ up' = up /\ revoked' = revoked
  BY DEF Serve
<1>2. \A g \in Handlers : Home[g] \in Compartments /\ Lock(mode[g]) \in {"shared", "exclusive"}
  BY ArbitratorAssumption DEF Lock
<1>0. PICK h \in Handlers : h = q.by
  BY <1>1, Taken DEF IInv, Requests
<1>9. ASSUME NEW r \in {"ok", "REFUSED", "REVOKED"}, Answer(p, r)
      PROVE  /\ ChanInv'
             /\ chan' \in [Compartments -> Seq(Requests)]
             /\ result' \in [Handlers -> {"none", "ok", "REFUSED", "REVOKED"}]
             /\ Head(chan[p]) \in Requests /\ Home[h] = p /\ at[h] # "zone"
             /\ \A g \in Handlers : g # h => result'[g] = result[g]
             /\ at[h] = "acquiring" /\ result'[h] = "ok" =>
                  r = "ok" /\ Head(chan[p]).op = "acquire" /\ Head(chan[p]).mode = mode[h]
  <2>1. Served(p, r, h)
    BY <1>0, <1>1, <1>9 DEF Served
  <2> QED
    BY <1>9, <2>1, ServedChannel
<1>3. CASE /\ \E r \in {"REFUSED", "REVOKED"} : Answer(p, r)
           /\ UNCHANGED <<holders, robbed>>
  <2>1. PICK r \in {"REFUSED", "REVOKED"} : Answer(p, r)
    BY <1>3
  <2>2. /\ ChanInv' /\ chan' \in [Compartments -> Seq(Requests)]
        /\ result' \in [Handlers -> {"none", "ok", "REFUSED", "REVOKED"}]
        /\ \A g \in Handlers : g # h => result'[g] = result[g]
        /\ at[h] # "zone" /\ ~(at[h] = "acquiring" /\ result'[h] = "ok")
    BY <1>9, <2>1
  <2>3. TypeOK'
    BY <1>1, <1>3, <2>2 DEF IInv, TypeOK
  <2>4. \A g \in Handlers : Inside(g)' => Inside(g)
    BY <1>1, <2>2 DEF Inside
  <2>5. HeldInv' /\ ReadersInv'
    BY <1>1, <1>3, <2>4 DEF IInv, HeldInv, ReadersInv
  <2> QED
    BY <2>2, <2>3, <2>5 DEF IInv
<1>4. CASE /\ Answer(p, "ok") /\ q.op = "acquire" /\ ~Conflict(Lock(q.mode))
           /\ holders' = holders \cup {[principal |-> p, mode |-> Lock(q.mode)]}
           /\ UNCHANGED robbed
  <2>1. /\ ChanInv' /\ chan' \in [Compartments -> Seq(Requests)]
        /\ result' \in [Handlers -> {"none", "ok", "REFUSED", "REVOKED"}]
        /\ q \in Requests /\ Home[h] = p
        /\ \A g \in Handlers : g # h => result'[g] = result[g]
        /\ at[h] # "zone" /\ (at[h] = "acquiring" /\ result'[h] = "ok" => q.mode = mode[h])
    BY <1>9, <1>4
  <2>2. TypeOK'
    BY <1>1, <1>4, <2>1 DEF IInv, TypeOK, Holds, Lock
  <2>3. \A g \in Handlers : g # h /\ Inside(g)' => Inside(g)
    BY <1>1, <2>1 DEF Inside
  <2> HIDE DEF q
  <2>5. HeldInv'
    BY <1>1, <1>4, <2>1, <2>3 DEF IInv, HeldInv, Inside
  <2>6. ReadersInv'
    <3>1. ASSUME NEW g \in Handlers, g # h, Inside(g)', Inside(h)', g \notin robbed
          PROVE  Lock(mode[g]) = "shared" /\ Lock(mode[h]) = "shared"
      <4>1. [principal |-> Home[g], mode |-> Lock(mode[g])] \in holders
        BY <2>3, <3>1 DEF IInv, HeldInv
      <4>2. ~Conflict(Lock(mode[h]))
        BY <1>1, <1>4, <2>1, <3>1 DEF Inside
      <4> QED
        BY <1>2, <4>1, <4>2 DEF Conflict
    <3> QED
      BY <1>1, <1>4, <2>3, <3>1 DEF IInv, ReadersInv
  <2> QED
    BY <2>1, <2>2, <2>5, <2>6 DEF IInv
<1>5. CASE /\ Answer(p, "ok") /\ q.op = "release"
           /\ holders' = Without(p) /\ robbed' = robbed \cup Siblings(p, q.by)
  <2>1. /\ ChanInv' /\ chan' \in [Compartments -> Seq(Requests)]
        /\ result' \in [Handlers -> {"none", "ok", "REFUSED", "REVOKED"}]
        /\ \A g \in Handlers : g # h => result'[g] = result[g]
        /\ at[h] # "zone" /\ ~(at[h] = "acquiring" /\ result'[h] = "ok")
    BY <1>9, <1>5
  <2>2. TypeOK'
    BY <1>1, <1>5, <2>1 DEF IInv, TypeOK, Without, Siblings
  <2> HIDE DEF q
  <2>3. \A g \in Handlers : Inside(g)' => Inside(g) /\ g # h
    BY <1>1, <2>1 DEF Inside
  <2>4. \A g \in Handlers : Inside(g)' /\ g \notin robbed' => Inside(g) /\ g \notin robbed /\ Home[g] # p
    BY <1>0, <1>5, <2>3 DEF Siblings, Inside
  <2>5. HeldInv'
    BY <1>1, <1>5, <2>4 DEF IInv, HeldInv, Without
  <2>6. ReadersInv'
    BY <1>1, <2>4 DEF IInv, ReadersInv
  <2> QED
    BY <2>1, <2>2, <2>5, <2>6 DEF IInv
<1> QED
  BY <1>3, <1>4, <1>5 DEF Serve

\* The result reaches the handler: it enters only with the answer ok.
LEMMA ReceiveInv ==
  ASSUME IInv, NEW h \in Handlers, Receive(h)
  PROVE  IInv'
<1> USE DEF IInv, ChanInv
<1>1. /\ result[h] # "none" /\ result' = [result EXCEPT ![h] = "none"]
      /\ at' = [at EXCEPT ![h] = IF @ = "acquiring" /\ result[h] = "ok" THEN "zone" ELSE "idle"]
      /\ UNCHANGED <<holders, chan, mode, up, revoked, robbed>>
  BY DEF Receive
<1>2. /\ \A g \in Handlers : g # h => at'[g] = at[g] /\ result'[g] = result[g]
      /\ result'[h] = "none" /\ at'[h] \in {"zone", "idle"}
      /\ at'[h] = "zone" => at[h] = "acquiring" /\ result[h] = "ok"
  BY <1>1 DEF TypeOK
<1>3. TypeOK'
  BY <1>1 DEF TypeOK
<1>4. \A g \in Handlers : Inside(g)' => Inside(g)
  BY <1>2 DEF Inside
<1>5. ReqInv' /\ RestInv'
  BY <1>1, <1>2 DEF ReqInv, RestInv
<1>6. QuietInv'
  BY <1>1, <1>2 DEF QuietInv
<1>7. LastInv'
  BY <1>1, <1>2 DEF LastInv
<1>8. HeldInv' /\ ReadersInv'
  BY <1>1, <1>4 DEF HeldInv, ReadersInv
<1> QED
  BY <1>3, <1>5, <1>6, <1>7, <1>8

\* A step after which every handler stands where it stood, or is idle and waits
\* for nothing, keeps the invariant: the deadline of the shim, a crash.
LEMMA StopInv ==
  ASSUME IInv, TypeOK', UNCHANGED <<holders, chan, mode, robbed>>,
         \A g \in Handlers : \/ at'[g] = at[g] /\ result'[g] = result[g]
                             \/ at'[g] = "idle" /\ result'[g] = "none"
  PROVE  IInv'
<1> USE DEF IInv, ChanInv
<1>1. \A g \in Handlers : Inside(g)' => Inside(g)
  BY DEF Inside
<1>2. ReqInv' /\ RestInv'
  BY DEF ReqInv, RestInv
<1>3. QuietInv'
  BY DEF QuietInv
<1>4. LastInv'
  BY DEF LastInv
<1>5. HeldInv' /\ ReadersInv'
  BY <1>1 DEF HeldInv, ReadersInv
<1> QED
  BY <1>2, <1>3, <1>4, <1>5

\* Every step keeps the inductive invariant.
LEMMA StepInv == IInv /\ [Next]_vars => IInv'
<1> SUFFICES ASSUME IInv, [Next]_vars PROVE IInv'
  OBVIOUS
<1>1. ASSUME NEW h \in Handlers, Start(h) PROVE IInv'
  BY <1>1, StartInv
<1>2. ASSUME NEW h \in Handlers, Leave(h) PROVE IInv'
  BY <1>2, LeaveInv
<1>3. ASSUME NEW h \in Handlers, Receive(h) PROVE IInv'
  BY <1>3, ReceiveInv
<1>4. ASSUME NEW h \in Handlers, GiveUp(h) PROVE IInv'
  <2>1. TypeOK'
    BY <1>4 DEF GiveUp, IInv, TypeOK
  <2> QED
    BY <1>4, <2>1, StopInv DEF GiveUp, IInv, TypeOK
<1>5. ASSUME NEW p \in Compartments, Serve(p) PROVE IInv'
  BY <1>5, ServeInv
<1>6. ASSUME NEW p \in Compartments, Crash(p) PROVE IInv'
  <2>1. TypeOK'
    BY <1>6 DEF Crash, IInv, TypeOK
  <2> QED
    BY <1>6, <2>1, StopInv DEF Crash, IInv, TypeOK
<1>7. ASSUME NEW p \in Compartments, Revoke(p) PROVE IInv'
  <2>1. TypeOK'
    BY <1>7 DEF Revoke, IInv, TypeOK
  <2> QED
    BY <1>7, <2>1, StopInv DEF Revoke
<1>8. CASE UNCHANGED vars
  <2>1. TypeOK'
    BY <1>8 DEF vars, IInv, TypeOK
  <2> QED
    BY <1>8, <2>1, StopInv DEF vars
<1> QED
  BY <1>1, <1>2, <1>3, <1>4, <1>5, <1>6, <1>7, <1>8 DEF Next

\* The arbiter starts without holds and without requests.
LEMMA InitInv == Init => IInv
<1> SUFFICES ASSUME Init PROVE IInv
  OBVIOUS
<1>1. TypeOK
  BY DEF Init, TypeOK, Asked
<1>2. ChanInv
  BY ArbitratorAssumption DEF Init, ChanInv, ReqInv, RestInv, QuietInv, LastInv
<1>3. HeldInv /\ ReadersInv
  BY DEF Init, HeldInv, ReadersInv, Inside
<1> QED
  BY <1>1, <1>2, <1>3 DEF IInv

-----------------------------------------------------------------------------
\* The channels, the answers and the holds stay in the relation the arbiter
\* and the shim rely on (acquire/release in state.ts, port.call in shim.ts).
THEOREM Inductive == Spec => []IInv
<1>1. Init => IInv
  BY InitInv
<1>2. IInv /\ [Next]_vars => IInv'
  BY StepInv
<1> QED
  BY <1>1, <1>2, PTL DEF Spec

\* Type correctness of the arbiter and of its clients.
THEOREM TypeCorrect == Spec => []TypeOK
<1>1. IInv => TypeOK
  BY DEF IInv
<1> QED
  BY <1>1, Inductive, PTL

\* acquire() in state.ts, called through ports that time out, crash or are
\* revoked: two handlers share the critical section only as readers, or when a
\* release of another handler of its compartment dropped the hold of one.
THEOREM Exclusion == Spec => []ZoneExclusion
<1>1. IInv => ZoneExclusion
  BY DEF IInv, ReadersInv, ZoneExclusion, Inside
<1> QED
  BY <1>1, Inductive, PTL

\* release() in state.ts: nothing but a release of its compartment ends the hold
\* of a handler in the critical section.
THEOREM HoldsLast == Spec => []ZoneIsHeld
<1>1. IInv => ZoneIsHeld
  BY DEF IInv, HeldInv, ZoneIsHeld, Inside
<1> QED
  BY <1>1, Inductive, PTL
=============================================================================
