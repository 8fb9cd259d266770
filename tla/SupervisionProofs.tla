------------------------- MODULE SupervisionProofs -------------------------
(***************************************************************************)
(* Proofs about what watches over work in progress: the process broker,    *)
(* the task pool and the health monitor of plugins/vivim-run, and the      *)
(* watchdog of tooling/watchdog, for any calls, tasks, compartments and    *)
(* limits.                                                                 *)
(***************************************************************************)
EXTENDS ProcessBroker, TaskPool, HealthMonitor, Watchdog, Integers,
        FiniteSetTheorems, SequenceTheorems, WellFoundedInduction, TLAPS

\* The first n members of a sequence are at most n.
LEMMA TakenBound ==
  ASSUME NEW s, NEW n \in Nat
  PROVE  IsFiniteSet({s[i] : i \in 1..n}) /\ Cardinality({s[i] : i \in 1..n}) <= n
<1>1. IsFiniteSet(1..n) /\ Cardinality(1..n) = n
  BY FS_Interval
<1> DEFINE f == [i \in 1..n |-> s[i]]
<1>2. f \in Surjection(1..n, {s[i] : i \in 1..n})
  BY DEF Surjection
<1>3. QED BY <1>1, <1>2, FS_Surjection

\* The crash counter of a thread that runs is 0, and of one that fails at most 1.
ThreadsInv ==
  /\ HandlesTypeOK
  /\ \A c \in Compartments :
       /\ thread[c] \in {"running", "wedged"} => crashes[c] = 0
       /\ thread[c] = "failing" => crashes[c] <= 1

\* The events of a thread keep that.
LEMMA ThreadsStep ==
  ASSUME ThreadsInv, NEW c \in Compartments, WorkerError(c) \/ WorkerExit(c) \/ Wedge(c)
  PROVE  ThreadsInv'
<1> USE DEF ThreadsInv, HandlesTypeOK
<1>1. CASE WorkerError(c)
  BY <1>1 DEF WorkerError
<1>2. CASE WorkerExit(c)
  BY <1>2 DEF WorkerExit
<1>3. CASE Wedge(c)
  BY <1>3 DEF Wedge
<1>4. QED BY <1>1, <1>2, <1>3

-----------------------------------------------------------------------------
(***************************************************************************)
(* The process broker: any number of calls, any pool size and any limit of *)
(* malformed frames.                                                       *)
(*                                                                         *)
(* What makes the busy flags trustworthy is that a lane is entered by one  *)
(* call at a time and is left, on whatever path the race was settled, by   *)
(* the continuation of that same call: the inductive invariant relates the *)
(* table of lanes to the calls in progress, and the flags of a lane to the *)
(* outcomes of the calls that used it.                                     *)
(***************************************************************************)

\* A call that has not started has no lane, and no lane is named after it.
NewInv ==
  \A c \in Calls : phase[c] = "new" =>
    c \notin lanes /\ ~lane[c].open /\ on[c] = "none" /\ \A d \in Calls : on[d] # c

\* A call in progress is on a lane; a lane works for one call at a time.
OnInv ==
  /\ \A c \in InProgress : on[c] \in Calls
  /\ \A c, d \in InProgress : on[c] = on[d] => c = d

\* The busy flag of a lane in the table is true while a call is on it, the flag
\* ready is awaited by the start timer, and the outcomes of its calls were good
\* as long as it sent no bad frame.
LaneInv ==
  \A l \in lanes :
    /\ lane[l].busy <=> \E c \in InProgress : on[c] = l
    /\ lane[l].ready \/ lane[l].starting \/ ~lane[l].open
    /\ lane[l].malformed = 0 =>
         \A d \in Calls : on[d] = l /\ phase[d] = "done" => result[d] = "ok"

\* The table is within the pool, and a child outside of it is being shut down.
RoomInv ==
  /\ Cardinality(lanes) <= PoolSize
  /\ \A l \in Calls : lane[l].open => l \in lanes \/ lane[l].stopping
  /\ \A l \in Calls : lane[l].stopping => shutDown
  /\ shutDown => lanes = {}

\* A lane is retired at the limit.
LimitInv == \A l \in Calls : lane[l].malformed <= MalformedLimit

\* The inductive invariant of the process broker.
IInv == TypeOK /\ NewInv /\ OnInv /\ LaneInv /\ RoomInv /\ LimitInv

-----------------------------------------------------------------------------
\* The values a race may settle to, and the record of a lane.
Settlements == {"none", "ok", "error", "REFUSED", "DEGRADED", "BUDGET"}
\* The record of a lane.
LaneRecord == [busy : BOOLEAN, ready : BOOLEAN, malformed : 0..(MalformedLimit + 1), open : BOOLEAN,
               starting : BOOLEAN, stopping : BOOLEAN]

\* The table is finite, being a subset of the calls.
LEMMA SmallerTable ==
  ASSUME NEW S, NEW T, IsFiniteSet(T), S \subseteq T
  PROVE  IsFiniteSet(S) /\ Cardinality(S) \in Nat /\ Cardinality(T) \in Nat /\ Cardinality(S) <= Cardinality(T)
  BY FS_Subset, FS_CardinalityType

\* resolve(): only a race that is open is settled, and once.
LEMMA SettleEffect ==
  ASSUME TypeOK, NEW cs, NEW r \in Settlements, Settle(cs, r)
  PROVE  /\ phase' \in [Calls -> {"new", "racing", "settled", "done"}]
         /\ result' \in [Calls -> Settlements]
         /\ \A c \in Calls : \/ phase'[c] = phase[c] /\ result'[c] = result[c]
                             \/ phase[c] = "racing" /\ phase'[c] = "settled"
  BY DEF TypeOK, Settle, Settlements

\* What a frame, an exit, a timer or a deadline may do: settle races, take lanes
\* out of the table, close children, and change the other flags of a lane so
\* that what is said of it stays true.
Event ==
  /\ on' = on /\ shutDown' = shutDown
  /\ phase' \in [Calls -> {"new", "racing", "settled", "done"}]
  /\ result' \in [Calls -> Settlements]
  /\ \A c \in Calls : \/ phase'[c] = phase[c] /\ result'[c] = result[c]
                      \/ phase[c] = "racing" /\ phase'[c] = "settled"
  /\ lane' \in [Calls -> LaneRecord]
  /\ lanes' \subseteq lanes
  /\ \A l \in Calls :
       /\ lane'[l].open => lane[l].open /\ (l \in lanes' \/ lane'[l].stopping)
       /\ lane'[l].stopping => lane[l].stopping
       /\ lane'[l].malformed <= MalformedLimit
  /\ \A l \in lanes' :
       /\ lane'[l].busy = lane[l].busy
       /\ lane'[l].malformed = 0 => lane[l].malformed = 0
       /\ lane'[l].ready \/ lane'[l].starting \/ ~lane'[l].open

\* Such an event keeps the inductive invariant.
LEMMA EventInv == IInv /\ Event => IInv'
<1> SUFFICES ASSUME IInv, Event PROVE IInv'
  OBVIOUS
<1>1. \A c \in Calls : /\ phase'[c] \in {"racing", "settled"} <=> phase[c] \in {"racing", "settled"}
                       /\ phase'[c] = "new" <=> phase[c] = "new"
                       /\ phase'[c] = "done" <=> phase[c] = "done"
                       /\ phase[c] = "done" => result'[c] = result[c]
  BY DEF Event
<1>2. InProgress' = InProgress
  BY <1>1 DEF InProgress
<1>3. TypeOK'
  BY DEF IInv, TypeOK, Event, LaneRecord, Settlements
<1>4. NewInv'
  BY <1>1 DEF IInv, NewInv, Event
<1>5. OnInv'
  BY <1>2 DEF IInv, OnInv, Event
<1>6. LaneInv'
  BY <1>1, <1>2 DEF IInv, LaneInv, Event
<1>7. RoomInv'
  <2>1. IsFiniteSet(lanes)
    BY FS_Subset, BrokerAssumption DEF IInv, TypeOK
  <2>2. Cardinality(lanes') <= PoolSize
    <3>1. /\ Cardinality(lanes') \in Nat /\ Cardinality(lanes) \in Nat
          /\ Cardinality(lanes') <= Cardinality(lanes)
      BY <2>1, SmallerTable DEF Event
    <3> QED
      BY <3>1, BrokerAssumption DEF IInv, RoomInv
  <2> QED
    BY <2>2 DEF IInv, RoomInv, Event
<1>8. LimitInv'
  BY DEF LimitInv, Event
<1> QED
  BY <1>3, <1>4, <1>5, <1>6, <1>7, <1>8 DEF IInv

\* What the invariant says of the type of a lane, in one place.
LEMMA LaneType ==
  ASSUME IInv
  PROVE  /\ lane \in [Calls -> LaneRecord]
         /\ lanes \subseteq Calls
         /\ MalformedLimit \in Nat
         /\ NoLane \in LaneRecord /\ NewLane \in LaneRecord
         /\ ~NoLane.open /\ ~NoLane.stopping /\ NoLane.malformed = 0
         /\ NewLane.busy /\ NewLane.starting /\ ~NewLane.stopping /\ NewLane.malformed = 0 /\ NewLane.open
         /\ \A l \in Calls : lane[l].malformed <= MalformedLimit
<1>1. /\ lane \in [Calls -> LaneRecord] /\ lanes \subseteq Calls /\ MalformedLimit \in Nat
      /\ \A l \in Calls : lane[l].malformed <= MalformedLimit
  BY BrokerAssumption DEF IInv, TypeOK, LaneRecord, LimitInv
<1>2. 0 \in 0..(MalformedLimit + 1)
  BY <1>1
<1>3. NoLane \in LaneRecord /\ ~NoLane.open /\ ~NoLane.stopping /\ NoLane.malformed = 0
  BY <1>2 DEF NoLane, LaneRecord
<1>4. NewLane \in LaneRecord
  BY <1>3 DEF LaneRecord, NewLane
<1>5. NewLane.busy /\ NewLane.starting /\ ~NewLane.stopping /\ NewLane.malformed = 0 /\ NewLane.open
  BY <1>3 DEF NewLane, LaneRecord
<1> QED
  BY <1>1, <1>3, <1>4, <1>5

\* retire(): the lane is out of the table and its child is dead.
LEMMA RetireEvent ==
  ASSUME IInv, NEW l \in Calls, Retire(l), NEW cs, NEW r \in Settlements, Settle(cs, r),
         UNCHANGED <<on, shutDown>>
  PROVE  Event
<1>1. \A k \in Calls : lane'[k] = IF k = l THEN NoLane ELSE lane[k]
  BY LaneType DEF Retire
<1>2. lane' \in [Calls -> LaneRecord] /\ lanes' = lanes \ {l}
  BY LaneType DEF Retire
<1>3. \A k \in Calls :
       /\ lane'[k].open => lane[k].open /\ (k \in lanes' \/ lane'[k].stopping)
       /\ lane'[k].stopping => lane[k].stopping
       /\ lane'[k].malformed <= MalformedLimit
  BY <1>1, <1>2, LaneType DEF IInv, RoomInv
<1>4. \A k \in lanes' :
       /\ lane'[k] = lane[k]
       /\ lane'[k].ready \/ lane'[k].starting \/ ~lane'[k].open
  BY <1>1, <1>2, LaneType DEF IInv, LaneInv
<1> QED
  BY <1>2, <1>3, <1>4, SettleEffect DEF Event, IInv

\* A lane in the table or outside of it changes its flags.
LEMMA FlagEvent ==
  ASSUME IInv, NEW l \in Calls, NEW v \in LaneRecord, lane' = [lane EXCEPT ![l] = v],
         v.open => lane[l].open /\ (l \in lanes \/ v.stopping),
         v.stopping => lane[l].stopping,
         v.malformed <= MalformedLimit,
         l \in lanes => /\ v.busy = lane[l].busy
                        /\ v.malformed = 0 => lane[l].malformed = 0
                        /\ v.ready \/ v.starting \/ ~v.open,
         NEW cs, NEW r \in Settlements, Settle(cs, r),
         UNCHANGED <<lanes, on, shutDown>>
  PROVE  Event
<1>1. \A k \in Calls : lane'[k] = IF k = l THEN v ELSE lane[k]
  BY LaneType
<1>2. lane' \in [Calls -> LaneRecord]
  BY LaneType
<1>3. \A k \in Calls :
       /\ lane'[k].open => lane[k].open /\ (k \in lanes' \/ lane'[k].stopping)
       /\ lane'[k].stopping => lane[k].stopping
       /\ lane'[k].malformed <= MalformedLimit
  BY <1>1, LaneType DEF IInv, RoomInv
<1>4. \A k \in lanes' :
       /\ lane'[k].busy = lane[k].busy
       /\ lane'[k].malformed = 0 => lane[k].malformed = 0
       /\ lane'[k].ready \/ lane'[k].starting \/ ~lane'[k].open
  BY <1>1, LaneType DEF IInv, LaneInv
<1> QED
  BY <1>2, <1>3, <1>4, SettleEffect DEF Event, IInv

\* Nothing is settled when nobody is named.
LEMMA SettleNothing ==
  ASSUME TypeOK, UNCHANGED <<phase, result>>
  PROVE  Settle({}, "none")
  BY DEF TypeOK, Settle

\* Frames, exits, timers and deadlines are events.
LEMMA EventSteps ==
  ASSUME IInv,
         \/ \E l \in Calls : Ready(l) \/ Malformed(l) \/ Exit(l) \/ StartTimer(l) \/ KillCap(l)
         \/ \E c \in Calls : Deadline(c) \/ \E r \in {"ok", "error"} : Return(c, r)
  PROVE  Event
<1>0. TypeOK
  BY DEF IInv
<1>1. ASSUME NEW l \in Calls, Ready(l) PROVE Event
  <2> DEFINE v == [lane[l] EXCEPT !.ready = TRUE, !.starting = FALSE]
  <2>1. lane[l] \in LaneRecord
    BY LaneType
  <2>2. /\ v \in LaneRecord /\ v.ready /\ v.open = lane[l].open /\ v.stopping = lane[l].stopping
        /\ v.busy = lane[l].busy /\ v.malformed = lane[l].malformed
    BY <2>1 DEF LaneRecord
  <2>3. lane' = [lane EXCEPT ![l] = v]
    BY <1>1 DEF Ready
  <2> HIDE DEF v
  <2>4. Settle({}, "none")
    BY <1>0, <1>1, SettleNothing DEF Ready
  <2>5. v.open => lane[l].open /\ (l \in lanes \/ v.stopping)
    BY <2>2 DEF IInv, RoomInv
  <2>6. v.malformed <= MalformedLimit
    BY <2>2, LaneType
  <2>7. UNCHANGED <<lanes, on, shutDown>>
    BY <1>1 DEF Ready
  <2>8. "none" \in Settlements
    BY DEF Settlements
  <2> QED
    BY <2>2, <2>3, <2>4, <2>5, <2>6, <2>7, <2>8, FlagEvent
<1>2. ASSUME NEW l \in Calls, Malformed(l) PROVE Event
  <2>1. CASE lane[l].malformed = MalformedLimit
    <3>1. Retire(l) /\ Settle(Pending(l), "BUDGET") /\ UNCHANGED <<on, shutDown>>
      BY <1>2, <2>1 DEF Malformed
    <3>2. "BUDGET" \in Settlements
      BY DEF Settlements
    <3> QED
      BY <3>1, <3>2, RetireEvent
  <2>2. CASE lane[l].malformed # MalformedLimit
    <3> DEFINE v == [lane[l] EXCEPT !.malformed = @ + 1]
    <3>1. lane[l] \in LaneRecord /\ lane[l].malformed \in 0..MalformedLimit /\ MalformedLimit \in Nat
      <4>1. lane[l] \in LaneRecord /\ lane[l].malformed <= MalformedLimit /\ MalformedLimit \in Nat
        BY LaneType
      <4>2. lane[l].malformed \in Nat
        BY <4>1 DEF LaneRecord
      <4> QED
        BY <4>1, <4>2
    <3>2. lane[l].malformed + 1 \in 0..(MalformedLimit + 1) /\ lane[l].malformed + 1 <= MalformedLimit
          /\ lane[l].malformed + 1 # 0
      BY <3>1, <2>2
    <3>3. /\ v \in LaneRecord /\ v.ready = lane[l].ready /\ v.starting = lane[l].starting
          /\ v.open = lane[l].open /\ v.stopping = lane[l].stopping
          /\ v.busy = lane[l].busy /\ v.malformed = lane[l].malformed + 1
      BY <3>1, <3>2 DEF LaneRecord
    <3>4. lane' = [lane EXCEPT ![l] = v] /\ UNCHANGED <<lanes, on, shutDown, phase, result>>
      BY <1>2, <2>2 DEF Malformed
    <3> HIDE DEF v
    <3>5. Settle({}, "none")
      BY <1>0, <3>4, SettleNothing
    <3>6. v.open => lane[l].open /\ (l \in lanes \/ v.stopping)
      BY <3>3 DEF IInv, RoomInv
    <3>7. l \in lanes => v.ready \/ v.starting \/ ~v.open
      BY <3>3 DEF IInv, LaneInv
    <3>8. "none" \in Settlements
      BY DEF Settlements
    <3> QED
      BY <3>2, <3>3, <3>4, <3>5, <3>6, <3>7, <3>8, FlagEvent
  <2> QED
    BY <2>1, <2>2
<1>3. ASSUME NEW l \in Calls, Exit(l) PROVE Event
  <2> DEFINE v == [lane[l] EXCEPT !.open = FALSE, !.starting = FALSE, !.stopping = FALSE]
  <2>1. lane[l] \in LaneRecord
    BY LaneType
  <2>2. /\ v \in LaneRecord /\ ~v.open /\ ~v.stopping
        /\ v.busy = lane[l].busy /\ v.malformed = lane[l].malformed
    BY <2>1 DEF LaneRecord
  <2>3. lane' = [lane EXCEPT ![l] = v] /\ Settle(Pending(l), "DEGRADED") /\ UNCHANGED <<lanes, on, shutDown>>
    BY <1>3 DEF Exit
  <2> HIDE DEF v
  <2>4. v.malformed <= MalformedLimit
    BY <2>2, LaneType
  <2>5. "DEGRADED" \in Settlements
    BY DEF Settlements
  <2> QED
    BY <2>2, <2>3, <2>4, <2>5, FlagEvent
<1>4. ASSUME NEW l \in Calls, StartTimer(l) PROVE Event
  <2>1. Retire(l) /\ Settle(Pending(l), "DEGRADED") /\ UNCHANGED <<on, shutDown>>
    BY <1>4 DEF StartTimer
  <2>2. "DEGRADED" \in Settlements
    BY DEF Settlements
  <2> QED
    BY <2>1, <2>2, RetireEvent
<1>5. ASSUME NEW l \in Calls, KillCap(l) PROVE Event
  <2>1. /\ lane' = [lane EXCEPT ![l] = NoLane] /\ UNCHANGED <<lanes, on, phase, result, shutDown>>
        /\ l \notin lanes
    BY <1>5 DEF KillCap, IInv, RoomInv
  <2>2. Settle({}, "none")
    BY <1>0, <2>1, SettleNothing
  <2>3. NoLane.malformed <= MalformedLimit
    BY LaneType
  <2>4. "none" \in Settlements
    BY DEF Settlements
  <2>5. NoLane \in LaneRecord /\ ~NoLane.open /\ ~NoLane.stopping
    BY LaneType
  <2> QED
    BY <2>1, <2>2, <2>3, <2>4, <2>5, FlagEvent
<1>6. ASSUME NEW c \in Calls, NEW r \in Settlements, Settle({c}, r), UNCHANGED <<lanes, lane, on, shutDown>>
      PROVE  Event
  <2>1. \A l \in Calls : /\ lane[l].open => l \in lanes \/ lane[l].stopping
                         /\ lane[l].malformed <= MalformedLimit
    BY DEF IInv, RoomInv, LimitInv
  <2>2. \A l \in lanes : lane[l].ready \/ lane[l].starting \/ ~lane[l].open
    BY DEF IInv, LaneInv
  <2> QED
    BY <1>0, <1>6, <2>1, <2>2, SettleEffect, LaneType DEF Event
<1>7. ASSUME NEW c \in Calls, Deadline(c) PROVE Event
  BY <1>6, <1>7 DEF Deadline, Settlements
<1>8. ASSUME NEW c \in Calls, NEW r \in {"ok", "error"}, Return(c, r) PROVE Event
  BY <1>6, <1>8 DEF Return, Settlements
<1> QED
  BY <1>1, <1>2, <1>3, <1>4, <1>5, <1>7, <1>8

\* A refusal touches no lane.
LEMMA RefuseInv ==
  ASSUME IInv, NEW c \in Calls, Refuse(c)
  PROVE  IInv'
<1>1. /\ phase[c] = "new" /\ phase' = [phase EXCEPT ![c] = "done"]
      /\ result'[c] \in Settlements /\ result' \in [Calls -> Settlements]
      /\ \A d \in Calls : d # c => result'[d] = result[d]
      /\ UNCHANGED <<lanes, lane, on, shutDown>>
  BY DEF Refuse, IInv, TypeOK, Settlements
<1>2. \A d \in Calls : phase'[d] = IF d = c THEN "done" ELSE phase[d]
  BY <1>1 DEF IInv, TypeOK
<1>3. InProgress' = InProgress
  BY <1>1, <1>2 DEF InProgress
<1>4. TypeOK'
  BY <1>1 DEF IInv, TypeOK, Settlements
<1>5. NewInv' /\ OnInv' /\ RoomInv' /\ LimitInv'
  BY <1>1, <1>2, <1>3 DEF IInv, NewInv, OnInv, RoomInv, LimitInv
<1>6. LaneInv'
  <2>1. on[c] = "none" /\ \A l \in lanes : l # "none"
    BY <1>1, BrokerAssumption DEF IInv, NewInv, TypeOK
  <2> QED
    BY <1>1, <1>2, <1>3, <2>1 DEF IInv, LaneInv
<1> QED
  BY <1>4, <1>5, <1>6 DEF IInv

\* call() checks a lane out that nobody uses.
LEMMA ReuseInv ==
  ASSUME IInv, NEW c \in Calls, Reuse(c)
  PROVE  IInv'
<1>1. PICK l \in Free : /\ lane' = [lane EXCEPT ![l] = [@ EXCEPT !.busy = TRUE]]
                        /\ Race(c, l)
  BY DEF Reuse
<1>2. /\ phase[c] = "new" /\ UNCHANGED <<lanes, shutDown>>
      /\ l \in lanes /\ ~lane[l].busy /\ l \in Calls
  BY LaneType DEF Reuse, Free
<1> DEFINE v == [lane[l] EXCEPT !.busy = TRUE]
<1>3. /\ v \in LaneRecord /\ v.busy /\ v.ready = lane[l].ready /\ v.starting = lane[l].starting
      /\ v.open = lane[l].open /\ v.stopping = lane[l].stopping /\ v.malformed = lane[l].malformed
  <2>1. lane[l] \in LaneRecord
    BY <1>2, LaneType
  <2> QED
    BY <2>1 DEF LaneRecord
<1>4. lane' = [lane EXCEPT ![l] = v]
  BY <1>1
<1> HIDE DEF v
<1>5. \A k \in Calls : lane'[k] = IF k = l THEN v ELSE lane[k]
  BY <1>4, LaneType
<1>6. /\ phase' = [phase EXCEPT ![c] = IF lane'[l].open THEN "racing" ELSE "settled"]
      /\ on' = [on EXCEPT ![c] = l]
      /\ result' = [result EXCEPT ![c] = IF lane'[l].open THEN @ ELSE "DEGRADED"]
  BY <1>1 DEF Race
<1>7. /\ phase'[c] \in {"racing", "settled"} /\ on'[c] = l
      /\ \A d \in Calls : d # c => phase'[d] = phase[d] /\ on'[d] = on[d] /\ result'[d] = result[d]
  BY <1>2, <1>6 DEF IInv, TypeOK
<1>8. InProgress' = InProgress \cup {c}
  BY <1>7 DEF InProgress
<1>9. \A d \in InProgress : d \in Calls /\ d # c /\ on[d] # l
  <2>1. \A d \in InProgress : d \in Calls /\ d # c
    BY <1>2 DEF InProgress
  <2> QED
    BY <1>2, <2>1 DEF IInv, LaneInv
<1>10. TypeOK'
  BY <1>2, <1>3, <1>4, <1>6 DEF IInv, TypeOK, LaneRecord
<1>11. NewInv'
  BY <1>2, <1>3, <1>5, <1>7 DEF IInv, NewInv
<1>12. OnInv'
  <2>1. \A d \in InProgress' : d \in Calls /\ (on'[d] = IF d = c THEN l ELSE on[d])
    BY <1>7, <1>8, <1>9
  <2> QED
    BY <1>2, <1>8, <1>9, <2>1 DEF IInv, OnInv
<1>13. LaneInv'
  <2> SUFFICES ASSUME NEW k \in lanes
               PROVE  /\ lane'[k].busy <=> \E d \in InProgress' : on'[d] = k
                      /\ lane'[k].ready \/ lane'[k].starting \/ ~lane'[k].open
                      /\ lane'[k].malformed = 0 =>
                           \A d \in Calls : on'[d] = k /\ phase'[d] = "done" => result'[d] = "ok"
    BY <1>2 DEF LaneInv
  <2>1. k \in Calls
    BY LaneType
  <2>2. lane'[k].busy <=> \E d \in InProgress' : on'[d] = k
    <3>1. CASE k = l
      BY <3>1, <1>3, <1>5, <1>7, <1>8, <2>1
    <3>2. CASE k # l
      <4>1. (\E d \in InProgress' : on'[d] = k) <=> (\E d \in InProgress : on[d] = k)
        BY <3>2, <1>7, <1>8, <1>9
      <4>2. lane'[k].busy <=> lane[k].busy
        BY <3>2, <1>5, <2>1
      <4> QED
        BY <4>1, <4>2 DEF IInv, LaneInv
    <3> QED
      BY <3>1, <3>2
  <2>3. /\ lane'[k].ready \/ lane'[k].starting \/ ~lane'[k].open
        /\ lane'[k].malformed = lane[k].malformed
    BY <1>3, <1>5, <2>1 DEF IInv, LaneInv
  <2>4. lane'[k].malformed = 0 => \A d \in Calls : on'[d] = k /\ phase'[d] = "done" => result'[d] = "ok"
    <3> SUFFICES ASSUME lane'[k].malformed = 0, NEW d \in Calls, on'[d] = k, phase'[d] = "done"
                 PROVE  result'[d] = "ok"
      OBVIOUS
    <3>1. d # c
      BY <1>7
    <3>2. on[d] = k /\ phase[d] = "done" /\ result'[d] = result[d]
      BY <3>1, <1>7
    <3>3. lane[k].malformed = 0
      BY <2>3
    <3> QED
      BY <3>2, <3>3 DEF IInv, LaneInv
  <2> QED
    BY <2>2, <2>3, <2>4
<1>14. RoomInv' /\ LimitInv'
  BY <1>2, <1>3, <1>5 DEF IInv, RoomInv, LimitInv
<1> QED
  BY <1>10, <1>11, <1>12, <1>13, <1>14 DEF IInv

\* spawnLane(): a lane of its own, within the pool.
LEMMA SpawnInv ==
  ASSUME IInv, NEW c \in Calls, Spawn(c)
  PROVE  IInv'
<1>1. /\ phase[c] = "new" /\ ~shutDown /\ shutDown' = shutDown
      /\ Cardinality(lanes) < PoolSize /\ lanes' = lanes \cup {c}
      /\ lane' = [lane EXCEPT ![c] = NewLane]
      /\ Race(c, c)
  BY DEF Spawn
<1>2. \A k \in Calls : lane'[k] = IF k = c THEN NewLane ELSE lane[k]
  BY <1>1, LaneType
<1>3. /\ phase' = [phase EXCEPT ![c] = "racing"]
      /\ on' = [on EXCEPT ![c] = c]
      /\ result' = [result EXCEPT ![c] = @]
  BY <1>1, <1>2, LaneType DEF Race
<1>4. /\ phase'[c] = "racing" /\ on'[c] = c
      /\ \A d \in Calls : d # c => phase'[d] = phase[d] /\ on'[d] = on[d]
      /\ result' = result
  BY <1>3 DEF IInv, TypeOK
<1>5. InProgress' = InProgress \cup {c}
  BY <1>4 DEF InProgress
<1>6. /\ c \notin lanes /\ \A d \in Calls : on[d] # c
      /\ \A d \in InProgress : d \in Calls /\ d # c
  BY <1>1 DEF IInv, NewInv, InProgress
<1>7. TypeOK'
  BY <1>1, <1>3, LaneType DEF IInv, TypeOK, LaneRecord
<1>8. NewInv'
  BY <1>1, <1>2, <1>4 DEF IInv, NewInv
<1>9. OnInv'
  <2>1. \A d \in InProgress' : d \in Calls /\ (on'[d] = IF d = c THEN c ELSE on[d])
    BY <1>4, <1>5, <1>6
  <2> QED
    BY <1>5, <1>6, <2>1 DEF IInv, OnInv
<1>10. LaneInv'
  <2> SUFFICES ASSUME NEW k \in lanes'
               PROVE  /\ lane'[k].busy <=> \E d \in InProgress' : on'[d] = k
                      /\ lane'[k].ready \/ lane'[k].starting \/ ~lane'[k].open
                      /\ lane'[k].malformed = 0 =>
                           \A d \in Calls : on'[d] = k /\ phase'[d] = "done" => result'[d] = "ok"
    BY DEF LaneInv
  <2>1. CASE k = c
    <3>1. lane'[k] = NewLane
      BY <2>1, <1>2
    <3>2. \A d \in Calls : on'[d] = c => phase'[d] # "done"
      BY <1>4, <1>6
    <3> QED
      BY <2>1, <3>1, <3>2, <1>4, <1>5, LaneType
  <2>2. CASE k # c
    <3>1. k \in lanes /\ k \in Calls /\ lane'[k] = lane[k]
      BY <2>2, <1>1, <1>2, LaneType
    <3>2. (\E d \in InProgress' : on'[d] = k) <=> (\E d \in InProgress : on[d] = k)
      BY <2>2, <1>4, <1>5, <1>6
    <3>3. \A d \in Calls : on'[d] = k => on[d] = k /\ phase'[d] = phase[d]
      BY <2>2, <1>4
    <3> QED
      BY <3>1, <3>2, <3>3, <1>4 DEF IInv, LaneInv
  <2> QED
    BY <2>1, <2>2
<1>11. RoomInv' /\ LimitInv'
  <2>1. IsFiniteSet(lanes)
    BY FS_Subset, BrokerAssumption DEF IInv, TypeOK
  <2>2. Cardinality(lanes \cup {c}) = Cardinality(lanes) + 1 /\ Cardinality(lanes) \in Nat
    BY <1>6, <2>1, FS_AddElement, FS_CardinalityType
  <2>3. Cardinality(lanes') <= PoolSize
    BY <1>1, <2>2, BrokerAssumption
  <2>4. \A l \in Calls : /\ lane'[l].open => l \in lanes' \/ lane'[l].stopping
                         /\ lane'[l].stopping => shutDown'
                         /\ lane'[l].malformed <= MalformedLimit
    BY <1>1, <1>2, LaneType DEF IInv, RoomInv
  <2> QED
    BY <1>1, <2>3, <2>4 DEF RoomInv, LimitInv
<1> QED
  BY <1>7, <1>8, <1>9, <1>10, <1>11 DEF IInv

\* call() resumes: the lane is given back clean, or retired.
LEMMA ResumeInv ==
  ASSUME IInv, NEW c \in Calls, Resume(c)
  PROVE  IInv'
<1> DEFINE l == on[c]
<1>1. /\ phase[c] = "settled" /\ phase' = [phase EXCEPT ![c] = "done"]
      /\ UNCHANGED <<on, result, shutDown>>
  BY DEF Resume
<1>2. l \in Calls /\ c \in InProgress
  BY <1>1 DEF IInv, OnInv, InProgress
<1> HIDE DEF l
<1>3. \A d \in Calls : phase'[d] = IF d = c THEN "done" ELSE phase[d]
  BY <1>1 DEF IInv, TypeOK
<1>4. InProgress' = InProgress \ {c}
  BY <1>3 DEF InProgress
<1>5. \A d \in InProgress : on[d] = l => d = c
  BY <1>2 DEF IInv, OnInv, l
<1>7. OnInv'
  BY <1>1, <1>4 DEF IInv, OnInv
<1>8. CASE result[c] = "ok" /\ lane[l].malformed = 0
  <2> DEFINE v == [lane[l] EXCEPT !.busy = FALSE]
  <2>1. lane' = [lane EXCEPT ![l] = v] /\ lanes' = lanes
    BY <1>8 DEF Resume, l
  <2>2. lane[l] \in LaneRecord
    BY <1>2, LaneType
  <2>3. /\ v \in LaneRecord /\ ~v.busy /\ v.ready = lane[l].ready /\ v.starting = lane[l].starting
        /\ v.open = lane[l].open /\ v.stopping = lane[l].stopping /\ v.malformed = lane[l].malformed
    BY <2>2 DEF LaneRecord
  <2> HIDE DEF v
  <2>4. \A k \in Calls : lane'[k] = IF k = l THEN v ELSE lane[k]
    BY <2>1, LaneType
  <2>5. TypeOK'
    BY <1>1, <1>2, <2>1, <2>3 DEF IInv, TypeOK, LaneRecord
  <2>6. NewInv'
    BY <1>1, <1>3, <2>1, <2>3, <2>4 DEF IInv, NewInv
  <2>7. LaneInv'
    <3> SUFFICES ASSUME NEW k \in lanes
                 PROVE  /\ lane'[k].busy <=> \E d \in InProgress' : on'[d] = k
                        /\ lane'[k].ready \/ lane'[k].starting \/ ~lane'[k].open
                        /\ lane'[k].malformed = 0 =>
                             \A d \in Calls : on'[d] = k /\ phase'[d] = "done" => result'[d] = "ok"
      BY <2>1 DEF LaneInv
    <3>1. k \in Calls
      BY LaneType
    <3>2. lane'[k].busy <=> \E d \in InProgress' : on'[d] = k
      <4>1. CASE k = l
        BY <4>1, <3>1, <2>3, <2>4, <1>1, <1>4, <1>5
      <4>2. CASE k # l
        <5>1. (\E d \in InProgress' : on'[d] = k) <=> (\E d \in InProgress : on[d] = k)
          BY <4>2, <1>1, <1>4 DEF l
        <5> QED
          BY <4>2, <5>1, <3>1, <2>4 DEF IInv, LaneInv
      <4> QED
        BY <4>1, <4>2
    <3>3. lane'[k].ready \/ lane'[k].starting \/ ~lane'[k].open
      BY <3>1, <2>3, <2>4 DEF IInv, LaneInv
    <3>4. ASSUME lane'[k].malformed = 0, NEW d \in Calls, on[d] = k, phase'[d] = "done"
          PROVE  result[d] = "ok"
      <4>1. lane[k].malformed = 0
        BY <3>1, <3>4, <2>3, <2>4
      <4> QED
        BY <4>1, <3>4, <1>3, <1>8 DEF IInv, LaneInv
    <3> QED
      BY <3>2, <3>3, <3>4, <1>1
  <2>8. RoomInv' /\ LimitInv'
    BY <1>1, <1>2, <2>1, <2>3, <2>4 DEF IInv, RoomInv, LimitInv
  <2> QED
    BY <1>7, <2>5, <2>6, <2>7, <2>8 DEF IInv
<1>9. CASE ~(result[c] = "ok" /\ lane[l].malformed = 0)
  <2>1. lane' = [lane EXCEPT ![l] = NoLane] /\ lanes' = lanes \ {l}
    BY <1>9 DEF Resume, Retire, l
  <2>2. \A k \in Calls : lane'[k] = IF k = l THEN NoLane ELSE lane[k]
    BY <2>1, LaneType
  <2>3. TypeOK'
    <3>1. lane' \in [Calls -> LaneRecord]
      BY <1>2, <2>1, LaneType
    <3> QED
      BY <1>1, <2>1, <3>1 DEF IInv, TypeOK, LaneRecord
  <2>4. NewInv'
    BY <1>1, <1>3, <2>1, <2>2, LaneType DEF IInv, NewInv
  <2>5. LaneInv'
    <3> SUFFICES ASSUME NEW k \in lanes'
                 PROVE  /\ lane[k].busy <=> \E d \in InProgress' : on'[d] = k
                        /\ lane[k].ready \/ lane[k].starting \/ ~lane[k].open
                        /\ lane[k].malformed = 0 =>
                             \A d \in Calls : on'[d] = k /\ phase'[d] = "done" => result'[d] = "ok"
      BY <2>1, <2>2, LaneType DEF LaneInv
    <3>1. k \in lanes /\ k # l
      BY <2>1
    <3>2. (\E d \in InProgress' : on'[d] = k) <=> (\E d \in InProgress : on[d] = k)
      BY <3>1, <1>1, <1>4 DEF l
    <3>3. \A d \in Calls : on'[d] = k /\ phase'[d] = "done" => on[d] = k /\ phase[d] = "done"
      BY <3>1, <1>1, <1>3 DEF l
    <3> QED
      BY <3>1, <3>2, <3>3, <1>1 DEF IInv, LaneInv
  <2>6. RoomInv'
    <3>1. IsFiniteSet(lanes)
      BY FS_Subset, BrokerAssumption DEF IInv, TypeOK
    <3>2. /\ Cardinality(lanes') \in Nat /\ Cardinality(lanes) \in Nat
          /\ Cardinality(lanes') <= Cardinality(lanes)
      BY <2>1, <3>1, SmallerTable
    <3>3. Cardinality(lanes') <= PoolSize
      BY <3>2, BrokerAssumption DEF IInv, RoomInv
    <3> QED
      BY <1>1, <2>1, <2>2, <3>3, LaneType DEF IInv, RoomInv
  <2>7. LimitInv'
    BY <2>2, LaneType DEF LimitInv
  <2> QED
    BY <1>7, <2>3, <2>4, <2>5, <2>6, <2>7 DEF IInv
<1> QED
  BY <1>8, <1>9

\* shutdownAll(): the table is emptied, what still runs is being stopped.
LEMMA ShutdownInv ==
  ASSUME IInv, ShutdownAll
  PROVE  IInv'
<1> DEFINE stop(l) == [lane[l] EXCEPT !.stopping = TRUE]
<1>1. /\ shutDown' = TRUE /\ lanes' = {} /\ UNCHANGED <<on, phase, result>>
      /\ lane' = [l \in Calls |-> IF l \in lanes /\ lane[l].open THEN stop(l) ELSE lane[l]]
  BY DEF ShutdownAll
<1>2. \A l \in Calls : /\ stop(l) \in LaneRecord /\ stop(l).stopping
                       /\ stop(l).open = lane[l].open /\ stop(l).malformed = lane[l].malformed
  <2> TAKE l \in Calls
  <2>1. lane[l] \in LaneRecord
    BY LaneType
  <2> QED
    BY <2>1 DEF LaneRecord
<1> HIDE DEF stop
<1>3. \A l \in Calls : lane'[l] = IF l \in lanes /\ lane[l].open THEN stop(l) ELSE lane[l]
  BY <1>1
<1>4. lane' \in [Calls -> LaneRecord]
  BY <1>1, <1>2, LaneType
<1>5. InProgress' = InProgress
  BY <1>1 DEF InProgress
<1>6. TypeOK'
  BY <1>1, <1>4 DEF IInv, TypeOK, LaneRecord
<1>7. NewInv' /\ OnInv' /\ LaneInv' /\ LimitInv'
  BY <1>1, <1>2, <1>3, <1>5 DEF IInv, NewInv, OnInv, LaneInv, LimitInv
<1>8. RoomInv'
  <2>1. Cardinality(lanes') <= PoolSize
    BY <1>1, FS_EmptySet, BrokerAssumption
  <2> QED
    BY <1>1, <1>2, <1>3, <2>1 DEF IInv, RoomInv
<1> QED
  BY <1>6, <1>7, <1>8 DEF IInv

-----------------------------------------------------------------------------
\* The base case.
LEMMA InitInv == Init => IInv
<1> SUFFICES ASSUME Init PROVE IInv
  OBVIOUS
<1>1. 0 \in 0..(MalformedLimit + 1) /\ 0 <= MalformedLimit
  BY BrokerAssumption
<1>2. NoLane \in LaneRecord /\ ~NoLane.open /\ ~NoLane.stopping /\ NoLane.malformed = 0
  BY <1>1 DEF NoLane, LaneRecord
<1>3. \A l \in Calls : lane[l] = NoLane
  BY DEF Init
<1>4. lane \in [Calls -> LaneRecord]
  BY <1>2 DEF Init
<1>5. TypeOK
  BY <1>4 DEF Init, TypeOK, LaneRecord
<1>6. NewInv /\ OnInv /\ LaneInv /\ LimitInv
  BY <1>1, <1>2, <1>3, BrokerAssumption DEF Init, NewInv, OnInv, LaneInv, LimitInv, InProgress
<1>7. RoomInv
  BY <1>2, <1>3, FS_EmptySet, BrokerAssumption DEF Init, RoomInv
<1> QED
  BY <1>5, <1>6, <1>7 DEF IInv

\* The induction step.
LEMMA StepInv == IInv /\ [Next]_vars => IInv'
<1> SUFFICES ASSUME IInv, [Next]_vars PROVE IInv'
  OBVIOUS
<1>1. CASE ShutdownAll
  BY <1>1, ShutdownInv
<1>2. ASSUME NEW c \in Calls, Refuse(c) PROVE IInv'
  BY <1>2, RefuseInv
<1>3. ASSUME NEW c \in Calls, Reuse(c) PROVE IInv'
  BY <1>3, ReuseInv
<1>4. ASSUME NEW c \in Calls, Spawn(c) PROVE IInv'
  BY <1>4, SpawnInv
<1>5. ASSUME NEW c \in Calls, Resume(c) PROVE IInv'
  BY <1>5, ResumeInv
<1>6. CASE \/ \E l \in Calls : Ready(l) \/ Malformed(l) \/ Exit(l) \/ StartTimer(l) \/ KillCap(l)
           \/ \E c \in Calls : Deadline(c) \/ \E r \in {"ok", "error"} : Return(c, r)
  BY <1>6, EventSteps, EventInv
<1>7. CASE UNCHANGED vars
  BY <1>7 DEF vars, IInv, TypeOK, NewInv, OnInv, LaneInv, RoomInv, LimitInv, InProgress
<1> QED
  BY <1>1, <1>2, <1>3, <1>4, <1>5, <1>6, <1>7 DEF Next

\* The invariant gives the properties of the pool.
LEMMA Accounted == IInv => LanesAccountedFor /\ LaneLostOnlyWhenIdle
<1> SUFFICES ASSUME IInv PROVE LanesAccountedFor /\ LaneLostOnlyWhenIdle
  OBVIOUS
<1>1. LanesAccountedFor
  BY DEF IInv, OnInv, LaneInv, RoomInv, LanesAccountedFor
<1>2. LaneLostOnlyWhenIdle
  <2> SUFFICES ASSUME NEW l \in lanes, ~lane[l].busy, l \notin Free, lane[l].malformed \notin 1..MalformedLimit
               PROVE  ~lane[l].ready /\ (lane[l].starting \/ ~lane[l].open)
    BY DEF LaneLostOnlyWhenIdle
  <2>1. lane[l] \in LaneRecord /\ lane[l].malformed <= MalformedLimit /\ MalformedLimit \in Nat
    BY LaneType
  <2>2. lane[l].malformed \in Nat
    BY <2>1 DEF LaneRecord
  <2>3. lane[l].malformed = 0
    BY <2>1, <2>2
  <2>4. ~lane[l].ready
    BY <2>3 DEF Free
  <2> QED
    BY <2>4 DEF IInv, LaneInv
<1> QED
  BY <1>1, <1>2

\* A lane that is handed out again has a clean record.
LEMMA ReuseIsClean ==
  ASSUME IInv, [Next]_vars, NEW c \in Calls, on[c] = "none", on'[c] \in Calls \ {c}
  PROVE  /\ lane[on'[c]].malformed = 0
         /\ \A d \in Calls : on[d] = on'[c] => phase[d] = "done" /\ result[d] = "ok"
<1>1. on'[c] # on[c]
  BY BrokerAssumption
<1>2. CASE \E d \in Calls : Reuse(d)
  <2>1. PICK d \in Calls : Reuse(d)
    BY <1>2
  <2>2. PICK l \in Free : on' = [on EXCEPT ![d] = l]
    BY <2>1 DEF Reuse, Race
  <2>3. d = c /\ on'[c] = l
    BY <1>1, <2>2 DEF IInv, TypeOK
  <2>4. l \in lanes /\ ~lane[l].busy /\ lane[l].malformed = 0
    BY DEF Free
  <2>5. ASSUME NEW x \in Calls, on[x] = l
        PROVE  phase[x] = "done" /\ result[x] = "ok"
    <3>1. x \notin InProgress
      BY <2>4, <2>5 DEF IInv, LaneInv
    <3>2. l # "none"
      BY <2>4, LaneType, BrokerAssumption
    <3>3. phase[x] # "new"
      BY <2>5, <3>2 DEF IInv, NewInv
    <3>4. phase[x] = "done"
      BY <3>1, <3>3 DEF InProgress, IInv, TypeOK
    <3> QED
      BY <2>4, <2>5, <3>4 DEF IInv, LaneInv
  <2> QED
    BY <2>3, <2>4, <2>5
<1>3. CASE \E d \in Calls : Spawn(d)
  <2>1. PICK d \in Calls : on' = [on EXCEPT ![d] = d]
    BY <1>3 DEF Spawn, Race
  <2> QED
    BY <1>1, <2>1 DEF IInv, TypeOK
<1>4. CASE on' = on
  BY <1>1, <1>4
<1>5. CASE \/ \E l \in Calls : Ready(l) \/ Malformed(l) \/ Exit(l) \/ StartTimer(l) \/ KillCap(l)
           \/ \E d \in Calls : Deadline(d) \/ \E r \in {"ok", "error"} : Return(d, r)
  BY <1>4, <1>5, EventSteps DEF Event
<1>6. CASE ShutdownAll \/ \E d \in Calls : Refuse(d) \/ Resume(d)
  BY <1>4, <1>6 DEF ShutdownAll, Refuse, Resume
<1> QED
  BY <1>2, <1>3, <1>4, <1>5, <1>6 DEF Next, vars

-----------------------------------------------------------------------------
\* The table of lanes, the flags and the calls in progress agree in every
\* reachable state of the pool.
THEOREM Inductive == Spec => []IInv
  BY InitInv, StepInv, PTL DEF Spec

\* Every variable keeps its type: in particular a lane never counts more bad
\* frames than the limit.
THEOREM TypeCorrect == Spec => []TypeOK
<1>1. IInv => TypeOK
  BY DEF IInv
<1> QED
  BY <1>1, Inductive, PTL

\* call(), retire(), shutdownAll(): one call per lane, no busy flag left behind,
\* the pool within its size and no child outside the table but those being shut
\* down.
THEOREM NoLaneLeaks == Spec => []LanesAccountedFor
  BY Accounted, Inductive, PTL

\* checkout(): the pool gives a lane up for good only when it was idle and sent
\* a bad frame, or its child left without a ready frame.
THEOREM LostLanes == Spec => []LaneLostOnlyWhenIdle
  BY Accounted, Inductive, PTL

\* "retire it, never reuse": a lane that is handed out again answered every call
\* it ever got, each with success.
THEOREM ReusedClean == Spec => CleanReuse
<1>1. IInv /\ [Next]_vars =>
        [\A c \in Calls :
           on[c] = "none" /\ on'[c] \in Calls \ {c} =>
             /\ lane[on'[c]].malformed = 0
             /\ \A d \in Calls : on[d] = on'[c] => phase[d] = "done" /\ result[d] = "ok"]_vars
  BY ReuseIsClean
<1> QED
  BY <1>1, Inductive, PTL DEF Spec, CleanReuse

-----------------------------------------------------------------------------
(***************************************************************************)
(* The health monitor: any compartments, windows and polls.                *)
(*                                                                         *)
(* The backoff of a compartment outlives its quarantine, so the invariant  *)
(* keeps what each way out of "stopped" leaves behind for it.              *)
(***************************************************************************)

\* A power of two counts the subsets of an interval, so it is a number and grows
\* with the exponent.
LEMMA PowersGrow ==
  ASSUME NEW m \in Nat, NEW n \in Nat, m <= n
  PROVE  2 ^ m \in Nat /\ 2 ^ n \in Nat /\ 2 ^ m <= 2 ^ n
<1>1. IsFiniteSet(1..m) /\ Cardinality(1..m) = m /\ IsFiniteSet(1..n) /\ Cardinality(1..n) = n
  BY FS_Interval
<1>2. IsFiniteSet(SUBSET (1..m)) /\ Cardinality(SUBSET (1..m)) = 2 ^ m
  BY <1>1, FS_SUBSET
<1>3. IsFiniteSet(SUBSET (1..n)) /\ Cardinality(SUBSET (1..n)) = 2 ^ n
  BY <1>1, FS_SUBSET
<1>4. SUBSET (1..m) \in SUBSET (SUBSET (1..n))
  <2>1. 1..m \subseteq 1..n
    OBVIOUS
  <2>2. QED BY <2>1
<1>5. Cardinality(SUBSET (1..m)) <= Cardinality(SUBSET (1..n))
  BY <1>3, <1>4, FS_Subset
<1>6. Cardinality(SUBSET (1..m)) \in Nat /\ Cardinality(SUBSET (1..n)) \in Nat
  BY <1>2, <1>3, FS_CardinalityType
<1>7. QED BY <1>2, <1>3, <1>5, <1>6

\* The windows of crash counts.
CrashSeq == Seq(0..2)
\* The windows, of WINDOW_POLLS at most.
Windows == {w \in CrashSeq : Len(w) <= 3}
\* The statistics of one compartment.
Samples == [state : {"active", "degraded", "stopped"}, crashes : 0..2]

\* A poll pushes one more count and drops the oldest.
LEMMA PushedWindow ==
  ASSUME NEW w \in Windows, NEW x \in 0..2
  PROVE  (IF Len(Append(w, x)) > 3 THEN Tail(Append(w, x)) ELSE Append(w, x)) \in Windows
<1>1. w \in Seq(0..2) /\ Len(w) \in Nat /\ Len(w) <= 3
  BY DEF Windows, CrashSeq
<1>2. PICK v : v = Append(w, x)
  OBVIOUS
<1>3. v \in Seq(0..2) /\ Len(v) = Len(w) + 1 /\ v # <<>>
  BY <1>1, <1>2
<1>4. Tail(v) \in Seq(0..2) /\ Len(Tail(v)) = Len(v) - 1
  BY <1>3
<1>5. QED BY <1>1, <1>2, <1>3, <1>4 DEF Windows, CrashSeq

\* The type invariant with what a thread may still add to its crash counter.
HealthInv ==
  /\ ThreadsInv
  /\ poll \in {"idle", "asked", "answered"}
  /\ sample \in [Compartments -> Samples]
  /\ \A c \in Compartments : window[c] \in Windows
  /\ count \in [Compartments -> 0..MaxQuarantines]
  /\ mute \in [Compartments -> 0..(2 ^ MaxQuarantines)]
  /\ ordered \subseteq Compartments /\ refused \subseteq Compartments /\ revived \subseteq Compartments

\* The invariant holds before the first poll.
LEMMA HealthInvInit == HealthInit => HealthInv
<1> SUFFICES ASSUME HealthInit PROVE HealthInv
  OBVIOUS
<1>1. ThreadsInv
  BY DEF HealthInit, HandlesInit, ThreadsInv, HandlesTypeOK
<1>2. 0 \in 0..(2 ^ MaxQuarantines) /\ 0 \in 0..MaxQuarantines
  BY HealthAssumption, PowersGrow
<1>3. <<>> \in Windows
  BY DEF Windows, CrashSeq
<1>4. QED BY <1>1, <1>2, <1>3 DEF HealthInit, HealthInv, Samples

\* Every step keeps the types; observe() sets a backoff of a power of two.
LEMMA HealthStep == HealthInv /\ [HealthNext]_monitorVars => HealthInv'
<1> SUFFICES ASSUME HealthInv, [HealthNext]_monitorVars PROVE HealthInv'
  OBVIOUS
<1>1. CASE Poll
  BY <1>1 DEF Poll, hostVars, HealthInv, ThreadsInv, HandlesTypeOK
<1>2. CASE Stats
  <2>1. sample' \in [Compartments -> Samples]
    BY <1>2 DEF Stats, HealthInv, ThreadsInv, HandlesTypeOK, Samples
  <2>2. QED BY <1>2, <2>1 DEF Stats, hostVars, HealthInv, ThreadsInv, HandlesTypeOK
<1>3. CASE StatsError
  BY <1>3 DEF StatsError, hostVars, HealthInv, ThreadsInv, HandlesTypeOK
<1>4. CASE Observe
  <2> DEFINE bad == {c \in Compartments : Quarantined(c)}
             more(c) == IF count[c] < MaxQuarantines THEN count[c] + 1 ELSE count[c]
  <2>1. \A c \in Compartments : more(c) \in 0..MaxQuarantines
    BY HealthAssumption DEF HealthInv
  <2>2. \A c \in Compartments : 2 ^ more(c) \in 0..(2 ^ MaxQuarantines)
    <3> TAKE c \in Compartments
    <3> PICK n : n = more(c)
      OBVIOUS
    <3>1. n \in Nat /\ n <= MaxQuarantines /\ MaxQuarantines \in Nat
      BY <2>1, HealthAssumption
    <3> HIDE DEF more
    <3>2. QED BY <3>1, PowersGrow
  <2>3. \A c \in Compartments : mute[c] \in 0..(2 ^ MaxQuarantines) /\ 2 ^ MaxQuarantines \in Nat
    BY HealthAssumption, PowersGrow DEF HealthInv
  <2>4. count' \in [Compartments -> 0..MaxQuarantines]
    BY <1>4, <2>1 DEF Observe, HealthInv
  <2>5. mute' \in [Compartments -> 0..(2 ^ MaxQuarantines)]
    <3>1. mute' = [c \in Compartments |->
            IF c \in bad THEN 2 ^ more(c) ELSE IF mute[c] > 0 THEN mute[c] - 1 ELSE 0]
      BY <1>4 DEF Observe
    <3> HIDE DEF bad, more
    <3>2. PICK top : top = 2 ^ MaxQuarantines
      OBVIOUS
    <3>3. ASSUME NEW c \in Compartments
          PROVE  (IF c \in bad THEN 2 ^ more(c) ELSE IF mute[c] > 0 THEN mute[c] - 1 ELSE 0) \in 0..top
      <4>1. top \in Nat /\ mute[c] \in 0..top /\ 2 ^ more(c) \in 0..top
        BY <2>2, <2>3, <3>2
      <4>2. QED BY <4>1
    <3>4. QED BY <3>1, <3>2, <3>3
  <2>6. ASSUME NEW c \in Compartments PROVE window'[c] \in Windows
    <3>1. sample[c].crashes \in 0..2 /\ window[c] \in Windows
      BY DEF HealthInv, Samples
    <3>2. Pushed(c) \in Windows
      BY <3>1, PushedWindow DEF Pushed
    <3>3. <<>> \in Windows
      BY DEF Windows, CrashSeq
    <3>4. window'[c] \in {<<>>, window[c], Pushed(c)}
      BY <1>4 DEF Observe
    <3>5. QED BY <3>1, <3>2, <3>3, <3>4
  <2>7. /\ poll' = "idle" /\ ordered' = ordered \cup bad /\ refused' = refused \ bad
        /\ UNCHANGED <<state, crashes, thread, sample, revived>>
    BY <1>4 DEF Observe, hostVars
  <2>8. QED BY <2>4, <2>5, <2>6, <2>7 DEF HealthInv, ThreadsInv, HandlesTypeOK
<1>5. ASSUME NEW c \in Compartments, Terminate(c) PROVE HealthInv'
  BY <1>5 DEF Terminate, HealthInv, ThreadsInv, HandlesTypeOK
<1>6. ASSUME NEW c \in Compartments, TerminateRefused(c) PROVE HealthInv'
  BY <1>6 DEF TerminateRefused, hostVars, HealthInv, ThreadsInv, HandlesTypeOK
<1>7. ASSUME NEW c \in Compartments, StoppedByOther(c) PROVE HealthInv'
  BY <1>7 DEF StoppedByOther, healthVars, HealthInv, ThreadsInv, HandlesTypeOK
<1>8. ASSUME NEW c \in Compartments, Thread(c) PROVE HealthInv'
  <2>1. ThreadsInv'
    BY <1>8, ThreadsStep DEF Thread, HealthInv
  <2>2. UNCHANGED healthVars /\ revived' \subseteq Compartments
    BY <1>8 DEF Thread, HealthInv
  <2>3. QED BY <2>1, <2>2 DEF healthVars, HealthInv
<1>9. CASE UNCHANGED monitorVars
  BY <1>9 DEF monitorVars, HealthInv, ThreadsInv, HandlesTypeOK
<1>10. QED
  BY <1>1, <1>2, <1>3, <1>4, <1>5, <1>6, <1>7, <1>8, <1>9 DEF HealthNext

\* Every reachable state of the health monitor and the handles has its type: no
\* backoff is longer than the bound of the quarantines allows.
THEOREM HealthTyped == HealthSpec => []HealthTypeOK
<1>1. HealthInv => HealthTypeOK
  BY DEF HealthInv, HealthTypeOK, ThreadsInv, Windows, CrashSeq, Samples
<1>2. QED BY <1>1, HealthInvInit, HealthStep, PTL DEF HealthSpec

\* A backoff that still runs stands for an order to terminate: it is on its way,
\* it was refused, the compartment was stopped, or its thread failed after that.
Backed(c) == mute[c] > 0 => c \in ordered \cup refused \cup revived \/ state[c] = "stopped"
\* The inductive invariant of the backoffs.
BackoffInv ==
  /\ state \in [Compartments -> {"active", "degraded", "stopped"}]
  /\ \A c \in Compartments : Backed(c)

\* The events of a thread take the state to "degraded" or leave it.
LEMMA ThreadEffect ==
  ASSUME NEW c, WorkerError(c) \/ WorkerExit(c) \/ Wedge(c)
  PROVE  state' = state \/ state' = [state EXCEPT ![c] = "degraded"]
  BY DEF WorkerError, WorkerExit, Wedge

\* The invariant holds initially, and of a termination, a refusal, a thread
\* that fails and a new quarantine each leaves the trace the backoff needs.
LEMMA BackoffInit == HealthInit => BackoffInv
  BY DEF HealthInit, HandlesInit, BackoffInv, Backed

\* Every step keeps the invariant of the backoffs.
LEMMA BackoffStep == BackoffInv /\ [HealthNext]_monitorVars => BackoffInv'
<1> SUFFICES ASSUME BackoffInv, [HealthNext]_monitorVars PROVE BackoffInv'
  OBVIOUS
<1> USE DEF BackoffInv, Backed
<1>1. CASE Poll \/ Stats \/ StatsError
  BY <1>1 DEF Poll, Stats, StatsError, hostVars
<1>2. CASE Observe
  <2>1. /\ state' = state /\ revived' = revived
        /\ \A c \in Compartments : mute'[c] > 0 =>
             IF Quarantined(c) THEN c \in ordered' ELSE mute[c] > 0
        /\ ordered \subseteq ordered'
        /\ \A c \in Compartments : Quarantined(c) \/ (c \in refused => c \in refused')
    BY <1>2 DEF Observe, hostVars
  <2>2. QED BY <2>1
<1>3. ASSUME NEW c \in Compartments, Terminate(c) PROVE BackoffInv'
  BY <1>3 DEF Terminate
<1>4. ASSUME NEW c \in Compartments, TerminateRefused(c) PROVE BackoffInv'
  BY <1>4 DEF TerminateRefused, hostVars
<1>5. ASSUME NEW c \in Compartments, StoppedByOther(c) PROVE BackoffInv'
  BY <1>5 DEF StoppedByOther, healthVars
<1>6. ASSUME NEW c \in Compartments, Thread(c) PROVE BackoffInv'
  <2>1. /\ state' = state \/ state' = [state EXCEPT ![c] = "degraded"]
        /\ revived' = IF state[c] = "stopped" /\ state'[c] # "stopped" THEN revived \cup {c} ELSE revived
        /\ UNCHANGED <<mute, ordered, refused>>
    BY <1>6, ThreadEffect DEF Thread, healthVars
  <2>2. QED BY <2>1
<1>7. CASE UNCHANGED monitorVars
  BY <1>7 DEF monitorVars
<1>8. QED BY <1>1, <1>2, <1>3, <1>4, <1>5, <1>6, <1>7 DEF HealthNext

\* "suppress that compartment for 2^n polls": what observe() quarantines inside a
\* backoff, it takes for a provider first seen degraded.
LEMMA BackoffQuarantines ==
  ASSUME BackoffInv, [HealthNext]_monitorVars, NEW c \in Compartments,
         mute[c] > 0, c \in ordered' \ ordered
  PROVE  c \in refused \cup revived \/ (state[c] = "stopped" /\ sample[c].state = "degraded")
<1>1. Observe
  BY DEF HealthNext, monitorVars, Poll, Stats, StatsError, Terminate, TerminateRefused,
         StoppedByOther, Thread, healthVars
<1>2. ordered' = ordered \cup {d \in Compartments : Quarantined(d)}
  BY <1>1 DEF Observe
<1>3. Quarantined(c) /\ mute[c] # 0
  BY <1>2
<1>4. sample[c].state = "degraded"
  BY <1>3 DEF Quarantined, FirstSight
<1>5. QED BY <1>4 DEF BackoffInv, Backed

\* Within its backoff a compartment is quarantined again only when the order did
\* not stop it for good, or on an answer older than the stop (health.ts observe
\* and quarantine), whatever the compartments and whatever the other events.
THEOREM BackoffRespected == HealthSpec => BackoffOnceStopped
<1>1. BackoffInv /\ [HealthNext]_monitorVars =>
        [\A c \in Compartments :
           mute[c] > 0 /\ c \in ordered' \ ordered =>
             \/ c \in refused \cup revived
             \/ state[c] = "stopped" /\ sample[c].state = "degraded"]_monitorVars
  BY BackoffQuarantines
<1>2. QED BY <1>1, BackoffInit, BackoffStep, PTL DEF HealthSpec, BackoffOnceStopped

-----------------------------------------------------------------------------
(***************************************************************************)
(* The task pool: any tasks, any capacity and any levels.                  *)
(*                                                                         *)
(* A queue is three lists read as one, the order of its tasks.  Every      *)
(* operation is first described by what it does to that order: a push puts *)
(* a task behind those of its level, the pump drops the first n.  The slots*)
(* are then counted against the order, and a task is in it once.           *)
(***************************************************************************)

\* s is u, v and w one after the other, of lengths a, b and d.
Joins(s, u, v, w, a, b, d) ==
  \A i \in 1..(a + b + d) :
    s[i] = IF i <= a THEN u[i] ELSE IF i <= a + b THEN v[i - a] ELSE w[i - a - b]

\* The queues and their lengths, under names of their own.
TaskSeq == Seq(Tasks)
\* The length of a queue.
Size(s) == Len(s)
\* The three levels of queue.ts.
Queues == [1..3 -> TaskSeq]

\* The order of a queue is its three levels one after the other.
LEMMA OrderJoins ==
  ASSUME NEW q \in Queues
  PROVE  /\ q[1] \in TaskSeq /\ q[2] \in TaskSeq /\ q[3] \in TaskSeq
         /\ Size(q[1]) \in Nat /\ Size(q[2]) \in Nat /\ Size(q[3]) \in Nat
         /\ Order(q) \in TaskSeq
         /\ Size(Order(q)) = Size(q[1]) + Size(q[2]) + Size(q[3])
         /\ Joins(Order(q), q[1], q[2], q[3], Size(q[1]), Size(q[2]), Size(q[3]))
<1>1. q[1] \in Seq(Tasks) /\ q[2] \in Seq(Tasks) /\ q[3] \in Seq(Tasks)
  BY DEF Queues, TaskSeq
<1>2. ASSUME NEW u \in Seq(Tasks), NEW v \in Seq(Tasks), NEW w \in Seq(Tasks)
      PROVE  /\ Len(u) \in Nat /\ Len(v) \in Nat /\ Len(w) \in Nat
             /\ u \o v \o w \in Seq(Tasks)
             /\ Len(u \o v \o w) = Len(u) + Len(v) + Len(w)
             /\ Joins(u \o v \o w, u, v, w, Len(u), Len(v), Len(w))
  BY DEF Joins
<1>3. QED BY <1>1, <1>2 DEF TaskSeq, Size, Order

\* What remains of a level of which k tasks are taken.
Dropped(s, k) == SubSeq(s, k + 1, Len(s))

\* Taking k tasks from a level that has so many.
LEMMA DroppedSome ==
  ASSUME NEW s \in TaskSeq, NEW k \in Nat, k <= Size(s)
  PROVE  /\ Dropped(s, k) \in TaskSeq
         /\ Size(Dropped(s, k)) = Size(s) - k
         /\ \A i \in 1..(Size(s) - k) : Dropped(s, k)[i] = s[k + i]
<1> USE DEF TaskSeq, Size
<1>1. Len(s) \in Nat
  OBVIOUS
<1>2. \A i \in (k + 1)..Len(s) : s[i] \in Tasks
  BY <1>1
<1>3. QED BY <1>1, <1>2 DEF Dropped

\* Taking all the tasks of a level.
LEMMA DroppedAll ==
  ASSUME NEW s \in TaskSeq, NEW k \in Nat, k >= Size(s)
  PROVE  Dropped(s, k) \in TaskSeq /\ Size(Dropped(s, k)) = 0
  BY DEF Dropped, TaskSeq, Size

\* Taking no task of a level.
LEMMA DroppedNone ==
  ASSUME NEW s \in TaskSeq
  PROVE  Dropped(s, 0) = s
  BY DEF Dropped, TaskSeq

\* The arithmetic of taking n members from three sequences.
LEMMA TakenFromFirst ==
  ASSUME NEW s, NEW r, NEW u, NEW v, NEW w, NEW x, NEW a \in Nat, NEW b \in Nat, NEW d \in Nat,
         NEW n \in Nat, NEW m \in Nat, m = a - n,
         Joins(s, u, v, w, a, b, d), Joins(r, x, v, w, m, b, d),
         \A i \in 1..m : x[i] = u[n + i]
  PROVE  \A i \in 1..(a + b + d - n) : r[i] = s[n + i]
<1> TAKE i \in 1..(a + b + d - n)
<1>1. s[n + i] = IF n + i <= a THEN u[n + i] ELSE IF n + i <= a + b THEN v[n + i - a] ELSE w[n + i - a - b]
  BY DEF Joins
<1>2. r[i] = IF i <= m THEN x[i] ELSE IF i <= m + b THEN v[i - m] ELSE w[i - m - b]
  BY DEF Joins
<1>3. i - m = n + i - a /\ i - m - b = n + i - a - b
  OBVIOUS
<1>4. QED BY <1>1, <1>2, <1>3

\* take(), n times, drops the first n tasks of the order and keeps the others as
\* they stand, whatever levels they come from.
LEMMA ShiftedOrder ==
  ASSUME NEW q \in Queues, NEW n \in Nat, n <= Size(Order(q))
  PROVE  LET r == Shifted(q, n)
         IN /\ r \in Queues
            /\ Size(Order(r)) = Size(Order(q)) - n
            /\ \A i \in 1..(Size(Order(q)) - n) : Order(r)[i] = Order(q)[n + i]
<1>1. PICK a \in Nat, b \in Nat, d \in Nat : a = Size(q[1]) /\ b = Size(q[2]) /\ d = Size(q[3])
  BY OrderJoins
<1>2. /\ Size(Order(q)) = a + b + d /\ Joins(Order(q), q[1], q[2], q[3], a, b, d)
      /\ q[1] \in TaskSeq /\ q[2] \in TaskSeq /\ q[3] \in TaskSeq
  BY <1>1, OrderJoins
<1>3. PICK f \in Nat, g \in Nat, h \in Nat :
        /\ f = (IF n > 0 THEN n - 0 ELSE 0)
        /\ g = (IF n > a THEN n - a ELSE 0)
        /\ h = (IF n > a + b THEN n - (a + b) ELSE 0)
  OBVIOUS
<1>4. PICK r : r = Shifted(q, n)
  OBVIOUS
<1>5. /\ r = [l \in 1..3 |-> r[l]]
      /\ r[1] = SubSeq(q[1], IF n > 0 THEN n - 0 + 1 ELSE 1, Len(q[1]))
      /\ r[2] = SubSeq(q[2], IF n > a THEN n - a + 1 ELSE 1, Len(q[2]))
      /\ r[3] = SubSeq(q[3], IF n > a + b THEN n - (a + b) + 1 ELSE 1, Len(q[3]))
  <2>1. Above(q, 1) = 0 /\ Above(q, 2) = a /\ Above(q, 3) = a + b
    BY <1>1 DEF Above, Size
  <2>2. \A l \in 1..3 : r[l] = SubSeq(q[l], IF n > Above(q, l) THEN n - Above(q, l) + 1 ELSE 1, Len(q[l]))
    BY <1>4 DEF Shifted
  <2>3. r = [l \in 1..3 |-> r[l]]
    BY <1>4 DEF Shifted
  <2>4. 1 \in 1..3 /\ 2 \in 1..3 /\ 3 \in 1..3
    OBVIOUS
  <2>5. QED BY <2>1, <2>2, <2>3, <2>4, Zenon
<1>6. /\ (IF n > 0 THEN n - 0 + 1 ELSE 1) = f + 1
      /\ (IF n > a THEN n - a + 1 ELSE 1) = g + 1
      /\ (IF n > a + b THEN n - (a + b) + 1 ELSE 1) = h + 1
  BY <1>3
<1>7. r[1] = Dropped(q[1], f) /\ r[2] = Dropped(q[2], g) /\ r[3] = Dropped(q[3], h)
  BY <1>5, <1>6 DEF Dropped
<1>8. ASSUME r[1] \in TaskSeq, r[2] \in TaskSeq, r[3] \in TaskSeq PROVE r \in Queues
  BY <1>5, <1>8 DEF Queues
<1>9. CASE n <= a
  <2> PICK m \in Nat : m = a - n
    BY <1>9
  <2>1. f = n /\ g = 0 /\ h = 0
    BY <1>3, <1>9
  <2>2. /\ r[1] \in TaskSeq /\ Size(r[1]) = m /\ \A i \in 1..m : r[1][i] = q[1][n + i]
        /\ r[2] = q[2] /\ r[3] = q[3]
    BY <2>1, <1>1, <1>2, <1>7, <1>9, DroppedSome, DroppedNone
  <2>3. r \in Queues
    BY <2>2, <1>2, <1>8
  <2>4. Size(Order(r)) = m + b + d /\ Joins(Order(r), r[1], q[2], q[3], m, b, d)
    BY <2>2, <2>3, <1>1, OrderJoins
  <2>5. \A i \in 1..(a + b + d - n) : Order(r)[i] = Order(q)[n + i]
    BY <2>2, <2>4, <1>2, TakenFromFirst
  <2>6. m + b + d = a + b + d - n
    OBVIOUS
  <2>7. QED BY <2>3, <2>4, <2>5, <2>6, <1>2, <1>4
<1>10. CASE n > a /\ n <= a + b
  <2>1. f = n /\ g = n - a /\ h = 0 /\ f >= a /\ g <= b
    BY <1>3, <1>10
  <2> PICK m \in Nat, o \in Nat : m = b - g /\ o = 0
    BY <2>1
  <2>2. r[1] \in TaskSeq /\ Size(r[1]) = o
    BY <2>1, <1>1, <1>2, <1>7, DroppedAll
  <2>3. r[2] \in TaskSeq /\ Size(r[2]) = m /\ \A i \in 1..m : r[2][i] = q[2][g + i]
    BY <2>1, <1>1, <1>2, <1>7, DroppedSome
  <2>4. r[3] = q[3]
    BY <2>1, <1>2, <1>7, DroppedNone
  <2>5. r \in Queues
    BY <2>2, <2>3, <2>4, <1>2, <1>8
  <2>6. Size(Order(r)) = o + m + d /\ Joins(Order(r), r[1], r[2], q[3], o, m, d)
    BY <2>2, <2>3, <2>4, <2>5, <1>1, OrderJoins
  <2>7. \A i \in 1..(a + b + d - n) : Order(r)[i] = Order(q)[n + i]
    <3>1. \A i \in 1..(m + d) : Order(r)[i] = Order(q)[a + g + i]
      <4> TAKE i \in 1..(m + d)
      <4>1. Order(q)[a + g + i] = IF g + i <= b THEN q[2][a + g + i - a] ELSE q[3][a + g + i - a - b]
        BY <2>1, <1>2 DEF Joins
      <4>2. Order(r)[i] = IF i <= m THEN r[2][i - o] ELSE q[3][i - o - m]
        BY <2>1, <2>6 DEF Joins
      <4>3. g + i = a + g + i - a /\ i - o - m = a + g + i - a - b /\ i - o = i
        BY <2>1
      <4>4. QED BY <4>1, <4>2, <4>3, <2>1, <2>3
    <3>2. a + g = n /\ m + d = a + b + d - n
      BY <2>1
    <3>3. QED BY <3>1, <3>2
  <2>8. o + m + d = a + b + d - n
    BY <2>1
  <2>9. QED BY <2>5, <2>6, <2>7, <2>8, <1>2, <1>4
<1>11. CASE n > a + b
  <2>1. f = n /\ g = n - a /\ h = n - (a + b) /\ f >= a /\ g >= b /\ h <= d
    BY <1>2, <1>3, <1>11
  <2> PICK m \in Nat, o \in Nat : m = d - h /\ o = 0
    BY <2>1
  <2>2. r[1] \in TaskSeq /\ Size(r[1]) = o /\ r[2] \in TaskSeq /\ Size(r[2]) = o
    <3>1. f \in Nat /\ f >= Size(q[1]) /\ g \in Nat /\ g >= Size(q[2])
      BY <2>1, <1>1
    <3>2. r[1] \in TaskSeq /\ Size(r[1]) = o
      BY <3>1, <1>2, <1>7, DroppedAll
    <3>3. r[2] \in TaskSeq /\ Size(r[2]) = o
      BY <3>1, <1>2, <1>7, DroppedAll
    <3>4. QED BY <3>2, <3>3
  <2>3. r[3] \in TaskSeq /\ Size(r[3]) = m /\ \A i \in 1..m : r[3][i] = q[3][h + i]
    BY <2>1, <1>1, <1>2, <1>7, DroppedSome
  <2>4. r \in Queues
    BY <2>2, <2>3, <1>8
  <2>5. Size(Order(r)) = o + o + m /\ Joins(Order(r), r[1], r[2], r[3], o, o, m)
    BY <2>2, <2>3, <2>4, OrderJoins
  <2>6. n <= a + b + d /\ n >= a + b
    BY <1>2, <1>11
  <2>7. \A i \in 1..(a + b + d - n) : Order(r)[i] = Order(q)[n + i]
    <3>1. \A i \in 1..m : Order(r)[i] = Order(q)[a + b + h + i]
      <4> TAKE i \in 1..m
      <4>1. Order(q)[a + b + h + i] = q[3][a + b + h + i - a - b]
        BY <2>1, <1>2 DEF Joins
      <4>2. Order(r)[i] = r[3][i - o - o]
        BY <2>1, <2>5 DEF Joins
      <4>3. h + i = a + b + h + i - a - b /\ i - o - o = i
        BY <2>1
      <4>4. QED BY <4>1, <4>2, <4>3, <2>3
    <3>2. a + b + h = n /\ m = a + b + d - n
      BY <2>1
    <3>3. QED BY <3>1, <3>2
  <2>8. o + o + m = a + b + d - n
    BY <2>1
  <2>9. QED BY <2>4, <2>5, <2>7, <2>8, <1>2, <1>4
<1>12. QED BY <1>9, <1>10, <1>11

\* The place at which a task submitted on level l enters the order.
LEMMA PushedOrder ==
  ASSUME NEW q \in Queues, NEW l \in 1..3, NEW t \in Tasks
  PROVE  LET r == [q EXCEPT ![l] = Append(@, t)]
         IN /\ r \in Queues
            /\ Size(Order(r)) = Size(Order(q)) + 1
            /\ \E e \in 0..Size(Order(q)) :
                 \A i \in 1..(Size(Order(q)) + 1) :
                   Order(r)[i] = IF i <= e THEN Order(q)[i] ELSE IF i = e + 1 THEN t ELSE Order(q)[i - 1]
<1>1. PICK a \in Nat, b \in Nat, d \in Nat : a = Size(q[1]) /\ b = Size(q[2]) /\ d = Size(q[3])
  BY OrderJoins
<1>2. /\ Size(Order(q)) = a + b + d /\ Joins(Order(q), q[1], q[2], q[3], a, b, d)
      /\ q[1] \in TaskSeq /\ q[2] \in TaskSeq /\ q[3] \in TaskSeq
  BY <1>1, OrderJoins
<1>3. PICK r : r = [q EXCEPT ![l] = Append(@, t)]
  OBVIOUS
<1>4. \A s \in TaskSeq : /\ Append(s, t) \in TaskSeq /\ Size(Append(s, t)) = Size(s) + 1
                         /\ \A i \in 1..(Size(s) + 1) : Append(s, t)[i] = IF i <= Size(s) THEN s[i] ELSE t
  BY DEF TaskSeq, Size
<1>5. /\ r \in Queues
      /\ r[l] = Append(q[l], t) /\ \A k \in 1..3 \ {l} : r[k] = q[k]
  BY <1>2, <1>3, <1>4 DEF Queues
<1>6. q[l] \in TaskSeq
  BY <1>2
<1>7. PICK x \in TaskSeq : /\ r[l] = x /\ Size(x) = Size(q[l]) + 1
                           /\ \A i \in 1..(Size(q[l]) + 1) : x[i] = IF i <= Size(q[l]) THEN q[l][i] ELSE t
  BY <1>4, <1>5, <1>6
<1> DEFINE Inserted(e) ==
             \A i \in 1..(a + b + d + 1) :
               Order(r)[i] = IF i <= e THEN Order(q)[i] ELSE IF i = e + 1 THEN t ELSE Order(q)[i - 1]
<1>8. ASSUME NEW e \in 0..(a + b + d), Inserted(e), Size(Order(r)) = a + b + d + 1
      PROVE  /\ Size(Order(r)) = Size(Order(q)) + 1
             /\ \E p \in 0..Size(Order(q)) :
                  \A i \in 1..(Size(Order(q)) + 1) :
                    Order(r)[i] = IF i <= p THEN Order(q)[i] ELSE IF i = p + 1 THEN t ELSE Order(q)[i - 1]
  BY <1>2, <1>8
<1>9. CASE l = 1
  <2>1. Size(x) = a + 1 /\ \A i \in 1..(a + 1) : x[i] = IF i <= a THEN q[1][i] ELSE t
    BY <1>1, <1>7, <1>9
  <2>2. r[1] = x /\ r[2] = q[2] /\ r[3] = q[3]
    BY <1>5, <1>7, <1>9
  <2> PICK m \in Nat : m = a + 1
    OBVIOUS
  <2>3. Size(Order(r)) = m + b + d /\ Joins(Order(r), x, q[2], q[3], m, b, d)
    BY <2>1, <2>2, <1>1, <1>5, OrderJoins
  <2>4. ASSUME NEW i \in 1..(a + b + d + 1)
        PROVE  Order(r)[i] = IF i <= a THEN Order(q)[i] ELSE IF i = a + 1 THEN t ELSE Order(q)[i - 1]
    <3>1. Order(r)[i] = IF i <= m THEN x[i] ELSE IF i <= m + b THEN q[2][i - m] ELSE q[3][i - m - b]
      BY <2>3 DEF Joins
    <3>2. i <= a => Order(q)[i] = q[1][i]
      BY <1>2 DEF Joins
    <3>3. i > m => Order(q)[i - 1] = IF i - 1 <= a + b THEN q[2][i - 1 - a] ELSE q[3][i - 1 - a - b]
      BY <1>2 DEF Joins
    <3>4. i - 1 - a = i - m /\ i - 1 - a - b = i - m - b
      OBVIOUS
    <3>5. QED BY <3>1, <3>2, <3>3, <3>4, <2>1
  <2>5. Inserted(a)
    BY <2>4
  <2>6. a \in 0..(a + b + d) /\ m + b + d = a + b + d + 1
    OBVIOUS
  <2> HIDE DEF Inserted
  <2>7. QED BY <2>3, <2>5, <2>6, <1>3, <1>5, <1>8
<1>10. CASE l = 2
  <2>1. Size(x) = b + 1 /\ \A i \in 1..(b + 1) : x[i] = IF i <= b THEN q[2][i] ELSE t
    BY <1>1, <1>7, <1>10
  <2>2. r[2] = x /\ r[1] = q[1] /\ r[3] = q[3]
    BY <1>5, <1>7, <1>10
  <2> PICK m \in Nat : m = b + 1
    OBVIOUS
  <2>3. Size(Order(r)) = a + m + d /\ Joins(Order(r), q[1], x, q[3], a, m, d)
    BY <2>1, <2>2, <1>1, <1>5, OrderJoins
  <2>4. ASSUME NEW i \in 1..(a + b + d + 1)
        PROVE  Order(r)[i] = IF i <= a + b THEN Order(q)[i] ELSE IF i = a + b + 1 THEN t ELSE Order(q)[i - 1]
    <3>1. Order(r)[i] = IF i <= a THEN q[1][i] ELSE IF i <= a + m THEN x[i - a] ELSE q[3][i - a - m]
      BY <2>3 DEF Joins
    <3>2. i <= a + b => Order(q)[i] = IF i <= a THEN q[1][i] ELSE q[2][i - a]
      BY <1>2 DEF Joins
    <3>3. i > a + m => Order(q)[i - 1] = q[3][i - 1 - a - b]
      BY <1>2 DEF Joins
    <3>4. i - 1 - a - b = i - a - m
      OBVIOUS
    <3>5. QED BY <3>1, <3>2, <3>3, <3>4, <2>1
  <2>5. Inserted(a + b)
    BY <2>4
  <2>6. a + b \in 0..(a + b + d) /\ a + m + d = a + b + d + 1
    OBVIOUS
  <2> HIDE DEF Inserted
  <2>7. QED BY <2>3, <2>5, <2>6, <1>3, <1>5, <1>8
<1>11. CASE l = 3
  <2>1. Size(x) = d + 1 /\ \A i \in 1..(d + 1) : x[i] = IF i <= d THEN q[3][i] ELSE t
    BY <1>1, <1>7, <1>11
  <2>2. r[3] = x /\ r[1] = q[1] /\ r[2] = q[2]
    BY <1>5, <1>7, <1>11
  <2> PICK m \in Nat : m = d + 1
    OBVIOUS
  <2>3. Size(Order(r)) = a + b + m /\ Joins(Order(r), q[1], q[2], x, a, b, m)
    BY <2>1, <2>2, <1>1, <1>5, OrderJoins
  <2>4. ASSUME NEW i \in 1..(a + b + d + 1)
        PROVE  Order(r)[i] = IF i <= a + b + d THEN Order(q)[i] ELSE IF i = a + b + d + 1 THEN t ELSE Order(q)[i - 1]
    <3>1. Order(r)[i] = IF i <= a THEN q[1][i] ELSE IF i <= a + b THEN q[2][i - a] ELSE x[i - a - b]
      BY <2>3 DEF Joins
    <3>2. i <= a + b + d => Order(q)[i] = IF i <= a THEN q[1][i] ELSE IF i <= a + b THEN q[2][i - a] ELSE q[3][i - a - b]
      BY <1>2 DEF Joins
    <3>3. QED BY <3>1, <3>2, <2>1
  <2>5. Inserted(a + b + d)
    BY <2>4
  <2>6. a + b + d \in 0..(a + b + d) /\ a + b + m = a + b + d + 1
    OBVIOUS
  <2> HIDE DEF Inserted
  <2>7. QED BY <2>3, <2>5, <2>6, <1>3, <1>5, <1>8
<1>12. l = 1 \/ l = 2 \/ l = 3
  OBVIOUS
<1>13. QED BY <1>9, <1>10, <1>11, <1>12, Zenon

\* The tasks in a queue are those of its order.
LEMMA QueueMembers ==
  ASSUME NEW q \in Queues
  PROVE  /\ Size(Order(q)) \in Nat /\ Size(Order(q)) = Len(Order(q))
         /\ DOMAIN Order(q) = 1..Size(Order(q))
         /\ InQueue(q) = {Order(q)[i] : i \in 1..Size(Order(q))}
         /\ InQueue(q) \subseteq Tasks
<1>1. Order(q) \in Seq(Tasks)
  BY OrderJoins DEF TaskSeq
<1>2. QED BY <1>1 DEF InQueue, Size

\* No task is queued twice.
Distinct(q) == \A i, j \in 1..Size(Order(q)) : Order(q)[i] = Order(q)[j] => i = j

\* What pump() does: it takes the first n tasks of the order, calls those that
\* are live, resolves the expired ones, and stops only at the end of the queue or
\* with every slot in use.
LEMMA PumpEffect ==
  ASSUME NEW q \in Queues, NEW slots \in SUBSET Tasks, Cardinality(slots) <= Capacity,
         Distinct(q), \A t \in slots : t \notin InQueue(q), NEW answers \in [Tasks -> Outcomes],
         Pump(q, slots, answers)
  PROVE  \E n \in 0..Size(Order(q)), live \in SUBSET Tasks :
           /\ levels' \in Queues
           /\ Size(Order(levels')) = Size(Order(q)) - n
           /\ \A i \in 1..(Size(Order(q)) - n) : Order(levels')[i] = Order(q)[n + i]
           /\ live = {Order(q)[i] : i \in 1..n} \ expired
           /\ running' = slots \cup live /\ called' = called \cup live
           /\ outcome' = [t \in Tasks |->
                IF t \in {Order(q)[i] : i \in 1..n} \cap expired /\ answers[t] = "waiting" THEN "timeout" ELSE answers[t]]
           /\ Cardinality(running') = Cardinality(slots) + Cardinality(live)
           /\ Cardinality(slots) \in Nat /\ Cardinality(live) \in 0..n
           /\ Cardinality(running') <= Capacity
           /\ n < Size(Order(q)) => Cardinality(running') = Capacity
<1>1. PICK n \in 0..Len(Order(q)) :
        /\ Takes(Order(q), Capacity - Cardinality(slots), n)
        /\ levels' = Shifted(q, n)
        /\ running' = slots \cup ({Order(q)[i] : i \in 1..n} \ expired)
        /\ called' = called \cup ({Order(q)[i] : i \in 1..n} \ expired)
        /\ outcome' = [t \in Tasks |->
             IF t \in {Order(q)[i] : i \in 1..n} \cap expired /\ answers[t] = "waiting" THEN "timeout" ELSE answers[t]]
  BY DEF Pump
<1>2. n \in 0..Size(Order(q)) /\ n \in Nat /\ Size(Order(q)) \in Nat /\ Len(Order(q)) = Size(Order(q))
  BY QueueMembers
<1>3. PICK taken : taken = {Order(q)[i] : i \in 1..n}
  OBVIOUS
<1>4. PICK live : live = taken \ expired
  OBVIOUS
<1>5. taken \subseteq InQueue(q) /\ live \subseteq InQueue(q) /\ live \in SUBSET Tasks
  <2>1. 1..n \subseteq 1..Size(Order(q))
    BY <1>2
  <2>2. QED BY <2>1, <1>3, <1>4, QueueMembers
<1>6. IsFiniteSet(slots) /\ IsFiniteSet(live)
  BY <1>5, FS_Subset, PoolAssumption
<1>7. /\ Cardinality(slots) \in Nat /\ Cardinality(live) \in Nat
      /\ Capacity \in Nat /\ Cardinality(live) <= n
  <2>1. IsFiniteSet(taken) /\ Cardinality(taken) <= n
    BY <1>2, <1>3, TakenBound
  <2>2. Cardinality(live) <= Cardinality(taken) /\ Cardinality(taken) \in Nat
    BY <2>1, <1>4, FS_Subset, FS_CardinalityType
  <2>3. Cardinality(slots) \in Nat /\ Cardinality(live) \in Nat
    BY <1>6, FS_CardinalityType
  <2>4. QED BY <2>1, <2>2, <2>3, <1>2, PoolAssumption
<1>8. Cardinality(slots \cup live) = Cardinality(slots) + Cardinality(live)
  <2>1. slots \cap live = {}
    BY <1>5
  <2>2. Cardinality(slots \cup live) = Cardinality(slots) + Cardinality(live) - Cardinality({})
    BY <2>1, <1>6, FS_Union
  <2>3. QED BY <2>2, <1>7, FS_EmptySet
<1>9. running' = slots \cup live
  BY <1>1, <1>3, <1>4
<1>10. /\ Cardinality(live) <= Capacity - Cardinality(slots)
       /\ n < Size(Order(q)) => Cardinality(live) = Capacity - Cardinality(slots)
  BY <1>1, <1>2, <1>3, <1>4 DEF Takes, LiveIn
<1>11. /\ Cardinality(running') = Cardinality(slots) + Cardinality(live)
       /\ Cardinality(running') <= Capacity
       /\ n < Size(Order(q)) => Cardinality(running') = Capacity
  BY <1>7, <1>8, <1>9, <1>10
<1>12. /\ levels' \in Queues
       /\ Size(Order(levels')) = Size(Order(q)) - n
       /\ \A i \in 1..(Size(Order(q)) - n) : Order(levels')[i] = Order(q)[n + i]
  BY <1>1, <1>2, ShiftedOrder
<1>13. Cardinality(live) \in 0..n
  BY <1>2, <1>7
<1>14. called' = called \cup live /\ live = {Order(q)[i] : i \in 1..n} \ expired
  BY <1>1, <1>3, <1>4
<1>15. QED BY <1>1, <1>2, <1>5, <1>7, <1>9, <1>11, <1>12, <1>13, <1>14

\* The inductive invariant of the task pool: slots and bound are kept, no task is
\* queued twice, what is queued or running was submitted, and a queued task has
\* an answer only when its deadline passed.
PoolInv ==
  /\ PoolTypeOK
  /\ SlotsAccountedFor
  /\ Distinct(levels)
  /\ \A t \in InQueue(levels) \cup running : outcome[t] # "none"
  /\ \A t \in InQueue(levels) \ expired : outcome[t] = "waiting"

\* What pump() is given: the levels q and the slots in use make a state that
\* satisfies the invariant but for the slots that wait to be filled.
PumpReady(q, slots, answers) ==
  /\ q \in Queues /\ slots \in SUBSET Tasks /\ Cardinality(slots) <= Capacity
  /\ Distinct(q) /\ \A t \in slots : t \notin InQueue(q)
  /\ answers \in [Tasks -> Outcomes]
  /\ Size(Order(q)) + Cardinality(slots) <= Capacity * SaturationFactor
  /\ \A t \in InQueue(q) \cup slots : answers[t] # "none"
  /\ \A t \in InQueue(q) \ expired : answers[t] = "waiting"

\* Dropping the first n tasks of an order: who remains, and that none of the
\* dropped is queued again.
LEMMA PumpMembers ==
  ASSUME NEW q \in Queues, NEW r \in Queues, NEW n \in 0..Size(Order(q)),
         Size(Order(r)) = Size(Order(q)) - n,
         \A i \in 1..(Size(Order(q)) - n) : Order(r)[i] = Order(q)[n + i]
  PROVE  /\ InQueue(r) = {Order(q)[i] : i \in (n + 1)..Size(Order(q))}
         /\ InQueue(r) \subseteq InQueue(q)
         /\ Distinct(q) => Distinct(r)
         /\ Distinct(q) => \A i \in 1..n : Order(q)[i] \notin InQueue(r)
<1>1. PICK z \in Nat : z = Size(Order(q)) /\ n \in 0..z /\ n \in Nat
  BY QueueMembers
<1>2. /\ InQueue(q) = {Order(q)[i] : i \in 1..z}
      /\ InQueue(r) = {Order(r)[i] : i \in 1..(z - n)}
  BY <1>1, QueueMembers
<1>3. \A i \in 1..(z - n) : n + i \in (n + 1)..z /\ Order(r)[i] = Order(q)[n + i]
  BY <1>1
<1>4. \A i \in (n + 1)..z : i - n \in 1..(z - n) /\ Order(r)[i - n] = Order(q)[i] /\ i \in 1..z
  <2> TAKE i \in (n + 1)..z
  <2>1. i - n \in 1..(z - n) /\ n + (i - n) = i /\ i \in 1..z
    BY <1>1
  <2>2. QED BY <2>1, <1>3
<1>5. InQueue(r) = {Order(q)[i] : i \in (n + 1)..z}
  BY <1>2, <1>3, <1>4
<1>6. InQueue(r) \subseteq InQueue(q)
  BY <1>2, <1>4, <1>5
<1>7. ASSUME Distinct(q) PROVE Distinct(r)
  <2> SUFFICES ASSUME NEW i \in 1..(z - n), NEW j \in 1..(z - n), Order(r)[i] = Order(r)[j] PROVE i = j
    BY <1>1 DEF Distinct
  <2>1. n + i \in 1..z /\ n + j \in 1..z /\ Order(q)[n + i] = Order(q)[n + j]
    BY <1>1, <1>3
  <2>2. n + i = n + j
    BY <2>1, <1>1, <1>7 DEF Distinct
  <2>3. QED BY <2>2, <1>1
<1>8. ASSUME Distinct(q), NEW i \in 1..n PROVE Order(q)[i] \notin InQueue(r)
  <2> SUFFICES ASSUME NEW j \in (n + 1)..z, Order(q)[i] = Order(q)[j] PROVE FALSE
    BY <1>5
  <2>1. i \in 1..z /\ j \in 1..z /\ i # j
    BY <1>1
  <2>2. QED BY <2>1, <1>1, <1>8 DEF Distinct
<1>9. QED BY <1>1, <1>5, <1>6, <1>7, <1>8

\* pump() turns what it is given into a state of the invariant, starts no expired
\* task, and takes none before one that stands ahead of it.
LEMMA PumpStep ==
  ASSUME NEW q, NEW slots, NEW answers, PumpReady(q, slots, answers), PoolTypeOK,
         Pump(q, slots, answers), UNCHANGED expired
  PROVE  /\ PoolInv'
         /\ called' \ called \subseteq InQueue(q) \ expired
         /\ \A i, j \in 1..Size(Order(q)) :
              i < j /\ Order(q)[i] \in InQueue(levels') => Order(q)[j] \in InQueue(levels')
<1> USE DEF PumpReady
<1>1. PICK n \in 0..Size(Order(q)), live \in SUBSET Tasks :
           /\ levels' \in Queues
           /\ Size(Order(levels')) = Size(Order(q)) - n
           /\ \A i \in 1..(Size(Order(q)) - n) : Order(levels')[i] = Order(q)[n + i]
           /\ live = {Order(q)[i] : i \in 1..n} \ expired
           /\ running' = slots \cup live /\ called' = called \cup live
           /\ outcome' = [t \in Tasks |->
                IF t \in {Order(q)[i] : i \in 1..n} \cap expired /\ answers[t] = "waiting" THEN "timeout" ELSE answers[t]]
           /\ Cardinality(running') = Cardinality(slots) + Cardinality(live)
           /\ Cardinality(slots) \in Nat /\ Cardinality(live) \in 0..n
           /\ Cardinality(running') <= Capacity
           /\ n < Size(Order(q)) => Cardinality(running') = Capacity
  BY PumpEffect
<1>2. PICK r : r = levels'
  OBVIOUS
<1>3. /\ r \in Queues /\ Size(Order(r)) \in Nat /\ Size(Order(q)) \in Nat
      /\ Len(Order(r)) = Size(Order(r))
      /\ InQueue(q) = {Order(q)[i] : i \in 1..Size(Order(q))}
      /\ InQueue(r) = {Order(q)[i] : i \in (n + 1)..Size(Order(q))}
      /\ InQueue(r) \subseteq InQueue(q) /\ InQueue(r) \subseteq Tasks /\ InQueue(q) \subseteq Tasks
      /\ Distinct(r)
      /\ \A i \in 1..n : Order(q)[i] \notin InQueue(r)
  BY <1>1, <1>2, PumpMembers, QueueMembers
<1>4. \A t \in {Order(q)[i] : i \in 1..n} : t \in InQueue(q) /\ t \notin InQueue(r)
  BY <1>1, <1>3
<1>5. /\ outcome' \in [Tasks -> Outcomes]
      /\ \A t \in Tasks : outcome'[t] = answers[t] \/ (outcome'[t] = "timeout" /\ t \in {Order(q)[i] : i \in 1..n})
  BY <1>1 DEF Outcomes
<1>6. PoolTypeOK'
  <2>1. r \in [1..3 -> Seq(Tasks)]
    BY <1>3 DEF Queues, TaskSeq
  <2>2. \A t \in running' : t \notin InQueue(r)
    BY <1>1, <1>3, <1>4
  <2>3. running' \subseteq Tasks /\ called' \subseteq Tasks /\ expired' \subseteq Tasks
    BY <1>1 DEF PoolTypeOK
  <2>4. QED BY <2>1, <2>2, <2>3, <1>2, <1>5 DEF PoolTypeOK
<1>7. SlotsAccountedFor'
  <2>1. Size(Order(r)) > 0 => n < Size(Order(q))
    BY <1>1, <1>2, <1>3
  <2>2. Size(Order(r)) + Cardinality(running') <= Size(Order(q)) + Cardinality(slots)
    BY <1>1, <1>2, <1>3
  <2>3. Capacity * SaturationFactor \in Nat /\ Cardinality(running') \in Nat
    BY <1>1, PoolAssumption
  <2>4. Size(Order(r)) + Cardinality(running') <= Capacity * SaturationFactor
    BY <2>2, <2>3, <1>1, <1>3
  <2>5. Queued' = Size(Order(r))
    BY <1>2, <1>3 DEF Queued
  <2>6. QED BY <2>1, <2>4, <2>5, <1>1 DEF SlotsAccountedFor
<1>8. /\ \A t \in InQueue(r) \cup running' : outcome'[t] # "none"
      /\ \A t \in InQueue(r) \ expired' : outcome'[t] = "waiting"
  <2>1. \A t \in InQueue(r) \cup running' : t \in Tasks /\ answers[t] # "none"
    <3>1. \A t \in live : t \in InQueue(q)
      BY <1>1, <1>4
    <3>2. QED BY <3>1, <1>1, <1>3
  <2>2. \A t \in InQueue(r) \ expired : t \in Tasks /\ outcome'[t] = "waiting"
    BY <1>3, <1>4, <1>5
  <2>3. \A t \in InQueue(r) \cup running' : outcome'[t] # "none"
    BY <2>1, <1>5
  <2>4. QED BY <2>2, <2>3
<1>9. PoolInv'
  BY <1>2, <1>3, <1>6, <1>7, <1>8 DEF PoolInv
<1>10. called' \ called \subseteq InQueue(q) \ expired
  BY <1>1, <1>4
<1>11. ASSUME NEW i \in 1..Size(Order(q)), NEW j \in 1..Size(Order(q)), i < j, Order(q)[i] \in InQueue(r)
       PROVE  Order(q)[j] \in InQueue(r)
  <2>1. ~(i \in 1..n)
    BY <1>3, <1>11
  <2>2. j \in (n + 1)..Size(Order(q))
    BY <2>1, <1>1, <1>3, <1>11
  <2>3. QED BY <2>2, <1>3
<1>12. QED BY <1>2, <1>9, <1>10, <1>11

\* The invariant as the facts about types and numbers the steps use.
LEMMA PoolFacts ==
  ASSUME PoolInv
  PROVE  /\ levels \in Queues /\ running \in SUBSET Tasks /\ outcome \in [Tasks -> Outcomes]
         /\ IsFiniteSet(running) /\ Cardinality(running) \in Nat
         /\ Size(Order(levels)) \in Nat /\ Queued = Size(Order(levels))
         /\ InQueue(levels) \subseteq Tasks
<1>1. levels \in Queues /\ running \in SUBSET Tasks /\ outcome \in [Tasks -> Outcomes]
  BY DEF PoolInv, PoolTypeOK, Queues, TaskSeq
<1>2. IsFiniteSet(running) /\ Cardinality(running) \in Nat
  BY <1>1, FS_Subset, FS_CardinalityType, PoolAssumption
<1>3. Size(Order(levels)) \in Nat /\ Queued = Size(Order(levels)) /\ InQueue(levels) \subseteq Tasks
  BY <1>1, QueueMembers DEF Queued
<1>4. QED BY <1>1, <1>2, <1>3

\* The invariant holds of the empty pool.
LEMMA PoolInvInit == PoolInit => PoolInv
<1> SUFFICES ASSUME PoolInit PROVE PoolInv
  OBVIOUS
<1>1. levels \in [1..3 -> Seq(Tasks)] /\ Order(levels) = <<>>
  BY DEF PoolInit, Order
<1>2. Size(Order(levels)) = 0 /\ Queued = 0 /\ InQueue(levels) = {}
  BY <1>1 DEF Size, Queued, InQueue
<1>3. PoolTypeOK
  BY <1>1 DEF PoolInit, PoolTypeOK, Outcomes
<1>4. SlotsAccountedFor
  BY <1>2, PoolAssumption, FS_EmptySet DEF PoolInit, SlotsAccountedFor
<1>5. Distinct(levels)
  BY <1>2 DEF Distinct
<1>6. QED BY <1>2, <1>3, <1>4, <1>5 DEF PoolInv, PoolInit

\* A port call that ends leaves the pump with its slot free.
LEMMA FinishReady ==
  ASSUME PoolInv, NEW t \in running, NEW s \in Outcomes \ {"none"}
  PROVE  LET answers == [outcome EXCEPT ![t] = IF @ = "waiting" THEN s ELSE @]
         IN PumpReady(levels, running \ {t}, answers)
<1> DEFINE answers == [outcome EXCEPT ![t] = IF @ = "waiting" THEN s ELSE @]
<1>1. /\ Cardinality(running \ {t}) = Cardinality(running) - 1
  BY PoolFacts, FS_RemoveElement
<1>2. /\ t \in Tasks /\ t \notin InQueue(levels)
      /\ Cardinality(running) <= Capacity /\ Capacity \in Nat /\ Capacity * SaturationFactor \in Nat
      /\ Queued + Cardinality(running) <= Capacity * SaturationFactor
  BY PoolFacts, PoolAssumption DEF PoolInv, PoolTypeOK, SlotsAccountedFor
<1>3. /\ Cardinality(running \ {t}) <= Capacity
      /\ Size(Order(levels)) + Cardinality(running \ {t}) <= Capacity * SaturationFactor
  BY <1>1, <1>2, PoolFacts
<1>4. /\ answers \in [Tasks -> Outcomes]
      /\ \A x \in Tasks : x # t => answers[x] = outcome[x]
      /\ outcome[t] # "none" => answers[t] # "none"
  BY <1>2, PoolFacts
<1>5. QED BY <1>2, <1>3, <1>4, PoolFacts DEF PumpReady, PoolInv, PoolTypeOK

\* An admitted task joins the queue.
LEMMA AdmitReady ==
  ASSUME PoolInv, NEW t \in Tasks, outcome[t] = "none", ~Saturated
  PROVE  LET q == [levels EXCEPT ![Level[t]] = Append(@, t)]
         IN /\ PumpReady(q, running, [outcome EXCEPT ![t] = "waiting"])
            /\ InQueue(q) = InQueue(levels) \cup {t}
            /\ \E f \in [1..Size(Order(levels)) -> 1..Size(Order(q))] :
                 /\ \A i \in 1..Size(Order(levels)) : Order(q)[f[i]] = Order(levels)[i]
                 /\ \A i, j \in 1..Size(Order(levels)) : i < j => f[i] < f[j]
<1>1. PICK q : q = [levels EXCEPT ![Level[t]] = Append(@, t)]
  OBVIOUS
<1>2. PICK z \in Nat : z = Size(Order(levels)) /\ z = Queued
  BY PoolFacts
<1>3. PICK e \in 0..z :
        /\ q \in Queues /\ Size(Order(q)) = z + 1
        /\ \A i \in 1..(z + 1) :
             Order(q)[i] = IF i <= e THEN Order(levels)[i] ELSE IF i = e + 1 THEN t ELSE Order(levels)[i - 1]
  <2>1. PICK l \in 1..3 : l = Level[t]
    BY PoolAssumption
  <2> DEFINE r == [levels EXCEPT ![l] = Append(@, t)]
  <2>4. levels \in Queues /\ q = r
    BY <2>1, <1>1, PoolFacts
  <2>5. /\ r \in Queues /\ Size(Order(r)) = Size(Order(levels)) + 1
        /\ \E e \in 0..Size(Order(levels)) :
             \A i \in 1..(Size(Order(levels)) + 1) :
               Order(r)[i] = IF i <= e THEN Order(levels)[i] ELSE IF i = e + 1 THEN t ELSE Order(levels)[i - 1]
    BY <2>4, PushedOrder, Zenon
  <2>2. /\ q \in Queues /\ Size(Order(q)) = Size(Order(levels)) + 1
        /\ \E e \in 0..Size(Order(levels)) :
             \A i \in 1..(Size(Order(levels)) + 1) :
               Order(q)[i] = IF i <= e THEN Order(levels)[i] ELSE IF i = e + 1 THEN t ELSE Order(levels)[i - 1]
    BY <2>4, <2>5
  <2>3. QED BY <2>2, <1>2
<1>4. /\ InQueue(levels) = {Order(levels)[i] : i \in 1..z}
      /\ InQueue(q) = {Order(q)[i] : i \in 1..(z + 1)}
  BY <1>2, <1>3, QueueMembers, PoolFacts
<1> DEFINE f == [i \in 1..z |-> IF i <= e THEN i ELSE i + 1]
<1>5. /\ f \in [1..z -> 1..(z + 1)]
      /\ \A i \in 1..z : f[i] # e + 1
      /\ \A i, j \in 1..z : i < j => f[i] < f[j]
  BY <1>2
<1>6. \A i \in 1..z : Order(q)[f[i]] = Order(levels)[i]
  <2> TAKE i \in 1..z
  <2>1. CASE i <= e
    BY <2>1, <1>3
  <2>2. CASE i > e
    <3>1. i + 1 \in 1..(z + 1) /\ ~(i + 1 <= e) /\ i + 1 # e + 1 /\ (i + 1) - 1 = i /\ f[i] = i + 1
      BY <2>2
    <3>2. Order(q)[i + 1] = Order(levels)[(i + 1) - 1]
      BY <3>1, <1>3
    <3>3. QED BY <3>1, <3>2
  <2>3. QED BY <2>1, <2>2
<1>7. e + 1 \in 1..(z + 1) /\ Order(q)[e + 1] = t
  BY <1>3
<1>8. \A k \in 1..(z + 1) : k = e + 1 \/ \E i \in 1..z : f[i] = k
  <2> TAKE k \in 1..(z + 1)
  <2>1. CASE k <= e
    BY <2>1
  <2>2. CASE k > e + 1
    <3>1. k - 1 \in 1..z /\ f[k - 1] = k
      BY <2>2
    <3>2. QED BY <3>1
  <2>3. QED BY <2>1, <2>2
<1> HIDE DEF f
<1>9. InQueue(q) = InQueue(levels) \cup {t}
  <2>1. InQueue(levels) \cup {t} \subseteq InQueue(q)
    BY <1>4, <1>5, <1>6, <1>7
  <2>2. InQueue(q) \subseteq InQueue(levels) \cup {t}
    BY <1>4, <1>6, <1>7, <1>8
  <2>3. QED BY <2>1, <2>2
<1>10. t \notin InQueue(levels) /\ t \notin running
  BY DEF PoolInv
<1>11. Distinct(q)
  <2> SUFFICES ASSUME NEW k \in 1..(z + 1), NEW m \in 1..(z + 1), Order(q)[k] = Order(q)[m] PROVE k = m
    BY <1>3 DEF Distinct
  <2>1. \A i \in 1..z : Order(levels)[i] # t
    BY <1>4, <1>10
  <2>2. \A i, j \in 1..z : Order(levels)[i] = Order(levels)[j] => i = j
    BY <1>2 DEF PoolInv, Distinct
  <2>3. QED BY <2>1, <2>2, <1>6, <1>7, <1>8
<1>12. /\ Cardinality(running) <= Capacity
       /\ Size(Order(q)) + Cardinality(running) <= Capacity * SaturationFactor
  <2>1. Cardinality(running) \in Nat /\ Capacity * SaturationFactor \in Nat
    BY PoolFacts, PoolAssumption
  <2>2. z + Cardinality(running) < Capacity * SaturationFactor
    BY <2>1, <1>2 DEF Saturated
  <2>3. QED BY <2>1, <2>2, <1>3 DEF PoolInv, SlotsAccountedFor
<1>13. PumpReady(q, running, [outcome EXCEPT ![t] = "waiting"])
  <2>1. PICK answers : answers = [outcome EXCEPT ![t] = "waiting"]
    OBVIOUS
  <2>2. /\ answers \in [Tasks -> Outcomes] /\ answers[t] = "waiting"
        /\ \A x \in Tasks : x # t => answers[x] = outcome[x]
    BY <2>1, PoolFacts DEF Outcomes
  <2>3. \A x \in running : x \notin InQueue(q)
    BY <1>9, <1>10 DEF PoolInv, PoolTypeOK
  <2>4. \A x \in InQueue(q) \cup running : answers[x] # "none"
    BY <2>2, <1>9, PoolFacts DEF PoolInv
  <2>5. \A x \in InQueue(q) \ expired : answers[x] = "waiting"
    BY <2>2, <1>9, PoolFacts DEF PoolInv
  <2>6. QED BY <2>1, <2>2, <2>3, <2>4, <2>5, <1>3, <1>11, <1>12, PoolFacts DEF PumpReady
<1>14. QED BY <1>1, <1>2, <1>3, <1>5, <1>6, <1>9, <1>13

\* The step property of PriorityOrder.
StartOrder ==
  \A i, j \in DOMAIN Order(levels) :
    i < j /\ Order(levels)[i] \in InQueue(levels') => Order(levels)[j] \in InQueue(levels')

\* The step property of NoWastedCall.
CallsWorthMaking ==
  \A t \in called' \ called : t \notin expired /\ outcome[t] \in {"none", "waiting"}

\* submit(): a rejected task changes nothing but its answer, an admitted one
\* joins the order behind its level and the pump runs.
LEMMA SubmitStep ==
  ASSUME PoolInv, NEW t \in Tasks, Submit(t)
  PROVE  PoolInv' /\ StartOrder /\ CallsWorthMaking
<1>1. CASE Saturated /\ outcome' = [outcome EXCEPT ![t] = "rejected"] /\ UNCHANGED <<levels, running, called, expired>>
  <2>1. outcome[t] = "none"
    BY DEF Submit
  <2>2. outcome' \in [Tasks -> Outcomes] /\ \A x \in Tasks : outcome'[x] = IF x = t THEN "rejected" ELSE outcome[x]
    BY <1>1, PoolFacts DEF Outcomes
  <2>3. PoolTypeOK' /\ SlotsAccountedFor' /\ Distinct(levels')
    BY <1>1, <2>2 DEF PoolInv, PoolTypeOK, SlotsAccountedFor, Queued
  <2>4. /\ \A x \in InQueue(levels') \cup running' : outcome'[x] # "none"
        /\ \A x \in InQueue(levels') \ expired' : outcome'[x] = "waiting"
    BY <1>1, <2>1, <2>2, PoolFacts DEF PoolInv
  <2>5. PoolInv'
    BY <2>3, <2>4 DEF PoolInv
  <2>6. StartOrder /\ CallsWorthMaking
    BY <1>1, PoolFacts, QueueMembers DEF StartOrder, CallsWorthMaking
  <2>7. QED BY <2>5, <2>6
<1>2. ASSUME NEW q, q = [levels EXCEPT ![Level[t]] = Append(@, t)], ~Saturated,
             Pump(q, running, [outcome EXCEPT ![t] = "waiting"])
      PROVE  PoolInv' /\ StartOrder /\ CallsWorthMaking
  <2>1. /\ PumpReady(q, running, [outcome EXCEPT ![t] = "waiting"])
        /\ InQueue(q) = InQueue(levels) \cup {t}
    BY <1>2, AdmitReady DEF Submit
  <2>2. PICK f \in [1..Size(Order(levels)) -> 1..Size(Order(q))] :
                 /\ \A i \in 1..Size(Order(levels)) : Order(q)[f[i]] = Order(levels)[i]
                 /\ \A i, j \in 1..Size(Order(levels)) : i < j => f[i] < f[j]
    BY <1>2, AdmitReady DEF Submit
  <2>3. /\ PoolInv'
        /\ called' \ called \subseteq InQueue(q) \ expired
        /\ \A i, j \in 1..Size(Order(q)) :
              i < j /\ Order(q)[i] \in InQueue(levels') => Order(q)[j] \in InQueue(levels')
    BY <2>1, <1>2, PumpStep DEF PoolInv, Submit
  <2>4. StartOrder
    <3>1. DOMAIN Order(levels) = 1..Size(Order(levels))
      BY PoolFacts, QueueMembers
    <3>2. QED BY <3>1, <2>2, <2>3 DEF StartOrder
  <2>5. CallsWorthMaking
    BY <2>1, <2>3 DEF CallsWorthMaking, PoolInv, Submit
  <2>6. QED BY <2>3, <2>4, <2>5
<1>3. QED BY <1>1, <1>2 DEF Submit

\* runOne(): whatever a port call ends with, its slot is free when the pump runs.
LEMMA CallEndsStep ==
  ASSUME PoolInv, NEW t \in Tasks, NEW r \in {"ok", "BUDGET", "DEGRADED"}, CallEnds(t, r)
  PROVE  PoolInv' /\ StartOrder /\ CallsWorthMaking
<1>1. PICK s \in Outcomes \ {"none"} : s = StatusFor(r)
  BY DEF StatusFor, Outcomes
<1>2. PICK answers : answers = [outcome EXCEPT ![t] = IF @ = "waiting" THEN s ELSE @]
  OBVIOUS
<1>3. t \in running /\ Pump(levels, running \ {t}, answers) /\ UNCHANGED expired
  BY <1>1, <1>2 DEF CallEnds
<1>4. PumpReady(levels, running \ {t}, answers)
  BY <1>1, <1>2, <1>3, FinishReady
<1>5. /\ PoolInv'
      /\ called' \ called \subseteq InQueue(levels) \ expired
      /\ \A i, j \in 1..Size(Order(levels)) :
           i < j /\ Order(levels)[i] \in InQueue(levels') => Order(levels)[j] \in InQueue(levels')
  BY <1>3, <1>4, PumpStep DEF PoolInv
<1>6. StartOrder
  BY <1>5, PoolFacts, QueueMembers DEF StartOrder
<1>7. CallsWorthMaking
  BY <1>5 DEF CallsWorthMaking, PoolInv
<1>8. QED BY <1>5, <1>6, <1>7

\* Every step keeps the invariant, the order and the promise of worthwhile calls.
LEMMA PoolStep ==
  ASSUME PoolInv, [PoolNext]_poolVars
  PROVE  PoolInv' /\ StartOrder /\ CallsWorthMaking
<1> USE DEF StartOrder, CallsWorthMaking
<1>1. ASSUME NEW t \in Tasks, Submit(t) PROVE PoolInv' /\ StartOrder /\ CallsWorthMaking
  BY <1>1, SubmitStep
<1>2. ASSUME NEW t \in Tasks, NEW r \in {"ok", "BUDGET", "DEGRADED"}, CallEnds(t, r)
      PROVE PoolInv' /\ StartOrder /\ CallsWorthMaking
  BY <1>2, CallEndsStep
<1>3. ASSUME UNCHANGED levels PROVE StartOrder
  BY <1>3, PoolFacts, QueueMembers
<1>4. ASSUME NEW t \in Tasks, Expire(t) PROVE PoolInv' /\ StartOrder /\ CallsWorthMaking
  <2>1. PoolInv'
    BY <1>4 DEF Expire, PoolInv, PoolTypeOK, SlotsAccountedFor, Queued
  <2>2. QED BY <2>1, <1>3, <1>4 DEF Expire
<1>5. ASSUME NEW t \in Tasks, Watchdog(t) PROVE PoolInv' /\ StartOrder /\ CallsWorthMaking
  <2>1. outcome' \in [Tasks -> Outcomes] /\ \A x \in Tasks : outcome'[x] = IF x = t THEN "watchdog" ELSE outcome[x]
    BY <1>5, PoolFacts DEF Watchdog, Outcomes
  <2>2. PoolTypeOK' /\ SlotsAccountedFor' /\ Distinct(levels')
    BY <1>5, <2>1 DEF Watchdog, PoolInv, PoolTypeOK, SlotsAccountedFor, Queued
  <2>3. /\ \A x \in InQueue(levels') \cup running' : outcome'[x] # "none"
        /\ \A x \in InQueue(levels') \ expired' : outcome'[x] = "waiting"
    BY <1>5, <2>1, PoolFacts DEF Watchdog, PoolInv
  <2>4. PoolInv'
    BY <2>2, <2>3 DEF PoolInv
  <2>5. QED BY <2>4, <1>3, <1>5 DEF Watchdog
<1>6. CASE UNCHANGED poolVars
  <2>1. PoolInv'
    BY <1>6 DEF poolVars, PoolInv, PoolTypeOK, SlotsAccountedFor, Queued
  <2>2. QED BY <2>1, <1>3, <1>6 DEF poolVars
<1>7. QED BY <1>1, <1>2, <1>4, <1>5, <1>6 DEF PoolNext

\* The invariant of the task pool holds in every reachable state.
THEOREM PoolInductive == PoolSpec => []PoolInv
  BY PoolInvInit, PoolStep, PTL DEF PoolSpec

\* Every reachable state of the task pool has its type.
THEOREM PoolTyped == PoolSpec => []PoolTypeOK
  BY PoolInductive, PTL DEF PoolInv

\* "a bounded executor": whatever path a task leaves by, a task waits only while
\* every slot is held by a port call, and what is queued or running stays within
\* the saturation bound of submit().
THEOREM NoSlotLeaks == PoolSpec => []SlotsAccountedFor
  BY PoolInductive, PTL DEF PoolInv

\* strict priority, FIFO within a level: a task that leaves the queue leaves none
\* that stood before it, whatever expires in between.
THEOREM StrictPriority == PoolSpec => PriorityOrder
<1>1. PoolInv /\ [PoolNext]_poolVars =>
       [\A i, j \in DOMAIN Order(levels) :
          i < j /\ Order(levels)[i] \in InQueue(levels') =>
            Order(levels)[j] \in InQueue(levels')]_poolVars
  BY PoolStep DEF StartOrder
<1>2. QED BY <1>1, PoolInductive, PTL DEF PoolSpec, PriorityOrder

\* pump() and the submit watchdog: no port call is made for a task whose deadline
\* passed while it was queued, or that has been answered.
THEOREM CallsNotWasted == PoolSpec => NoWastedCall
<1>1. PoolInv /\ [PoolNext]_poolVars =>
       [\A t \in called' \ called : t \notin expired /\ outcome[t] \in {"none", "waiting"}]_poolVars
  BY PoolStep DEF CallsWorthMaking
<1>2. QED BY <1>1, PoolInductive, PTL DEF PoolSpec, NoWastedCall

-----------------------------------------------------------------------------
(***************************************************************************)
(* The watchdog: any compartments and limits, and any number of ticks under*)
(* way at once.                                                            *)
(*                                                                         *)
(* A tick that waits for a termination still owes the compartments after it*)
(* a sample, and a later tick may pay that debt.  The invariant bounds the *)
(* streak of a compartment together with the samples owed to it: a tick    *)
(* that samples it moves one from the debt to the streak, and only a new   *)
(* eviction can add one to the debt.                                       *)
(***************************************************************************)

\* The compartments are numbered by the order of router.status().
LEMMA IndexOf ==
  /\ IsFiniteSet(Compartments)
  /\ \A c \in Compartments : Index(c) \in Nat /\ Entries[Index(c)] = c
<1>1. Entries \in Seq(Compartments) /\ Compartments = {Entries[i] : i \in DOMAIN Entries}
  BY HandlesAssumption DEF Compartments, ToSet
<1>2. DOMAIN Entries = 1..Len(Entries) /\ Len(Entries) \in Nat
  BY <1>1
<1>3. ASSUME NEW c \in Compartments PROVE Index(c) \in Nat /\ Entries[Index(c)] = c
  <2>1. \E i \in DOMAIN Entries : Entries[i] = c
    BY <1>1
  <2>2. Index(c) \in DOMAIN Entries /\ Entries[Index(c)] = c
    BY <2>1 DEF Index
  <2>3. QED BY <2>2, <1>2
<1>4. IsFiniteSet(1..Len(Entries))
  BY <1>2, FS_Interval
<1> DEFINE f == [i \in 1..Len(Entries) |-> Entries[i]]
<1>5. f \in Surjection(1..Len(Entries), Compartments)
  BY <1>1, <1>2 DEF Surjection
<1>6. QED BY <1>3, <1>4, <1>5, FS_Surjection

\* The first of some compartments in that order.
LEMMA Earliest ==
  ASSUME NEW D \in SUBSET Compartments, D # {}
  PROVE  \E c \in D : \A d \in D : Index(c) <= Index(d)
<1> DEFINE T == {Index(c) : c \in D}
<1>1. T \subseteq Nat /\ T # {}
  BY IndexOf
<1>2. \E x \in T : \A y \in T : ~(<<y, x>> \in OpToRel(<, Nat))
  <2> HIDE DEF T
  <2>1. QED BY <1>1, NatLessThanWellFounded, WFMin
<1>3. \A x, y \in Nat : y < x => <<y, x>> \in OpToRel(<, Nat)
  BY SMT DEF OpToRel
<1>4. \E x \in T : \A y \in T : ~(y < x)
  <2> HIDE DEF T
  <2>1. QED BY <1>1, <1>2, <1>3, Zenon
<1>5. PICK x \in T : \A y \in T : x <= y
  BY <1>1, <1>4
<1>6. QED BY <1>5

\* A tick that waits for a termination.
TickRow == [at : Compartments, rest : SUBSET Compartments]
\* The ticks that wait, oldest first.
Ticks == Seq(TickRow)

\* The compartments that the suspended ticks of s have evicted; those whose
\* ticks still owe compartment c a sample; no two of them wait for the same.
Ats(s) == {s[i].at : i \in DOMAIN s}
\* The compartments whose termination is waited for by a tick that still has c
\* to sample.
Owed(s, c) == {s[i].at : i \in {j \in DOMAIN s : c \in s[j].rest}}
\* No two ticks wait for the same termination.
Apart(s) == \A i, j \in DOMAIN s : s[i].at = s[j].at => i = j

\* The ticks of x, then those of y, then those of z.
Joined(x, y, z) == x \o y \o z
\* No tick of x, y or z waits for a termination that one of another waits for.
Separate(x, y, z) ==
  /\ Apart(x) /\ Apart(y) /\ Apart(z)
  /\ Ats(x) \cap Ats(y) = {} /\ Ats(x) \cap Ats(z) = {} /\ Ats(y) \cap Ats(z) = {}

\* The ticks of three separate sequences joined.
LEMMA JoinedTicks ==
  ASSUME NEW x \in Ticks, NEW y \in Ticks, NEW z \in Ticks, Separate(x, y, z)
  PROVE  /\ Joined(x, y, z) \in Ticks
         /\ Ats(Joined(x, y, z)) = Ats(x) \cup Ats(y) \cup Ats(z)
         /\ \A c : Owed(Joined(x, y, z), c) = Owed(x, c) \cup Owed(y, c) \cup Owed(z, c)
         /\ Apart(Joined(x, y, z))
<1>1. PICK s : s = x \o y \o z /\ s = Joined(x, y, z)
  BY DEF Joined
<1>2. PICK a \in Nat, b \in Nat, d \in Nat : a = Len(x) /\ b = Len(y) /\ d = Len(z)
  BY DEF Ticks
<1>3. /\ s \in Ticks /\ DOMAIN s = 1..(a + b + d)
      /\ DOMAIN x = 1..a /\ DOMAIN y = 1..b /\ DOMAIN z = 1..d
      /\ \A i \in 1..a : s[i] = x[i]
      /\ \A i \in 1..b : s[a + i] = y[i]
      /\ \A i \in 1..d : s[a + b + i] = z[i]
  <2>1. PICK p : p = x \o y /\ s = p \o z
    BY <1>1
  <2>2. /\ p \in Ticks /\ Len(p) = a + b
        /\ \A i \in 1..a : p[i] = x[i]
        /\ \A i \in 1..b : p[a + i] = y[i]
    BY <2>1, <1>2 DEF Ticks
  <2>3. /\ s \in Ticks /\ Len(s) = a + b + d
        /\ \A i \in 1..(a + b) : s[i] = p[i]
        /\ \A i \in 1..d : s[a + b + i] = z[i]
    BY <2>1, <2>2, <1>2 DEF Ticks
  <2>4. /\ DOMAIN s = 1..(a + b + d)
        /\ DOMAIN x = 1..a /\ DOMAIN y = 1..b /\ DOMAIN z = 1..d
    BY <2>3, <1>2 DEF Ticks
  <2>5. (\A i \in 1..a : i \in 1..(a + b)) /\ (\A i \in 1..b : a + i \in 1..(a + b))
    OBVIOUS
  <2>6. QED BY <2>2, <2>3, <2>4, <2>5
<1>4. \A k \in 1..(a + b + d) : \/ k \in 1..a
                                \/ \E i \in 1..b : k = a + i
                                \/ \E i \in 1..d : k = a + b + i
  <2> TAKE k \in 1..(a + b + d)
  <2>1. CASE k <= a
    BY <2>1
  <2>2. CASE k > a /\ k <= a + b
    <3>1. k - a \in 1..b /\ k = a + (k - a)
      BY <2>2
    <3>2. QED BY <3>1
  <2>3. CASE k > a + b
    <3>1. k - (a + b) \in 1..d /\ k = a + b + (k - (a + b))
      BY <2>3
    <3>2. QED BY <3>1
  <2>4. QED BY <2>1, <2>2, <2>3
<1>5. /\ \A i \in 1..a : i \in 1..(a + b + d)
      /\ \A i \in 1..b : a + i \in 1..(a + b + d)
      /\ \A i \in 1..d : a + b + i \in 1..(a + b + d)
  OBVIOUS
<1>6. ASSUME NEW k \in DOMAIN s
      PROVE  \/ \E i \in DOMAIN x : s[k] = x[i]
             \/ \E i \in DOMAIN y : s[k] = y[i]
             \/ \E i \in DOMAIN z : s[k] = z[i]
  <2>1. CASE k \in 1..a
    <3>1. k \in DOMAIN x /\ s[k] = x[k]
      BY <2>1, <1>3
    <3>2. QED BY <3>1
  <2>2. CASE \E i \in 1..b : k = a + i
    <3>1. PICK i \in 1..b : k = a + i
      BY <2>2
    <3>2. i \in DOMAIN y /\ s[k] = y[i]
      BY <3>1, <1>3
    <3>3. QED BY <3>2
  <2>3. CASE \E i \in 1..d : k = a + b + i
    <3>1. PICK i \in 1..d : k = a + b + i
      BY <2>3
    <3>2. i \in DOMAIN z /\ s[k] = z[i]
      BY <3>1, <1>3
    <3>3. QED BY <3>2
  <2>4. k \in 1..(a + b + d)
    BY <1>3
  <2>5. QED BY <2>1, <2>2, <2>3, <2>4, <1>4
<1>7. /\ \A i \in DOMAIN x : \E k \in DOMAIN s : s[k] = x[i]
      /\ \A i \in DOMAIN y : \E k \in DOMAIN s : s[k] = y[i]
      /\ \A i \in DOMAIN z : \E k \in DOMAIN s : s[k] = z[i]
  BY <1>3, <1>5
<1>8. Ats(s) = Ats(x) \cup Ats(y) \cup Ats(z)
  <2>1. Ats(s) \subseteq Ats(x) \cup Ats(y) \cup Ats(z)
    BY <1>6, Zenon DEF Ats
  <2>2. Ats(x) \subseteq Ats(s) /\ Ats(y) \subseteq Ats(s) /\ Ats(z) \subseteq Ats(s)
    BY <1>7 DEF Ats
  <2>3. QED BY <2>1, <2>2
<1>9. ASSUME NEW c PROVE Owed(s, c) = Owed(x, c) \cup Owed(y, c) \cup Owed(z, c)
  <2>1. Owed(s, c) \subseteq Owed(x, c) \cup Owed(y, c) \cup Owed(z, c)
    <3> SUFFICES ASSUME NEW k \in DOMAIN s, c \in s[k].rest
                 PROVE  s[k].at \in Owed(x, c) \cup Owed(y, c) \cup Owed(z, c)
      BY Zenon DEF Owed
    <3>1. QED BY <1>6 DEF Owed
  <2>2. Owed(x, c) \subseteq Owed(s, c) /\ Owed(y, c) \subseteq Owed(s, c) /\ Owed(z, c) \subseteq Owed(s, c)
    BY <1>7 DEF Owed
  <2>3. QED BY <2>1, <2>2
<1>10. Apart(s)
  <2>1. /\ \A i \in DOMAIN x : x[i].at \in Ats(x)
        /\ \A i \in DOMAIN y : y[i].at \in Ats(y)
        /\ \A i \in DOMAIN z : z[i].at \in Ats(z)
    BY DEF Ats
  <2> SUFFICES ASSUME NEW i \in 1..(a + b + d), NEW j \in 1..(a + b + d), s[i].at = s[j].at PROVE i = j
    BY <1>3 DEF Apart
  <2> DEFINE InX(k) == k \in 1..a /\ k \in DOMAIN x /\ s[k] = x[k] /\ s[k].at \in Ats(x)
             InY(k) == \E m \in DOMAIN y : k = a + m /\ s[k] = y[m] /\ s[k].at \in Ats(y)
             InZ(k) == \E m \in DOMAIN z : k = a + b + m /\ s[k] = z[m] /\ s[k].at \in Ats(z)
  <2>2. ASSUME NEW k \in 1..(a + b + d) PROVE InX(k) \/ InY(k) \/ InZ(k)
    <3>1. CASE k \in 1..a
      BY <3>1, <2>1, <1>3
    <3>2. CASE \E m \in 1..b : k = a + m
      BY <3>2, <2>1, <1>3
    <3>3. CASE \E m \in 1..d : k = a + b + m
      BY <3>3, <2>1, <1>3
    <3>4. QED BY <3>1, <3>2, <3>3, <1>4
  <2>3. CASE InX(i) /\ InX(j)
    BY <2>3 DEF Apart, Separate
  <2>4. CASE InY(i) /\ InY(j)
    BY <2>4 DEF Apart, Separate
  <2>5. CASE InZ(i) /\ InZ(j)
    BY <2>5 DEF Apart, Separate
  <2>6. /\ ~(s[i].at \in Ats(x) /\ s[i].at \in Ats(y))
        /\ ~(s[i].at \in Ats(x) /\ s[i].at \in Ats(z))
        /\ ~(s[i].at \in Ats(y) /\ s[i].at \in Ats(z))
    BY DEF Separate
  <2>7. QED BY <2>2, <2>3, <2>4, <2>5, <2>6, Zenon
<1>11. QED BY <1>1, <1>3, <1>8, <1>9, <1>10

\* The ticks of s without the compartments that another one samples.
Due(s, done) == [i \in DOMAIN s |-> [s[i] EXCEPT !.rest = @ \ done]]

\* Ticks that find the compartments of done no longer due.
LEMMA DueTicks ==
  ASSUME NEW s \in Ticks, NEW done \in SUBSET Compartments
  PROVE  LET due == Due(s, done)
         IN /\ due \in Ticks /\ Ats(due) = Ats(s)
            /\ \A c : Owed(due, c) = IF c \in done THEN {} ELSE Owed(s, c)
            /\ Apart(s) => Apart(due)
<1>1. PICK n \in Nat : DOMAIN s = 1..n /\ \A i \in 1..n : s[i] \in TickRow
  BY DEF Ticks
<1>2. PICK due : due = Due(s, done) /\ due = [i \in DOMAIN s |-> [s[i] EXCEPT !.rest = @ \ done]]
  BY DEF Due
<1>3. /\ DOMAIN due = 1..n
      /\ \A i \in 1..n : /\ due[i] \in TickRow /\ due[i].at = s[i].at
                         /\ due[i].rest = s[i].rest \ done
  BY <1>1, <1>2 DEF TickRow
<1>4. due \in Ticks
  <2>1. due = [i \in 1..n |-> due[i]]
    BY <1>1, <1>2
  <2>2. QED BY <2>1, <1>3, SeqDef DEF Ticks
<1>5. Ats(due) = Ats(s)
  BY <1>1, <1>3 DEF Ats
<1>6. \A c : Owed(due, c) = IF c \in done THEN {} ELSE Owed(s, c)
  BY <1>1, <1>3 DEF Owed
<1>7. Apart(s) => Apart(due)
  BY <1>1, <1>3 DEF Apart
<1>8. QED BY <1>2, <1>4, <1>5, <1>6, <1>7

\* A tick that evicts a and has R left to sample.
LEMMA OneTick ==
  ASSUME NEW a \in Compartments, NEW R \in SUBSET Compartments
  PROVE  LET s == <<[at |-> a, rest |-> R]>>
         IN /\ s \in Ticks /\ Apart(s) /\ Ats(s) = {a}
            /\ \A c : Owed(s, c) = IF c \in R THEN {a} ELSE {}
<1>1. [at |-> a, rest |-> R] \in TickRow
  BY DEF TickRow
<1>2. PICK s : s = <<[at |-> a, rest |-> R]>>
  OBVIOUS
<1>3. s \in Ticks /\ DOMAIN s = {1} /\ s[1].at = a /\ s[1].rest = R
  BY <1>1, <1>2 DEF Ticks
<1>4. QED BY <1>2, <1>3 DEF Apart, Ats, Owed

\* No tick waits.
LEMMA NoTick ==
  /\ <<>> \in Ticks /\ Apart(<<>>) /\ Ats(<<>>) = {}
  /\ \A c : Owed(<<>>, c) = {}
<1>1. <<>> \in Ticks /\ DOMAIN <<>> = {}
  BY DEF Ticks
<1>2. QED BY <1>1 DEF Apart, Ats, Owed

\* The ticks before and after the one that resumes.
LEMMA CutTicks ==
  ASSUME NEW s \in Ticks, Apart(s), NEW i \in DOMAIN s
  PROVE  LET x == SubSeq(s, 1, i - 1)
             z == SubSeq(s, i + 1, Len(s))
         IN /\ x \in Ticks /\ z \in Ticks /\ Apart(x) /\ Apart(z) /\ Ats(x) \cap Ats(z) = {}
            /\ Ats(x) \cup Ats(z) = Ats(s) \ {s[i].at}
            /\ \A c : Owed(x, c) \cup Owed(z, c) = Owed(s, c) \ {s[i].at}
<1>1. PICK n \in Nat : n = Len(s) /\ DOMAIN s = 1..n /\ \A k \in 1..n : s[k] \in TickRow
  BY DEF Ticks
<1>2. i \in 1..n
  BY <1>1
<1>3. PICK x, z : x = SubSeq(s, 1, i - 1) /\ z = SubSeq(s, i + 1, Len(s))
  OBVIOUS
<1>4. x \in Ticks /\ DOMAIN x = 1..(i - 1) /\ \A k \in 1..(i - 1) : x[k] = s[k]
  BY <1>1, <1>2, <1>3 DEF Ticks
<1>5. z \in Ticks /\ DOMAIN z = 1..(n - i) /\ \A k \in 1..(n - i) : z[k] = s[i + k]
  BY <1>1, <1>2, <1>3 DEF Ticks
<1>6. /\ \A k \in 1..n : k # i => k \in 1..(i - 1) \/ \E m \in 1..(n - i) : k = i + m
      /\ \A k \in 1..(i - 1) : k \in 1..n /\ k # i
      /\ \A m \in 1..(n - i) : i + m \in 1..n /\ i + m # i /\ ~(i + m \in 1..(i - 1))
  <2>1. \A k \in 1..n : k > i => k - i \in 1..(n - i) /\ k = i + (k - i)
    BY <1>2
  <2>2. QED BY <2>1, <1>2
<1>7. \A k \in 1..n : s[k].at = s[i].at => k = i
  BY <1>1, <1>2 DEF Apart
<1>8. Apart(x)
  BY <1>1, <1>4, <1>6 DEF Apart
<1>9. Apart(z)
  <2> SUFFICES ASSUME NEW k \in 1..(n - i), NEW m \in 1..(n - i), z[k].at = z[m].at PROVE k = m
    BY <1>5, Zenon DEF Apart
  <2>1. i + k \in DOMAIN s /\ i + m \in DOMAIN s /\ s[i + k].at = s[i + m].at
    BY <1>1, <1>5, <1>6
  <2>2. i + k = i + m
    BY <2>1, Zenon DEF Apart
  <2>3. QED BY <2>2, <1>2
<1>10. \A k \in DOMAIN x : k \in DOMAIN s /\ k # i /\ x[k] = s[k]
  BY <1>1, <1>4, <1>6
<1>11. \A k \in DOMAIN z : \E m \in DOMAIN s : m # i /\ z[k] = s[m] /\ ~(m \in DOMAIN x)
  BY <1>1, <1>4, <1>5, <1>6
<1>12. ASSUME NEW k \in DOMAIN s, k # i
       PROVE  \/ k \in DOMAIN x /\ x[k] = s[k]
              \/ \E m \in DOMAIN z : z[m] = s[k]
  <2>1. CASE k \in 1..(i - 1)
    BY <2>1, <1>4
  <2>2. CASE \E m \in 1..(n - i) : k = i + m
    BY <2>2, <1>5
  <2>3. QED BY <1>12, <2>1, <2>2, <1>1, <1>6
<1>13. Ats(x) \cap Ats(z) = {}
  <2> SUFFICES ASSUME NEW k \in DOMAIN x, NEW m \in DOMAIN z, x[k].at = z[m].at PROVE FALSE
    BY Zenon DEF Ats
  <2>1. PICK o \in DOMAIN s : o # i /\ z[m] = s[o] /\ ~(o \in DOMAIN x)
    BY <1>11
  <2>2. k \in DOMAIN s /\ s[k].at = s[o].at
    BY <2>1, <1>10
  <2>3. QED BY <2>1, <2>2 DEF Apart
<1>14. Ats(x) \cup Ats(z) = Ats(s) \ {s[i].at}
  <2>1. Ats(x) \subseteq Ats(s) \ {s[i].at}
    BY <1>10, <1>7, <1>1 DEF Ats
  <2>2. Ats(z) \subseteq Ats(s) \ {s[i].at}
    BY <1>11, <1>7, <1>1 DEF Ats
  <2>3. Ats(s) \ {s[i].at} \subseteq Ats(x) \cup Ats(z)
    BY <1>12 DEF Ats
  <2>4. QED BY <2>1, <2>2, <2>3
<1>15. ASSUME NEW c PROVE Owed(x, c) \cup Owed(z, c) = Owed(s, c) \ {s[i].at}
  <2>1. Owed(x, c) \subseteq Owed(s, c) \ {s[i].at}
    BY <1>10, <1>7, <1>1 DEF Owed
  <2>2. Owed(z, c) \subseteq Owed(s, c) \ {s[i].at}
    BY <1>11, <1>7, <1>1 DEF Owed
  <2>3. Owed(s, c) \ {s[i].at} \subseteq Owed(x, c) \cup Owed(z, c)
    BY <1>12 DEF Owed
  <2>4. QED BY <2>1, <2>2, <2>3
<1>16. QED BY <1>3, <1>4, <1>5, <1>8, <1>9, <1>13, <1>14, <1>15

\* The evictions in their order.
EvictionSeq == Seq(Compartments)
\* Compartment c is among the evictions e.
Gone(e, c) == \E i \in DOMAIN e : e[i] = c
\* The number of evictions.
Rounds(e) == Len(e)

\* An eviction of a compartment that was not evicted.
LEMMA Evicting ==
  ASSUME NEW e \in EvictionSeq, IsInjective(e), NEW c \in Compartments, ~Gone(e, c)
  PROVE  /\ Append(e, c) \in EvictionSeq /\ IsInjective(Append(e, c))
         /\ Rounds(Append(e, c)) = Rounds(e) + 1
         /\ \A d : Gone(Append(e, c), d) <=> Gone(e, d) \/ d = c
<1>1. PICK n \in Nat : n = Len(e) /\ DOMAIN e = 1..n /\ \A i \in 1..n : e[i] \in Compartments
  BY DEF EvictionSeq
<1>2. PICK f : f = Append(e, c)
  OBVIOUS
<1>3. /\ f \in EvictionSeq /\ DOMAIN f = 1..(n + 1) /\ Len(f) = n + 1
      /\ \A i \in 1..n : f[i] = e[i]
      /\ f[n + 1] = c
  BY <1>1, <1>2 DEF EvictionSeq
<1>4. 1..(n + 1) = 1..n \cup {n + 1} /\ ~(n + 1 \in 1..n)
  BY <1>1
<1>5. \A i, j \in 1..n : e[i] = e[j] => i = j
  BY <1>1 DEF IsInjective
<1>6. IsInjective(f)
  BY <1>1, <1>3, <1>4, <1>5 DEF IsInjective, Gone
<1>7. \A d : Gone(f, d) <=> Gone(e, d) \/ d = c
  BY <1>1, <1>3, <1>4 DEF Gone
<1>8. QED BY <1>1, <1>2, <1>3, <1>6, <1>7 DEF Rounds

\* There are no more ticks that wait than compartments evicted.
LEMMA OwedBound ==
  ASSUME NEW s \in Ticks, NEW e \in EvictionSeq, \A a \in Ats(s) : Gone(e, a), NEW c
  PROVE  /\ IsFiniteSet(Owed(s, c)) /\ Cardinality(Owed(s, c)) \in Nat
         /\ Cardinality(Owed(s, c)) <= Rounds(e) /\ Rounds(e) \in Nat
<1>1. PICK n \in Nat : n = Len(e) /\ DOMAIN e = 1..n
  BY DEF EvictionSeq
<1>2. PICK E : E = {e[i] : i \in 1..n}
  OBVIOUS
<1>3. IsFiniteSet(E) /\ Cardinality(E) <= n
  BY <1>2, TakenBound
<1>4. Owed(s, c) \subseteq Ats(s)
  BY DEF Owed, Ats
<1>5. Ats(s) \subseteq E
  BY <1>1, <1>2 DEF Gone
<1>6. Owed(s, c) \in SUBSET E
  BY <1>4, <1>5
<1>7. IsFiniteSet(Owed(s, c)) /\ Cardinality(Owed(s, c)) <= Cardinality(E)
  BY <1>3, <1>6, FS_Subset
<1>8. Cardinality(Owed(s, c)) \in Nat /\ Cardinality(E) \in Nat
  BY <1>3, <1>7, FS_CardinalityType
<1>9. QED BY <1>1, <1>3, <1>7, <1>8 DEF Rounds

\* What a tick does from its start or from an await on: it samples the
\* compartments of done, and evicts new, none or one of them.
Ran(R, older, newer, old, done, new) ==
  /\ done \subseteq R /\ new \subseteq done
  /\ \A c \in done : ~Gone(evictions, c)
  /\ \A c \in done : c \notin new => ~Doomed(Sampled(old[c]))
  /\ track' = [c \in Compartments |-> IF c \in done THEN Sampled(old[c]) ELSE old[c]]
  /\ probed' = probed \cup done
  /\ state' = state \/ \E c \in Compartments : state' = [state EXCEPT ![c] = "stopped"]
  /\ evictions' \in EvictionSeq /\ IsInjective(evictions')
  /\ \A c : Gone(evictions', c) <=> Gone(evictions, c) \/ c \in new
  /\ \/ new = {} /\ Rounds(evictions') = Rounds(evictions)
     \/ \E c \in done : new = {c} /\ Rounds(evictions') = Rounds(evictions) + 1
  /\ suspended' \in Ticks
  /\ Ats(suspended') = Ats(older) \cup Ats(newer) \cup new
  /\ Apart(suspended')
  /\ \A c \in done : Owed(suspended', c) = Owed(newer, c)
  /\ \A c : Owed(suspended', c) \subseteq
              Owed(older, c) \cup Owed(newer, c) \cup (IF c \in R THEN new ELSE {})

\* A tick, from its start or from an await on, does what Ran says, whichever
\* compartments it has left and whatever other ticks wait.
LEMMA RunEffect ==
  ASSUME evictions \in EvictionSeq, IsInjective(evictions),
         NEW R \in SUBSET Compartments, NEW older \in Ticks, NEW newer \in Ticks, NEW old,
         Apart(older), Apart(newer), Ats(older) \cap Ats(newer) = {},
         \A a \in Ats(older) \cup Ats(newer) : Gone(evictions, a),
         Run(R, older, newer, old)
  PROVE  \E done, new \in SUBSET Compartments : Ran(R, older, newer, old, done, new)
<1>1. PICK left : left = {c \in R : ~Gone(evictions, c)}
  OBVIOUS
<1>2. left = {c \in R : ~Evicted(c)}
  BY <1>1 DEF Evicted, Gone
<1>3. PICK doomed : doomed = {c \in left : Doomed(Sampled(old[c]))}
  OBVIOUS
<1>4. CASE doomed = {}
  <2>1. PICK due : due = Due(older, left)
    OBVIOUS
  <2>2. PICK none : none = <<>>
    OBVIOUS
  <2>3. /\ track' = [c \in Compartments |-> IF c \in left THEN Sampled(old[c]) ELSE old[c]]
        /\ probed' = probed \cup left /\ evictions' = evictions /\ state' = state
        /\ suspended' = Joined(due, none, newer)
    BY <1>2, <1>3, <1>4, <2>1, <2>2 DEF Run, Due, Joined
  <2>4. left \in SUBSET Compartments
    BY <1>1
  <2>5. /\ due \in Ticks /\ Ats(due) = Ats(older) /\ Apart(due)
        /\ \A c : Owed(due, c) = IF c \in left THEN {} ELSE Owed(older, c)
    BY <2>1, <2>4, DueTicks
  <2>6. none \in Ticks /\ Apart(none) /\ Ats(none) = {} /\ \A c : Owed(none, c) = {}
    BY <2>2, NoTick
  <2>7. /\ suspended' \in Ticks
        /\ Ats(suspended') = Ats(due) \cup Ats(none) \cup Ats(newer)
        /\ \A c : Owed(suspended', c) = Owed(due, c) \cup Owed(none, c) \cup Owed(newer, c)
        /\ Apart(suspended')
    <3>1. /\ Ats(due) \cap Ats(none) = {} /\ Ats(due) \cap Ats(newer) = {}
          /\ Ats(none) \cap Ats(newer) = {}
      BY <2>5, <2>6
    <3>2. due \in Ticks /\ none \in Ticks /\ newer \in Ticks
      BY <2>5, <2>6
    <3>3. Separate(due, none, newer)
      BY <2>5, <2>6, <3>1 DEF Separate
    <3>4. /\ Joined(due, none, newer) \in Ticks
          /\ Ats(Joined(due, none, newer)) = Ats(due) \cup Ats(none) \cup Ats(newer)
          /\ \A c : Owed(Joined(due, none, newer), c)
                     = Owed(due, c) \cup Owed(none, c) \cup Owed(newer, c)
          /\ Apart(Joined(due, none, newer))
      BY <3>2, <3>3, JoinedTicks
    <3>5. QED BY <2>3, <3>4
  <2>8. Ran(R, older, newer, old, left, {})
    BY <1>1, <1>3, <1>4, <2>3, <2>4, <2>5, <2>6, <2>7 DEF Ran
  <2>9. QED BY <2>4, <2>8
<1>5. CASE doomed # {}
  <2>1. PICK first : first = CHOOSE c \in doomed : \A d \in doomed : Index(c) <= Index(d)
    OBVIOUS
  <2>2. first \in doomed /\ \A d \in doomed : Index(first) <= Index(d)
    <3>1. doomed \in SUBSET Compartments
      BY <1>1, <1>3
    <3>2. QED BY <1>5, <2>1, <3>1, Earliest
  <2>3. PICK done : done = {c \in left : Index(c) <= Index(first)}
    OBVIOUS
  <2>4. PICK due : due = Due(older, done)
    OBVIOUS
  <2>5. PICK mine : mine = <<[at |-> first, rest |-> left \ done]>>
    OBVIOUS
  <2>6. /\ track' = [c \in Compartments |-> IF c \in done THEN Sampled(old[c]) ELSE old[c]]
        /\ probed' = probed \cup done
        /\ evictions' = Append(evictions, first)
        /\ state' = [state EXCEPT ![first] = "stopped"]
        /\ suspended' = Joined(due, mine, newer)
    BY <1>2, <1>3, <1>5, <2>1, <2>3, <2>4, <2>5 DEF Run, Due, Joined
  <2>7. /\ first \in left /\ left \in SUBSET Compartments /\ left \subseteq R
        /\ \A c \in left : ~Gone(evictions, c)
    BY <1>1, <1>3, <2>2
  <2>8. /\ first \in done /\ done \in SUBSET Compartments /\ done \subseteq left
    <3>1. Index(first) \in Nat
      BY <2>7, IndexOf
    <3>2. QED BY <2>3, <2>7, <3>1
  <2>9. \A c \in done : c # first => ~Doomed(Sampled(old[c]))
    <3> SUFFICES ASSUME NEW c \in done, Doomed(Sampled(old[c])) PROVE c = first
      OBVIOUS
    <3>1. c \in doomed /\ Index(c) <= Index(first)
      BY <1>3, <2>3
    <3>2. Index(first) <= Index(c)
      BY <2>2, <3>1
    <3>3. Index(c) \in Nat /\ Index(first) \in Nat /\ Entries[Index(c)] = c /\ Entries[Index(first)] = first
      BY <2>7, <2>8, IndexOf
    <3>4. Index(c) = Index(first)
      BY <3>1, <3>2, <3>3
    <3>5. QED BY <3>3, <3>4
  <2>10. /\ due \in Ticks /\ Ats(due) = Ats(older) /\ Apart(due)
         /\ \A c : Owed(due, c) = IF c \in done THEN {} ELSE Owed(older, c)
    BY <2>4, <2>8, DueTicks
  <2>11. /\ mine \in Ticks /\ Apart(mine) /\ Ats(mine) = {first}
         /\ \A c : Owed(mine, c) = IF c \in left \ done THEN {first} ELSE {}
    <3>1. first \in Compartments /\ left \ done \in SUBSET Compartments
      BY <2>7
    <3>2. QED BY <2>5, <3>1, OneTick
  <2>12. first \notin Ats(older) /\ first \notin Ats(newer)
    BY <2>7
  <2>13. /\ suspended' \in Ticks
         /\ Ats(suspended') = Ats(due) \cup Ats(mine) \cup Ats(newer)
         /\ \A c : Owed(suspended', c) = Owed(due, c) \cup Owed(mine, c) \cup Owed(newer, c)
         /\ Apart(suspended')
    <3>1. /\ Ats(due) \cap Ats(mine) = {} /\ Ats(due) \cap Ats(newer) = {}
          /\ Ats(mine) \cap Ats(newer) = {}
      BY <2>10, <2>11, <2>12
    <3>2. due \in Ticks /\ mine \in Ticks /\ newer \in Ticks
      BY <2>10, <2>11
    <3>3. Separate(due, mine, newer)
      BY <2>10, <2>11, <3>1 DEF Separate
    <3>4. /\ Joined(due, mine, newer) \in Ticks
          /\ Ats(Joined(due, mine, newer)) = Ats(due) \cup Ats(mine) \cup Ats(newer)
          /\ \A c : Owed(Joined(due, mine, newer), c)
                     = Owed(due, c) \cup Owed(mine, c) \cup Owed(newer, c)
          /\ Apart(Joined(due, mine, newer))
      BY <3>2, <3>3, JoinedTicks
    <3>5. QED BY <2>6, <3>4
  <2>14. /\ evictions' \in EvictionSeq /\ IsInjective(evictions')
         /\ Rounds(evictions') = Rounds(evictions) + 1
         /\ \A c : Gone(evictions', c) <=> Gone(evictions, c) \/ c = first
    <3>1. first \in Compartments /\ ~Gone(evictions, first)
      BY <2>7
    <3>2. QED BY <2>6, <3>1, Evicting
  <2>15. Ran(R, older, newer, old, done, {first})
    <3>1. /\ done \subseteq R /\ {first} \subseteq done
          /\ \A c \in done : ~Gone(evictions, c)
          /\ \A c \in done : c \notin {first} => ~Doomed(Sampled(old[c]))
          /\ track' = [c \in Compartments |-> IF c \in done THEN Sampled(old[c]) ELSE old[c]]
          /\ probed' = probed \cup done
      BY <2>6, <2>7, <2>8, <2>9
    <3>2. \E c \in Compartments : state' = [state EXCEPT ![c] = "stopped"]
      BY <2>6, <2>7
    <3>3. \A c : Gone(evictions', c) <=> Gone(evictions, c) \/ c \in {first}
      BY <2>14
    <3>4. \E c \in done : {first} = {c} /\ Rounds(evictions') = Rounds(evictions) + 1
      BY <2>8, <2>14
    <3>5. Ats(suspended') = Ats(older) \cup Ats(newer) \cup {first}
      BY <2>10, <2>11, <2>13
    <3>6. \A c \in done : Owed(suspended', c) = Owed(newer, c)
      BY <2>10, <2>11, <2>13
    <3>7. \A c : Owed(suspended', c) \subseteq
              Owed(older, c) \cup Owed(newer, c) \cup (IF c \in R THEN {first} ELSE {})
      BY <2>7, <2>10, <2>11, <2>13
    <3>8. QED BY <2>13, <2>14, <3>1, <3>2, <3>3, <3>4, <3>5, <3>6, <3>7 DEF Ran
  <2>16. QED BY <2>7, <2>8, <2>15
<1>6. QED BY <1>4, <1>5

\* The record of a track.
TrackRec == [pending : BOOLEAN, miss : 0..MissLimit, over : 0..OverLimit, sampled : BOOLEAN]

\* A streak belongs to a probe that is pending, and a compartment that no tick
\* sampled has no track.
FreshTrack(t) == (~t.sampled => t = NoTrack) /\ (t.miss > 0 => t.pending)

\* The misses of a track and the one it will have if its probe is not answered.
Bill(t) == t.miss + (IF t.pending THEN 1 ELSE 0)

\* The track of a compartment that was never sampled, or was dropped.
LEMMA NoTrackFacts ==
  NoTrack \in TrackRec /\ FreshTrack(NoTrack) /\ NoTrack.miss = 0 /\ Bill(NoTrack) = 0 /\ ~NoTrack.sampled
  BY WatchdogAssumption DEF NoTrack, TrackRec, FreshTrack, Bill

\* A sample adds one to the bill, and a streak below the limit stays within it.
LEMMA SampledFacts ==
  ASSUME NEW t \in TrackRec, t.miss < MissLimit, FreshTrack(t)
  PROVE  /\ Sampled(t) \in TrackRec /\ FreshTrack(Sampled(t)) /\ Bill(Sampled(t)) = Bill(t) + 1
         /\ Bill(t) \in Nat
         /\ ~t.sampled => Bill(t) = 0
         /\ ~Doomed(Sampled(t)) => Sampled(t).miss < MissLimit
<1>1. PICK u : u = Sampled(t)
  OBVIOUS
<1>2. t.miss \in Nat /\ t.miss + 1 \in 0..MissLimit /\ MissLimit \in Nat
  BY WatchdogAssumption DEF TrackRec
<1>3. CASE t.pending
  <2>1. /\ u \in TrackRec /\ u.pending /\ u.sampled /\ u.miss = t.miss + 1
    BY <1>1, <1>2, <1>3 DEF Sampled, TrackRec
  <2>2. Bill(t) = t.miss + 1 /\ Bill(u) = t.miss + 2
    BY <2>1, <1>2, <1>3 DEF Bill
  <2>3. t.sampled
    BY <1>3 DEF FreshTrack, NoTrack
  <2>4. ~Doomed(u) => u.miss < MissLimit
    BY <2>1, <1>2 DEF Doomed
  <2>5. QED BY <1>1, <1>2, <2>1, <2>2, <2>3, <2>4 DEF FreshTrack
<1>4. CASE ~t.pending
  <2>1. /\ u \in TrackRec /\ u.pending /\ u.sampled /\ u.miss = t.miss
    BY <1>1, <1>2, <1>4 DEF Sampled, TrackRec
  <2>2. t.miss = 0
    BY <1>2, <1>4 DEF FreshTrack
  <2>3. Bill(t) = 0 /\ Bill(u) = 1
    BY <2>1, <2>2, <1>4 DEF Bill
  <2>4. QED BY <1>1, <1>2, <2>1, <2>2, <2>3, WatchdogAssumption DEF FreshTrack
<1>5. QED BY <1>3, <1>4

\* What an interval may count besides its own: as many samples as evictions.
Spare(e) == IF Rounds(e) > 1 THEN Rounds(e) ELSE 1

\* The streak of a compartment with the samples that ticks still owe it.
Paid(c) ==
  silent[c] < MissLimit =>
    Bill(track[c]) + Cardinality(Owed(suspended, c)) <= silent[c] + Spare(evictions)

\* The shape of the evictions and of the ticks that wait for one to end.
TicksInv ==
  /\ evictions \in EvictionSeq /\ IsInjective(evictions)
  /\ suspended \in Ticks /\ Apart(suspended)
  /\ \A a \in Ats(suspended) : Gone(evictions, a)

\* A compartment that goes has a full streak or is over its budget; afterwards
\* it has a track as long as a tick waits for its termination.
TracksInv ==
  /\ track \in [Compartments -> TrackRec]
  /\ \A c \in Compartments :
       /\ FreshTrack(track[c])
       /\ ~Gone(evictions, c) => track[c].miss < MissLimit
       /\ Gone(evictions, c) /\ c \notin Ats(suspended) => track[c] = NoTrack

\* The inductive invariant of the watchdog.
WatchInv ==
  /\ ThreadsInv /\ probed \subseteq Compartments /\ TicksInv /\ TracksInv
  /\ silent \in [Compartments -> 0..MissLimit]
  /\ \A c \in Compartments : Paid(c)

\* The invariant holds when the watchdog starts.
LEMMA WatchInvInit == WatchInit => WatchInv
<1> SUFFICES ASSUME WatchInit PROVE WatchInv
  OBVIOUS
<1>1. ThreadsInv
  BY DEF WatchInit, HandlesInit, ThreadsInv, HandlesTypeOK
<1>2. probed \subseteq Compartments /\ silent \in [Compartments -> 0..MissLimit]
  BY WatchdogAssumption DEF WatchInit
<1>3. evictions = <<>> /\ suspended = <<>>
  BY DEF WatchInit
<1>4. <<>> \in EvictionSeq /\ IsInjective(<<>>) /\ Rounds(<<>>) = 0
  BY DEF EvictionSeq, IsInjective, Rounds
<1>5. TicksInv
  BY <1>3, <1>4, NoTick DEF TicksInv
<1>6. \A c : ~Gone(<<>>, c)
  BY DEF Gone
<1>7. \A c \in Compartments : track[c] = NoTrack
  BY DEF WatchInit
<1>8. TracksInv
  <2>1. track \in [Compartments -> TrackRec]
    BY NoTrackFacts DEF WatchInit
  <2>2. QED BY <1>3, <1>6, <1>7, <2>1, NoTrackFacts, WatchdogAssumption DEF TracksInv
<1>9. ASSUME NEW c \in Compartments PROVE Paid(c)
  <2>1. Owed(suspended, c) = {} /\ Cardinality({}) = 0
    BY <1>3, NoTick, FS_EmptySet
  <2>2. silent[c] = 0 /\ Bill(track[c]) = 0 /\ Spare(evictions) = 1
    BY <1>3, <1>4, <1>7, NoTrackFacts DEF WatchInit, Spare
  <2>3. QED BY <2>1, <2>2 DEF Paid
<1>10. QED BY <1>1, <1>2, <1>5, <1>8, <1>9 DEF WatchInv

\* A tick keeps the shape of the ticks, and the tracks of what it did not forget.
LEMMA RanKeeps ==
  ASSUME WatchInv, NEW R \in SUBSET Compartments, NEW older, NEW newer, NEW done, NEW new,
         NEW old \in [Compartments -> TrackRec],
         \A c \in Compartments : FreshTrack(old[c]) /\ (~Gone(evictions, c) => old[c].miss < MissLimit),
         \A c \in Compartments : Gone(evictions, c) /\ c \notin Ats(older) \cup Ats(newer) => old[c] = NoTrack,
         \A a \in Ats(older) \cup Ats(newer) : Gone(evictions, a),
         UNCHANGED <<crashes, thread>>, Ran(R, older, newer, old, done, new)
  PROVE  ThreadsInv' /\ probed' \subseteq Compartments /\ TicksInv' /\ TracksInv'
<1>1. /\ done \subseteq Compartments /\ new \subseteq done /\ \A c \in done : ~Gone(evictions, c)
      /\ \A c \in done : c \notin new => ~Doomed(Sampled(old[c]))
      /\ \A c : Gone(evictions', c) <=> Gone(evictions, c) \/ c \in new
      /\ Ats(suspended') = Ats(older) \cup Ats(newer) \cup new
      /\ track' = [c \in Compartments |-> IF c \in done THEN Sampled(old[c]) ELSE old[c]]
  BY DEF Ran
<1>2. ThreadsInv'
  <2>1. state' \in [Compartments -> {"active", "degraded", "stopped"}]
    BY DEF Ran, WatchInv, ThreadsInv, HandlesTypeOK
  <2>2. QED BY <2>1 DEF WatchInv, ThreadsInv, HandlesTypeOK
<1>3. probed' \subseteq Compartments
  BY <1>1 DEF Ran, WatchInv
<1>4. TicksInv'
  BY <1>1 DEF TicksInv, Ran
<1>5. \A c \in done : /\ Sampled(old[c]) \in TrackRec /\ FreshTrack(Sampled(old[c]))
                      /\ c \notin new => Sampled(old[c]).miss < MissLimit
  BY <1>1, SampledFacts
<1>6. track' \in [Compartments -> TrackRec]
  BY <1>1, <1>5
<1>7. ASSUME NEW c \in Compartments
      PROVE  /\ FreshTrack(track'[c])
             /\ ~Gone(evictions', c) => track'[c].miss < MissLimit
             /\ Gone(evictions', c) /\ c \notin Ats(suspended') => track'[c] = NoTrack
  <2>1. CASE c \in done
    <3>1. track'[c] = Sampled(old[c])
      BY <2>1, <1>1
    <3>2. QED BY <2>1, <3>1, <1>1, <1>5
  <2>2. CASE c \notin done
    <3>1. track'[c] = old[c] /\ c \notin new
      BY <2>2, <1>1
    <3>2. QED BY <3>1, <1>1
  <2>3. QED BY <2>1, <2>2
<1>8. TracksInv'
  BY <1>6, <1>7 DEF TracksInv
<1>9. QED BY <1>2, <1>3, <1>4, <1>8

\* The samples owed to a compartment are counted, and are no more than the evictions.
LEMMA OwedCount ==
  ASSUME TicksInv, NEW c
  PROVE  /\ IsFiniteSet(Owed(suspended, c)) /\ Cardinality(Owed(suspended, c)) \in Nat
         /\ Cardinality(Owed(suspended, c)) <= Rounds(evictions) /\ Rounds(evictions) \in Nat
  BY OwedBound DEF TicksInv

\* The same after a step.
LEMMA OwedCountNext ==
  ASSUME TicksInv', NEW c
  PROVE  /\ IsFiniteSet(Owed(suspended', c)) /\ Cardinality(Owed(suspended', c)) \in Nat
         /\ Cardinality(Owed(suspended', c)) <= Rounds(evictions') /\ Rounds(evictions') \in Nat
<1>1. /\ suspended' \in Ticks /\ evictions' \in EvictionSeq
      /\ \A a \in Ats(suspended') : Gone(evictions', a)
  BY DEF TicksInv
<1>2. QED BY <1>1, OwedBound

\* A bill is a number.
LEMMA BillType ==
  ASSUME NEW t \in TrackRec
  PROVE  Bill(t) \in Nat
  BY WatchdogAssumption DEF TrackRec, Bill

\* The interval: a tick pays for the compartments it samples with the interval of
\* silence it adds, and its own eviction is one more to be allowed for.
LEMMA TickStep == WatchInv /\ Tick => WatchInv'
<1> SUFFICES ASSUME WatchInv, Tick PROVE WatchInv'
  OBVIOUS
<1> PICK older : older = suspended
  OBVIOUS
<1> PICK newer : newer = <<>>
  OBVIOUS
<1>1. /\ Run(Active, older, newer, track)
      /\ silent' = [c \in Compartments |->
           IF track[c].sampled /\ silent[c] < MissLimit THEN silent[c] + 1 ELSE silent[c]]
      /\ UNCHANGED <<crashes, thread>>
  BY DEF Tick
<1>2. Active \in SUBSET Compartments
  BY DEF Active
<1>3. newer \in Ticks /\ Apart(newer) /\ Ats(newer) = {} /\ \A c : Owed(newer, c) = {}
  BY NoTick
<1>4. /\ older \in Ticks /\ Apart(older) /\ Ats(older) \cap Ats(newer) = {}
      /\ \A a \in Ats(older) \cup Ats(newer) : Gone(evictions, a)
      /\ evictions \in EvictionSeq /\ IsInjective(evictions)
  BY <1>3 DEF WatchInv, TicksInv
<1>5. PICK done, new \in SUBSET Compartments : Ran(Active, older, newer, track, done, new)
  BY <1>1, <1>2, <1>3, <1>4, RunEffect
<1>6. ThreadsInv' /\ probed' \subseteq Compartments /\ TicksInv' /\ TracksInv'
  <2>1. /\ track \in [Compartments -> TrackRec]
        /\ \A c \in Compartments : FreshTrack(track[c]) /\ (~Gone(evictions, c) => track[c].miss < MissLimit)
        /\ \A c \in Compartments : Gone(evictions, c) /\ c \notin Ats(older) \cup Ats(newer) => track[c] = NoTrack
    BY DEF WatchInv, TracksInv
  <2>2. QED BY <1>1, <1>2, <1>4, <1>5, <2>1, RanKeeps
<1>7. silent' \in [Compartments -> 0..MissLimit]
  BY <1>1, WatchdogAssumption DEF WatchInv
<1>8. ASSUME NEW c \in Compartments, silent'[c] < MissLimit
      PROVE  Bill(track'[c]) + Cardinality(Owed(suspended', c)) <= silent'[c] + Spare(evictions')
  <2>1. PICK b, k, n, s, m :
          /\ b = Bill(track[c]) /\ k = Cardinality(Owed(suspended, c)) /\ n = Rounds(evictions)
          /\ s = silent[c] /\ m = Rounds(evictions')
    OBVIOUS
  <2>2. /\ b \in Nat /\ k \in Nat /\ n \in Nat /\ k <= n /\ s \in Nat /\ m \in Nat
        /\ FreshTrack(track[c]) /\ track[c] \in TrackRec
    <3>1. k \in Nat /\ k <= n /\ n \in Nat
      BY <2>1, OwedCount DEF WatchInv
    <3>2. track[c] \in TrackRec /\ FreshTrack(track[c])
      BY DEF WatchInv, TracksInv
    <3>3. m \in Nat
      BY <2>1, <1>6, OwedCountNext
    <3>4. s \in Nat
      BY <2>1 DEF WatchInv
    <3>5. QED BY <2>1, <3>1, <3>2, <3>3, <3>4, BillType
  <2>3. ~track[c].sampled => b = 0
    BY <2>1, <2>2, NoTrackFacts DEF FreshTrack
  <2>4. silent'[c] = IF track[c].sampled THEN s + 1 ELSE s
    BY <1>1, <1>8, <2>1, <2>2, WatchdogAssumption DEF WatchInv
  <2>5. b + k <= s + (IF n > 1 THEN n ELSE 1)
    <3>1. silent[c] < MissLimit
      BY <1>8, <2>1, <2>2, <2>4, WatchdogAssumption
    <3>2. QED BY <2>1, <3>1 DEF WatchInv, Paid, Spare
  <2>6. n <= m
    BY <2>1, <2>2, <1>5 DEF Ran
  <2>7. CASE c \in done
    <3>1. Owed(suspended', c) = {}
      BY <2>7, <1>3, <1>5 DEF Ran
    <3>2. Cardinality(Owed(suspended', c)) = 0
      BY <3>1, FS_EmptySet
    <3>3. track'[c] = Sampled(track[c]) /\ ~Gone(evictions, c)
      BY <2>7, <1>5 DEF Ran
    <3>4. track[c].miss < MissLimit
      BY <3>3 DEF WatchInv, TracksInv
    <3>5. Bill(track'[c]) = b + 1
      BY <3>3, <3>4, <2>1, <2>2, SampledFacts
    <3>6. b + 1 + 0 <= silent'[c] + (IF m > 1 THEN m ELSE 1)
      BY <2>2, <2>3, <2>4, <2>5, <2>6
    <3>7. QED BY <3>2, <3>5, <3>6, <2>1 DEF Spare
  <2>8. CASE c \notin done
    <3>1. Bill(track'[c]) = b
      BY <2>8, <2>1, <1>5 DEF Ran
    <3>2. PICK j : j = Cardinality(Owed(suspended', c))
      OBVIOUS
    <3>3. j \in Nat /\ j <= m
      BY <3>2, <2>1, <1>6, OwedCountNext
    <3>4. Owed(suspended', c) \subseteq Owed(suspended, c) \cup new
      BY <1>3, <1>5 DEF Ran
    <3>5. CASE new = {}
      <4>1. Owed(suspended', c) \in SUBSET Owed(suspended, c) /\ IsFiniteSet(Owed(suspended, c))
        BY <3>4, <3>5, OwedCount DEF WatchInv
      <4>2. j <= k
        BY <4>1, <3>2, <2>1, FS_Subset
      <4>3. b + j <= silent'[c] + (IF m > 1 THEN m ELSE 1)
        BY <4>2, <3>3, <2>2, <2>4, <2>5, <2>6
      <4>4. QED BY <4>3, <3>1, <3>2, <2>1 DEF Spare
    <3>6. CASE new # {}
      <4>1. PICK first : new = {first}
        BY <3>6, <1>5 DEF Ran
      <4>2. m = n + 1
        BY <3>6, <2>1, <1>5 DEF Ran
      <4>3. IsFiniteSet(Owed(suspended, c))
        BY OwedCount DEF WatchInv
      <4>4. /\ IsFiniteSet(Owed(suspended, c) \cup {first})
            /\ Cardinality(Owed(suspended, c) \cup {first}) \in {k, k + 1}
        BY <4>3, <2>1, FS_AddElement
      <4>5. Owed(suspended', c) \in SUBSET (Owed(suspended, c) \cup {first})
        BY <3>4, <4>1
      <4>6. j <= k + 1
        BY <4>4, <4>5, <3>2, <3>3, <2>2, FS_Subset
      <4>7. b + j <= silent'[c] + (IF m > 1 THEN m ELSE 1)
        BY <4>2, <4>6, <3>3, <2>2, <2>3, <2>4, <2>5
      <4>8. QED BY <4>7, <3>1, <3>2, <2>1 DEF Spare
    <3>7. QED BY <3>5, <3>6
  <2>9. QED BY <2>7, <2>8
<1>9. QED BY <1>6, <1>7, <1>8 DEF WatchInv, Paid

\* A termination ends: the compartments its tick still owed are paid for by the
\* debt, also where it passes the debt on to a new eviction.
LEMMA TerminatedStep ==
  ASSUME WatchInv, NEW i, Terminated(i)
  PROVE  WatchInv'
<1>1. i \in DOMAIN suspended
  BY DEF Terminated
<1>2. PICK older, newer, R, a, old :
         /\ older = SubSeq(suspended, 1, i - 1)
         /\ newer = SubSeq(suspended, i + 1, Len(suspended))
         /\ R = suspended[i].rest /\ a = suspended[i].at
         /\ old = [track EXCEPT ![a] = NoTrack]
  OBVIOUS
<1>3. Run(R, older, newer, old) /\ UNCHANGED <<crashes, thread, silent>>
  BY <1>2 DEF Terminated
<1>4. suspended \in Ticks /\ Apart(suspended)
  BY DEF WatchInv, TicksInv
<1>5. a \in Compartments /\ R \in SUBSET Compartments
  <2>1. suspended[i] \in TickRow
    BY <1>1, <1>4 DEF Ticks
  <2>2. QED BY <2>1, <1>2 DEF TickRow
<1>6. /\ older \in Ticks /\ newer \in Ticks /\ Apart(older) /\ Apart(newer)
      /\ Ats(older) \cap Ats(newer) = {}
      /\ Ats(older) \cup Ats(newer) = Ats(suspended) \ {a}
      /\ \A c : Owed(older, c) \cup Owed(newer, c) = Owed(suspended, c) \ {a}
  BY <1>1, <1>4, <1>2, CutTicks
<1>7. /\ evictions \in EvictionSeq /\ IsInjective(evictions)
      /\ \A x \in Ats(suspended) : Gone(evictions, x)
  BY DEF WatchInv, TicksInv
<1>8. Gone(evictions, a)
  BY <1>1, <1>7, <1>2 DEF Ats
<1>9. \A x \in Ats(older) \cup Ats(newer) : Gone(evictions, x)
  BY <1>6, <1>7
<1>10. PICK done, new \in SUBSET Compartments : Ran(R, older, newer, old, done, new)
  BY <1>3, <1>5, <1>6, <1>7, <1>9, RunEffect
<1>11. /\ track \in [Compartments -> TrackRec]
       /\ \A c \in Compartments :
            /\ FreshTrack(track[c]) /\ track[c] \in TrackRec
            /\ ~Gone(evictions, c) => track[c].miss < MissLimit
            /\ Gone(evictions, c) /\ c \notin Ats(suspended) => track[c] = NoTrack
  BY DEF WatchInv, TracksInv
<1>12. /\ old \in [Compartments -> TrackRec] /\ old[a] = NoTrack
       /\ \A c \in Compartments : c # a => old[c] = track[c]
  BY <1>5, <1>11, <1>2, NoTrackFacts
<1>13. ThreadsInv' /\ probed' \subseteq Compartments /\ TicksInv' /\ TracksInv'
  <2>1. \A c \in Compartments : FreshTrack(old[c]) /\ (~Gone(evictions, c) => old[c].miss < MissLimit)
    BY <1>8, <1>11, <1>12, NoTrackFacts
  <2>2. \A c \in Compartments : Gone(evictions, c) /\ c \notin Ats(older) \cup Ats(newer) => old[c] = NoTrack
    BY <1>6, <1>11, <1>12
  <2>3. QED BY <1>3, <1>5, <1>9, <1>10, <1>12, <2>1, <2>2, RanKeeps
<1>14. silent' \in [Compartments -> 0..MissLimit]
  BY <1>3 DEF WatchInv
<1>15. ASSUME NEW c \in Compartments, silent'[c] < MissLimit
       PROVE  Bill(track'[c]) + Cardinality(Owed(suspended', c)) <= silent'[c] + Spare(evictions')
  <2>1. PICK b, k, n, s, m, j :
          /\ b = Bill(track[c]) /\ k = Cardinality(Owed(suspended, c)) /\ n = Rounds(evictions)
          /\ s = silent[c] /\ m = Rounds(evictions') /\ j = Cardinality(Owed(suspended', c))
    OBVIOUS
  <2>2. /\ b \in Nat /\ k \in Nat /\ n \in Nat /\ k <= n /\ s \in Nat /\ m \in Nat
        /\ j \in Nat /\ j <= m
    <3>1. k \in Nat /\ k <= n /\ n \in Nat
      BY <2>1, OwedCount DEF WatchInv
    <3>2. m \in Nat /\ j \in Nat /\ j <= m
      BY <2>1, <1>13, OwedCountNext
    <3>3. s \in Nat
      BY <2>1 DEF WatchInv
    <3>4. QED BY <2>1, <3>1, <3>2, <3>3, <1>11, BillType
  <2>3. silent'[c] = s /\ b + k <= s + (IF n > 1 THEN n ELSE 1)
    BY <1>3, <1>15, <2>1 DEF WatchInv, Paid, Spare
  <2>4. n <= m
    BY <2>1, <2>2, <1>10 DEF Ran
  <2>5. IsFiniteSet(Owed(suspended, c))
    BY OwedCount DEF WatchInv
  <2>6. /\ IsFiniteSet(Owed(suspended, c) \ {a})
        /\ Cardinality(Owed(suspended, c) \ {a}) = IF a \in Owed(suspended, c) THEN k - 1 ELSE k
    BY <2>1, <2>5, FS_RemoveElement
  <2>7. c \in R => a \in Owed(suspended, c)
    BY <1>1, <1>2 DEF Owed
  <2>8. CASE c = a
    <3>1. c \notin done
      BY <2>8, <1>8, <1>10 DEF Ran
    <3>2. track'[c] = NoTrack
      BY <2>8, <3>1, <1>10, <1>12 DEF Ran
    <3>3. Bill(track'[c]) = 0
      BY <3>2, NoTrackFacts
    <3>4. 0 + j <= s + (IF m > 1 THEN m ELSE 1)
      BY <2>2
    <3>5. QED BY <3>3, <3>4, <2>1, <2>3 DEF Spare
  <2>9. CASE c \in done
    <3>1. Owed(suspended', c) = Owed(newer, c) /\ c \in R /\ ~Gone(evictions, c)
      BY <2>9, <1>10 DEF Ran
    <3>2. Owed(suspended', c) \in SUBSET (Owed(suspended, c) \ {a})
      BY <3>1, <1>6
    <3>3. j <= k - 1
      BY <3>1, <3>2, <2>1, <2>6, <2>7, FS_Subset
    <3>4. c # a /\ track'[c] = Sampled(track[c])
      BY <3>1, <2>9, <1>8, <1>10, <1>12 DEF Ran
    <3>5. Bill(track'[c]) = b + 1
      BY <3>1, <3>4, <2>1, <1>11, SampledFacts
    <3>6. b + 1 + j <= s + (IF m > 1 THEN m ELSE 1)
      BY <3>3, <2>2, <2>3, <2>4
    <3>7. QED BY <3>5, <3>6, <2>1, <2>3 DEF Spare
  <2>10. CASE c # a /\ c \notin done
    <3>1. Bill(track'[c]) = b
      BY <2>10, <2>1, <1>10, <1>12 DEF Ran
    <3>2. Owed(suspended', c) \subseteq (Owed(suspended, c) \ {a}) \cup (IF c \in R THEN new ELSE {})
      <4>1. Owed(suspended', c) \subseteq
              Owed(older, c) \cup Owed(newer, c) \cup (IF c \in R THEN new ELSE {})
        BY <1>10 DEF Ran
      <4>2. QED BY <4>1, <1>6
    <3>3. j <= k
      <4>1. CASE c \in R /\ new # {}
        <5>1. PICK first : new = {first}
          BY <4>1, <1>10 DEF Ran
        <5>2. Owed(suspended', c) \in SUBSET ((Owed(suspended, c) \ {a}) \cup {first})
          BY <3>2, <4>1, <5>1
        <5>3. Cardinality(Owed(suspended, c) \ {a}) = k - 1
          BY <4>1, <2>6, <2>7
        <5>4. PICK others : others = Owed(suspended, c) \ {a}
          OBVIOUS
        <5>5. /\ IsFiniteSet(others \cup {first})
              /\ \/ Cardinality(others \cup {first}) = k - 1
                 \/ Cardinality(others \cup {first}) = k - 1 + 1
          <6>1. IsFiniteSet(others) /\ Cardinality(others) = k - 1
            BY <2>6, <5>3, <5>4
          <6>2. QED BY <6>1, FS_AddElement
        <5>6. j <= Cardinality(others \cup {first})
          BY <5>2, <5>4, <5>5, <2>1, FS_Subset
        <5>7. QED BY <5>5, <5>6, <2>2
      <4>2. CASE ~(c \in R /\ new # {})
        <5>1. Owed(suspended', c) \in SUBSET (Owed(suspended, c) \ {a})
          BY <3>2, <4>2
        <5>2. j <= Cardinality(Owed(suspended, c) \ {a})
          BY <5>1, <2>1, <2>6, FS_Subset
        <5>3. QED BY <5>2, <2>2, <2>6
      <4>3. QED BY <4>1, <4>2
    <3>4. b + j <= s + (IF m > 1 THEN m ELSE 1)
      BY <3>3, <2>2, <2>3, <2>4
    <3>5. QED BY <3>1, <3>4, <2>1, <2>3 DEF Spare
  <2>11. QED BY <2>8, <2>9, <2>10
<1>16. QED BY <1>13, <1>14, <1>15 DEF WatchInv, Paid

\* An answer clears the bill of a compartment that is sampled.
LEMMA AnsweredFacts ==
  ASSUME NEW t \in TrackRec, NEW heavy \in BOOLEAN, t.sampled
  PROVE  /\ Answered(t, heavy) \in TrackRec /\ FreshTrack(Answered(t, heavy))
         /\ Answered(t, heavy).miss = 0 /\ Bill(Answered(t, heavy)) = 0
<1>1. PICK o : o = IF ~heavy THEN 0 ELSE IF t.over < OverLimit THEN t.over + 1 ELSE t.over
  OBVIOUS
<1>2. o \in 0..OverLimit
  <2>1. t.over \in 0..OverLimit /\ OverLimit \in Nat
    BY WatchdogAssumption DEF TrackRec
  <2>2. QED BY <1>1, <2>1
<1>3. PICK u : u = [t EXCEPT !.pending = FALSE, !.miss = 0, !.over = o]
  OBVIOUS
<1>4. u = Answered(t, heavy)
  BY <1>1, <1>3 DEF Answered
<1>5. u \in TrackRec /\ ~u.pending /\ u.miss = 0 /\ u.sampled
  <2>1. t \in [pending : BOOLEAN, miss : 0..MissLimit, over : 0..OverLimit, sampled : BOOLEAN]
    BY DEF TrackRec
  <2>2. u = [pending |-> FALSE, miss |-> 0, over |-> o, sampled |-> t.sampled]
    BY <1>3, <2>1
  <2>3. t.sampled = TRUE
    BY <2>1
  <2>4. u = [pending |-> FALSE, miss |-> 0, over |-> o, sampled |-> TRUE] /\ 0 \in 0..MissLimit
    BY <2>2, <2>3, WatchdogAssumption
  <2>5. QED BY <1>2, <2>4 DEF TrackRec
<1>6. QED BY <1>4, <1>5 DEF FreshTrack, Bill

\* onMessage(): an answer ends the silence and the streak of its compartment, and
\* what ticks still owe it is within what the evictions allow.
LEMMA AnswerStep ==
  ASSUME WatchInv, NEW c \in Compartments, NEW heavy \in BOOLEAN, Answer(c, heavy)
  PROVE  WatchInv'
<1>1. ThreadsInv' /\ TicksInv' /\ probed' \subseteq Compartments /\ silent' \in [Compartments -> 0..MissLimit]
  <2>1. ThreadsInv'
    BY DEF Answer, hostVars, WatchInv, ThreadsInv, HandlesTypeOK
  <2>2. TicksInv'
    BY DEF Answer, WatchInv, TicksInv
  <2>3. probed' \subseteq Compartments /\ silent' \in [Compartments -> 0..MissLimit]
    BY WatchdogAssumption DEF Answer, WatchInv
  <2>4. QED BY <2>1, <2>2, <2>3
<1>2. /\ track \in [Compartments -> TrackRec]
      /\ \A x \in Compartments :
           /\ FreshTrack(track[x]) /\ track[x] \in TrackRec
           /\ ~Gone(evictions, x) => track[x].miss < MissLimit
           /\ Gone(evictions, x) /\ x \notin Ats(suspended) => track[x] = NoTrack
  BY DEF WatchInv, TracksInv
<1>3. /\ track' \in [Compartments -> TrackRec]
      /\ \A x \in Compartments : x # c => track'[x] = track[x]
      /\ FreshTrack(track'[c]) /\ track'[c].miss = 0 /\ Bill(track'[c]) = 0
      /\ ~track[c].sampled => track'[c] = track[c]
  <2>1. CASE track[c].sampled
    <3>1. PICK t : t = Answered(track[c], heavy)
      OBVIOUS
    <3>2. track' = [track EXCEPT ![c] = t]
      BY <2>1, <3>1 DEF Answer
    <3>3. t \in TrackRec /\ FreshTrack(t) /\ t.miss = 0 /\ Bill(t) = 0
      BY <2>1, <3>1, <1>2, AnsweredFacts
    <3>4. QED BY <2>1, <3>2, <3>3, <1>2
  <2>2. CASE ~track[c].sampled
    <3>1. track' = track /\ track[c] = NoTrack
      BY <2>2, <1>2 DEF Answer, FreshTrack
    <3>2. QED BY <2>2, <3>1, <1>2, NoTrackFacts
  <2>3. QED BY <2>1, <2>2
<1>4. evictions' = evictions /\ suspended' = suspended /\ silent' = [silent EXCEPT ![c] = 0]
  BY DEF Answer
<1>5. TracksInv'
  <2>1. ASSUME NEW x \in Compartments
        PROVE  /\ FreshTrack(track'[x])
               /\ ~Gone(evictions', x) => track'[x].miss < MissLimit
               /\ Gone(evictions', x) /\ x \notin Ats(suspended') => track'[x] = NoTrack
    <3>1. CASE x = c
      <4>1. Gone(evictions, c) /\ c \notin Ats(suspended) => track'[c] = NoTrack
        BY <1>2, <1>3, NoTrackFacts
      <4>2. QED BY <3>1, <4>1, <1>3, <1>4, WatchdogAssumption
    <3>2. CASE x # c
      BY <3>2, <1>2, <1>3, <1>4
    <3>3. QED BY <3>1, <3>2
  <2>2. QED BY <2>1, <1>3 DEF TracksInv
<1>6. ASSUME NEW x \in Compartments, silent'[x] < MissLimit
      PROVE  Bill(track'[x]) + Cardinality(Owed(suspended', x)) <= silent'[x] + Spare(evictions')
  <2>1. CASE x = c
    <3>1. PICK k, n : k = Cardinality(Owed(suspended, c)) /\ n = Rounds(evictions)
      OBVIOUS
    <3>2. k \in Nat /\ n \in Nat /\ k <= n
      BY <3>1, OwedCount DEF WatchInv
    <3>3. 0 + k <= 0 + (IF n > 1 THEN n ELSE 1)
      BY <3>2
    <3>4. silent'[c] = 0
      BY <1>4 DEF WatchInv
    <3>5. QED BY <2>1, <3>1, <3>3, <3>4, <1>3, <1>4 DEF Spare
  <2>2. CASE x # c
    <3>1. track'[x] = track[x] /\ silent'[x] = silent[x]
      BY <2>2, <1>3, <1>4 DEF WatchInv
    <3>2. QED BY <3>1, <1>4, <1>6 DEF WatchInv, Paid
  <2>3. QED BY <2>1, <2>2
<1>7. QED BY <1>1, <1>5, <1>6 DEF WatchInv, Paid

\* An event of a thread leaves the watchdog as it is.
LEMMA DogUnchanged ==
  ASSUME WatchInv, ThreadsInv', UNCHANGED dogVars
  PROVE  WatchInv'
<1>1. /\ probed' = probed /\ track' = track /\ evictions' = evictions
      /\ suspended' = suspended /\ silent' = silent
  BY DEF dogVars
<1>2. TicksInv' /\ TracksInv'
  BY <1>1 DEF WatchInv, TicksInv, TracksInv
<1>3. \A c \in Compartments : Paid(c)'
  BY <1>1 DEF WatchInv, Paid
<1>4. QED BY <1>1, <1>2, <1>3 DEF WatchInv

\* Every step keeps the invariant.
LEMMA WatchStep == WatchInv /\ [WatchNext]_watchVars => WatchInv'
<1> SUFFICES ASSUME WatchInv, [WatchNext]_watchVars PROVE WatchInv'
  OBVIOUS
<1>1. CASE Tick
  BY <1>1, TickStep
<1>2. ASSUME NEW i \in 1..Len(Entries), Terminated(i) PROVE WatchInv'
  BY <1>2, TerminatedStep
<1>3. ASSUME NEW c \in Compartments, WorkerError(c) \/ WorkerExit(c) \/ Wedge(c), UNCHANGED dogVars
      PROVE  WatchInv'
  <2>1. ThreadsInv'
    BY <1>3, ThreadsStep DEF WatchInv
  <2>2. QED BY <2>1, <1>3, DogUnchanged
<1>4. ASSUME NEW c \in Compartments, NEW heavy \in BOOLEAN, Answer(c, heavy) PROVE WatchInv'
  BY <1>4, AnswerStep
<1>5. CASE UNCHANGED watchVars
  <2>1. UNCHANGED dogVars
    BY <1>5 DEF watchVars, dogVars
  <2>2. ThreadsInv'
    BY <1>5 DEF watchVars, WatchInv, ThreadsInv, HandlesTypeOK
  <2>3. QED BY <2>1, <2>2, DogUnchanged
<1>6. QED BY <1>1, <1>2, <1>3, <1>4, <1>5 DEF WatchNext

\* The invariant of the watchdog holds in every reachable state.
THEOREM WatchInductive == WatchSpec => []WatchInv
  BY WatchInvInit, WatchStep, PTL DEF WatchSpec

\* The type invariant is part of it.
LEMMA WatchTypeFollows == WatchInv => WatchTypeOK
<1> SUFFICES ASSUME WatchInv PROVE WatchTypeOK
  OBVIOUS
<1>1. \A i \in DOMAIN suspended : suspended[i] \in TickRow
  BY DEF WatchInv, TicksInv, Ticks
<1>2. QED BY <1>1 DEF WatchInv, ThreadsInv, TicksInv, TracksInv, WatchTypeOK, TickRow, TrackRec, EvictionSeq

\* Every reachable state of the watchdog and the handles has its type.
THEOREM WatchTyped == WatchSpec => []WatchTypeOK
  BY WatchInductive, WatchTypeFollows, PTL

\* What the invariant says of evictions.
LEMMA OnceFollows == WatchInv => EvictedOnce
<1> SUFFICES ASSUME WatchInv PROVE EvictedOnce
  OBVIOUS
<1>1. ASSUME NEW c \in Compartments, Evicted(c), \A i \in DOMAIN suspended : suspended[i].at # c
      PROVE  track[c] = NoTrack
  <2>1. Gone(evictions, c) /\ c \notin Ats(suspended)
    BY <1>1 DEF Evicted, Gone, Ats
  <2>2. QED BY <2>1 DEF WatchInv, TracksInv
<1>2. QED BY <1>1 DEF EvictedOnce, WatchInv, TicksInv

\* tick(): however many ticks overlap in their awaits, a compartment is evicted
\* at most once, and once its termination ended nothing of it is kept.
THEOREM EvictionsAreFinal == WatchSpec => []EvictedOnce
  BY WatchInductive, OnceFollows, PTL

\* What the invariant says of a streak that is longer than the silence.
LEMMA MissesFollow == WatchInv => MissesAreIntervals
<1> SUFFICES ASSUME WatchInv, NEW c \in Compartments, track[c].miss > silent[c]
             PROVE  track[c].miss <= silent[c] + Len(evictions) - 1
  BY DEF MissesAreIntervals
<1>1. PICK k, n, s, m :
        k = Cardinality(Owed(suspended, c)) /\ n = Len(evictions) /\ s = silent[c] /\ m = track[c].miss
  OBVIOUS
<1>2. k \in Nat /\ n \in Nat /\ n = Rounds(evictions)
  <2>1. k \in Nat /\ Rounds(evictions) \in Nat
    BY <1>1, OwedCount DEF WatchInv
  <2>2. QED BY <2>1, <1>1 DEF Rounds
<1>3. m \in 0..MissLimit /\ s \in 0..MissLimit /\ FreshTrack(track[c]) /\ MissLimit \in Nat
  BY <1>1, WatchdogAssumption DEF WatchInv, TracksInv, TrackRec
<1>4. m > s
  BY <1>1
<1>5. Bill(track[c]) = m + 1
  <2>1. m > 0
    BY <1>3, <1>4
  <2>2. QED BY <2>1, <1>1, <1>3 DEF FreshTrack, Bill
<1>6. Bill(track[c]) + k <= s + Spare(evictions)
  <2>1. silent[c] < MissLimit
    BY <1>1, <1>3, <1>4
  <2>2. QED BY <2>1, <1>1 DEF WatchInv, Paid
<1>7. m + 1 + k <= s + (IF n > 1 THEN n ELSE 1)
  BY <1>2, <1>5, <1>6 DEF Spare
<1>8. m <= s + n - 1
  BY <1>2, <1>3, <1>4, <1>7
<1>9. QED BY <1>1, <1>8

\* tick() and onMessage(): a streak counts no more than the intervals of silence
\* and the samples of ticks that two or more evictions delayed.
THEOREM StreaksAreIntervals == WatchSpec => []MissesAreIntervals
  BY WatchInductive, MissesFollow, PTL
=============================================================================
