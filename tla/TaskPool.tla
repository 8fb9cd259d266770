------------------------------ MODULE TaskPool ------------------------------
(***************************************************************************)
(* run.submit@1 of plugins/vivim-run: the priority queue (queue.ts), the    *)
(* bounded executor (pool.ts) and the watchdog of the submit op (index.ts). *)
(*                                                                         *)
(* A task's deadline counts from its submission.  A task that is taken      *)
(* after its deadline completes in the same turn without a port call, so    *)
(* one pump() may take many tasks: one action models the pump it triggers.  *)
(***************************************************************************)
EXTENDS Naturals, Sequences, FiniteSets

CONSTANTS
  Tasks,             \* the submissions
  Level,             \* Level[t]: 1 high, 2 normal, 3 low
  Capacity,          \* port calls in progress at once
  SaturationFactor   \* 4 in queue.ts; smaller in the instances

ASSUME PoolAssumption ==
  /\ IsFiniteSet(Tasks)
  /\ Level \in [Tasks -> 1..3]
  /\ Capacity \in Nat \ {0}
  /\ SaturationFactor \in Nat \ {0}

VARIABLES
  levels,    \* the three FIFO levels of PriorityTaskQueue
  running,   \* tasks that hold a running slot: their port call is pending
  expired,   \* submitted tasks whose deadline has passed
  called,    \* history: tasks whose port call was made
  outcome    \* what the submit op answered, "none" before

poolVars == <<levels, running, expired, called, outcome>>

Outcomes == {"none", "waiting", "ok", "timeout", "error", "rejected", "watchdog"}

\* The order take() empties the levels in.
Order(q) == q[1] \o q[2] \o q[3]
InQueue(q) == {Order(q)[i] : i \in DOMAIN Order(q)}
Queued == Len(Order(levels))

PoolInit ==
  /\ levels = [l \in 1..3 |-> <<>>]
  /\ running = {} /\ expired = {} /\ called = {}
  /\ outcome = [t \in Tasks |-> "none"]

\* The tasks among the first n of s that still have budget.
LiveIn(s, n) == {s[i] : i \in 1..n} \ expired

\* Seeded fault: a single take() per pump.
FaultyTakesOne(s, free, n) == n = IF free > 0 /\ s # <<>> THEN 1 ELSE 0

\* pump(): how many tasks of s are taken when `free` slots are free.  An
\* expired task gives its slot back at once; a live one keeps it.
Takes(s, free, n) ==
  /\ n \in 0..Len(s) /\ Cardinality(LiveIn(s, n)) <= free
  /\ n < Len(s) => Cardinality(LiveIn(s, n)) = free
  /\ n > 0 => Cardinality(LiveIn(s, n - 1)) < free

\* Seeded faults: an expired task still makes its port call; the levels are
\* emptied from the lowest.
FaultyPump(q, slots, result) ==
  \E n \in 0..Len(Order(q)) :
    LET s == Order(q)
        taken == {s[i] : i \in 1..n}
    IN /\ n = IF Capacity - Cardinality(slots) < Len(s) THEN Capacity - Cardinality(slots) ELSE Len(s)
       /\ levels' = [l \in 1..3 |-> SelectSeq(q[l], LAMBDA t : t \notin taken)]
       /\ running' = slots \cup taken
       /\ called' = called \cup taken
       /\ outcome' = result

FaultyPumpLowFirst(q, slots, result) ==
  \E n \in 0..Len(Order(q)) :
    LET s == q[3] \o q[2] \o q[1]
        taken == {s[i] : i \in 1..n}
    IN /\ Takes(s, Capacity - Cardinality(slots), n)
       /\ levels' = [l \in 1..3 |-> SelectSeq(q[l], LAMBDA t : t \notin taken)]
       /\ running' = slots \cup (taken \ expired)
       /\ called' = called \cup (taken \ expired)
       /\ outcome' = [t \in Tasks |->
            IF t \in taken \cap expired /\ result[t] = "waiting" THEN "timeout" ELSE result[t]]

\* take(), n times: a level is shifted only once those above it are empty.
Above(q, l) == IF l = 1 THEN 0 ELSE IF l = 2 THEN Len(q[1]) ELSE Len(q[1]) + Len(q[2])
Shifted(q, n) ==
  [l \in 1..3 |-> SubSeq(q[l], IF n > Above(q, l) THEN n - Above(q, l) + 1 ELSE 1, Len(q[l]))]

\* pump() over the levels q with the slots `slots` in use: live tasks start
\* their port call, expired ones resolve.
Pump(q, slots, result) ==
  \E n \in 0..Len(Order(q)) :
    LET s == Order(q)
        taken == {s[i] : i \in 1..n}
    IN /\ Takes(s, Capacity - Cardinality(slots), n)
       /\ levels' = Shifted(q, n)
       /\ running' = slots \cup (taken \ expired)
       /\ called' = called \cup (taken \ expired)
       /\ outcome' = [t \in Tasks |->
            IF t \in taken \cap expired /\ result[t] = "waiting" THEN "timeout" ELSE result[t]]

Saturated == Queued + Cardinality(running) >= Capacity * SaturationFactor

\* run.submit@1: rejected when saturated, queued and pumped otherwise.
Submit(t) ==
  /\ outcome[t] = "none"
  /\ \/ /\ Saturated
        /\ outcome' = [outcome EXCEPT ![t] = "rejected"]
        /\ UNCHANGED <<levels, running, called>>
     \/ /\ ~Saturated
        /\ Pump([levels EXCEPT ![Level[t]] = Append(@, t)], running,
                [outcome EXCEPT ![t] = "waiting"])
  /\ UNCHANGED expired

StatusFor(r) == IF r = "ok" THEN "ok" ELSE IF r = "BUDGET" THEN "timeout" ELSE "error"

\* execute() resumes: the port call returned, ran out of budget or threw.
CallEnds(t, r) ==
  /\ t \in running
  /\ Pump(levels, running \ {t},
          [outcome EXCEPT ![t] = IF @ = "waiting" THEN StatusFor(r) ELSE @])
  /\ UNCHANGED expired

\* The task's deadline passes.
Expire(t) ==
  /\ outcome[t] = "waiting" /\ t \notin expired
  /\ expired' = expired \cup {t}
  /\ UNCHANGED <<levels, running, called, outcome>>

\* Seeded fault: the watchdog covers the port call only.
FaultyWatchdog(t) ==
  /\ outcome[t] = "waiting" /\ t \in expired /\ t \in running
  /\ outcome' = [outcome EXCEPT ![t] = "watchdog"]
  /\ UNCHANGED <<levels, running, expired, called>>

\* The watchdog of the submit op, 2 s after the deadline.
Watchdog(t) ==
  /\ outcome[t] = "waiting" /\ t \in expired
  /\ outcome' = [outcome EXCEPT ![t] = "watchdog"]
  /\ UNCHANGED <<levels, running, expired, called>>

PoolNext ==
  \E t \in Tasks :
    \/ Submit(t) \/ Expire(t) \/ Watchdog(t)
    \/ \E r \in {"ok", "BUDGET", "DEGRADED"} : CallEnds(t, r)

PoolSpec == PoolInit /\ [][PoolNext]_poolVars

\* Deadlines pass and the watchdog's sleep ends, whatever the port calls do.
FairPoolSpec == PoolSpec /\ \A t \in Tasks : WF_poolVars(Expire(t)) /\ WF_poolVars(Watchdog(t))

-----------------------------------------------------------------------------
\* The type invariant.
PoolTypeOK ==
  /\ levels \in [1..3 -> Seq(Tasks)]
  /\ running \subseteq Tasks /\ expired \subseteq Tasks /\ called \subseteq Tasks
  /\ outcome \in [Tasks -> Outcomes]
  /\ \A t \in running : t \notin InQueue(levels)

\* "a bounded executor": no slot leaks and no pump is missed, so a task waits
\* only while every slot is held by a port call, and never more tasks than
\* capacity * factor are admitted and not completed.
SlotsAccountedFor ==
  /\ Queued > 0 => Cardinality(running) = Capacity
  /\ Cardinality(running) <= Capacity
  /\ Queued + Cardinality(running) <= Capacity * SaturationFactor

\* strict priority, FIFO within a level: a task that starts leaves no waiting
\* task before it.
PriorityOrder ==
  [][\A i, j \in DOMAIN Order(levels) :
       i < j /\ Order(levels)[i] \in InQueue(levels') =>
         Order(levels)[j] \in InQueue(levels')]_poolVars

\* "without a wasted port call": no call is made for a task that ran out of
\* budget while queued, nor for one whose caller the watchdog has answered.
NoWastedCall ==
  [][\A t \in called' \ called : t \notin expired /\ outcome[t] \in {"none", "waiting"}]_poolVars

\* no caller hangs, whatever the port calls do and however long a task starves.
EverySubmitAnswered == \A t \in Tasks : outcome[t] = "waiting" ~> outcome[t] # "waiting"
=============================================================================
