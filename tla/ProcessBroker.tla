--------------------------- MODULE ProcessBroker ---------------------------
(***************************************************************************)
(* run.process.call@1 of plugins/vivim-run: a pool of child processes that  *)
(* answer newline-delimited frames (process-broker.ts), over the spawn      *)
(* handle of platform/src/spawn.ts.                                         *)
(*                                                                         *)
(* One action is one turn of the event loop.  A lane is named by the call   *)
(* that spawned it.  The child is unconstrained: it may send any frame at   *)
(* any time, frames buffered in the pipe arrive even after its exit, and it *)
(* may never answer.  Pools do not interact, so one pool is modelled.       *)
(* Events of a lane that is dead, out of the table and without an open race *)
(* change nothing that is read again; they are left out (Heeded).           *)
(***************************************************************************)
EXTENDS Naturals, FiniteSets

CONSTANTS
  Calls,           \* the calls of the pool
  Refusable,       \* the calls whose op, pool or deadline fails validation
  PoolSize,        \* poolSize of the signed config
  MalformedLimit   \* MALFORMED_LIMIT: bad frames a lane may send

ASSUME BrokerAssumption ==
  /\ IsFiniteSet(Calls) /\ "none" \notin Calls /\ Refusable \subseteq Calls
  /\ PoolSize \in Nat \ {0} /\ MalformedLimit \in Nat

VARIABLES
  lanes,     \* ProcessBroker.lanes of the pool
  lane,      \* PoolEntry of every lane ever spawned
  on,        \* the lane call() checked out, "none" before
  phase,     \* where call() stands: its race is open, is settled, is over
  result,    \* what the race settled to
  shutDown

vars == <<lanes, lane, on, phase, result, shutDown>>

InProgress == {c \in Calls : phase[c] \in {"racing", "settled"}}

\* The promises in PoolEntry.pending that are not settled.
Pending(l) == {c \in Calls : phase[c] = "racing" /\ on[c] = l}

NoLane == [busy |-> FALSE, ready |-> FALSE, malformed |-> 0, open |-> FALSE,
           starting |-> FALSE, stopping |-> FALSE]

\* spawnLane(): a busy entry that is not ready, its start timer running.
\* `open` is ~closed of the spawn handle.
NewLane == [NoLane EXCEPT !.busy = TRUE, !.open = TRUE, !.starting = TRUE]

Init ==
  /\ lanes = {}
  /\ lane = [c \in Calls |-> NoLane]
  /\ on = [c \in Calls |-> "none"]
  /\ phase = [c \in Calls |-> "new"]
  /\ result = [c \in Calls |-> "none"]
  /\ shutDown = FALSE

\* checkout(): the lanes it hands out again.
Free == {l \in lanes : ~lane[l].busy /\ lane[l].ready /\ lane[l].malformed = 0}

\* The race of c on the lane l it checked out: writeLine of a closed handle throws, and settles it.
Race(c, l) ==
  /\ on' = [on EXCEPT ![c] = l]
  /\ phase' = [phase EXCEPT ![c] = IF lane'[l].open THEN "racing" ELSE "settled"]
  /\ result' = [result EXCEPT ![c] = IF lane'[l].open THEN @ ELSE "DEGRADED"]

\* An answer without a lane: the broker is shut down, the request is not valid,
\* or checkout() throws: the pool is exhausted, or the child cannot be spawned.
Refuse(c) ==
  /\ phase[c] = "new"
  /\ \/ shutDown /\ result' = [result EXCEPT ![c] = "DEGRADED"]
     \/ ~shutDown /\ c \in Refusable /\ result' = [result EXCEPT ![c] = "REFUSED"]
     \/ ~shutDown /\ c \notin Refusable /\ Free = {} /\ result' = [result EXCEPT ![c] = "DEGRADED"]
  /\ phase' = [phase EXCEPT ![c] = "done"]
  /\ UNCHANGED <<lanes, lane, on, shutDown>>

\* call() over a free lane.
Reuse(c) ==
  /\ phase[c] = "new" /\ ~shutDown /\ c \notin Refusable
  /\ \E l \in Free :
       /\ lane' = [lane EXCEPT ![l] = [@ EXCEPT !.busy = TRUE]]
       /\ Race(c, l)
  /\ UNCHANGED <<lanes, shutDown>>

\* call() over a lane of its own.
Spawn(c) ==
  /\ phase[c] = "new" /\ ~shutDown /\ c \notin Refusable
  /\ Free = {} /\ Cardinality(lanes) < PoolSize
  /\ lanes' = lanes \cup {c}
  /\ lane' = [lane EXCEPT ![c] = NewLane]
  /\ Race(c, c)
  /\ UNCHANGED shutDown

\* resolve() of the promises in cs: only the first settlement of a race counts.
Settle(cs, r) ==
  LET first == {c \in cs : phase[c] = "racing"} IN
  /\ phase' = [c \in Calls |-> IF c \in first THEN "settled" ELSE phase[c]]
  /\ result' = [c \in Calls |-> IF c \in first THEN r ELSE result[c]]

\* The lanes whose events can still matter.
Heeded(l) == l \in lanes \/ lane[l].open \/ Pending(l) # {}

\* retire(): the lane leaves the table and its child is killed.  Nothing reads
\* the entry of a lane outside the table again, so it is forgotten.
Retire(l) == lane' = [lane EXCEPT ![l] = NoLane] /\ lanes' = lanes \ {l}

\* A ready frame: the start timer will find it, and do nothing.
Ready(l) ==
  /\ Heeded(l) /\ ~lane[l].ready
  /\ lane' = [lane EXCEPT ![l].ready = TRUE, ![l].starting = FALSE]
  /\ UNCHANGED <<lanes, on, phase, result, shutDown>>

\* A return frame for a call that is pending; a later one is dropped.
Return(c, r) ==
  /\ phase[c] = "racing"
  /\ Settle({c}, r)
  /\ UNCHANGED <<lanes, lane, on, shutDown>>

\* flagMalformed(): beyond the limit the pending calls fail and the lane is
\* retired.
Malformed(l) ==
  /\ Heeded(l)
  /\ IF lane[l].malformed = MalformedLimit
       THEN Retire(l) /\ Settle(Pending(l), "BUDGET")
       ELSE /\ lane' = [lane EXCEPT ![l].malformed = @ + 1]
            /\ UNCHANGED <<lanes, phase, result>>
  /\ UNCHANGED <<on, shutDown>>

\* The child exits, of itself or because it was killed: onExit of the lane, of
\* its start timer and of shutdownAll().  The lane stays in the table.
Exit(l) ==
  /\ lane[l].open \/ Pending(l) # {}
  /\ lane' = [lane EXCEPT ![l] = [@ EXCEPT !.open = FALSE, !.starting = FALSE, !.stopping = FALSE]]
  /\ Settle(Pending(l), "DEGRADED")
  /\ UNCHANGED <<lanes, on, shutDown>>

\* Seeded fault: the timer leaves a lane alone that some call is using.
FaultyStartTimerIdle(l) ==
  /\ Heeded(l) /\ lane[l].starting
  /\ IF lane[l].busy
       THEN lane' = [lane EXCEPT ![l].starting = FALSE] /\ UNCHANGED <<lanes, phase, result>>
       ELSE Retire(l) /\ Settle(Pending(l), "DEGRADED")
  /\ UNCHANGED <<on, shutDown>>

\* The start timer: a lane that never said ready is retired.
StartTimer(l) ==
  /\ Heeded(l) /\ lane[l].starting
  /\ Retire(l)
  /\ Settle(Pending(l), "DEGRADED")
  /\ UNCHANGED <<on, shutDown>>

\* Seeded fault: the deadline runs from the ready frame.
FaultyDeadline(c) ==
  /\ phase[c] = "racing" /\ lane[on[c]].ready
  /\ Settle({c}, "BUDGET")
  /\ UNCHANGED <<lanes, lane, on, shutDown>>

\* The deadline of c.
Deadline(c) ==
  /\ phase[c] = "racing"
  /\ Settle({c}, "BUDGET")
  /\ UNCHANGED <<lanes, lane, on, shutDown>>

\* Seeded faults: a call that ran out of time gives its lane back; a call that
\* failed keeps its lane busy.
FaultyResume(c) ==
  /\ phase[c] = "settled"
  /\ phase' = [phase EXCEPT ![c] = "done"]
  /\ IF result[c] = "BUDGET" \/ (result[c] = "ok" /\ lane[on[c]].malformed = 0)
       THEN lane' = [lane EXCEPT ![on[c]].busy = FALSE] /\ UNCHANGED lanes
       ELSE Retire(on[c])
  /\ UNCHANGED <<on, result, shutDown>>

FaultyResumeKeeps(c) ==
  /\ phase[c] = "settled"
  /\ phase' = [phase EXCEPT ![c] = "done"]
  /\ IF result[c] = "ok" /\ lane[on[c]].malformed = 0
       THEN lane' = [lane EXCEPT ![on[c]].busy = FALSE]
       ELSE lane' = [lane EXCEPT ![on[c]].open = FALSE]
  /\ UNCHANGED <<lanes, on, result, shutDown>>

\* call() resumes after the race: the lane is given back, or retired when the
\* call failed or the lane sent a bad frame.
Resume(c) ==
  /\ phase[c] = "settled"
  /\ phase' = [phase EXCEPT ![c] = "done"]
  /\ IF result[c] = "ok" /\ lane[on[c]].malformed = 0
       THEN lane' = [lane EXCEPT ![on[c]].busy = FALSE] /\ UNCHANGED lanes
       ELSE Retire(on[c])
  /\ UNCHANGED <<on, result, shutDown>>

\* shutdownAll(): each lane of the table gets a shutdown frame and 500 ms.
ShutdownAll ==
  /\ ~shutDown /\ shutDown' = TRUE
  /\ lane' = [l \in Calls |->
       IF l \in lanes /\ lane[l].open THEN [lane[l] EXCEPT !.stopping = TRUE] ELSE lane[l]]
  /\ lanes' = {}
  /\ UNCHANGED <<on, phase, result>>

\* The kill cap of shutdownAll().
KillCap(l) ==
  /\ lane[l].stopping
  /\ lane' = [lane EXCEPT ![l] = NoLane]
  /\ UNCHANGED <<lanes, on, phase, result, shutDown>>

Next ==
  \/ ShutdownAll
  \/ \E c \in Calls :
       \/ Refuse(c) \/ Reuse(c) \/ Spawn(c) \/ Deadline(c) \/ Resume(c)
       \/ \E r \in {"ok", "error"} : Return(c, r)
  \/ \E l \in Calls : Ready(l) \/ Malformed(l) \/ Exit(l) \/ StartTimer(l) \/ KillCap(l)

Spec == Init /\ [][Next]_vars

\* Timers fire and promise continuations run.  The child is trusted with nothing.
FairSpec ==
  /\ Spec
  /\ \A c \in Calls : WF_vars(Deadline(c)) /\ WF_vars(Resume(c)) /\ WF_vars(KillCap(c))

-----------------------------------------------------------------------------
\* The type invariant.
TypeOK ==
  /\ lanes \subseteq Calls /\ shutDown \in BOOLEAN
  /\ lane \in [Calls -> [busy : BOOLEAN, ready : BOOLEAN,
                         malformed : 0..(MalformedLimit + 1), open : BOOLEAN,
                         starting : BOOLEAN, stopping : BOOLEAN]]
  /\ on \in [Calls -> Calls \cup {"none"}]
  /\ phase \in [Calls -> {"new", "racing", "settled", "done"}]
  /\ result \in [Calls -> {"none", "ok", "error", "REFUSED", "DEGRADED", "BUDGET"}]

\* call(), retire(), shutdownAll(): a lane works for one call at a time, a busy
\* flag is never left behind, and a child whose handle is open is in the pool's
\* table, and so counts against poolSize, or is being shut down: none leaks.
LanesAccountedFor ==
  /\ \A c, d \in InProgress : on[c] = on[d] => c = d
  /\ \A l \in lanes : lane[l].busy <=> \E c \in InProgress : on[c] = l
  /\ Cardinality(lanes) <= PoolSize
  /\ \A l \in Calls : lane[l].open => l \in lanes \/ lane[l].stopping

\* "a settled-but-failed or malformed-flagged lane has unknown state - retire
\* it, never reuse": a lane that is handed out again has answered every call
\* it ever got, each with success.
CleanReuse ==
  [][\A c \in Calls :
       on[c] = "none" /\ on'[c] \in Calls \ {c} =>
         /\ lane[on'[c]].malformed = 0
         /\ \A d \in Calls : on[d] = on'[c] => phase[d] = "done" /\ result[d] = "ok"]_vars

\* The pool loses a lane for good in two cases only: an idle lane sent a bad
\* frame and no call will ever check it out to retire it, or its child exited
\* without a ready frame after having answered.
LaneLostOnlyWhenIdle ==
  \A l \in lanes : ~lane[l].busy /\ l \notin Free =>
    \/ lane[l].malformed \in 1..MalformedLimit
    \/ ~lane[l].ready /\ (lane[l].starting \/ ~lane[l].open)

\* call(): whatever the child does, or does not do, the caller gets an answer.
EveryCallAnswered == \A c \in Calls : phase[c] = "racing" ~> phase[c] = "done"

=============================================================================
