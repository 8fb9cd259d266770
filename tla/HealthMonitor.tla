--------------------------- MODULE HealthMonitor ---------------------------
(***************************************************************************)
(* The health loop of plugins/vivim-run (health.ts) over the handles of     *)
(* the host.  Both calls of the loop are messages: the statistics are those *)
(* of the moment the host served the call, and may be old when they are     *)
(* observed; the order to terminate a compartment is not awaited, takes     *)
(* effect when the host executes it, and may be refused.                    *)
(***************************************************************************)
EXTENDS Handles

CONSTANT MaxQuarantines   \* counts of quarantines are not told apart beyond it

ASSUME HealthAssumption == MaxQuarantines \in Nat \ {0}

VARIABLES
  poll,       \* poll(): idle, asked, answered
  sample,     \* the statistics in the answer
  window,     \* crashWindows (stateWindows has the same entries)
  count,      \* quarantineCount
  mute,       \* suppress, 0 for no entry
  ordered,    \* compartments whose termination is ordered and not yet served
  refused,    \* history: the last order was refused
  revived     \* history: the thread failed after it was stopped

healthVars == <<poll, sample, window, count, mute, ordered, refused>>
monitorVars == <<state, crashes, thread, poll, sample, window, count, mute, ordered, refused, revived>>

HealthInit ==
  /\ HandlesInit
  /\ poll = "idle"
  /\ sample = [c \in Compartments |-> [state |-> "active", crashes |-> 0]]
  /\ window = [c \in Compartments |-> <<>>]
  /\ count = [c \in Compartments |-> 0]
  /\ mute = [c \in Compartments |-> 0]
  /\ ordered = {} /\ refused = {} /\ revived = {}

\* The interval fires; a poll under way is not overtaken (busy).
Poll ==
  /\ poll = "idle" /\ poll' = "asked"
  /\ UNCHANGED <<hostVars, sample, window, count, mute, ordered, refused, revived>>

\* The host serves host.compartment.stats@1.
Stats ==
  /\ poll = "asked" /\ poll' = "answered"
  /\ sample' = [c \in Compartments |-> [state |-> state[c], crashes |-> crashes[c]]]
  /\ UNCHANGED <<hostVars, window, count, mute, ordered, refused, revived>>

\* The call fails: nothing is observed.
StatsError ==
  /\ poll \in {"asked", "answered"} /\ poll' = "idle"
  /\ UNCHANGED <<hostVars, sample, window, count, mute, ordered, refused, revived>>

\* The window after one more poll, of WINDOW_POLLS at most.
Pushed(c) == LET w == Append(window[c], sample[c].crashes) IN
             IF Len(w) > 3 THEN Tail(w) ELSE w

\* D-331: first seen with crashes, and degraded.
FirstSight(c) == window[c] = <<>> /\ sample[c].state = "degraded" /\ sample[c].crashes >= 1

\* The rules crash-loop and crash-persistence over a full window.
CrashLoop(c) ==
  /\ Len(Pushed(c)) = 3
  /\ LET rise == Pushed(c)[3] - Pushed(c)[1] IN
     rise >= 2 \/ (rise >= 1 /\ sample[c].state = "degraded")

\* Seeded faults: the late-observer rule is missing; the backoff is not set.
FaultyQuarantined(c) == mute[c] = 0 /\ CrashLoop(c)
FaultyQuarantinedMuted(c) ==
  FirstSight(c) \/ (mute[c] = 0 /\ CrashLoop(c)) \/ (mute[c] > 0 /\ sample[c].crashes >= 1)

\* observe(): the compartments this poll quarantines.
Quarantined(c) == FirstSight(c) \/ (mute[c] = 0 /\ CrashLoop(c))

\* poll() resumes: every compartment of the answer is observed.
Observe ==
  LET bad == {c \in Compartments : Quarantined(c)}
      muted(c) == c \notin bad /\ mute[c] > 0
      more(c) == IF count[c] < MaxQuarantines THEN count[c] + 1 ELSE count[c]
  IN
  /\ poll = "answered" /\ poll' = "idle"
  /\ count' = [c \in Compartments |-> IF c \in bad THEN more(c) ELSE count[c]]
  /\ mute' = [c \in Compartments |->
       IF c \in bad THEN 2 ^ more(c) ELSE IF mute[c] > 0 THEN mute[c] - 1 ELSE 0]
  /\ window' = [c \in Compartments |->
       IF c \in bad \/ mute[c] = 1 THEN <<>>
       ELSE IF muted(c) THEN window[c] ELSE Pushed(c)]
  /\ ordered' = ordered \cup bad
  /\ refused' = refused \ bad
  /\ UNCHANGED <<hostVars, sample, revived>>

\* The host executes host.compartment.terminate@1.
Terminate(c) ==
  /\ c \in ordered /\ ordered' = ordered \ {c}
  /\ state' = [state EXCEPT ![c] = "stopped"]
  /\ UNCHANGED <<crashes, thread, poll, sample, window, count, mute, refused, revived>>

\* The order is refused, or runs out of budget at the host's door.
TerminateRefused(c) ==
  /\ c \in ordered /\ ordered' = ordered \ {c}
  /\ refused' = refused \cup {c}
  /\ UNCHANGED <<hostVars, poll, sample, window, count, mute, revived>>

\* Somebody else terminates the compartment: an operator, the watchdog.
StoppedByOther(c) ==
  /\ state[c] # "stopped"
  /\ state' = [state EXCEPT ![c] = "stopped"]
  /\ UNCHANGED <<crashes, thread, healthVars, revived>>

Thread(c) ==
  /\ WorkerError(c) \/ WorkerExit(c) \/ Wedge(c)
  /\ revived' = IF state[c] = "stopped" /\ state'[c] # "stopped" THEN revived \cup {c} ELSE revived
  /\ UNCHANGED healthVars

HealthNext ==
  \/ Poll \/ Stats \/ StatsError \/ Observe
  \/ \E c \in Compartments :
       Terminate(c) \/ TerminateRefused(c) \/ StoppedByOther(c) \/ Thread(c)

HealthSpec == HealthInit /\ [][HealthNext]_monitorVars

\* The interval fires and continuations run; the statistics do not fail for ever.
FairHealthSpec == HealthSpec /\ WF_monitorVars(Poll) /\ SF_monitorVars(Stats) /\ SF_monitorVars(Observe)

-----------------------------------------------------------------------------
\* The type invariant.
HealthTypeOK ==
  /\ HandlesTypeOK
  /\ poll \in {"idle", "asked", "answered"}
  /\ sample \in [Compartments -> [state : {"active", "degraded", "stopped"}, crashes : 0..2]]
  /\ \A c \in Compartments : window[c] \in Seq(0..2) /\ Len(window[c]) <= 3
  /\ count \in [Compartments -> 0..MaxQuarantines]
  /\ mute \in [Compartments -> 0..(2 ^ MaxQuarantines)]
  /\ ordered \subseteq Compartments /\ refused \subseteq Compartments /\ revived \subseteq Compartments

\* "suppress that compartment for 2^n polls": within the backoff a compartment
\* is quarantined again only while the order to terminate it is on its way or
\* was refused, or its answer was older than the termination, or its thread
\* failed once more after it.
BackoffOnceStopped ==
  [][\A c \in Compartments :
       mute[c] > 0 /\ c \in ordered' \ ordered =>
         \/ c \in refused \cup revived
         \/ state[c] = "stopped" /\ sample[c].state = "degraded"]_monitorVars

\* "stuck degraded": whatever the loop saw before, whenever it started to look
\* and however often the statistics fail, a crashed compartment is quarantined.
StandingCrashIsQuarantined ==
  \A c \in Compartments : state[c] = "degraded" ~> count[c] > 0 \/ state[c] = "stopped"
=============================================================================
