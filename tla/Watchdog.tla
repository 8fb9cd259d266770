------------------------------ MODULE Watchdog ------------------------------
(***************************************************************************)
(* tooling/watchdog/watchdog.ts over the compartment handles of             *)
(* host/src/worker.ts.                                                      *)
(*                                                                         *)
(* A tick is a coroutine: it samples the compartments in order, and when it *)
(* evicts one it awaits the termination, while the interval starts the next *)
(* tick on the same state.  Instants are the starts of ticks, one interval  *)
(* apart; a suspended tick keeps its own instant, so a compartment is due   *)
(* for it unless a tick at least as recent has sampled it.                  *)
(***************************************************************************)
EXTENDS Handles

CONSTANTS
  Hungry,      \* the compartments that may use more memory than their budget
  MissLimit,   \* missLimit
  OverLimit    \* overLimit

ASSUME WatchdogAssumption ==
  /\ Hungry \subseteq Compartments
  /\ MissLimit \in Nat \ {0} /\ OverLimit \in Nat \ {0}

VARIABLES
  probed,      \* compartments that have a probe to answer
  track,       \* tracks
  evictions,   \* evictions, by id
  suspended,   \* the ticks that await a termination, oldest first
  silent       \* history: ticks since the compartment was last heard

dogVars == <<probed, track, evictions, suspended, silent>>
watchVars == <<state, crashes, thread, probed, track, evictions, suspended, silent>>

NoTrack == [pending |-> FALSE, miss |-> 0, over |-> 0, sampled |-> FALSE]
Evicted(c) == \E i \in DOMAIN evictions : evictions[i] = c
Index(c) == CHOOSE i \in DOMAIN Entries : Entries[i] = c

WatchInit ==
  /\ HandlesInit
  /\ probed = {}
  /\ track = [c \in Compartments |-> NoTrack]
  /\ evictions = <<>> /\ suspended = <<>>
  /\ silent = [c \in Compartments |-> 0]

\* The track after a probeStat of a compartment over its budget, or not.
Answered(t, heavy) ==
  [t EXCEPT !.pending = FALSE, !.miss = 0,
            !.over = IF ~heavy THEN 0 ELSE IF t.over < OverLimit THEN t.over + 1 ELSE t.over]

\* onMessage(): a probeStat.  Older probes may remain to be answered.
Answer(c, heavy) ==
  /\ thread[c] = "running" /\ c \in probed
  /\ heavy => c \in Hungry
  /\ probed' = probed \/ probed' = probed \ {c}
  /\ IF track[c].sampled
       THEN track' = [track EXCEPT ![c] = Answered(track[c], heavy)]
       ELSE UNCHANGED track
  /\ silent' = [silent EXCEPT ![c] = 0]
  /\ UNCHANGED <<hostVars, evictions, suspended>>

\* Seeded fault: the streak counts the probe just sent.
FaultySampled(t) == [t EXCEPT !.pending = TRUE, !.sampled = TRUE, !.miss = @ + 1]

\* One sample: a probe still pending is a miss, and a new one is sent.
Sampled(t) ==
  [t EXCEPT !.pending = TRUE, !.sampled = TRUE, !.miss = IF t.pending THEN @ + 1 ELSE @]

\* classify().
Doomed(t) == t.miss >= MissLimit \/ t.over >= OverLimit

\* tick() from its start or from an await on: it samples the compartments of R
\* that are not evicted, up to the first that must go, which it terminates and
\* waits for.  The ticks `older` find those it sampled no longer due.
Run(R, older, newer, old) ==
  LET left == {c \in R : ~Evicted(c)}
      doomed == {c \in left : Doomed(Sampled(old[c]))}
      first == CHOOSE c \in doomed : \A d \in doomed : Index(c) <= Index(d)
      done == IF doomed = {} THEN left ELSE {c \in left : Index(c) <= Index(first)}
      due == [i \in DOMAIN older |-> [older[i] EXCEPT !.rest = @ \ done]]
      mine == IF doomed = {} THEN <<>> ELSE <<[at |-> first, rest |-> left \ done]>>
  IN /\ track' = [c \in Compartments |-> IF c \in done THEN Sampled(old[c]) ELSE old[c]]
     /\ probed' = probed \cup done
     /\ evictions' = IF doomed = {} THEN evictions ELSE Append(evictions, first)
     /\ state' = IF doomed = {} THEN state ELSE [state EXCEPT ![first] = "stopped"]
     /\ suspended' = due \o mine \o newer

Active == {c \in Compartments : state[c] = "active"}

\* Seeded fault: a tick that finds another one waiting returns.
FaultyTick ==
  /\ suspended = <<>>
  /\ Run(Active, suspended, <<>>, track)
  /\ silent' = [c \in Compartments |->
       IF track[c].sampled /\ silent[c] < MissLimit THEN silent[c] + 1 ELSE silent[c]]
  /\ UNCHANGED <<crashes, thread>>

\* The interval fires.
Tick ==
  /\ Run(Active, suspended, <<>>, track)
  /\ silent' = [c \in Compartments |->
       IF track[c].sampled /\ silent[c] < MissLimit THEN silent[c] + 1 ELSE silent[c]]
  /\ UNCHANGED <<crashes, thread>>

\* Seeded fault: the entry of the evicted compartment is kept.
FaultyTerminated(i) ==
  /\ i \in DOMAIN suspended
  /\ Run(suspended[i].rest, SubSeq(suspended, 1, i - 1),
         SubSeq(suspended, i + 1, Len(suspended)), track)
  /\ UNCHANGED <<crashes, thread, silent>>

\* The termination a tick waits for has ended: listener, track and cadence of
\* the compartment are dropped, and the tick goes on.
Terminated(i) ==
  /\ i \in DOMAIN suspended
  /\ Run(suspended[i].rest, SubSeq(suspended, 1, i - 1),
         SubSeq(suspended, i + 1, Len(suspended)),
         [track EXCEPT ![suspended[i].at] = NoTrack])
  /\ UNCHANGED <<crashes, thread, silent>>

WatchNext ==
  \/ Tick
  \/ \E i \in 1..Len(Entries) : Terminated(i)
  \/ \E c \in Compartments :
       \/ (WorkerError(c) \/ WorkerExit(c) \/ Wedge(c)) /\ UNCHANGED dogVars
       \/ \E heavy \in BOOLEAN : Answer(c, heavy)

\* The interval keeps firing; nothing is assumed of terminations.
WatchFairness == WF_watchVars(Tick)

WatchSpec == WatchInit /\ [][WatchNext]_watchVars /\ WatchFairness

-----------------------------------------------------------------------------
\* The type invariant.
WatchTypeOK ==
  /\ HandlesTypeOK
  /\ probed \subseteq Compartments
  /\ track \in [Compartments -> [pending : BOOLEAN, miss : 0..MissLimit, over : 0..OverLimit,
                                 sampled : BOOLEAN]]
  /\ evictions \in Seq(Compartments)
  /\ \A i \in DOMAIN suspended : suspended[i] \in [at : Compartments, rest : SUBSET Compartments]
  /\ silent \in [Compartments -> 0..MissLimit]

\* tick(): a compartment is evicted once, however many ticks are under way, and
\* when its termination has ended nothing of it is left behind.
EvictedOnce ==
  /\ IsInjective(evictions)
  /\ \A c \in Compartments :
       Evicted(c) /\ (\A i \in DOMAIN suspended : suspended[i].at # c) => track[c] = NoTrack

\* "missStreak - probes that got no probeStat before the next sample": the
\* streak never outruns the intervals of silence, but for samples that resumed
\* ticks take in the same interval: at most one for each eviction after the first.
MissesAreIntervals ==
  \A c \in Compartments :
    track[c].miss > silent[c] => track[c].miss <= silent[c] + Len(evictions) - 1

\* "the CPU-starvation signal": a compartment that stopped answering leaves the
\* active ones, though the terminations of others may never end.
WedgedIsEvicted ==
  \A c \in Compartments : thread[c] = "wedged" ~> state[c] # "active"
=============================================================================
