------------------------------- MODULE Handles -------------------------------
(***************************************************************************)
(* The compartment handles of host/src/worker.ts, as the supervisors see    *)
(* them: the state and the crash counter of host.compartment.stats@1, the   *)
(* events of the worker thread that change them, and termination.           *)
(***************************************************************************)
EXTENDS Naturals, Sequences, FiniteSets, SequencesExt

CONSTANTS
  Entries,   \* the compartments in the order of router.status()
  Fragile,   \* those whose thread may fail by itself
  Wedging    \* those that may stop answering

Compartments == ToSet(Entries)

ASSUME HandlesAssumption ==
  /\ Entries \in Seq(Compartments) /\ IsInjective(Entries)
  /\ Fragile \cup Wedging \subseteq Compartments

VARIABLES
  state,     \* CompartmentHandle.state
  crashes,   \* CompartmentHandle.stats.crashes
  thread     \* the worker: running, wedged, failing (error event), gone

hostVars == <<state, crashes, thread>>

HandlesInit ==
  /\ state = [c \in Compartments |-> "active"]
  /\ crashes = [c \in Compartments |-> 0]
  /\ thread = [c \in Compartments |-> "running"]

\* An uncaught error of the thread: the error event, whatever the state.
WorkerError(c) ==
  /\ c \in Fragile /\ thread[c] = "running"
  /\ thread' = [thread EXCEPT ![c] = "failing"]
  /\ crashes' = [crashes EXCEPT ![c] = @ + 1]
  /\ state' = [state EXCEPT ![c] = "degraded"]

\* The exit event, with a code that is not 0: after an error, by itself, or
\* because the compartment was stopped.
WorkerExit(c) ==
  /\ thread[c] # "gone"
  /\ thread[c] = "failing" \/ state[c] = "stopped" \/ c \in Fragile
  /\ thread' = [thread EXCEPT ![c] = "gone"]
  /\ IF state[c] = "stopped"
       THEN UNCHANGED <<state, crashes>>
       ELSE /\ crashes' = [crashes EXCEPT ![c] = @ + 1]
            /\ state' = [state EXCEPT ![c] = "degraded"]

\* The event loop of the thread is stuck, or the thread left with code 0: the
\* handle stays active.
Wedge(c) ==
  /\ c \in Wedging /\ thread[c] = "running"
  /\ thread' = [thread EXCEPT ![c] = "wedged"]
  /\ UNCHANGED <<state, crashes>>

HandlesTypeOK ==
  /\ state \in [Compartments -> {"active", "degraded", "stopped"}]
  /\ crashes \in [Compartments -> 0..2]
  /\ thread \in [Compartments -> {"running", "wedged", "failing", "gone"}]
=============================================================================
