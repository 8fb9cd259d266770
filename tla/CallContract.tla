---------------------------- MODULE CallContract ----------------------------
(***************************************************************************)
(* What the microhost promises the caller of a port op, without queues,    *)
(* gates, timers or threads: one answer, final; the op performed at most   *)
(* once and never after the answer; an "ok" answer only for an op that was *)
(* performed and a REFUSED answer only for one that was not.  BUDGET and   *)
(* DEGRADED say nothing about whether the op was performed.                *)
(***************************************************************************)
EXTENDS Naturals

CONSTANT Calls

VARIABLES
  asked,   \* calls submitted
  ran,     \* calls whose op was handed to its implementation
  reply    \* the PortResult register, "none" before the answer

vars == <<asked, ran, reply>>

Registers == {"ok", "BUDGET", "DEGRADED", "REFUSED"}

Init ==
  /\ asked = {} /\ ran = {}
  /\ reply = [c \in Calls |-> "none"]

Rests(c) == reply'[c] = reply[c] /\ (c \in ran' <=> c \in ran)

\* Handed to the implementation: once, while the caller still waits.
Runs(c) ==
  /\ c \in asked' /\ c \notin ran /\ c \in ran'
  /\ reply[c] = "none" /\ reply'[c] = "none"

\* Answered: once, with a register that tells the truth.
Answers(c) ==
  /\ c \in asked' /\ reply[c] = "none" /\ reply'[c] \in Registers
  /\ c \in ran' <=> c \in ran
  /\ reply'[c] = "ok" => c \in ran
  /\ reply'[c] = "REFUSED" => c \notin ran

\* One event of the host (a return, a timer, a crash) may move several calls.
Next ==
  /\ asked \subseteq asked'
  /\ \A c \in Calls : Rests(c) \/ Runs(c) \/ Answers(c)

Spec == Init /\ [][Next]_vars
=============================================================================
