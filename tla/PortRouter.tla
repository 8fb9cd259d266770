----------------------------- MODULE PortRouter -----------------------------
(***************************************************************************)
(* The port router of the microhost, host/src/ports.ts: law gate, admission *)
(* cap, two-tier waiting queue, deadlines, late returns, worker crashes and *)
(* terminations.  Every compartment of this module has already been        *)
(* spawned; the activation of dormant ones is the module LazySpawn.        *)
(*                                                                         *)
(* A routed call is delivered at most twice under one causation id: first  *)
(* the "gate" leg (law.check@1 at the law compartment, risky ops only),    *)
(* then the "op" leg at the compartment that implements the op.  `pending` *)
(* and the in-flight sets of the router are keyed by the causation id, so  *)
(* the two legs share a key.                                               *)
(***************************************************************************)
EXTENDS Naturals, Sequences, FiniteSets

CONSTANTS
  Compartments,        \* registered compartments (the worker threads)
  Law,                 \* the compartment law.check@1 is routed to
  Calls,               \* the routed calls of the behaviour: causation ids
  Target,              \* Target[c]: the compartment that implements c's op
  Risky,               \* calls whose op is declared with a risk class # READ
  Timed,               \* calls with deadlineMs > 0 (0 arms no timer)
  DeclaresGate,        \* deliveries whose op's manifest says priority "gate"
  MaxConcurrentCalls   \* per compartment: budget.maxConcurrentCalls, or 4

Deliveries == [call : Calls, leg : {"gate", "op"}]
Gate(c) == [call |-> c, leg |-> "gate"]
Op(c)   == [call |-> c, leg |-> "op"]

ASSUME RouterAssumption ==
  /\ Law \in Compartments
  /\ Target \in [Calls -> Compartments]
  /\ Risky \subseteq Calls
  /\ Timed \subseteq Calls
  /\ DeclaresGate \subseteq Deliveries
  /\ MaxConcurrentCalls \in [Compartments -> Nat \ {0}]

VARIABLES
  handle,    \* CompartmentHandle.state: "active", "degraded" or "stopped"
  worker,    \* the thread itself: "up", "dying" ('error' seen), "gone"
  waiting,   \* per compartment, the queue of deliveries not yet admitted
  inflight,  \* inflightByCompartment: causation ids admitted
  pending,   \* deliveries whose promise the router still holds
  held,      \* deliveries the worker has received and not yet returned
  posted,    \* history: deliveries ever handed to handle.post
  elapsed,   \* deliveries whose deadline has passed
  stage,     \* where dispatch() of a call stands
  gateAns,   \* what the gate leg resolved to
  reply      \* the PortResult register of the call, "none" before

vars == <<handle, worker, waiting, inflight, pending, held, posted, elapsed,
          stage, gateAns, reply>>

To(d) == IF d.leg = "gate" THEN Law ELSE Target[d.call]

\* Seeded fault: the law leg inherits no deadline.
FaultyHasDeadline(d) == d.leg = "op" /\ d.call \in Timed

\* The law leg always carries 500 ms, the op leg the caller's deadline.
HasDeadline(d) == d.leg = "gate" \/ d.call \in Timed

\* register() records `c.priority ?? "normal"` for every op of a manifest, the
\* law's included, so a declaration is the only way into the gate tier.
Priority(d) == IF d \in DeclaresGate THEN "gate" ELSE "normal"

Queued(t) == {waiting[t][i] : i \in DOMAIN waiting[t]}

GateAnswers == {"none", "allow", "deny", "BUDGET", "DEGRADED"}
Replies     == {"none", "ok", "BUDGET", "DEGRADED", "REFUSED"}

-----------------------------------------------------------------------------
(* Helpers of the handlers.  Operators named Faulty... are seeded faults:   *)
(* each is a slip the code could contain, and replacing the definition that *)
(* follows it by it violates one of the properties below.                   *)

\* Resolve the promise of every delivery in the domain of f with its value.
Settle(f) ==
  /\ gateAns' = [c \in Calls |-> IF Gate(c) \in DOMAIN f THEN f[Gate(c)] ELSE gateAns[c]]
  /\ reply'   = [c \in Calls |-> IF Op(c) \in DOMAIN f THEN f[Op(c)] ELSE reply[c]]

\* handle.post: what a thread that is gone is sent reaches nobody.
Post(hold, t, D) ==
  [hold EXCEPT ![t] = IF worker[t] = "up" THEN @ \cup D ELSE @]

\* Seeded fault: every entry is appended.
FaultyPlace(q, d, k) == k = Len(q)

\* Before the first normal entry for the gate tier, at the end otherwise: k
\* entries stay ahead of d.
Place(q, d, k) ==
  IF Priority(d) = "gate"
    THEN /\ \A i \in 1..k : Priority(q[i]) = "gate"
         /\ k < Len(q) => Priority(q[k + 1]) = "normal"
    ELSE k = Len(q)

HasRoom(t) == Cardinality(inflight[t]) < MaxConcurrentCalls[t]

\* deliver() and enqueue(): admit at once when the compartment has a free
\* slot, wait otherwise.
Enqueue(d) ==
  LET t == To(d) IN
  \/ /\ HasRoom(t)
     /\ inflight' = [inflight EXCEPT ![t] = @ \cup {d.call}]
     /\ pending'  = pending \cup {d}
     /\ held'     = Post(held, t, {d})
     /\ posted'   = posted \cup {d}
     /\ UNCHANGED waiting
  \/ /\ ~HasRoom(t)
     /\ \E k \in 0..Len(waiting[t]) :
          /\ Place(waiting[t], d, k)
          /\ waiting' = [waiting EXCEPT ![t] =
                           SubSeq(@, 1, k) \o <<d>> \o SubSeq(@, k + 1, Len(@))]
     /\ UNCHANGED <<inflight, pending, held, posted>>

\* The queued deliveries one release takes off the queue q: the n whose
\* deadline has passed (each release("") shifts the next one) and, if there
\* is one, the first that may still be admitted.
Shifts(q, n) ==
  /\ n \in 0..Len(q)
  /\ \A i \in 1..n : q[i] \in elapsed
  /\ n < Len(q) => q[n + 1] \notin elapsed

\* release(t, key) and the admit() it leads to.  `done` are the deliveries
\* just resolved and taken out of `pending`, `f` their outcomes, `hold` what
\* the workers hold at this point.
Release(t, key, done, f, hold) ==
  \E n \in 0..Len(waiting[t]) :
    LET q     == waiting[t]
        late  == {q[i] : i \in 1..n}
        next  == IF n < Len(q) THEN {q[n + 1]} ELSE {}
    IN /\ Shifts(q, n)
       /\ waiting'  = [waiting EXCEPT ![t] = SubSeq(@, n + 2, Len(@))]
       /\ inflight' = [inflight EXCEPT ![t] = (@ \ {key}) \cup {e.call : e \in next}]
       /\ pending'  = (pending \ done) \cup next
       /\ held'     = Post(hold, t, next)
       /\ posted'   = posted \cup next
       /\ Settle([e \in done \cup late |-> IF e \in done THEN f[e] ELSE "BUDGET"])

\* Seeded faults: the queued deliveries are dropped without an answer; they are
\* answered and left in the queue; a lost call is reported REFUSED.
FaultyFailDropsQueue(t) ==
  LET lost == {e \in pending : e.call \in inflight[t]} IN
  /\ waiting'  = [waiting EXCEPT ![t] = <<>>]
  /\ inflight' = [inflight EXCEPT ![t] = {}]
  /\ pending'  = pending \ lost
  /\ Settle([e \in lost |-> "DEGRADED"])

FaultyFailKeepsAnswered(t) ==
  LET lost == {e \in pending : e.call \in inflight[t]} IN
  /\ inflight' = [inflight EXCEPT ![t] = {}]
  /\ pending'  = pending \ lost
  /\ Settle([e \in lost \cup Queued(t) |-> "DEGRADED"])
  /\ UNCHANGED waiting

FaultyFailRefuses(t) ==
  LET lost == {e \in pending : e.call \in inflight[t]} IN
  /\ waiting'  = [waiting EXCEPT ![t] = <<>>]
  /\ inflight' = [inflight EXCEPT ![t] = {}]
  /\ pending'  = pending \ lost
  /\ Settle([e \in lost \cup Queued(t) |-> "REFUSED"])

\* failInflight(t): every waiting and every in-flight delivery of t resolves
\* DEGRADED and the queue and the in-flight set are emptied.
FailInflight(t) ==
  LET lost == {e \in pending : e.call \in inflight[t]} IN
  /\ waiting'  = [waiting EXCEPT ![t] = <<>>]
  /\ inflight' = [inflight EXCEPT ![t] = {}]
  /\ pending'  = pending \ lost
  /\ Settle([e \in lost \cup Queued(t) |-> "DEGRADED"])

\* The state check of dispatch() and the delivery behind it.
Route(c) ==
  \/ /\ handle[Target[c]] = "active"
     /\ Enqueue(Op(c))
     /\ stage' = [stage EXCEPT ![c] = "op"]
     /\ UNCHANGED reply
  \/ /\ handle[Target[c]] # "active"
     /\ reply' = [reply EXCEPT ![c] = "DEGRADED"]
     /\ UNCHANGED <<waiting, inflight, pending, held, posted, stage>>

-----------------------------------------------------------------------------
(* Actions.                                                                *)

Init ==
  /\ handle   = [t \in Compartments |-> "active"]
  /\ worker   = [t \in Compartments |-> "up"]
  /\ waiting  = [t \in Compartments |-> <<>>]
  /\ inflight = [t \in Compartments |-> {}]
  /\ pending  = {}
  /\ held     = [t \in Compartments |-> {}]
  /\ posted   = {}
  /\ elapsed  = {}
  /\ stage    = [c \in Calls |-> "idle"]
  /\ gateAns  = [c \in Calls |-> "none"]
  /\ reply    = [c \in Calls |-> "none"]

\* compartmentCall()/callAsRoot() up to dispatch()'s first await: a risky op
\* goes to the law first (callLaw checks no compartment state), any other is
\* routed at once.
Submit(c) ==
  /\ stage[c] = "idle" /\ reply[c] = "none"
  /\ \/ /\ c \in Risky
        /\ Enqueue(Gate(c))
        /\ stage' = [stage EXCEPT ![c] = "gate"]
        /\ UNCHANGED reply
     \/ /\ c \notin Risky
        /\ Route(c)
  /\ UNCHANGED <<handle, worker, elapsed, gateAns>>

\* What dispatch() replies when the gate did not allow the call.
Refusal(c) == IF gateAns[c] = "deny" THEN "REFUSED" ELSE gateAns[c]

\* Seeded fault: only a "deny" stops the call, a law that fails does not.
FaultyContinue(c) ==
  /\ stage[c] = "gate" /\ gateAns[c] # "none" /\ reply[c] = "none"
  /\ \/ gateAns[c] # "deny" /\ Route(c)
     \/ /\ gateAns[c] = "deny"
        /\ reply' = [reply EXCEPT ![c] = Refusal(c)]
        /\ UNCHANGED <<waiting, inflight, pending, held, posted, stage>>
  /\ UNCHANGED <<handle, worker, elapsed, gateAns>>

\* dispatch() resumes after `await this.callLaw(...)`.
Continue(c) ==
  /\ stage[c] = "gate" /\ gateAns[c] # "none" /\ reply[c] = "none"
  /\ \/ /\ gateAns[c] = "allow"
        /\ Route(c)
     \/ /\ gateAns[c] # "allow"
        /\ reply' = [reply EXCEPT ![c] = Refusal(c)]
        /\ UNCHANGED <<waiting, inflight, pending, held, posted, stage>>
  /\ UNCHANGED <<handle, worker, elapsed, gateAns>>

\* The deliveries a `return` or a timer finds in `pending`: looked up by the
\* causation id alone.
Found(d) == {e \in pending : e.call = d.call}

\* What a handler can answer: law.check@1 decides (require-consent refuses
\* like deny); a handler that throws returns DEGRADED.
Results(d) == IF d.leg = "gate" THEN {"allow", "deny", "DEGRADED"} ELSE {"ok", "DEGRADED"}

\* onWorkerMessage, "return": a late or duplicate return finds nothing.
WorkerReturn(t, d, r) ==
  /\ worker[t] = "up" /\ d \in held[t] /\ r \in Results(d)
  /\ LET hold == [held EXCEPT ![t] = @ \ {d}] IN
     \/ /\ Found(d) # {}
        /\ Release(t, d.call, Found(d), [e \in Found(d) |-> r], hold)
     \/ /\ Found(d) = {}
        /\ held' = hold
        /\ UNCHANGED <<waiting, inflight, pending, posted, gateAns, reply>>
  /\ UNCHANGED <<handle, worker, elapsed, stage>>

\* The deadline of a delivery passes (nothing is notified of it yet).
Elapse(d) ==
  /\ HasDeadline(d) /\ d \notin elapsed
  /\ d \in pending \/ d \in Queued(To(d))
  /\ elapsed' = elapsed \cup {d}
  /\ UNCHANGED <<handle, worker, waiting, inflight, pending, held, posted,
                 stage, gateAns, reply>>

\* The timer admit() armed: only an admitted delivery has one.
TimerFires(d) ==
  /\ d \in pending /\ d \in elapsed
  /\ Release(To(d), d.call, {d}, [e \in {d} |-> "BUDGET"], held)
  /\ UNCHANGED <<handle, worker, elapsed, stage>>

\* 'error' event: an uncaught exception ends the thread.
WorkerError(t) ==
  /\ worker[t] = "up"
  /\ worker' = [worker EXCEPT ![t] = "dying"]
  /\ handle' = [handle EXCEPT ![t] = "degraded"]
  /\ held'   = [held EXCEPT ![t] = {}]
  /\ FailInflight(t)
  /\ UNCHANGED <<posted, elapsed, stage>>

\* 'exit' event.  A thread stopped by the host, or one that leaves with code
\* 0, is not a crash: no in-flight call is failed.
WorkerExit(t, code) ==
  /\ worker[t] = "up" \/ (worker[t] = "dying" /\ code # 0)
  /\ worker' = [worker EXCEPT ![t] = "gone"]
  /\ held'   = [held EXCEPT ![t] = {}]
  /\ \/ /\ handle[t] # "stopped" /\ code # 0
        /\ handle' = [handle EXCEPT ![t] = "degraded"]
        /\ FailInflight(t)
     \/ /\ handle[t] = "stopped" \/ code = 0
        /\ UNCHANGED <<handle, waiting, inflight, pending, gateAns, reply>>
  /\ UNCHANGED <<posted, elapsed, stage>>

\* host.compartment.terminate@1, graceful or fast: the calls fail before the
\* handle stops; the thread leaves later (WorkerExit).
Terminate(t) ==
  /\ FailInflight(t)
  /\ handle' = [handle EXCEPT ![t] = "stopped"]
  /\ UNCHANGED <<worker, held, posted, elapsed, stage>>

Next ==
  \/ \E c \in Calls : Submit(c) \/ Continue(c)
  \/ \E d \in Deliveries : Elapse(d) \/ TimerFires(d)
  \/ \E t \in Compartments, d \in Deliveries : \E r \in Results(d) : WorkerReturn(t, d, r)
  \/ \E t \in Compartments : WorkerError(t) \/ Terminate(t)
  \/ \E t \in Compartments, code \in {0, 1} : WorkerExit(t, code)

Spec == Init /\ [][Next]_vars

\* Time passes, armed timers fire and resolved promises resume.  Nothing is
\* assumed of the workers: they may never return.
Fairness ==
  /\ \A c \in Calls : WF_vars(Continue(c))
  /\ \A d \in Deliveries : WF_vars(Elapse(d)) /\ WF_vars(TimerFires(d))

FairSpec == Spec /\ Fairness

-----------------------------------------------------------------------------
(* Properties.                                                             *)

\* The type invariant.
TypeOK ==
  /\ handle \in [Compartments -> {"active", "degraded", "stopped"}]
  /\ worker \in [Compartments -> {"up", "dying", "gone"}]
  /\ waiting \in [Compartments -> Seq(Deliveries)]
  /\ inflight \in [Compartments -> SUBSET Calls]
  /\ pending \subseteq Deliveries
  /\ held \in [Compartments -> SUBSET Deliveries]
  /\ posted \subseteq Deliveries
  /\ elapsed \subseteq Deliveries
  /\ stage \in [Calls -> {"idle", "gate", "op"}]
  /\ gateAns \in [Calls -> GateAnswers]
  /\ reply \in [Calls -> Replies]

\* admission cap (ports.ts enqueue/release): whatever mix of returns, late
\* returns, timeouts and crashes, a compartment never has more calls in flight
\* than its manifest's maxConcurrentCalls.
InflightCap ==
  \A t \in Compartments : Cardinality(inflight[t]) <= MaxConcurrentCalls[t]

\* no lost wakeup (release pumps exactly one entry): a delivery waits only
\* while every slot of its compartment is taken.
WorkConserving ==
  \A t \in Compartments :
    waiting[t] # <<>> => Cardinality(inflight[t]) = MaxConcurrentCalls[t]

\* no leaked slot: the in-flight ledger of a compartment holds exactly the
\* causation ids whose promise is still pending there.
LedgerAgrees ==
  \A t \in Compartments : inflight[t] = {d.call : d \in {e \in pending : To(e) = t}}

\* the two legs share one key of `pending`; a leg is never pending while the
\* other one is, so a return can only resolve the leg it answers.
OneLegPerKey ==
  \A d, e \in pending : d.call = e.call => d = e

\* fail-closed gate (dispatch): no risky op ever reaches its implementation
\* unless the law itself answered "allow" to that call.
GateFailClosed ==
  \A c \in Risky : Op(c) \in posted => gateAns[c] = "allow"

\* each leg lives in its own phase of dispatch() (callLaw and deliver): a leg
\* that is queued or pending belongs to a call that awaits exactly that leg and
\* has no answer, and a law leg a worker still holds did not allow its call, so
\* its late return can never be taken for the answer of the op leg.
PhasesAgree ==
  /\ \A c \in Calls : Gate(c) \in pending \cup Queued(Law) =>
       stage[c] = "gate" /\ gateAns[c] = "none" /\ reply[c] = "none"
  /\ \A c \in Calls : Op(c) \in pending \cup Queued(Target[c]) =>
       stage[c] = "op" /\ reply[c] = "none"
  /\ \A t \in Compartments : \A d \in held[t] :
       d.leg = "gate" => gateAns[d.call] # "allow"

\* every gate-tier delivery waits ahead of every normal one.
GateTierFirst ==
  \A t \in Compartments : \A i, j \in DOMAIN waiting[t] :
    i < j /\ Priority(waiting[t][j]) = "gate" => Priority(waiting[t][i]) = "gate"

\* a crash, a termination or an expiry leaves nobody waiting: every call that
\* was submitted and not answered is queued, pending, or about to resume.
NobodyForgotten ==
  \A c \in Calls :
    reply[c] = "none" =>
      \/ stage[c] = "idle"
      \/ stage[c] = "gate" /\ (gateAns[c] # "none" \/ Gate(c) \in pending \cup Queued(Law))
      \/ stage[c] = "op" /\ Op(c) \in pending \cup Queued(Target[c])

\* at most once, and never too late: a worker is never handed a delivery a
\* second time, nor one whose caller already has its answer.
NoWorkAfterAnswer ==
  [][\A t \in Compartments : \A d \in held'[t] \ held[t] :
       d \notin posted /\ reply[d.call] = "none" /\ reply'[d.call] = "none"]_vars

\* every call with a deadline is answered, even when the law and the target
\* never return and threads die (all calls carry a deadline: a delivery that
\* waits behind one without a deadline has no timer of its own).
EveryCallAnswered ==
  \A c \in Calls : stage[c] # "idle" ~> reply[c] # "none"

-----------------------------------------------------------------------------
(* The contract of a port call (CallContract) and its refinement.          *)

Asked == {c \in Calls : stage[c] # "idle" \/ reply[c] # "none"}
Ran   == {c \in Calls : Op(c) \in posted}

Contract == INSTANCE CallContract WITH asked <- Asked, ran <- Ran

\* the router implements the call contract: one final answer, at most one
\* execution and none after the answer, "ok" only for a performed op and
\* REFUSED only for one that never reached its implementation.
ImplementsContract == Contract!Spec
=============================================================================
