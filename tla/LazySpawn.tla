----------------------------- MODULE LazySpawn ------------------------------
(***************************************************************************)
(* Lazy activation of one dormant compartment: the tail of dispatch() and   *)
(* spawnDormant() in host/src/ports.ts, onDemandSpawn in host/src/boot.ts,  *)
(* waitActive()/wakeReady(), and the worker's side of the boot in           *)
(* shim/src/index.ts (init, onInit, ready, deliver).                        *)
(*                                                                         *)
(* Calls are past the gate.  The promises of the spawn (waiter, spawn,      *)
(* callers) all resolve in the microtasks of the event that settles them,   *)
(* before the host handles another message, so one action settles them.     *)
(* The admission cap is not reached here (PortRouter models it).            *)
(***************************************************************************)
EXTENDS Naturals, Sequences, FiniteSets

CONSTANT Calls      \* the calls that touch the compartment

VARIABLES
  dormant,   \* the id is in the router's dormant map
  handle,    \* state of the registered handle, "absent" before register()
  chain,     \* chain[c]: where the spawn that c started stands
  caller,    \* caller[c]: where dispatch() of c stands, or its answer
  threads,   \* history: worker threads created for the id
  thread,    \* "none", "up" or "gone"
  mail,      \* messages posted to the thread and not yet handled
  ctx,       \* the thread has handled `init`: ctx is set
  inited,    \* onInit has settled and `ready` was sent
  ready,     \* the `ready` message is on its way to the host
  ran        \* history: calls whose handler was entered

vars == <<dormant, handle, chain, caller, threads, thread, mail, ctx, inited, ready, ran>>
hostVars   == <<dormant, handle, chain, caller>>
workerVars == <<thread, mail, ctx, inited, ready, ran>>

ASSUME CallsFinite == IsFiniteSet(Calls) /\ "init" \notin Calls

Spawning == \E c \in Calls : chain[c] # "none"   \* the singleflight map holds the id

Init ==
  /\ dormant = TRUE /\ handle = "absent"
  /\ chain = [c \in Calls |-> "none"] /\ caller = [c \in Calls |-> "idle"]
  /\ threads = 0 /\ thread = "none" /\ mail = <<>>
  /\ ctx = FALSE /\ inited = FALSE /\ ready = FALSE /\ ran = {}

\* Every caller in state `from` moves to state `to`.
Settled(from, to) == [c \in Calls |-> IF caller[c] \in from THEN to ELSE caller[c]]

Idle(c) == [chain EXCEPT ![c] = "none"]
NoChain == [c \in Calls |-> "none"]

InOrder(S) == {s \in [1..Cardinality(S) -> S] : \A i, j \in DOMAIN s : s[i] = s[j] => i = j}

\* dispatch() after the gate: spawn or join the spawn, deliver, or refuse.
Dispatch(c) ==
  /\ caller[c] = "idle"
  /\ \/ /\ handle = "absent" /\ dormant
        /\ caller' = [caller EXCEPT ![c] = "spawning"]
        /\ chain' = IF Spawning THEN chain ELSE [chain EXCEPT ![c] = "checkout"]
        /\ UNCHANGED mail
     \/ /\ handle \in {"booting", "active"}
        /\ caller' = [caller EXCEPT ![c] = "delivered"]
        /\ mail' = IF thread = "up" THEN Append(mail, c) ELSE mail
        /\ UNCHANGED chain
     \/ /\ handle \in {"degraded", "stopped"}
        /\ caller' = [caller EXCEPT ![c] = "DEGRADED"]
        /\ UNCHANGED <<chain, mail>>
  /\ UNCHANGED <<dormant, handle, threads, thread, ctx, inited, ready, ran>>

\* Seeded fault: the callers are delivered without waitActive().
FaultyCheckoutNoWait(c) ==
  /\ chain[c] = "checkout"
  /\ handle' = "booting" /\ threads' = threads + 1 /\ thread' = "up"
  /\ chain' = Idle(c) /\ dormant' = FALSE
  /\ caller' = Settled({"spawning"}, "delivered")
  /\ \E s \in InOrder({d \in Calls : caller[d] = "spawning"}) : mail' = <<"init">> \o s
  /\ ctx' = FALSE /\ inited' = FALSE /\ ready' = FALSE
  /\ UNCHANGED ran

\* onDemandSpawn after checkoutCompartment(): register(), post `init`, wait.
Checkout(c) ==
  /\ chain[c] = "checkout"
  /\ handle' = "booting" /\ threads' = threads + 1 /\ thread' = "up"
  /\ mail' = <<"init">> /\ ctx' = FALSE /\ inited' = FALSE /\ ready' = FALSE
  /\ chain' = [chain EXCEPT ![c] = "waiting"]
  /\ UNCHANGED <<dormant, caller, ran>>

\* The thread could not be created: the spawn rejects, nothing is registered.
CheckoutFails(c) ==
  /\ chain[c] = "checkout"
  /\ chain' = Idle(c) /\ caller' = Settled({"spawning"}, "DEGRADED")
  /\ UNCHANGED <<dormant, handle, threads, workerVars>>

\* `ready` at the host: the waiter resolves, the id leaves the dormant map and
\* the callers deliver, in some order.
Ready ==
  /\ ready /\ ready' = FALSE
  /\ handle' = IF handle = "booting" THEN "active" ELSE handle
  /\ \/ /\ \E c \in Calls : chain[c] = "waiting"
        /\ dormant' = FALSE /\ chain' = NoChain
        /\ caller' = Settled({"spawning"}, "delivered")
        /\ \E s \in InOrder({c \in Calls : caller[c] = "spawning"}) : mail' = mail \o s
     \/ /\ \A c \in Calls : chain[c] # "waiting"
        /\ UNCHANGED <<dormant, chain, caller, mail>>
  /\ UNCHANGED <<threads, thread, ctx, inited, ran>>

\* Seeded fault: only the call that started the spawn learns of the timeout.
FaultyWaitTimeout(c) ==
  /\ chain[c] = "waiting"
  /\ chain' = Idle(c) /\ caller' = [caller EXCEPT ![c] = "DEGRADED"]
  /\ UNCHANGED <<dormant, handle, threads, workerVars>>

\* waitActive's 10 s bound: the spawn rejects; the handle stays booting and
\* the id stays in the dormant map.
WaitTimeout(c) ==
  /\ chain[c] = "waiting"
  /\ chain' = Idle(c) /\ caller' = Settled({"spawning"}, "DEGRADED")
  /\ UNCHANGED <<dormant, handle, threads, workerVars>>

\* Seeded fault: the ready waiters are forgotten, not rejected.
FaultyFail == chain' = NoChain /\ caller' = Settled({"delivered"}, "DEGRADED")

\* failInflight(): ready waiters reject, delivered calls resolve DEGRADED.
Fail ==
  \/ /\ \E c \in Calls : chain[c] = "waiting"
     /\ chain' = NoChain /\ caller' = Settled({"spawning", "delivered"}, "DEGRADED")
  \/ /\ \A c \in Calls : chain[c] # "waiting"
     /\ caller' = Settled({"delivered"}, "DEGRADED")
     /\ UNCHANGED chain

\* The thread ends: an 'error' event, or an 'exit' the host did not ask for
\* with a code # 0, is a crash; any other exit fails no call.  (The exit that
\* follows an error finds nothing left to fail.)
ThreadEnds ==
  /\ thread = "up" /\ thread' = "gone" /\ mail' = <<>>
  /\ \/ Fail /\ handle' = "degraded"
     \/ UNCHANGED <<handle, chain, caller>>
  /\ UNCHANGED <<dormant, threads, ctx, inited, ready, ran>>

\* host.compartment.terminate@1 finds only a registered compartment.
Terminate ==
  /\ handle \notin {"absent", "stopped"} /\ Fail
  /\ handle' = "stopped"
  /\ UNCHANGED <<dormant, threads, workerVars>>

\* The deadline timer of a delivered call.
CallTimeout(c) ==
  /\ caller[c] = "delivered"
  /\ caller' = [caller EXCEPT ![c] = "BUDGET"]
  /\ UNCHANGED <<dormant, handle, chain, threads, workerVars>>

\* The worker: `init` sets ctx and calls onInit, whose settling sends `ready`.
HandleInit ==
  /\ thread = "up" /\ mail # <<>> /\ Head(mail) = "init"
  /\ mail' = Tail(mail) /\ ctx' = TRUE
  /\ UNCHANGED <<hostVars, threads, thread, inited, ready, ran>>

OnInitSettles ==
  /\ thread = "up" /\ ctx /\ ~inited
  /\ inited' = TRUE /\ ready' = TRUE
  /\ UNCHANGED <<hostVars, threads, thread, mail, ctx, ran>>

\* `deliver`: the handler runs and its return reaches the caller if it waits.
HandleDeliver(c) ==
  /\ thread = "up" /\ mail # <<>> /\ Head(mail) = c
  /\ mail' = Tail(mail) /\ ran' = ran \cup {c}
  /\ caller' = [caller EXCEPT ![c] = IF @ = "delivered" THEN "ok" ELSE @]
  /\ UNCHANGED <<dormant, handle, chain, threads, thread, ctx, inited, ready>>

Next ==
  \/ \E c \in Calls : Dispatch(c) \/ Checkout(c) \/ CheckoutFails(c) \/ WaitTimeout(c)
                        \/ CallTimeout(c) \/ HandleDeliver(c)
  \/ Ready \/ ThreadEnds \/ Terminate \/ HandleInit \/ OnInitSettles

Spec == Init /\ [][Next]_vars

\* Creating a thread returns or throws, and timers fire.
Fairness ==
  \A c \in Calls : /\ WF_vars(Checkout(c) \/ CheckoutFails(c))
                   /\ WF_vars(WaitTimeout(c)) /\ WF_vars(CallTimeout(c))

FairSpec == Spec /\ Fairness

-----------------------------------------------------------------------------
Answers == {"ok", "BUDGET", "DEGRADED"}

\* The type invariant.
TypeOK ==
  /\ dormant \in BOOLEAN /\ handle \in {"absent", "booting", "active", "degraded", "stopped"}
  /\ chain \in [Calls -> {"none", "checkout", "waiting"}]
  /\ caller \in [Calls -> {"idle", "spawning", "delivered"} \cup Answers]
  /\ threads \in 0..1 /\ thread \in {"none", "up", "gone"}
  /\ mail \in Seq(Calls \cup {"init"})
  /\ ctx \in BOOLEAN /\ inited \in BOOLEAN /\ ready \in BOOLEAN /\ ran \subseteq Calls

\* singleflight (spawnDormant): however many first touches race, and whatever
\* fails, an entry never gets a second thread.
OneThread == threads <= 1

\* `init` is posted in the turn that registers the handle: no delivery can
\* overtake it, so no handler is entered without a context.
CtxBeforeCall == mail # <<>> /\ Head(mail) \in Calls => ctx

\* a caller waits for a spawn only while that spawn is under way: a crash, a
\* timeout or a termination of the booting compartment strands nobody.
NobodyStranded == \A c \in Calls : caller[c] = "spawning" => Spawning

\* the calls that waited for the spawn are delivered only once onInit settled.
FirstTouchWaits ==
  [][\A c \in Calls : caller[c] = "spawning" /\ caller'[c] = "delivered" => inited]_vars

\* a first touch always ends, even when the new compartment never gets ready.
FirstTouchAnswered == \A c \in Calls : caller[c] # "idle" ~> caller[c] \in Answers

\* ports.ts, spawnDormant: "failures stay dormant so the next call retries": a
\* call to an entry the dormant map still holds is not refused unspawned.
NextCallRetries ==
  [][\A c \in Calls : dormant /\ caller[c] = "idle" => caller'[c] # "DEGRADED"]_vars
=============================================================================
