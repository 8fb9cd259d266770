--------------------------- MODULE LazySpawnProofs --------------------------
(* Proofs about the lazy activation of a dormant compartment (LazySpawn), for *)
(* any finite set of calls.                                                 *)
EXTENDS LazySpawn, Integers, FiniteSetTheorems, TLAPS

\* The singleflight map holds at most one spawn, and a spawn that has not yet
\* registered its handle is the only one there ever was.
FlightInv ==
  /\ \A c, d \in Calls : chain[c] # "none" /\ chain[d] # "none" => c = d
  /\ \A c \in Calls : chain[c] = "checkout" => handle = "absent"
  /\ handle = "absent" <=> threads = 0

\* The thread sets its context, settles onInit and gets ready in this order,
\* and until it has a context the first message it finds is `init`.
MailInv ==
  /\ ready => inited
  /\ inited => ctx
  /\ thread = "none" \/ handle # "absent"
  /\ thread = "none" => ~ctx
  /\ ~ctx => IF thread = "up" THEN mail # <<>> /\ Head(mail) = "init" ELSE mail = <<>>

IInv == TypeOK /\ FlightInv /\ MailInv /\ NobodyStranded

\* What is posted for the waiting callers is a sequence of messages.
LEMMA InOrderType ==
  ASSUME NEW S \in SUBSET Calls, NEW s \in InOrder(S)
  PROVE  s \in Seq(Calls \cup {"init"})
<1>1. Cardinality(S) \in Nat
  BY CallsFinite, FS_Subset, FS_CardinalityType
<1>2. s \in [1..Cardinality(S) -> S]
  BY DEF InOrder
<1> QED
  BY <1>1, <1>2

LEMMA InitInv == Init => IInv
<1> SUFFICES ASSUME Init PROVE IInv
  OBVIOUS
<1>1. TypeOK
  <2>1. mail \in Seq(Calls \cup {"init"}) /\ threads \in 0..1
    BY DEF Init
  <2>2. chain \in [Calls -> {"none", "checkout", "waiting"}] /\ caller \in [Calls -> {"idle", "spawning", "delivered"} \cup Answers]
    BY DEF Init
  <2> QED
    BY <2>1, <2>2 DEF Init, TypeOK
<1>2. FlightInv
  BY DEF Init, FlightInv
<1>3. MailInv
  BY DEF Init, MailInv
<1>4. NobodyStranded
  BY DEF Init, NobodyStranded
<1> QED
  BY <1>1, <1>2, <1>3, <1>4 DEF IInv

\* Every action keeps the type invariant.
LEMMA TypeStep ==
  ASSUME IInv, [Next]_vars
  PROVE  TypeOK'
<1> USE DEF IInv, TypeOK, FlightInv, Settled, Idle, NoChain, Answers, hostVars, workerVars
<1>1. ASSUME NEW c \in Calls, Dispatch(c) PROVE TypeOK'
  <2>1. mail' \in Seq(Calls \cup {"init"})
    BY <1>1 DEF Dispatch
  <2>2. chain' \in [Calls -> {"none", "checkout", "waiting"}]
    BY <1>1 DEF Dispatch
  <2>3. caller' \in [Calls -> {"idle", "spawning", "delivered"} \cup Answers]
    BY <1>1 DEF Dispatch
  <2> QED
    BY <1>1, <2>1, <2>2, <2>3 DEF Dispatch
<1>2. ASSUME NEW c \in Calls, Checkout(c) PROVE TypeOK'
  <2>1. threads' \in 0..1
    BY <1>2 DEF Checkout
  <2>2. mail' \in Seq(Calls \cup {"init"})
    BY <1>2 DEF Checkout
  <2> QED
    BY <1>2, <2>1, <2>2 DEF Checkout
<1>3. ASSUME NEW c \in Calls, CheckoutFails(c) PROVE TypeOK'
  BY <1>3 DEF CheckoutFails
<1>4. ASSUME NEW c \in Calls, WaitTimeout(c) PROVE TypeOK'
  BY <1>4 DEF WaitTimeout
<1>5. ASSUME NEW c \in Calls, CallTimeout(c) PROVE TypeOK'
  BY <1>5 DEF CallTimeout
<1>6. ASSUME NEW c \in Calls, HandleDeliver(c) PROVE TypeOK'
  BY <1>6 DEF HandleDeliver
<1>7. ASSUME Ready PROVE TypeOK'
  <2>1. mail' \in Seq(Calls \cup {"init"})
    <3>1. CASE mail' = mail
      BY <3>1
    <3>2. CASE \E s \in InOrder({c \in Calls : caller[c] = "spawning"}) : mail' = mail \o s
      BY <3>2, InOrderType
    <3> QED
      BY <1>7, <3>1, <3>2 DEF Ready
  <2> QED
    BY <1>7, <2>1 DEF Ready
<1>8. ASSUME ThreadEnds PROVE TypeOK'
  BY <1>8 DEF ThreadEnds, Fail
<1>9. ASSUME Terminate PROVE TypeOK'
  BY <1>9 DEF Terminate, Fail
<1>10. ASSUME HandleInit PROVE TypeOK'
  BY <1>10 DEF HandleInit
<1>11. ASSUME OnInitSettles PROVE TypeOK'
  BY <1>11 DEF OnInitSettles
<1>12. ASSUME UNCHANGED vars PROVE TypeOK'
  BY <1>12 DEF vars
<1> QED
  BY <1>1, <1>2, <1>3, <1>4, <1>5, <1>6, <1>7, <1>8, <1>9, <1>10, <1>11, <1>12 DEF Next

\* spawnDormant(): no action starts a spawn beside another, or a second thread.
LEMMA FlightStep ==
  ASSUME IInv, [Next]_vars
  PROVE  FlightInv'
<1> USE DEF IInv, TypeOK, FlightInv, Spawning, Settled, Idle, NoChain, hostVars, workerVars
<1>1. ASSUME NEW c \in Calls, Dispatch(c) PROVE FlightInv'
  BY <1>1 DEF Dispatch
<1>2. ASSUME NEW c \in Calls, Checkout(c) PROVE FlightInv'
  BY <1>2 DEF Checkout
<1>3. ASSUME NEW c \in Calls, CheckoutFails(c) PROVE FlightInv'
  BY <1>3 DEF CheckoutFails
<1>4. ASSUME NEW c \in Calls, WaitTimeout(c) PROVE FlightInv'
  BY <1>4 DEF WaitTimeout
<1>5. ASSUME NEW c \in Calls, CallTimeout(c) PROVE FlightInv'
  BY <1>5 DEF CallTimeout
<1>6. ASSUME NEW c \in Calls, HandleDeliver(c) PROVE FlightInv'
  BY <1>6 DEF HandleDeliver
<1>7. ASSUME Ready PROVE FlightInv'
  BY <1>7 DEF Ready
<1>8. ASSUME ThreadEnds PROVE FlightInv'
  BY <1>8 DEF ThreadEnds, Fail, MailInv
<1>9. ASSUME Terminate PROVE FlightInv'
  BY <1>9 DEF Terminate, Fail
<1>10. ASSUME HandleInit PROVE FlightInv'
  BY <1>10 DEF HandleInit
<1>11. ASSUME OnInitSettles PROVE FlightInv'
  BY <1>11 DEF OnInitSettles
<1>12. ASSUME UNCHANGED vars PROVE FlightInv'
  BY <1>12 DEF vars
<1> QED
  BY <1>1, <1>2, <1>3, <1>4, <1>5, <1>6, <1>7, <1>8, <1>9, <1>10, <1>11, <1>12 DEF Next

\* Whatever ends a spawn settles every caller that waits for it.
LEMMA StrandStep ==
  ASSUME IInv, [Next]_vars
  PROVE  NobodyStranded'
<1> USE DEF IInv, TypeOK, FlightInv, NobodyStranded, Spawning, Settled, Idle, NoChain, hostVars, workerVars
<1>1. ASSUME NEW c \in Calls, Dispatch(c) PROVE NobodyStranded'
  BY <1>1 DEF Dispatch
<1>2. ASSUME NEW c \in Calls, Checkout(c) PROVE NobodyStranded'
  BY <1>2 DEF Checkout
<1>3. ASSUME NEW c \in Calls, CheckoutFails(c) PROVE NobodyStranded'
  BY <1>3 DEF CheckoutFails
<1>4. ASSUME NEW c \in Calls, WaitTimeout(c) PROVE NobodyStranded'
  BY <1>4 DEF WaitTimeout
<1>5. ASSUME NEW c \in Calls, CallTimeout(c) PROVE NobodyStranded'
  BY <1>5 DEF CallTimeout
<1>6. ASSUME NEW c \in Calls, HandleDeliver(c) PROVE NobodyStranded'
  BY <1>6 DEF HandleDeliver
<1>7. ASSUME Ready PROVE NobodyStranded'
  BY <1>7 DEF Ready
<1>8. ASSUME ThreadEnds PROVE NobodyStranded'
  BY <1>8 DEF ThreadEnds, Fail
<1>9. ASSUME Terminate PROVE NobodyStranded'
  BY <1>9 DEF Terminate, Fail
<1>10. ASSUME HandleInit PROVE NobodyStranded'
  BY <1>10 DEF HandleInit
<1>11. ASSUME OnInitSettles PROVE NobodyStranded'
  BY <1>11 DEF OnInitSettles
<1>12. ASSUME UNCHANGED vars PROVE NobodyStranded'
  BY <1>12 DEF vars
<1> QED
  BY <1>1, <1>2, <1>3, <1>4, <1>5, <1>6, <1>7, <1>8, <1>9, <1>10, <1>11, <1>12 DEF Next

\* `init` is posted with the handle, and nothing is posted before it.
LEMMA MailStep ==
  ASSUME IInv, [Next]_vars
  PROVE  MailInv'
<1> USE DEF IInv, TypeOK, FlightInv, MailInv, hostVars, workerVars
<1>1. ASSUME NEW c \in Calls, Dispatch(c) PROVE MailInv'
  BY <1>1 DEF Dispatch
<1>2. ASSUME NEW c \in Calls, Checkout(c) PROVE MailInv'
  BY <1>2 DEF Checkout
<1>3. ASSUME NEW c \in Calls, CheckoutFails(c) PROVE MailInv'
  BY <1>3 DEF CheckoutFails
<1>4. ASSUME NEW c \in Calls, WaitTimeout(c) PROVE MailInv'
  BY <1>4 DEF WaitTimeout
<1>5. ASSUME NEW c \in Calls, CallTimeout(c) PROVE MailInv'
  BY <1>5 DEF CallTimeout
<1>6. ASSUME NEW c \in Calls, HandleDeliver(c) PROVE MailInv'
  BY <1>6, CallsFinite DEF HandleDeliver
<1>7. ASSUME Ready PROVE MailInv'
  BY <1>7 DEF Ready
<1>8. ASSUME ThreadEnds PROVE MailInv'
  BY <1>8 DEF ThreadEnds, Fail
<1>9. ASSUME Terminate PROVE MailInv'
  BY <1>9 DEF Terminate, Fail
<1>10. ASSUME HandleInit PROVE MailInv'
  BY <1>10 DEF HandleInit
<1>11. ASSUME OnInitSettles PROVE MailInv'
  BY <1>11 DEF OnInitSettles
<1>12. ASSUME UNCHANGED vars PROVE MailInv'
  BY <1>12 DEF vars
<1> QED
  BY <1>1, <1>2, <1>3, <1>4, <1>5, <1>6, <1>7, <1>8, <1>9, <1>10, <1>11, <1>12 DEF Next

\* spawnDormant(), checkoutCompartment() and the shim: the invariant of one
\* activation over all first touches, crashes, timeouts and terminations.
THEOREM Inductive == Spec => []IInv
<1>1. IInv /\ [Next]_vars => IInv'
  BY TypeStep, FlightStep, MailStep, StrandStep DEF IInv
<1> QED
  BY <1>1, InitInv, PTL DEF Spec

\* Every reachable activation has its type.
THEOREM TypeCorrect == Spec => []TypeOK
<1>1. IInv => TypeOK
  BY DEF IInv
<1> QED
  BY <1>1, Inductive, PTL

\* The singleflight map: an entry never gets a second thread.
THEOREM SingleFlight == Spec => []OneThread
<1>1. IInv => OneThread
  BY DEF IInv, TypeOK, OneThread
<1> QED
  BY <1>1, Inductive, PTL

\* failInflight(), waitActive() and spawnDormant(): a caller waits for a spawn
\* only while the spawn is under way.
THEOREM NoneStranded == Spec => []NobodyStranded
<1>1. IInv => NobodyStranded
  BY DEF IInv
<1> QED
  BY <1>1, Inductive, PTL

\* The shim: no handler is entered before `init` gave it a context.
THEOREM ContextFirst == Spec => []CtxBeforeCall
<1>1. IInv => CtxBeforeCall
  BY CallsFinite DEF IInv, MailInv, CtxBeforeCall
<1> QED
  BY <1>1, Inductive, PTL

\* waitActive(): who waited for the spawn is delivered after onInit settled.
THEOREM WaitersAfterInit == Spec => FirstTouchWaits
<1> DEFINE Waited ==
      \A c \in Calls : caller[c] = "spawning" /\ caller'[c] = "delivered" => inited
<1>1. ASSUME IInv, Next PROVE Waited
  <2>1. CASE Ready
    BY <1>1, <2>1 DEF Ready, IInv, MailInv
  <2>2. CASE ~Ready
    BY <1>1, <2>2 DEF Next, IInv, TypeOK, Dispatch, Checkout, CheckoutFails, WaitTimeout, CallTimeout,
       HandleDeliver, ThreadEnds, Terminate, Fail, HandleInit, OnInitSettles, Settled, hostVars
  <2> QED
    BY <2>1, <2>2
<1>2. IInv /\ [Next]_vars => [Waited]_vars
  BY <1>1
<1> QED
  BY <1>2, Inductive, PTL DEF Spec, FirstTouchWaits
=============================================================================
