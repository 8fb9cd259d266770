---------------------------- MODULE JournalFold -----------------------------
(***************************************************************************)
(* The law gate with its journal folded into the vault                     *)
(* (plugins/vivim-law/src/index.ts, law.check@1 and journal(), in the      *)
(* compositions that grant vivim.law port:vault.append@1), composed with   *)
(* the port router.  law.check@1 awaits the journal row before it returns  *)
(* its decision; the row is a vault.append@1, a risky op the router gates  *)
(* with a second law.check@1 at the same compartment.  That nested check   *)
(* is not journaled (the recursion guard of journal()).                    *)
(***************************************************************************)
EXTENDS PortRouter

CONSTANTS
  Outer,      \* risky calls of plugins and of the root principal
  JournalOf,  \* JournalOf[c]: the vault.append@1 of the row for c's check
  Prompts     \* BOOLEAN: the values `prompt` may have

Rows == {JournalOf[c] : c \in Outer}

ASSUME FoldAssumption ==
  /\ Outer \subseteq Risky
  /\ JournalOf \in [Outer -> Risky \ Outer]
  /\ \A a, b \in Outer : JournalOf[a] = JournalOf[b] => a = b
  /\ Calls = Outer \cup Rows
  /\ \A r \in Rows : Target[r] # Law    \* the vault's op, not the law's
  /\ Prompts \subseteq BOOLEAN

VARIABLES
  decided,   \* what the law's evaluation of a check decided
  prompt     \* a deadline passes only when no message can be handled, no thread dies

foldVars == <<vars, decided, prompt>>

FoldInit == Init /\ decided = [c \in Outer |-> "none"] /\ prompt \in Prompts

Router(A) == A /\ UNCHANGED <<decided, prompt>>

\* law.check@1 up to `await journal(...)`: policy, consent and overlay decide.
Decide(c) ==
  /\ worker[Law] = "up" /\ Gate(c) \in held[Law] /\ decided[c] = "none"
  /\ \E v \in {"allow", "deny"} : decided' = [decided EXCEPT ![c] = v]
  /\ UNCHANGED <<vars, prompt>>

\* journal(): ctx.port.call("vault.append@1", ...) of the row.
WriteRow(c) ==
  /\ worker[Law] = "up" /\ Gate(c) \in held[Law] /\ decided[c] # "none"
  /\ Router(Submit(JournalOf[c]))

\* Seeded faults: the row is not awaited; only a written row ends the wait.
FaultyRowNotAwaited(c) == stage[JournalOf[c]] # "idle"
FaultyRowMustBeWritten(c) == reply[JournalOf[c]] = "ok"

\* The row is best effort: any answer of the append ends the wait.
RowSettled(c) == reply[JournalOf[c]] # "none"

CheckReturns(c) ==
  /\ RowSettled(c)
  /\ Router(WorkerReturn(Law, Gate(c), decided[c]))

\* The nested check of a row returns at once; so does every op leg.
OtherReturn(d) ==
  /\ d.leg = "op" \/ d.call \in Rows
  /\ \E r \in Results(d) : Router(WorkerReturn(To(d), d, r))

\* Some message is still to be handled by the host or by a worker.
Movable ==
  \/ \E c \in Calls : stage[c] = "gate" /\ gateAns[c] # "none" /\ reply[c] = "none"
  \/ \E t \in Compartments, d \in Deliveries :
       /\ worker[t] = "up" /\ d \in held[t]
       /\ d.leg = "op" \/ d.call \in Rows \/ decided[d.call] = "none"
            \/ stage[JournalOf[d.call]] = "idle" \/ RowSettled(d.call)

FoldElapse(d) == (prompt => ~Movable) /\ Router(Elapse(d))

FoldNext ==
  \/ \E c \in Outer : Router(Submit(c)) \/ Decide(c) \/ WriteRow(c) \/ CheckReturns(c)
  \/ \E c \in Calls : Router(Continue(c))
  \/ \E d \in Deliveries : OtherReturn(d) \/ FoldElapse(d) \/ Router(TimerFires(d))
  \/ \E t \in Compartments : ~prompt /\ Router(WorkerError(t))

FoldSpec == FoldInit /\ [][FoldNext]_foldVars

-----------------------------------------------------------------------------

\* audit before act (law.check@1 awaits its journal call): an allowed mutation
\* reaches its implementation only after the row's append was answered.
RowBeforeOp ==
  \A c \in Outer : Op(c) \in posted => reply[JournalOf[c]] # "none"

\* the only way the gate can stand still with nothing failing: every slot of
\* the law is taken by a check that waits for its own row, and the row's check
\* waits in the law's queue.
StallIsSelfInflicted ==
  (prompt /\ ~Movable /\ \E c \in Outer : stage[c] # "idle" /\ reply[c] = "none" /\ Gate(c) \in pending)
    => /\ Cardinality(inflight[Law]) = MaxConcurrentCalls[Law]
       /\ inflight[Law] \subseteq Outer
       /\ \A c \in inflight[Law] : Gate(JournalOf[c]) \in Queued(Law)

\* journal(): "a law decision is never blocked by a journal failure": once the
\* law has decided on a call the call is not refused for want of the answer.
DecisionNeverBlocked ==
  \A c \in Outer : decided[c] # "none" => gateAns[c] # "BUDGET"
=============================================================================
