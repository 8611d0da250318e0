------------------------- MODULE LeaseBudget_proofs -------------------------
(***************************************************************************)
(* The time budget holds for every execution timeout, for every timeout of *)
(* the transport and for every moment at which the calls return.           *)
(***************************************************************************)
EXTENDS LeaseBudget, TLAPS

(* The inductive invariant behind the bounds: how far each call may run,   *)
(* from the deadline of the execution, and how far that is from the lease. *)

\* What the end of the transaction in hand may add to the time of its call.
Ending == IF bound = "transport" THEN TransportTimeout ELSE 0

BudgetIsKept ==
    /\ now <= until
    /\ step \notin Transactions => bound = "context"
    /\ step = "claim" => /\ bound = "context"
                         /\ executionDeadline <= now + ExecutionBudget
    /\ step \in {"claim", "update"} => until + executionTimeout <= executionDeadline + Ending
    /\ step = "announce" =>
           until + executionTimeout <= executionDeadline + EventTimeout + TransportTimeout + Ending
    /\ step = "execute" => until <= executionDeadline
    /\ step = "report" => until <= executionDeadline + EventTimeout + Ending
    /\ step = "commit" =>
           until <= executionDeadline + CommitTimeout + EventTimeout + TransportTimeout + Ending
    /\ step \notin {"start", "claim", "end"} => executionDeadline + CommitTimeout <= leaseUntil

IInv == TypeOK /\ BudgetIsKept

LEMMA TransportIsBounded == TransportTimeout \in Nat
BY BudgetAssumption DEF TransportTimeout, ReadTimeout, WriteTimeout, Seconds

LEMMA TimeoutsAreNumbers == TypeOK => executionTimeout \in Nat
BY BudgetAssumption DEF TypeOK

USE DEF Seconds, ClaimTimeout, CommitTimeout, EventTimeout, LeaseTime, ExecutionBudget

\* Every call is made within what is left of the budget, and keeps the distance between the
\* deadline of the execution and the end of the lease.
LEMMA InductiveInvariant == Spec => []IInv
<1>1. Init => IInv
  BY BudgetAssumption DEF Init, IInv, TypeOK, BudgetIsKept, Steps, Transactions
<1>2. IInv /\ [Next]_vars => IInv'
  <2> SUFFICES ASSUME IInv, [Next]_vars
               PROVE  IInv'
    OBVIOUS
  <2> /\ executionTimeout \in Nat
      /\ TransportTimeout \in Nat /\ TransportTimeout' = TransportTimeout
    BY TimeoutsAreNumbers, TransportIsBounded DEF IInv, TransportTimeout, ReadTimeout, WriteTimeout
  <2> USE DEF IInv, TypeOK, BudgetIsKept, Steps, Transactions, Ending, Call
  <2>1. CASE Tick
    BY <2>1 DEF Tick
  <2>2. CASE EndTransaction
    BY <2>2 DEF EndTransaction
  <2>3. CASE Start
    BY <2>3 DEF Start
  <2>4. CASE GrantLease
    BY <2>4 DEF GrantLease
  <2>5. CASE RecordClaimed
    BY <2>5 DEF RecordClaimed
  <2>6. CASE ClaimFails
    BY <2>6 DEF ClaimFails
  <2>7. CASE Execute
    BY <2>7 DEF Execute, ExecutionLimit
  <2>8. CASE OutOfBudget
    BY <2>8 DEF OutOfBudget
  <2>9. CASE Stopped
    BY <2>9 DEF Stopped
  <2>10. CASE RecordOutcome
    BY <2>10 DEF RecordOutcome
  <2>11. CASE CommitOutcome
    BY <2>11 DEF CommitOutcome
  <2>12. CASE Finish
    BY <2>12 DEF Finish
  <2>13. CASE UNCHANGED vars
    BY <2>13 DEF vars
  <2>14. QED
    BY <2>1, <2>2, <2>3, <2>4, <2>5, <2>6, <2>7, <2>8, <2>9, <2>10, <2>11, <2>12, <2>13 DEF Next
<1>3. QED
  BY <1>1, <1>2, PTL DEF Spec

\* While a rule runs, the whole time of a commit is left of its lease (the reserve that
\* processor.go takes off the lease before the claim).
THEOREM ReserveIsKept == Spec => []ExecutionLeavesReserve
<1>1. IInv => ExecutionLeavesReserve
  BY DEF IInv, TypeOK, BudgetIsKept, ExecutionLeavesReserve
<1>2. QED
  BY <1>1, InductiveInvariant, PTL

\* A claim and its event, whose COMMITs only the transport bounds, never use up the budget of an
\* execution that may take longer than the event and the two COMMITs (processor.go, db.go).
THEOREM ClaimsFitTheBudget == Spec => []BudgetOutlastsClaim
<1>1. IInv => BudgetOutlastsClaim
  <2> SUFFICES ASSUME IInv PROVE BudgetOutlastsClaim
    OBVIOUS
  <2> executionTimeout \in Nat /\ TransportTimeout \in Nat
    BY TimeoutsAreNumbers, TransportIsBounded DEF IInv
  <2> QED
    BY DEF IInv, TypeOK, BudgetIsKept, BudgetOutlastsClaim, Ending
<1>2. QED
  BY <1>1, InductiveInvariant, PTL

\* A completion outlives its lease by one event and two COMMITs at most: that of the event and
\* its own, which no context ends (processor.go, db.go).
THEOREM OverrunIsBounded == Spec => []CommitOverrunIsBounded
<1>1. IInv => CommitOverrunIsBounded
  BY TransportIsBounded DEF IInv, TypeOK, BudgetIsKept, CommitOverrunIsBounded, Ending
<1>2. QED
  BY <1>1, InductiveInvariant, PTL

=============================================================================
