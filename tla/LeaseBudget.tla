----------------------------- MODULE LeaseBudget -----------------------------
(***************************************************************************)
(* The time budget of one attempt: what the timeouts of Processor.process  *)
(* leave of the lease that ClaimCrawlTask grants.  The pipeline's model    *)
(* takes leases to expire under a live owner only as an overrun; here is   *)
(* when the code's own numbers let that happen.                            *)
(*                                                                         *)
(* Time is counted in ticks of half a second, the shortest timeout in the  *)
(* code.  The claim, each event and the completion are a transaction each. *)
(* What a transaction does up to its end returns when its context is over, *)
(* at the latest.  Its end, COMMIT or ROLLBACK, starts only while the      *)
(* context lasts, but takes none: only the transport bounds it.  Code      *)
(* between two calls takes no time: an owner that is stopped (by its       *)
(* virtual machine, say) is out of this model.                             *)
(***************************************************************************)
EXTENDS Naturals

CONSTANTS
    Timeouts,         \* the values Config.ExecutionTimeout may have, in ticks
    DSNReadTimeout,   \* readTimeout of mysql.dsn in ticks, 0 if the DSN has none
    DSNWriteTimeout   \* writeTimeout of mysql.dsn, likewise

ASSUME BudgetAssumption ==
    /\ Timeouts \subseteq Nat \ {0}
    /\ DSNReadTimeout \in Nat /\ DSNWriteTimeout \in Nat

VARIABLES
    executionTimeout,   \* the value it has; cmd/worker sets it to engine.lua_timeout seconds
    now,                \* the clock
    step,               \* the call in hand
    bound,              \* what bounds it: "context", "transport" for a COMMIT or ROLLBACK
    until,              \* when what is in hand returns at the latest
    executionDeadline,  \* the deadline computed before the claim
    leaseUntil          \* lease_until, 0 before the claim

vars == <<executionTimeout, now, step, bound, until, executionDeadline, leaseUntil>>

Seconds(n) == 2 * n

ReadTimeout  == IF DSNReadTimeout = 0 THEN Seconds(10) ELSE DSNReadTimeout
WriteTimeout == IF DSNWriteTimeout = 0 THEN Seconds(10) ELSE DSNWriteTimeout

\* The end of a transaction: its packet is written, then the reply is read.
TransportTimeout == WriteTimeout + ReadTimeout

\* Mutation: twice the time for a claim.
ClaimTimeout_Long == Seconds(10)

ClaimTimeout  == Seconds(5)
CommitTimeout == Seconds(10)
EventTimeout  == 1

\* The lease argument of ClaimCrawlTask.
LeaseTime == executionTimeout + Seconds(15)

\* Mutation: a second more for the execution.
ExecutionBudget_Long == executionTimeout + Seconds(6)

\* From just before the claim to the end of the execution.
ExecutionBudget == executionTimeout + Seconds(5)

\* "update" is the claim once its lease is computed; "announce" writes the event that the task
\* was claimed, "report" the one that tells the outcome.
Transactions == {"claim", "update", "announce", "report", "commit"}
Steps == Transactions \cup {"start", "execute", "end"}

TypeOK ==
    /\ executionTimeout \in Timeouts
    /\ now \in Nat /\ until \in Nat /\ executionDeadline \in Nat /\ leaseUntil \in Nat
    /\ step \in Steps /\ bound \in {"context", "transport"}

Init ==
    /\ executionTimeout \in Timeouts
    /\ now = 0
    /\ step = "start" /\ bound = "context"
    /\ until = 0
    /\ executionDeadline = 0
    /\ leaseUntil = 0

Tick ==
    /\ now < until
    /\ now' = now + 1
    /\ UNCHANGED <<executionTimeout, step, bound, until, executionDeadline, leaseUntil>>

Call(next, limit) ==
    /\ step' = next /\ bound' = "context"
    /\ until' = limit
    /\ UNCHANGED <<executionTimeout, now>>

\* The statements are through, or one has failed; the context, if it is over, has rolled back.
EndTransaction ==
    /\ step \in Transactions \ {"claim"} /\ bound = "context"
    /\ bound' = "transport"
    /\ until' = now + TransportTimeout
    /\ UNCHANGED <<executionTimeout, now, step, executionDeadline, leaseUntil>>

\* time.Now() for the deadline, then the claim's context.
Start ==
    /\ step = "start"
    /\ executionDeadline' = now + ExecutionBudget
    /\ Call("claim", now + ClaimTimeout)
    /\ UNCHANGED leaseUntil

\* time.Now() inside ClaimCrawlTask, for the lease.
GrantLease ==
    /\ step = "claim"
    /\ leaseUntil' = now + LeaseTime
    /\ Call("update", until)
    /\ UNCHANGED executionDeadline

\* The claim was committed: an event is written.
RecordClaimed ==
    /\ step = "update" /\ bound = "transport"
    /\ Call("announce", now + EventTimeout)
    /\ UNCHANGED <<executionDeadline, leaseUntil>>

\* A conflict, or an error in any of it.
ClaimFails ==
    /\ step \in {"claim", "update"}
    /\ Call("end", now)
    /\ UNCHANGED <<executionDeadline, leaseUntil>>

\* Mutation: WithTimeout for WithDeadline: the claim's time is granted again.
ExecutionLimit_Fresh == now + executionTimeout

\* The Lua timeout is counted from the start of the rule, and the deadline applies all the same.
ExecutionLimit ==
    IF now + executionTimeout < executionDeadline THEN now + executionTimeout ELSE executionDeadline

\* An event is written at best: the attempt goes on when that fails, too.
Execute ==
    /\ step = "announce"
    /\ now < executionDeadline
    /\ Call("execute", ExecutionLimit)
    /\ UNCHANGED <<executionDeadline, leaseUntil>>

\* The budget is used up before the execution: the attempt is given up.
OutOfBudget ==
    /\ step = "announce"
    /\ now >= executionDeadline
    /\ Call("end", now)
    /\ UNCHANGED <<executionDeadline, leaseUntil>>

\* The worker is shutting down when the event or the execution returns.
Stopped ==
    /\ step \in {"announce", "execute"}
    /\ Call("end", now)
    /\ UNCHANGED <<executionDeadline, leaseUntil>>

\* A payload, an error or the deadline: the outcome is recorded as an event.
RecordOutcome ==
    /\ step = "execute"
    /\ Call("report", now + EventTimeout)
    /\ UNCHANGED <<executionDeadline, leaseUntil>>

CommitOutcome ==
    /\ step = "report"
    /\ Call("commit", now + CommitTimeout)
    /\ UNCHANGED <<executionDeadline, leaseUntil>>

\* Committed, or not: the lease matters no more to this attempt.
Finish ==
    /\ step = "commit"
    /\ Call("end", now)
    /\ UNCHANGED <<executionDeadline, leaseUntil>>

Next ==
    \/ Tick \/ EndTransaction
    \/ Start \/ GrantLease \/ RecordClaimed \/ ClaimFails \/ Execute \/ OutOfBudget
    \/ Stopped \/ RecordOutcome \/ CommitOutcome \/ Finish

Spec == Init /\ [][Next]_vars

-----------------------------------------------------------------------------
\* Whenever the rule is running, the whole time of a commit is left of the lease: no takeover
\* meets a rule that is running, even one whose clock is ten seconds ahead.
ExecutionLeavesReserve == step = "execute" => now + CommitTimeout <= leaseUntil

\* An attempt does not start for nothing, its claim and the event of it using up the budget of
\* the execution, if engine.lua_timeout is longer than an event and two COMMITs: the seconds
\* the budget has on top of it pay for the statements of the claim, not for its COMMIT.
BudgetOutlastsClaim ==
    step = "announce" /\ executionTimeout > EventTimeout + 2 * TransportTimeout
        => now < executionDeadline

\* How long a completion may run past the lease that processor.go reserves its time in: by the
\* event that tells the outcome, the COMMIT of that event and the COMMIT of the completion.
CommitOverrunIsBounded ==
    step = "commit" => now <= leaseUntil + EventTimeout + 2 * TransportTimeout

=============================================================================
