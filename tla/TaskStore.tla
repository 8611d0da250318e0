------------------------------ MODULE TaskStore ------------------------------
(***************************************************************************)
(* The MySQL tables of the pipeline and the statements that write them.    *)
(* Each operator that primes a variable is one statement or one            *)
(* transaction: MySQL makes it atomic, and the WHERE clause of a           *)
(* conditional UPDATE is the enabling condition of the operator.           *)
(*                                                                         *)
(* A task is named by its primary key, and its one outbox row by the same  *)
(* number.  Times are abstracted: a lease is live, expired (lease_until is *)
(* not after the clock of whoever compares), or "none" for a NULL          *)
(* lease_until, which no comparison in SQL is ever true of.                *)
(***************************************************************************)
EXTENDS TaskStatus

VARIABLES
    tasks,      \* crawl_tasks: one row per task
    outboxes,   \* task_outboxes: the tasks that have an outbox row
    messageID,  \* the Redis message an outbox row is marked with, 0 while published_at is NULL
    results,    \* crawl_results: the run token of the attempt whose payload is stored, 0 for none
    nextToken   \* the next run token; crypto/rand never repeats one, nor does a counter

storeVars == <<tasks, outboxes, messageID, results, nextToken>>

-----------------------------------------------------------------------------
Row == [status     : Status \cup {"absent"},
        runToken   : Nat,
        lease      : {"none", "live", "expired"},
        retryCount : Nat]

NoRow == [status |-> "absent", runToken |-> 0, lease |-> "none", retryCount |-> 0]

\* What loadCrawlTaskFromMessage keeps of a row: the columns the claim compares.
Snapshot == [status : Status \cup {"absent"}, runToken : Nat]

SnapshotOf(t) == [status |-> tasks[t].status, runToken |-> tasks[t].runToken]

StoreTypeOK ==
    /\ tasks \in [Task -> Row]
    /\ outboxes \subseteq Task
    /\ messageID \in [Task -> Nat]
    /\ results \in [Task -> Nat]
    /\ nextToken \in Nat \ {0}

StoreInit ==
    /\ tasks = [t \in Task |-> NoRow]
    /\ outboxes = {}
    /\ messageID = [t \in Task |-> 0]
    /\ results = [t \in Task |-> 0]
    /\ nextToken = 1

-----------------------------------------------------------------------------
(* Acceptance: the task row and its outbox row, in one transaction.        *)

CreateQueuedCrawlTaskWithOutbox(t) ==
    /\ tasks[t].status = "absent"
    /\ tasks' = [tasks EXCEPT ![t].status = "queued"]
    /\ outboxes' = outboxes \cup {t}
    /\ UNCHANGED <<messageID, results, nextToken>>

-----------------------------------------------------------------------------
(* The outbox.                                                             *)

\* Mutation: the list forgets the published_at IS NULL condition.
Unpublished_Any == outboxes

Unpublished == {t \in outboxes : messageID[t] = 0}

\* The WHERE clause of MarkTaskOutboxPublished; when it selects no row the caller gets
\* ErrOutboxAlreadyPublished.
MarkWhere(t) == t \in Unpublished

MarkTaskOutboxPublished(t, id) ==
    /\ MarkWhere(t)
    /\ messageID' = [messageID EXCEPT ![t] = id]
    /\ UNCHANGED <<tasks, outboxes, results, nextToken>>

-----------------------------------------------------------------------------
(* Claiming.  A claim is the CAS queued -> running, or, for a message      *)
(* taken over from the pending list, the CAS on the token and the lease.   *)

\* Mutation: takeover compares the token and ignores lease_until.
ReclaimWhere_NoLease(t, seen) ==
    tasks[t].status = "running" /\ tasks[t].runToken = seen.runToken

ReclaimWhere(t, seen) ==
    /\ tasks[t].status = "running"
    /\ tasks[t].runToken = seen.runToken
    /\ tasks[t].lease = "expired"

\* Mutation: the claim of a queued snapshot does not compare the status in the UPDATE.
Claimable_Stale(t, seen, reclaim) ==
    \/ seen.status = "queued"
    \/ seen.status = "running" /\ reclaim /\ ReclaimWhere(t, seen)

Claimable(t, seen, reclaim) ==
    \/ seen.status = "queued" /\ tasks[t].status = "queued"
    \/ seen.status = "running" /\ reclaim /\ ReclaimWhere(t, seen)

\* Mutation: a takeover forgets the retry_count expression.
ClaimedRow_NoRetry(t, seen) ==
    [tasks[t] EXCEPT !.status = "running", !.runToken = nextToken, !.lease = "live"]

\* Mutation: retry_count counts down.
ClaimedRow_RetryDown(t, seen) ==
    [status     |-> "running",
     runToken   |-> nextToken,
     lease      |-> "live",
     retryCount |-> IF seen.status = "queued" THEN tasks[t].retryCount
                                              ELSE 0 - 1]

ClaimedRow(t, seen) ==
    [status     |-> "running",
     runToken   |-> nextToken,
     lease      |-> "live",
     retryCount |-> IF seen.status = "queued" THEN tasks[t].retryCount
                                              ELSE tasks[t].retryCount + 1]

\* Mutation: the token is the host's name and not random bytes: every attempt has the same.
TokenAfterClaim_Same == nextToken

TokenAfterClaim == nextToken + 1

ClaimCrawlTask(t, seen, reclaim) ==
    /\ Claimable(t, seen, reclaim)
    /\ tasks' = [tasks EXCEPT ![t] = ClaimedRow(t, seen)]
    /\ nextToken' = TokenAfterClaim
    /\ UNCHANGED <<outboxes, messageID, results>>

LeaseRunsOut(t) ==
    /\ tasks[t].lease = "live"
    /\ tasks' = [tasks EXCEPT ![t].lease = "expired"]
    /\ UNCHANGED <<outboxes, messageID, results, nextToken>>

-----------------------------------------------------------------------------
(* Completion: the terminal status and, for a success, the payload, in one *)
(* transaction.  crawl_results is keyed by the task, so a second payload   *)
(* makes the insert fail and rolls the transaction back.                   *)

\* Mutation: the terminal update is not fenced by run_token.
CompleteWhere_NoToken(t, token) == tasks[t].status = "running"

CompleteWhere(t, token) == tasks[t].status = "running" /\ tasks[t].runToken = token

\* Mutation: the payload is stored whatever the outcome of the execution.
ResultAfter_Always(t, token, outcome) == token

ResultAfter(t, token, outcome) == IF outcome = "succeeded" THEN token ELSE results[t]

CompleteCrawlTask(t, token, outcome) ==
    /\ CompleteWhere(t, token)
    /\ outcome = "succeeded" => results[t] = 0
    /\ tasks' = [tasks EXCEPT ![t].status = outcome, ![t].lease = "none"]
    /\ results' = [results EXCEPT ![t] = ResultAfter(t, token, outcome)]
    /\ UNCHANGED <<outboxes, messageID, nextToken>>

=============================================================================
