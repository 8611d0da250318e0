---------------------------- MODULE CrawlPipeline ----------------------------
(***************************************************************************)
(* The durable pipeline: the API accepts tasks, publishers move them from  *)
(* the outbox to the stream, workers execute them, and MySQL and Redis are *)
(* all they share.                                                         *)
(*                                                                         *)
(* Faults are counted, so that a behaviour has finitely many of them and   *)
(* the model finitely many states:                                         *)
(*   faults    failed calls, lost replies, crashes             MaxFaults   *)
(*   overruns  leases that expire under an attempt still alive MaxOverruns *)
(* Nothing else is bounded.                                                *)
(***************************************************************************)
EXTENDS OutboxPublisher, WorkerProcessor

CONSTANTS MaxFaults, MaxOverruns

ASSUME FaultAssumption == MaxFaults \in Nat /\ MaxOverruns \in Nat

VARIABLES faults, overruns

vars == <<storeVars, streamVars, publisherVars, workerVars, faults, overruns>>

TypeOK ==
    /\ StoreTypeOK
    /\ StreamTypeOK
    /\ PublisherTypeOK
    /\ WorkerTypeOK
    /\ faults \in 0 .. MaxFaults
    /\ overruns \in 0 .. MaxOverruns

Init ==
    /\ StoreInit /\ StreamInit /\ PublisherInit /\ WorkerInit
    /\ faults = 0
    /\ overruns = 0

-----------------------------------------------------------------------------
\* handler.CreateCrawlTask on a fresh request key.
Accept(t) ==
    /\ CreateQueuedCrawlTaskWithOutbox(t)
    /\ UNCHANGED <<streamVars, publisherVars, workerVars, faults, overruns>>

PublisherStep(p) == Publish(p) /\ UNCHANGED <<workerVars, faults, overruns>>

ConsumeStep(p)  == Consume(p)     /\ UNCHANGED <<publisherVars, faults, overruns>>
ReclaimStep(p)  == Reclaim(p)     /\ UNCHANGED <<publisherVars, faults, overruns>>
EndSweepStep(p) == EndSweep(p)    /\ UNCHANGED <<publisherVars, faults, overruns>>
GateStep(p)     == AcquireGate(p) /\ UNCHANGED <<publisherVars, faults, overruns>>
ProcessStep(p)  == Process(p)     /\ UNCHANGED <<publisherVars, faults, overruns>>

\* p carries out the attempt that MySQL has on record for t.
Owns(p, t) ==
    /\ pc[p] \in {"execute", "complete"}
    /\ TaskOf(p) = t
    /\ job[p].token = tasks[t].runToken

\* Time passes: the owner has crashed or given up.
OrphanLeaseExpires(t) ==
    /\ \A p \in Proc : ~Owns(p, t)
    /\ LeaseRunsOut(t)
    /\ UNCHANGED <<streamVars, publisherVars, workerVars, faults, overruns>>

\* Time passes: the owner is still at work, stalled for longer than the lease.
OwnerOverruns(t) ==
    /\ overruns < MaxOverruns
    /\ \E p \in Proc : Owns(p, t)
    /\ LeaseRunsOut(t)
    /\ overruns' = overruns + 1
    /\ UNCHANGED <<streamVars, publisherVars, workerVars, faults>>

MessageBecomesIdle(id) ==
    /\ BecomesIdle(id)
    /\ UNCHANGED <<storeVars, publisherVars, workerVars, faults, overruns>>

Fault ==
    /\ faults < MaxFaults
    /\ faults' = faults + 1
    /\ \/ \E p \in Publisher : PublisherFault(p) /\ UNCHANGED workerVars
       \/ WorkerFault /\ UNCHANGED publisherVars
    /\ UNCHANGED overruns

\* Every task has ended and every message is acknowledged: the loops poll and find nothing.
Quiescent ==
    /\ \A t \in Task : IsTerminal(tasks[t].status)
    /\ \A p \in Publisher : pubPc[p] = "list"
    /\ \A p \in Proc : pc[p] = "idle"
    /\ pel = {} /\ lastDelivered = Len(stream) /\ Unpublished = {}
    /\ UNCHANGED vars

Next ==
    \/ \E t \in Task : Accept(t) \/ OrphanLeaseExpires(t) \/ OwnerOverruns(t)
    \/ \E p \in Publisher : PublisherStep(p)
    \/ \E p \in Proc : \/ ConsumeStep(p) \/ ReclaimStep(p) \/ EndSweepStep(p)
                       \/ GateStep(p) \/ ProcessStep(p)
    \/ \E id \in pel : MessageBecomesIdle(id)
    \/ Fault
    \/ Quiescent

Spec == Init /\ [][Next]_vars

-----------------------------------------------------------------------------
(* Fairness.  Publishers and reclaimers are driven by tickers, consumers   *)
(* by a blocking read, and a processor by its own code, whose calls all    *)
(* have timeouts: each keeps taking the step it can take.  A loop waiting  *)
(* at the gate is served in turn (a Go channel queues its senders), though *)
(* the gate is taken again and again in between: strong fairness.  Clients *)
(* owe nothing, so Accept has none, nor have faults.                       *)

\* A message is added twice only by a second publisher or after a fault.
MaxMessages == Cardinality(Task) * Cardinality(Publisher) + MaxFaults

Fairness ==
    /\ \A p \in Publisher : WF_vars(PublisherStep(p))
    /\ \A p \in Proc : /\ WF_vars(ConsumeStep(p))
                       /\ WF_vars(ReclaimStep(p))
                       /\ WF_vars(EndSweepStep(p))
                       /\ SF_vars(GateStep(p))
                       /\ WF_vars(ProcessStep(p))
    /\ \A t \in Task : WF_vars(OrphanLeaseExpires(t))
    /\ \A id \in 1 .. MaxMessages : WF_vars(MessageBecomesIdle(id))

FairSpec == Spec /\ Fairness

-----------------------------------------------------------------------------
(* Safety.                                                                 *)

\* A stored payload is that of the attempt on record, and it is there exactly when the task
\* succeeded: a superseded owner never commits, a failed task shows no result, and the status
\* and the payload move together (CompleteCrawlTask's token condition and transaction).
ResultIsFenced ==
    \A t \in Task : results[t] = IF tasks[t].status = "succeeded"
                                 THEN tasks[t].runToken ELSE 0

\* An accepted task that has not ended can still be reached: its outbox row is unpublished, or
\* a message for it is undelivered or pending (outbox in one transaction with the task; XADD
\* before the mark; no acknowledgement before the terminal commit).
Reachable(t) ==
    \/ t \in Unpublished
    \/ \E id \in 1 .. Len(stream) : stream[id] = t /\ (id > lastDelivered \/ id \in pel)

NoTaskIsLost ==
    \A t \in Task : tasks[t].status \in {"queued", "running"} => Reachable(t)

\* A message leaves the pending list only after its task's terminal commit ("the transaction
\* boundary required before Redis XACK"), whichever attempt committed it.
AckedOnlyAfterTerminal ==
    \A id \in 1 .. lastDelivered : id \notin pel => IsTerminal(tasks[stream[id]].status)

\* A running task can always be taken over: it has a lease that can expire, since lease_until
\* NULL would satisfy no comparison, and it is on record under a token.
RunningCanBeTakenOver ==
    \A t \in Task : tasks[t].status = "running"
        => tasks[t].lease # "none" /\ tasks[t].runToken # 0

\* As long as no owner has outlived its lease, no two loops execute one task at a time,
\* however messages are duplicated, taken over or redelivered.
AtWork(p) == pc[p] \in {"execute", "complete"}

SoleExecutor ==
    overruns = 0 => \A p, q \in Proc : AtWork(p) /\ AtWork(q) /\ TaskOf(p) = TaskOf(q) => p = q

\* Overruns or not, the token names one loop at most: of two loops at work on a task, one
\* can commit.
SoleOwner ==
    \A p, q \in Proc : AtWork(p) /\ AtWork(q) /\ job[p].token = job[q].token => p = q

\* The loops of a service never process two messages at a time (the gate), and the gate is
\* never left taken by nobody.
GateIsExclusive ==
    \A s \in Service :
        Cardinality({p \in Proc : ServiceOf(p) = s /\ pc[p] \in Inside}) = IF gate[s] THEN 1 ELSE 0

\* A marked row names a message that carries its task.
MarkNamesItsMessage ==
    \A t \in Task : messageID[t] # 0 => messageID[t] <= Len(stream) /\ stream[messageID[t]] = t

\* Duplicate messages are accounted for: of the messages of an accepted task, each is due to
\* another publisher or to a fault.
DuplicatesAreBounded == Len(stream) <= Cardinality(outboxes) * Cardinality(Publisher) + faults

\* retry_count tells how often a task was taken over: every token ever granted is either a
\* task's first or one of its retries.
AttemptsOf(t) == tasks[t].retryCount + (IF tasks[t].runToken = 0 THEN 0 ELSE 1)

Attempts == UNION {{t} \X (1 .. AttemptsOf(t)) : t \in Task}

RetriesCountTakeovers == Cardinality(Attempts) = nextToken - 1

\* The status column moves along the table of status.go, the takeover and the completion
\* included, which do not consult it; a row is born queued.
StatusFollowsTable ==
    [][\A t \in Task : LET from == tasks[t].status
                           to   == tasks'[t].status
                       IN  to # from => \/ CanTransition(from, to)
                                        \/ from = "absent" /\ to = "queued"]_vars

\* An attempt is replaced only once its lease has run out, and a task that has ended keeps
\* the token it ended under.
NoEarlyTakeover ==
    [][\A t \in Task : tasks[t].runToken # 0 /\ tasks'[t].runToken # tasks[t].runToken
                        => tasks[t].status = "running" /\ tasks[t].lease = "expired"]_vars

-----------------------------------------------------------------------------
(* The inductive invariant behind the safety properties.                   *)

\* The message a loop is handling was delivered, so that it names a task.
JobsAreDelivered ==
    \A p \in Proc : pc[p] # "idle" => job[p].message \in 1 .. lastDelivered

\* What the columns of a row say of one another, and of its outbox row.
RowIsConsistent(t) ==
    /\ tasks[t].status # "pending"
    /\ tasks[t].status = "absent" <=> t \notin outboxes
    /\ tasks[t].status \in {"absent", "queued"} <=> tasks[t].runToken = 0
    /\ tasks[t].status = "running" <=> tasks[t].lease # "none"
    /\ tasks[t].runToken < nextToken

RowsAreConsistent == \A t \in Task : RowIsConsistent(t)

\* What a loop knows at each step: its attempt has a token that was granted, it completes with
\* an outcome, and it acknowledges a task that has ended.
JobIsSound(p) ==
    /\ AtWork(p) => job[p].token \in 1 .. nextToken - 1
    /\ pc[p] = "complete" => job[p].outcome # "none"
    /\ pc[p] = "ack" => IsTerminal(tasks[TaskOf(p)].status)

JobsAreSound == \A p \in Proc : JobIsSound(p)

\* Until an owner overruns, a loop at work is the owner on record and its lease is live.
OwnersAreLive ==
    overruns = 0 => \A p \in Proc :
        AtWork(p) => tasks[TaskOf(p)].runToken = job[p].token /\ tasks[TaskOf(p)].lease = "live"

\* A batch holds outbox rows, and a row about to be marked has a message that names it.
BatchesAreSound ==
    \A p \in Publisher :
        /\ batch[p] \subseteq outboxes
        /\ pubPc[p] = "mark" => sent[p] \in 1 .. Len(stream)
        /\ pubPc[p] = "mark" => \A t \in Task : IsNext(p, t) => stream[sent[p]] = t

IInv ==
    /\ TypeOK /\ JobsAreDelivered
    /\ RowsAreConsistent /\ ResultIsFenced
    /\ JobsAreSound /\ SoleOwner /\ OwnersAreLive
    /\ BatchesAreSound /\ MarkNamesItsMessage /\ AckedOnlyAfterTerminal

-----------------------------------------------------------------------------
(* The pipeline implements the lifecycle a client is promised.             *)

Lifecycle == INSTANCE CrawlTaskLifecycle WITH
    state    <- [t \in Task |-> IF tasks[t].status \in {"queued", "running"}
                                THEN "open" ELSE tasks[t].status],
    attempt  <- [t \in Task |-> tasks[t].runToken],
    snapshot <- results,
    attempts <- nextToken - 1

\* Every step of the pipeline is an acceptance, the start of an attempt, the end of a task, or
\* nothing at all to a client.
ImplementsLifecycle == Lifecycle!Spec

-----------------------------------------------------------------------------
(* Liveness, under FairSpec.                                               *)

\* Every accepted task ends, whatever finitely many faults and overruns happen.
EveryTaskEnds == Lifecycle!EveryTaskEnds

\* Every accepted task is published, though errors, and publishers that hold the same rows, cut
\* batches short.
EveryTaskIsPublished == \A t \in Task : t \in outboxes ~> messageID[t] # 0

\* Every message is acknowledged for good, duplicates of an ended task included.
PendingListDrains ==
    \A id \in 1 .. MaxMessages :
        (id <= Len(stream)) ~> [](id <= lastDelivered /\ id \notin pel)

=============================================================================
