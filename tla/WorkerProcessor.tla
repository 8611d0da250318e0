--------------------------- MODULE WorkerProcessor ---------------------------
(***************************************************************************)
(* cmd/worker: each host process runs a number of services; a service is a *)
(* Consumer loop and a Reclaimer loop that share one Processor, whose gate *)
(* admits one message at a time.  A loop hands one message at a time to    *)
(* the processor and waits for it.                                         *)
(*                                                                         *)
(* The calls of Processor.process are steps of their own, since other      *)
(* loops and other hosts run between them: taking the gate, loading the    *)
(* row, claiming it, executing the rule, completing, acknowledging.        *)
(***************************************************************************)
EXTENDS TaskStore, TaskStream

CONSTANTS
    Host,         \* worker processes
    WorkerCount   \* services per process (engine.worker_count)

ASSUME WorkerAssumption == WorkerCount \in Nat \ {0}

Service == [host : Host, slot : 1 .. WorkerCount]
Proc    == [host : Host, slot : 1 .. WorkerCount, loop : {"consumer", "reclaimer"}]

ServiceOf(p) == [host |-> p.host, slot |-> p.slot]

VARIABLES
    pc,      \* the next step of each loop
    job,     \* what the loop knows of the message it is handling
    cursor,  \* a reclaimer's XAUTOCLAIM cursor, 0 for "0-0"
    gate     \* the processors' one-slot channels: TRUE while the slot is taken

workerVars == <<pc, job, cursor, gate>>

\* The steps taken while the gate is held.
Inside == {"load", "claim", "execute", "complete", "ack"}

Job == [message : Nat,
        seen    : Snapshot,
        token   : Nat,
        outcome : {"none", "succeeded", "failed"}]

NoJob == [message |-> 0, seen |-> [status |-> "absent", runToken |-> 0],
          token |-> 0, outcome |-> "none"]

WorkerTypeOK ==
    /\ pc \in [Proc -> {"idle", "gate"} \cup Inside]
    /\ job \in [Proc -> Job]
    /\ cursor \in [Proc -> Nat]
    /\ gate \in [Service -> BOOLEAN]

WorkerInit ==
    /\ pc = [p \in Proc |-> "idle"]
    /\ job = [p \in Proc |-> NoJob]
    /\ cursor = [p \in Proc |-> 0]
    /\ gate = [s \in Service |-> FALSE]

\* The task the message in hand names.
TaskOf(p) == stream[job[p].message]

-----------------------------------------------------------------------------
(* Delivery.                                                               *)

Receive(p, id) ==
    /\ pc' = [pc EXCEPT ![p] = "gate"]
    /\ job' = [job EXCEPT ![p] = [NoJob EXCEPT !.message = id]]
    /\ UNCHANGED gate

\* Consumer.Run: XREADGROUP ">" with Count 1.
Consume(p) ==
    /\ p.loop = "consumer" /\ pc[p] = "idle"
    /\ \E id \in 1 .. Len(stream) : XReadGroup(id) /\ Receive(p, id)
    /\ UNCHANGED <<storeVars, cursor>>

\* XAUTOCLAIM returns "0-0" once its scan has come to the end of the pending list.
NextCursor(id) == IF \E k \in pel : k > id THEN id ELSE 0

\* Reclaimer.Run, inside a sweep: adopt the next idle entry after the cursor.
Reclaim(p) ==
    /\ p.loop = "reclaimer" /\ pc[p] = "idle"
    /\ \E id \in idle :
         /\ XAutoClaim(cursor[p], id)
         /\ cursor' = [cursor EXCEPT ![p] = NextCursor(id)]
         /\ Receive(p, id)
    /\ UNCHANGED storeVars

\* Mutation: the cursor outlives the sweep.
CursorAfterSweep_Kept(p) == cursor[p]

\* The next tick starts again from "0-0".
CursorAfterSweep(p) == 0

\* The scan finds nothing more; the sweep ends and the next tick starts another.
EndSweep(p) ==
    /\ p.loop = "reclaimer" /\ pc[p] = "idle"
    /\ cursor[p] # 0
    /\ \A id \in idle : id <= cursor[p]
    /\ cursor' = [cursor EXCEPT ![p] = CursorAfterSweep(p)]
    /\ UNCHANGED <<storeVars, streamVars, pc, job, gate>>

-----------------------------------------------------------------------------
(* Processor.process.                                                      *)

\* Mutation: the loops of a service do not share an execution slot.
GateOpen_Always(s) == TRUE

GateOpen(s) == ~gate[s]

AcquireGate(p) ==
    /\ pc[p] = "gate"
    /\ GateOpen(ServiceOf(p))
    /\ pc' = [pc EXCEPT ![p] = "load"]
    /\ gate' = [gate EXCEPT ![ServiceOf(p)] = TRUE]
    /\ UNCHANGED <<storeVars, streamVars, job, cursor>>

\* process returns: the deferred receive frees the gate, the loop goes on.
Return(p) ==
    /\ pc' = [pc EXCEPT ![p] = "idle"]
    /\ job' = [job EXCEPT ![p] = NoJob]
    /\ gate' = [gate EXCEPT ![ServiceOf(p)] = FALSE]
    /\ UNCHANGED cursor

Proceed(p, next, facts) ==
    /\ pc' = [pc EXCEPT ![p] = next]
    /\ job' = [job EXCEPT ![p] = facts]
    /\ UNCHANGED <<cursor, gate>>

\* A terminal task needs no execution: its message is acknowledged at once.
Load(p) ==
    /\ pc[p] = "load"
    /\ Proceed(p, IF IsTerminal(tasks[TaskOf(p)].status) THEN "ack" ELSE "claim",
                  [job[p] EXCEPT !.seen = SnapshotOf(TaskOf(p))])
    /\ UNCHANGED <<storeVars, streamVars>>

\* Mutation: ProcessClaimedMessage passes reclaim = false.
MayTakeOver_Never(p) == FALSE

\* ProcessNewMessage and ProcessClaimedMessage: only an adopted message may take a task over.
MayTakeOver(p) == p.loop = "reclaimer"

Claim(p) ==
    /\ pc[p] = "claim"
    /\ ClaimCrawlTask(TaskOf(p), job[p].seen, MayTakeOver(p))
    /\ Proceed(p, "execute", [job[p] EXCEPT !.token = nextToken])
    /\ UNCHANGED streamVars

\* Mutation: the message of a task somebody else owns is acknowledged.
AfterConflict_Ack(p) == Proceed(p, "ack", job[p])

\* The message of a task somebody else owns stays pending.
AfterConflict(p) == Return(p)

\* ErrTaskTransitionConflict: the row moved on since it was loaded, or has an owner.
ClaimConflict(p) ==
    /\ pc[p] = "claim"
    /\ ~Claimable(TaskOf(p), job[p].seen, MayTakeOver(p))
    /\ AfterConflict(p)
    /\ UNCHANGED <<storeVars, streamVars>>

\* The rule ran to a payload, or to an error, a panic or its timeout.
Execute(p, outcome) ==
    /\ pc[p] = "execute"
    /\ Proceed(p, "complete", [job[p] EXCEPT !.outcome = outcome])
    /\ UNCHANGED <<storeVars, streamVars>>

Complete(p) ==
    /\ pc[p] = "complete"
    /\ CompleteCrawlTask(TaskOf(p), job[p].token, job[p].outcome)
    /\ Proceed(p, "ack", job[p])
    /\ UNCHANGED streamVars

\* The update selected no row: a newer attempt owns the task or has finished it.  The
\* conflict is returned and the message stays pending.
CompleteConflict(p) ==
    /\ pc[p] = "complete"
    /\ ~CompleteWhere(TaskOf(p), job[p].token)
    /\ Return(p)
    /\ UNCHANGED <<storeVars, streamVars>>

Ack(p) ==
    /\ pc[p] = "ack"
    /\ XAck(job[p].message)
    /\ Return(p)
    /\ UNCHANGED storeVars

-----------------------------------------------------------------------------
(* Faults.                                                                 *)

\* The call at pc fails without effect, its timeout passes, or, before execution, the
\* execution deadline does: process returns the error and the message stays pending.
CallFails(p) ==
    /\ pc[p] \in Inside
    /\ Return(p)
    /\ UNCHANGED <<storeVars, streamVars>>

\* The claim was applied and its reply never came: nobody knows the token.
ClaimReplyLost(p) ==
    /\ pc[p] = "claim"
    /\ ClaimCrawlTask(TaskOf(p), job[p].seen, MayTakeOver(p))
    /\ Return(p)
    /\ UNCHANGED streamVars

\* COMMIT was applied and its reply never came.
CompleteReplyLost(p) ==
    /\ pc[p] = "complete"
    /\ CompleteCrawlTask(TaskOf(p), job[p].token, job[p].outcome)
    /\ Return(p)
    /\ UNCHANGED streamVars

\* A worker process dies, or a Redis error ends one of its loops, which ends its service,
\* which cancels every other; the process is restarted (restart: unless-stopped).
Crash(h) ==
    /\ \E p \in Proc : p.host = h /\ pc[p] # "idle"  \* otherwise nothing is lost
    /\ pc' = [p \in Proc |-> IF p.host = h THEN "idle" ELSE pc[p]]
    /\ job' = [p \in Proc |-> IF p.host = h THEN NoJob ELSE job[p]]
    /\ cursor' = [p \in Proc |-> IF p.host = h THEN 0 ELSE cursor[p]]
    /\ gate' = [s \in Service |-> IF s.host = h THEN FALSE ELSE gate[s]]
    /\ UNCHANGED <<storeVars, streamVars>>

\* The steps of Processor.process that meet no fault, once the gate is held.
Process(p) ==
    \/ Load(p) \/ Claim(p) \/ ClaimConflict(p)
    \/ \E outcome \in {"succeeded", "failed"} : Execute(p, outcome)
    \/ Complete(p) \/ CompleteConflict(p) \/ Ack(p)

\* The steps that cost a fault.
WorkerFault ==
    \/ \E p \in Proc : CallFails(p) \/ ClaimReplyLost(p) \/ CompleteReplyLost(p)
    \/ \E h \in Host : Crash(h)

=============================================================================
