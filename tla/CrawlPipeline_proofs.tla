------------------------ MODULE CrawlPipeline_proofs ------------------------
(***************************************************************************)
(* What is proved of the pipeline for every set of tasks, hosts and        *)
(* publishers, every batch size, and every number of faults and overruns.  *)
(***************************************************************************)
EXTENDS CrawlPipeline, TLAPS

USE TaskAssumption, PublisherAssumption, WorkerAssumption, FaultAssumption

-----------------------------------------------------------------------------
(* Types: one lemma per statement of a table, per command of the stream    *)
(* and per group of actions.                                               *)

\* The program starts well typed.
LEMMA InitTyped == Init => TypeOK
  BY DEF Init, StoreInit, StreamInit, PublisherInit, WorkerInit, TypeOK, StoreTypeOK,
         StreamTypeOK, PublisherTypeOK, WorkerTypeOK, NoRow, Row, NoJob, Job, Snapshot,
         Status, Inside, Service, Proc

\* An acceptance keeps the types of the tables.
LEMMA CreateTyped ==
  ASSUME StoreTypeOK, NEW t \in Task, CreateQueuedCrawlTaskWithOutbox(t)
  PROVE  StoreTypeOK'
  BY DEF CreateQueuedCrawlTaskWithOutbox, StoreTypeOK, Row, Status

\* A mark keeps the types of the tables.
LEMMA MarkTyped ==
  ASSUME StoreTypeOK, NEW t \in Task, NEW id \in Nat, MarkTaskOutboxPublished(t, id)
  PROVE  StoreTypeOK'
  BY DEF MarkTaskOutboxPublished, StoreTypeOK

\* A claim, whatever its snapshot, keeps the types of the tables.
LEMMA ClaimTyped ==
  ASSUME StoreTypeOK, NEW t \in Task, NEW seen, NEW reclaim, ClaimCrawlTask(t, seen, reclaim)
  PROVE  StoreTypeOK'
  BY DEF ClaimCrawlTask, ClaimedRow, TokenAfterClaim, StoreTypeOK, Row, Status

\* The expiry of a lease keeps the types of the tables.
LEMMA LeaseTyped ==
  ASSUME StoreTypeOK, NEW t \in Task, LeaseRunsOut(t)
  PROVE  StoreTypeOK'
  BY DEF LeaseRunsOut, StoreTypeOK, Row, Status

\* A completion keeps the types of the tables.
LEMMA CompleteTyped ==
  ASSUME StoreTypeOK, NEW t \in Task, NEW token \in Nat, NEW outcome \in {"succeeded", "failed"},
         CompleteCrawlTask(t, token, outcome)
  PROVE  StoreTypeOK'
  BY DEF CompleteCrawlTask, ResultAfter, StoreTypeOK, Row, Status

\* XADD appends one message and moves nothing else.
LEMMA XAddTyped ==
  ASSUME StreamTypeOK, NEW t \in Task, XAdd(t)
  PROVE  /\ StreamTypeOK'
         /\ Len(stream') = Len(stream) + 1
         /\ stream'[Len(stream')] = t
         /\ \A id \in 1 .. Len(stream) : stream'[id] = stream[id]
<1>1. /\ stream' \in Seq(Task)
      /\ Len(stream') = Len(stream) + 1
      /\ stream'[Len(stream')] = t
      /\ \A id \in 1 .. Len(stream) : stream'[id] = stream[id]
  BY DEF XAdd, StreamTypeOK
<1>2. lastDelivered' \in 0 .. Len(stream') /\ pel' \subseteq 1 .. lastDelivered' /\ idle' \subseteq pel'
  BY <1>1 DEF XAdd, StreamTypeOK
<1>3. QED
  BY <1>1, <1>2 DEF StreamTypeOK

\* The other commands keep the types of the stream.
LEMMA ReadTyped ==
  ASSUME StreamTypeOK, NEW id \in Nat, XReadGroup(id)
  PROVE  StreamTypeOK' /\ id \in 1 .. lastDelivered'
  BY DEF XReadGroup, PendingAfterRead, StreamTypeOK

\* XAUTOCLAIM returns an entry of the pending list.
LEMMA AutoClaimTyped ==
  ASSUME StreamTypeOK, NEW c \in Nat, NEW id, XAutoClaim(c, id)
  PROVE  StreamTypeOK' /\ id \in 1 .. lastDelivered /\ id \in Nat
  BY DEF XAutoClaim, FirstIdleAfter, StreamTypeOK

\* XACK and the passing of time keep the types of the stream.
LEMMA AckTyped ==
  ASSUME StreamTypeOK, NEW id, XAck(id) \/ BecomesIdle(id)
  PROVE  StreamTypeOK'
  BY DEF XAck, BecomesIdle, StreamTypeOK

\* A publisher's step, faulty or not, keeps the types.
LEMMA PublisherTyped ==
  ASSUME StoreTypeOK, StreamTypeOK, PublisherTypeOK, NEW p \in Publisher,
         Publish(p) \/ PublisherFault(p)
  PROVE  StoreTypeOK' /\ StreamTypeOK' /\ PublisherTypeOK'
<1>1. CASE ListBatch(p)
  <2>1. ListUnpublishedTaskOutboxes \subseteq Task
    BY DEF ListUnpublishedTaskOutboxes, Unpublished, StoreTypeOK
  <2>2. QED
    BY <1>1, <2>1 DEF ListBatch, GoTo, StoreTypeOK, StreamTypeOK, PublisherTypeOK, storeVars,
                      streamVars
<1>2. CASE AbandonBatch(p)
  BY <1>2 DEF AbandonBatch, GoTo, EndBatch, StoreTypeOK, StreamTypeOK, PublisherTypeOK,
              storeVars, streamVars
<1>3. ASSUME NEW t \in Task, PublishTask(p, t) \/ PublishReplyLost(p, t)
      PROVE  StoreTypeOK' /\ StreamTypeOK' /\ PublisherTypeOK'
  <2>1. XAdd(t)
    BY <1>3 DEF PublishTask, PublishReplyLost
  <2>2. StreamTypeOK' /\ Len(stream') \in Nat
    <3>1. Len(stream) \in Nat
      BY DEF StreamTypeOK
    <3>2. QED
      BY <2>1, <3>1, XAddTyped
  <2>3. PublisherTypeOK'
    <3>1. CASE PublishTask(p, t)
      BY <3>1, <2>2 DEF PublishTask, GoTo, PublisherTypeOK
    <3>2. CASE PublishReplyLost(p, t)
      BY <3>2 DEF PublishReplyLost, GoTo, EndBatch, PublisherTypeOK
    <3>3. QED
      BY <1>3, <3>1, <3>2
  <2>4. StoreTypeOK'
    BY <1>3 DEF PublishTask, PublishReplyLost, StoreTypeOK, storeVars
  <2>5. QED
    BY <2>2, <2>3, <2>4
<1>4. ASSUME NEW t \in Task, MarkPublished(p, t) \/ MarkReplyLost(p, t) \/ MarkConflict(p, t)
      PROVE  StoreTypeOK' /\ StreamTypeOK' /\ PublisherTypeOK'
  <2>1. sent[p] \in Nat
    BY DEF PublisherTypeOK
  <2>2. StoreTypeOK'
    BY <1>4, <2>1, MarkTyped DEF MarkPublished, MarkReplyLost, MarkConflict, RecordedID,
                                 StoreTypeOK, storeVars
  <2>3. StreamTypeOK'
    BY <1>4 DEF MarkPublished, MarkReplyLost, MarkConflict, StreamTypeOK, streamVars
  <2>4. PublisherTypeOK'
    BY <1>4 DEF MarkPublished, MarkReplyLost, MarkConflict, GoTo, EndBatch, PublisherTypeOK
  <2>5. QED
    BY <2>2, <2>3, <2>4
<1>5. QED
  BY <1>1, <1>2, <1>3, <1>4 DEF Publish, PublisherFault

\* A message in hand names a task.
LEMMA TaskOfTyped ==
  ASSUME TypeOK, JobsAreDelivered, NEW p \in Proc, pc[p] # "idle"
  PROVE  job[p].message \in 1 .. Len(stream) /\ TaskOf(p) \in Task
  BY DEF TypeOK, StreamTypeOK, WorkerTypeOK, JobsAreDelivered, TaskOf

\* A loop is a member of the set its service's gate is indexed by.
LEMMA ServiceTyped ==
  ASSUME NEW p \in Proc
  PROVE  ServiceOf(p) \in Service
  BY DEF Proc, Service, ServiceOf

\* Going back to idle keeps the types and drops the message in hand.
LEMMA ReturnTyped ==
  ASSUME WorkerTypeOK, NEW p \in Proc, Return(p)
  PROVE  /\ WorkerTypeOK'
         /\ pc'[p] = "idle"
         /\ \A q \in Proc : q # p => pc'[q] = pc[q] /\ job'[q] = job[q]
  BY ServiceTyped DEF Return, WorkerTypeOK, NoJob, Job, Snapshot

\* Going on to the next step keeps the types.
LEMMA ProceedTyped ==
  ASSUME WorkerTypeOK, NEW p \in Proc, NEW next \in Inside, NEW facts \in Job,
         Proceed(p, next, facts)
  PROVE  /\ WorkerTypeOK'
         /\ pc'[p] = next /\ job'[p] = facts
         /\ \A q \in Proc : q # p => pc'[q] = pc[q] /\ job'[q] = job[q]
  BY DEF Proceed, WorkerTypeOK

\* Taking a message from the stream keeps the types and the rest of the loops.
LEMMA ReceiveTyped ==
  ASSUME WorkerTypeOK, NEW p \in Proc, NEW id \in Nat, Receive(p, id), cursor' \in [Proc -> Nat]
  PROVE  /\ WorkerTypeOK'
         /\ pc'[p] = "gate" /\ job'[p] = [NoJob EXCEPT !.message = id]
         /\ \A q \in Proc : q # p => pc'[q] = pc[q] /\ job'[q] = job[q]
  BY DEF Receive, WorkerTypeOK, NoJob, Job, Snapshot, Status

\* The messages in hand stay delivered when one loop moves and the group never goes back.
LEMMA DeliveredKept ==
  ASSUME TypeOK, JobsAreDelivered, NEW p \in Proc, lastDelivered' \in Nat,
         lastDelivered <= lastDelivered',
         \A q \in Proc : q # p => pc'[q] = pc[q] /\ job'[q] = job[q],
         pc'[p] # "idle" => job'[p].message \in 1 .. lastDelivered'
  PROVE  JobsAreDelivered'
<1> SUFFICES ASSUME NEW q \in Proc, pc'[q] # "idle"
             PROVE  job'[q].message \in 1 .. lastDelivered'
  BY DEF JobsAreDelivered
<1>1. CASE q # p
  <2>1. job[q].message \in 1 .. lastDelivered
    BY <1>1 DEF JobsAreDelivered
  <2>2. lastDelivered \in Nat
    BY DEF TypeOK, StreamTypeOK
  <2>3. QED
    BY <1>1, <2>1, <2>2
<1>2. QED
  BY <1>1

\* A consumer or reclaimer that takes a message keeps the types.
LEMMA DeliveryTyped ==
  ASSUME TypeOK, JobsAreDelivered, NEW p \in Proc, Consume(p) \/ Reclaim(p)
  PROVE  StoreTypeOK' /\ StreamTypeOK' /\ WorkerTypeOK' /\ JobsAreDelivered'
<1>1. StoreTypeOK'
  BY DEF Consume, Reclaim, TypeOK, StoreTypeOK, storeVars
<1>2. PICK id \in Nat : /\ Receive(p, id)
                        /\ cursor' \in [Proc -> Nat]
                        /\ StreamTypeOK'
                        /\ id \in 1 .. lastDelivered'
                        /\ lastDelivered <= lastDelivered'
  <2>1. CASE Consume(p)
    <3>1. PICK id \in 1 .. Len(stream) : XReadGroup(id) /\ Receive(p, id)
      BY <2>1 DEF Consume
    <3>2. id \in Nat /\ lastDelivered <= lastDelivered'
      BY <3>1 DEF XReadGroup, TypeOK, StreamTypeOK
    <3>3. StreamTypeOK' /\ id \in 1 .. lastDelivered'
      BY <3>1, <3>2, ReadTyped DEF TypeOK
    <3>4. cursor' \in [Proc -> Nat]
      BY <2>1 DEF Consume, TypeOK, WorkerTypeOK
    <3>5. QED
      BY <3>1, <3>2, <3>3, <3>4
  <2>2. CASE Reclaim(p)
    <3>1. PICK id \in idle : /\ XAutoClaim(cursor[p], id)
                             /\ cursor' = [cursor EXCEPT ![p] = NextCursor(id)]
                             /\ Receive(p, id)
      BY <2>2 DEF Reclaim
    <3>2. cursor[p] \in Nat
      BY DEF TypeOK, WorkerTypeOK
    <3>3. StreamTypeOK' /\ id \in 1 .. lastDelivered /\ id \in Nat
      BY <3>1, <3>2, AutoClaimTyped DEF TypeOK
    <3>4. lastDelivered' = lastDelivered /\ lastDelivered \in Nat
      BY <3>1 DEF XAutoClaim, TypeOK, StreamTypeOK
    <3>5. cursor' \in [Proc -> Nat]
      BY <3>1, <3>3 DEF NextCursor, TypeOK, WorkerTypeOK
    <3>6. QED
      BY <3>1, <3>3, <3>4, <3>5
  <2>3. QED
    BY <2>1, <2>2
<1>3. /\ WorkerTypeOK'
      /\ pc'[p] = "gate" /\ job'[p] = [NoJob EXCEPT !.message = id]
      /\ \A q \in Proc : q # p => pc'[q] = pc[q] /\ job'[q] = job[q]
  BY <1>2, ReceiveTyped DEF TypeOK
<1>4. lastDelivered' \in Nat /\ job'[p].message = id
  BY <1>2, <1>3 DEF StreamTypeOK, NoJob
<1>5. JobsAreDelivered'
  BY <1>2, <1>3, <1>4, DeliveredKept
<1>6. QED
  BY <1>1, <1>2, <1>3, <1>5

\* The steps that leave the tables alone keep the types.
LEMMA QuietStepTyped ==
  ASSUME TypeOK, JobsAreDelivered, NEW p \in Proc,
         \/ EndSweep(p) \/ AcquireGate(p) \/ Load(p) \/ ClaimConflict(p)
         \/ (\E outcome \in {"succeeded", "failed"} : Execute(p, outcome))
         \/ CompleteConflict(p) \/ Ack(p) \/ CallFails(p)
  PROVE  StoreTypeOK' /\ StreamTypeOK' /\ WorkerTypeOK' /\ JobsAreDelivered'
<1>1. UNCHANGED storeVars /\ StoreTypeOK'
  BY DEF EndSweep, AcquireGate, Load, ClaimConflict, Execute, CompleteConflict, Ack, CallFails,
         TypeOK, StoreTypeOK, storeVars
<1>2. StreamTypeOK' /\ lastDelivered' = lastDelivered /\ lastDelivered \in Nat
  <2>1. CASE Ack(p)
    <3>1. XAck(job[p].message)
      BY <2>1 DEF Ack
    <3>2. StreamTypeOK'
      BY <3>1, AckTyped DEF TypeOK
    <3>3. lastDelivered' = lastDelivered /\ lastDelivered \in Nat
      BY <3>1 DEF XAck, TypeOK, StreamTypeOK
    <3>4. QED
      BY <3>2, <3>3
  <2>2. CASE UNCHANGED streamVars
    BY <2>2 DEF TypeOK, StreamTypeOK, streamVars
  <2>3. QED
    BY <2>1, <2>2 DEF EndSweep, AcquireGate, Load, ClaimConflict, Execute, CompleteConflict,
                      CallFails
<1>3. /\ WorkerTypeOK'
      /\ \A q \in Proc : q # p => pc'[q] = pc[q] /\ job'[q] = job[q]
      /\ pc'[p] # "idle" => pc[p] # "idle" /\ job'[p].message = job[p].message
  <2>1. CASE EndSweep(p)
    BY <2>1 DEF EndSweep, CursorAfterSweep, TypeOK, WorkerTypeOK
  <2>2. CASE AcquireGate(p)
    BY <2>2, ServiceTyped DEF AcquireGate, TypeOK, WorkerTypeOK, Inside
  <2>3. CASE ClaimConflict(p) \/ CompleteConflict(p) \/ Ack(p) \/ CallFails(p)
    BY <2>3, ReturnTyped DEF ClaimConflict, AfterConflict, CompleteConflict, Ack, CallFails, TypeOK
  <2>4. CASE Load(p)
    <3>1. TaskOf(p) \in Task /\ job[p] \in Job
      BY <2>4, TaskOfTyped DEF Load, TypeOK, WorkerTypeOK
    <3>2. SnapshotOf(TaskOf(p)) \in Snapshot
      BY <3>1 DEF SnapshotOf, Snapshot, TypeOK, StoreTypeOK, Row
    <3>3. [job[p] EXCEPT !.seen = SnapshotOf(TaskOf(p))] \in Job
      BY <3>1, <3>2 DEF Job
    <3>4. WorkerTypeOK /\ "ack" \in Inside /\ "claim" \in Inside
      BY DEF TypeOK, Inside
    <3>5. CASE IsTerminal(tasks[TaskOf(p)].status)
      BY <2>4, <3>1, <3>3, <3>4, <3>5, ProceedTyped DEF Load, Job
    <3>6. CASE ~IsTerminal(tasks[TaskOf(p)].status)
      BY <2>4, <3>1, <3>3, <3>4, <3>6, ProceedTyped DEF Load, Job
    <3>7. QED
      BY <3>5, <3>6
  <2>5. ASSUME NEW outcome \in {"succeeded", "failed"}, Execute(p, outcome)
        PROVE  /\ WorkerTypeOK'
               /\ \A q \in Proc : q # p => pc'[q] = pc[q] /\ job'[q] = job[q]
               /\ pc'[p] # "idle" => pc[p] # "idle" /\ job'[p].message = job[p].message
    <3>1. job[p] \in Job
      BY DEF TypeOK, WorkerTypeOK
    <3>2. [job[p] EXCEPT !.outcome = outcome] \in Job
      BY <3>1 DEF Job
    <3>3. WorkerTypeOK /\ "complete" \in Inside
      BY DEF TypeOK, Inside
    <3>4. QED
      BY <2>5, <3>1, <3>2, <3>3, ProceedTyped DEF Execute, Job
  <2>6. QED
    BY <2>1, <2>2, <2>3, <2>4, <2>5
<1>4. JobsAreDelivered'
  BY <1>2, <1>3, DeliveredKept DEF JobsAreDelivered
<1>5. QED
  BY <1>1, <1>2, <1>3, <1>4

\* The steps that write a table, with or without their reply, keep the types.
LEMMA WritingStepTyped ==
  ASSUME TypeOK, JobsAreDelivered, JobsAreSound, NEW p \in Proc,
         Claim(p) \/ ClaimReplyLost(p) \/ Complete(p) \/ CompleteReplyLost(p)
  PROVE  StoreTypeOK' /\ StreamTypeOK' /\ WorkerTypeOK' /\ JobsAreDelivered'
<1>1. UNCHANGED streamVars /\ StreamTypeOK' /\ lastDelivered' \in Nat
  BY DEF Claim, ClaimReplyLost, Complete, CompleteReplyLost, TypeOK, StreamTypeOK, streamVars
<1>2. TaskOf(p) \in Task /\ job[p] \in Job /\ nextToken \in Nat /\ StoreTypeOK /\ WorkerTypeOK
  BY TaskOfTyped DEF Claim, ClaimReplyLost, Complete, CompleteReplyLost, TypeOK, WorkerTypeOK,
                     StoreTypeOK
<1>3. StoreTypeOK'
  <2>1. CASE Claim(p) \/ ClaimReplyLost(p)
    BY <2>1, <1>2, ClaimTyped DEF Claim, ClaimReplyLost
  <2>2. CASE Complete(p) \/ CompleteReplyLost(p)
    <3>1. job[p].token \in Nat /\ job[p].outcome \in {"succeeded", "failed"}
      BY <2>2, <1>2 DEF Complete, CompleteReplyLost, JobsAreSound, JobIsSound, Job
    <3>2. QED
      BY <2>2, <3>1, <1>2, CompleteTyped DEF Complete, CompleteReplyLost
  <2>3. QED
    BY <2>1, <2>2
<1>4. /\ WorkerTypeOK'
      /\ \A q \in Proc : q # p => pc'[q] = pc[q] /\ job'[q] = job[q]
      /\ pc'[p] # "idle" => pc[p] # "idle" /\ job'[p].message = job[p].message
  <2>1. CASE ClaimReplyLost(p) \/ CompleteReplyLost(p)
    BY <2>1, <1>2, ReturnTyped DEF ClaimReplyLost, CompleteReplyLost
  <2>2. CASE Claim(p)
    <3>1. [job[p] EXCEPT !.token = nextToken] \in Job /\ "execute" \in Inside
      BY <1>2 DEF Job, Inside
    <3>2. QED
      BY <2>2, <3>1, <1>2, ProceedTyped DEF Claim, Job
  <2>3. CASE Complete(p)
    <3>1. "ack" \in Inside
      BY DEF Inside
    <3>2. QED
      BY <2>3, <3>1, <1>2, ProceedTyped DEF Complete
  <2>4. QED
    BY <2>1, <2>2, <2>3
<1>5. JobsAreDelivered'
  <2>1. lastDelivered <= lastDelivered'
    BY <1>1 DEF TypeOK, StreamTypeOK, streamVars
  <2>2. pc'[p] # "idle" => job'[p].message \in 1 .. lastDelivered'
    BY <1>1, <1>4 DEF JobsAreDelivered, streamVars
  <2>3. QED
    BY <1>1, <1>4, <2>1, <2>2, DeliveredKept
<1>6. QED
  BY <1>1, <1>3, <1>4, <1>5

\* A crash keeps the types and leaves every loop as it was or idle.
LEMMA CrashTyped ==
  ASSUME TypeOK, JobsAreDelivered, NEW h \in Host, Crash(h)
  PROVE  StoreTypeOK' /\ StreamTypeOK' /\ WorkerTypeOK' /\ JobsAreDelivered'
<1>1. StoreTypeOK' /\ StreamTypeOK'
  BY DEF Crash, TypeOK, StoreTypeOK, StreamTypeOK, storeVars, streamVars
<1>2. NoJob \in Job
  BY DEF NoJob, Job, Snapshot
<1>3. WorkerTypeOK'
  BY <1>2 DEF Crash, TypeOK, WorkerTypeOK
<1>4. JobsAreDelivered'
  BY DEF Crash, JobsAreDelivered, streamVars
<1>5. QED
  BY <1>1, <1>3, <1>4

\* Every step keeps the types, and the messages in hand delivered.
LEMMA TypesKept ==
  ASSUME IInv, [Next]_vars
  PROVE  TypeOK' /\ JobsAreDelivered'
<1> USE DEF IInv
<1>1. CASE UNCHANGED vars
  BY <1>1 DEF vars, storeVars, streamVars, publisherVars, workerVars, TypeOK, StoreTypeOK,
              StreamTypeOK, PublisherTypeOK, WorkerTypeOK, JobsAreDelivered
<1>2. ASSUME NEW t \in Task, Accept(t) \/ OrphanLeaseExpires(t) \/ OwnerOverruns(t)
      PROVE  TypeOK' /\ JobsAreDelivered'
  <2>1. UNCHANGED <<streamVars, publisherVars, workerVars>>
    BY <1>2 DEF Accept, OrphanLeaseExpires, OwnerOverruns
  <2>2. StoreTypeOK'
    BY <1>2, CreateTyped, LeaseTyped DEF TypeOK, Accept, OrphanLeaseExpires, OwnerOverruns
  <2>3. StreamTypeOK' /\ PublisherTypeOK' /\ WorkerTypeOK' /\ JobsAreDelivered'
    BY <2>1 DEF TypeOK, StreamTypeOK, PublisherTypeOK, WorkerTypeOK, JobsAreDelivered,
                streamVars, publisherVars, workerVars
  <2>4. faults' \in 0 .. MaxFaults /\ overruns' \in 0 .. MaxOverruns
    BY <1>2 DEF Accept, OrphanLeaseExpires, OwnerOverruns, TypeOK
  <2>5. QED
    BY <2>2, <2>3, <2>4 DEF TypeOK
<1>3. ASSUME NEW p \in Publisher,
             PublisherStep(p) \/ (Fault /\ PublisherFault(p) /\ UNCHANGED workerVars)
      PROVE  TypeOK' /\ JobsAreDelivered'
  <2>1. StoreTypeOK' /\ StreamTypeOK' /\ PublisherTypeOK'
    BY <1>3, PublisherTyped DEF TypeOK, PublisherStep
  <2>2. UNCHANGED workerVars /\ UNCHANGED lastDelivered
    BY <1>3 DEF PublisherStep, Publish, PublisherFault, ListBatch, PublishTask, PublishReplyLost,
                MarkPublished, MarkReplyLost, MarkConflict, AbandonBatch, XAdd, streamVars
  <2>3. WorkerTypeOK' /\ JobsAreDelivered'
    BY <2>2 DEF TypeOK, WorkerTypeOK, JobsAreDelivered, workerVars
  <2>4. faults' \in 0 .. MaxFaults /\ overruns' \in 0 .. MaxOverruns
    BY <1>3 DEF PublisherStep, Fault, TypeOK
  <2>5. QED
    BY <2>1, <2>3, <2>4 DEF TypeOK
<1>4. ASSUME NEW p \in Proc,
             \/ ConsumeStep(p) \/ ReclaimStep(p) \/ EndSweepStep(p) \/ GateStep(p)
             \/ ProcessStep(p)
             \/ /\ Fault /\ UNCHANGED publisherVars
                /\ CallFails(p) \/ ClaimReplyLost(p) \/ CompleteReplyLost(p)
      PROVE  TypeOK' /\ JobsAreDelivered'
  <2>1. StoreTypeOK' /\ StreamTypeOK' /\ WorkerTypeOK' /\ JobsAreDelivered'
    BY <1>4, DeliveryTyped, QuietStepTyped, WritingStepTyped
       DEF ConsumeStep, ReclaimStep, EndSweepStep, GateStep, ProcessStep, Process
  <2>2. UNCHANGED publisherVars
    BY <1>4 DEF ConsumeStep, ReclaimStep, EndSweepStep, GateStep, ProcessStep
  <2>3. PublisherTypeOK'
    BY <2>2 DEF TypeOK, PublisherTypeOK, publisherVars
  <2>4. faults' \in 0 .. MaxFaults /\ overruns' \in 0 .. MaxOverruns
    BY <1>4 DEF ConsumeStep, ReclaimStep, EndSweepStep, GateStep, ProcessStep, Fault, TypeOK
  <2>5. QED
    BY <2>1, <2>3, <2>4 DEF TypeOK
<1>5. ASSUME NEW h \in Host, Fault, Crash(h), UNCHANGED publisherVars
      PROVE  TypeOK' /\ JobsAreDelivered'
  <2>1. StoreTypeOK' /\ StreamTypeOK' /\ WorkerTypeOK' /\ JobsAreDelivered'
    BY <1>5, CrashTyped
  <2>2. PublisherTypeOK'
    BY <1>5 DEF TypeOK, PublisherTypeOK, publisherVars
  <2>3. faults' \in 0 .. MaxFaults /\ overruns' \in 0 .. MaxOverruns
    BY <1>5 DEF Fault, TypeOK
  <2>4. QED
    BY <2>1, <2>2, <2>3 DEF TypeOK
<1>6. ASSUME NEW id \in pel, MessageBecomesIdle(id)
      PROVE  TypeOK' /\ JobsAreDelivered'
  <2>1. StreamTypeOK' /\ UNCHANGED lastDelivered
    BY <1>6, AckTyped DEF MessageBecomesIdle, BecomesIdle, TypeOK
  <2>2. QED
    BY <1>6, <2>1 DEF MessageBecomesIdle, TypeOK, StoreTypeOK, PublisherTypeOK, WorkerTypeOK,
                      JobsAreDelivered, storeVars, publisherVars, workerVars
<1>7. QED
  BY <1>1, <1>2, <1>3, <1>4, <1>5, <1>6 DEF Next, Fault, WorkerFault, Quiescent

-----------------------------------------------------------------------------
(* The tables: rows stay consistent, results stay fenced, a task that has  *)
(* ended stays as it is, and tokens only grow.                             *)

\* One statement or transaction of TaskStore, by whoever.
TableStep ==
    \E t \in Task :
        \/ CreateQueuedCrawlTaskWithOutbox(t)
        \/ \E id \in Nat : MarkTaskOutboxPublished(t, id)
        \/ \E seen \in Snapshot, reclaim \in BOOLEAN : ClaimCrawlTask(t, seen, reclaim)
        \/ LeaseRunsOut(t)
        \/ \E token \in Nat, outcome \in {"succeeded", "failed"} :
               CompleteCrawlTask(t, token, outcome)

\* A task that has ended is never touched again, whatever is tried on it.
EndedStays ==
    \A t \in Task : IsTerminal(tasks[t].status)
        => tasks'[t] = tasks[t] /\ results'[t] = results[t]

\* A statement that writes one row leaves the others consistent.
LEMMA OtherRowsKept ==
  ASSUME StoreTypeOK, RowsAreConsistent, NEW t \in Task,
         \A u \in Task : u # t => tasks'[u] = tasks[u],
         \A u \in Task : u # t => (u \in outboxes' <=> u \in outboxes),
         nextToken' \in Nat, nextToken <= nextToken',
         RowIsConsistent(t)'
  PROVE  RowsAreConsistent'
<1> SUFFICES ASSUME NEW u \in Task, u # t
             PROVE  RowIsConsistent(u)'
  BY DEF RowsAreConsistent
<1>1. RowIsConsistent(u)
  BY DEF RowsAreConsistent
<1>2. tasks[u].runToken \in Nat /\ nextToken \in Nat
  BY DEF StoreTypeOK, Row
<1>3. tasks[u].runToken < nextToken'
  BY <1>1, <1>2 DEF RowIsConsistent
<1>4. QED
  BY <1>1, <1>3 DEF RowIsConsistent

\* Rows and results stay consistent under every statement.
LEMMA TableStepKeepsRows ==
  ASSUME StoreTypeOK, RowsAreConsistent, ResultIsFenced, TableStep
  PROVE  RowsAreConsistent' /\ ResultIsFenced'
<1> USE DEF ResultIsFenced
<1>0. /\ tasks \in [Task -> Row] /\ results \in [Task -> Nat] /\ nextToken \in Nat \ {0}
      /\ \A t \in Task : RowIsConsistent(t) /\ tasks[t] \in Row
  BY DEF StoreTypeOK, RowsAreConsistent
<1>1. ASSUME NEW t \in Task, CreateQueuedCrawlTaskWithOutbox(t)
      PROVE  RowsAreConsistent' /\ ResultIsFenced'
  <2>1. \A u \in Task : u # t => tasks'[u] = tasks[u]
    BY <1>0, <1>1 DEF CreateQueuedCrawlTaskWithOutbox
  <2>2. /\ tasks[t].status = "absent" /\ tasks'[t].status = "queued"
        /\ tasks'[t].runToken = tasks[t].runToken /\ tasks'[t].lease = tasks[t].lease
    BY <1>0, <1>1 DEF CreateQueuedCrawlTaskWithOutbox, Row
  <2>3. outboxes' = outboxes \cup {t} /\ UNCHANGED <<results, nextToken>>
    BY <1>1 DEF CreateQueuedCrawlTaskWithOutbox
  <2>4. RowIsConsistent(t)'
    BY <1>0, <2>2, <2>3 DEF RowIsConsistent
  <2>5. RowsAreConsistent'
    BY <1>0, <2>1, <2>3, <2>4, OtherRowsKept
  <2>6. QED
    BY <2>1, <2>2, <2>3, <2>5
<1>2. ASSUME NEW t \in Task, NEW id \in Nat, MarkTaskOutboxPublished(t, id)
      PROVE  RowsAreConsistent' /\ ResultIsFenced'
  BY <1>2 DEF MarkTaskOutboxPublished, RowsAreConsistent, RowIsConsistent
<1>3. ASSUME NEW t \in Task, NEW seen \in Snapshot, NEW reclaim \in BOOLEAN,
             ClaimCrawlTask(t, seen, reclaim)
      PROVE  RowsAreConsistent' /\ ResultIsFenced'
  <2>1. tasks[t].status \in {"queued", "running"}
    BY <1>3 DEF ClaimCrawlTask, Claimable, ReclaimWhere
  <2>2. \A u \in Task : u # t => tasks'[u] = tasks[u]
    BY <1>0, <1>3 DEF ClaimCrawlTask
  <2>3. /\ tasks'[t].status = "running" /\ tasks'[t].runToken = nextToken
        /\ tasks'[t].lease = "live"
    BY <1>0, <1>3 DEF ClaimCrawlTask, ClaimedRow
  <2>4. nextToken' = nextToken + 1 /\ UNCHANGED <<outboxes, results>>
    BY <1>3 DEF ClaimCrawlTask, TokenAfterClaim
  <2>5. RowIsConsistent(t)'
    <3>1. t \in outboxes
      BY <1>0, <2>1 DEF RowIsConsistent
    <3>2. nextToken # 0 /\ nextToken < nextToken + 1
      BY <1>0
    <3>3. QED
      BY <2>3, <2>4, <3>1, <3>2 DEF RowIsConsistent
  <2>6. RowsAreConsistent'
    BY <1>0, <2>2, <2>4, <2>5, OtherRowsKept
  <2>7. QED
    BY <2>1, <2>2, <2>3, <2>4, <2>6
<1>4. ASSUME NEW t \in Task, LeaseRunsOut(t)
      PROVE  RowsAreConsistent' /\ ResultIsFenced'
  <2>1. \A u \in Task : u # t => tasks'[u] = tasks[u]
    BY <1>0, <1>4 DEF LeaseRunsOut
  <2>2. /\ tasks'[t].status = tasks[t].status /\ tasks'[t].runToken = tasks[t].runToken
        /\ tasks[t].lease = "live" /\ tasks'[t].lease = "expired"
    BY <1>0, <1>4 DEF LeaseRunsOut, Row
  <2>3. UNCHANGED <<outboxes, results, nextToken>>
    BY <1>4 DEF LeaseRunsOut
  <2>4. RowIsConsistent(t)'
    BY <1>0, <2>2, <2>3 DEF RowIsConsistent
  <2>5. RowsAreConsistent'
    BY <1>0, <2>1, <2>3, <2>4, OtherRowsKept
  <2>6. QED
    BY <2>1, <2>2, <2>3, <2>5
<1>5. ASSUME NEW t \in Task, NEW token \in Nat, NEW outcome \in {"succeeded", "failed"},
             CompleteCrawlTask(t, token, outcome)
      PROVE  RowsAreConsistent' /\ ResultIsFenced'
  <2>1. tasks[t].status = "running" /\ tasks[t].runToken = token
    BY <1>5 DEF CompleteCrawlTask, CompleteWhere
  <2>2. \A u \in Task : u # t => tasks'[u] = tasks[u] /\ results'[u] = results[u]
    BY <1>0, <1>5 DEF CompleteCrawlTask
  <2>3. /\ tasks'[t].status = outcome /\ tasks'[t].lease = "none"
        /\ tasks'[t].runToken = token
    BY <1>0, <1>5, <2>1 DEF CompleteCrawlTask, Row
  <2>4. results'[t] = IF outcome = "succeeded" THEN token ELSE 0
    BY <1>0, <1>5, <2>1 DEF CompleteCrawlTask, ResultAfter
  <2>5. UNCHANGED <<outboxes, nextToken>>
    BY <1>5 DEF CompleteCrawlTask
  <2>6. RowIsConsistent(t)'
    BY <1>0, <2>1, <2>3, <2>5 DEF RowIsConsistent
  <2>7. RowsAreConsistent'
    BY <1>0, <2>2, <2>5, <2>6, OtherRowsKept
  <2>8. QED
    BY <2>2, <2>3, <2>4, <2>7
<1>6. QED
  BY <1>1, <1>2, <1>3, <1>4, <1>5 DEF TableStep

\* No statement moves a task that has ended, and tokens only grow.
LEMMA TableStepKeepsEnds ==
  ASSUME StoreTypeOK, RowsAreConsistent, TableStep
  PROVE  EndedStays /\ nextToken' \in Nat /\ nextToken <= nextToken'
<1> USE DEF StoreTypeOK, Row, EndedStays, IsTerminal
<1>1. ASSUME NEW t \in Task, NEW seen \in Snapshot, NEW reclaim \in BOOLEAN,
             ClaimCrawlTask(t, seen, reclaim)
      PROVE  EndedStays /\ nextToken' \in Nat /\ nextToken <= nextToken'
  <2>1. tasks[t].status \in {"queued", "running"}
    BY <1>1 DEF ClaimCrawlTask, Claimable, ReclaimWhere
  <2>2. QED
    BY <1>1, <2>1 DEF ClaimCrawlTask, TokenAfterClaim
<1>2. ASSUME NEW t \in Task, LeaseRunsOut(t)
      PROVE  EndedStays /\ nextToken' \in Nat /\ nextToken <= nextToken'
  BY <1>2 DEF LeaseRunsOut, RowsAreConsistent, RowIsConsistent
<1>3. QED
  BY <1>1, <1>2 DEF TableStep, CreateQueuedCrawlTaskWithOutbox, MarkTaskOutboxPublished,
                    CompleteCrawlTask, CompleteWhere

\* Every step is at most one statement on the tables.
LEMMA TablesMoveByStatements ==
  ASSUME IInv, [Next]_vars
  PROVE  TableStep \/ UNCHANGED storeVars
<1> USE DEF IInv
<1>1. ASSUME NEW t \in Task, Accept(t) \/ OrphanLeaseExpires(t) \/ OwnerOverruns(t)
      PROVE  TableStep
  BY <1>1 DEF TableStep, Accept, OrphanLeaseExpires, OwnerOverruns
<1>2. ASSUME NEW p \in Publisher, Publish(p) \/ PublisherFault(p)
      PROVE  TableStep \/ UNCHANGED storeVars
  <2>1. sent[p] \in Nat
    BY DEF TypeOK, PublisherTypeOK
  <2>2. ASSUME NEW t \in Task, MarkPublished(p, t) \/ MarkReplyLost(p, t)
        PROVE  TableStep
    BY <2>1, <2>2 DEF TableStep, MarkPublished, MarkReplyLost, RecordedID
  <2>3. QED
    BY <1>2, <2>2 DEF Publish, PublisherFault, ListBatch, PublishTask, PublishReplyLost,
                      MarkConflict, AbandonBatch
<1>3. ASSUME NEW p \in Proc,
             Claim(p) \/ ClaimReplyLost(p) \/ Complete(p) \/ CompleteReplyLost(p)
      PROVE  TableStep
  <2>1. TaskOf(p) \in Task /\ job[p] \in Job
    BY <1>3, TaskOfTyped DEF Claim, ClaimReplyLost, Complete, CompleteReplyLost, TypeOK,
                             WorkerTypeOK
  <2>2. CASE Claim(p) \/ ClaimReplyLost(p)
    <3>1. job[p].seen \in Snapshot /\ MayTakeOver(p) \in BOOLEAN
      BY <2>1 DEF Job, MayTakeOver
    <3>2. QED
      BY <2>1, <2>2, <3>1 DEF TableStep, Claim, ClaimReplyLost
  <2>3. CASE Complete(p) \/ CompleteReplyLost(p)
    <3>1. job[p].token \in Nat /\ job[p].outcome \in {"succeeded", "failed"}
      BY <2>1, <2>3 DEF Job, Complete, CompleteReplyLost, JobsAreSound, JobIsSound
    <3>2. QED
      BY <2>1, <2>3, <3>1 DEF TableStep, Complete, CompleteReplyLost
  <2>4. QED
    BY <1>3, <2>2, <2>3
<1>4. ASSUME NEW p \in Proc,
             \/ Consume(p) \/ Reclaim(p) \/ EndSweep(p) \/ AcquireGate(p) \/ CallFails(p)
             \/ Process(p) /\ ~Claim(p) /\ ~Complete(p)
      PROVE  UNCHANGED storeVars
  BY <1>4 DEF Consume, Reclaim, EndSweep, AcquireGate, CallFails, Process, Load, ClaimConflict,
              Execute, CompleteConflict, Ack
<1>5. QED
  BY <1>1, <1>2, <1>3, <1>4
     DEF Next, vars, Fault, WorkerFault, Crash, MessageBecomesIdle, Quiescent, PublisherStep,
         ConsumeStep, ReclaimStep, EndSweepStep, GateStep, ProcessStep

\* Rows stay consistent and results fenced; what has ended stays, and tokens only grow.
LEMMA RowsKept ==
  ASSUME IInv, [Next]_vars
  PROVE  /\ RowsAreConsistent' /\ ResultIsFenced'
         /\ EndedStays
         /\ nextToken' \in Nat /\ nextToken <= nextToken'
<1>1. CASE TableStep
  BY <1>1, TableStepKeepsRows, TableStepKeepsEnds DEF IInv, TypeOK
<1>2. CASE UNCHANGED storeVars
  BY <1>2 DEF IInv, TypeOK, StoreTypeOK, RowsAreConsistent, RowIsConsistent, ResultIsFenced,
              EndedStays, storeVars
<1>3. QED
  BY <1>1, <1>2, TablesMoveByStatements

-----------------------------------------------------------------------------
(* The loops: what a loop knows stays true while the others move.          *)

\* The stream only grows, and the group only moves forward.
LEMMA StreamGrows ==
  ASSUME IInv, [Next]_vars
  PROVE  /\ \A id \in 1 .. Len(stream) : stream'[id] = stream[id] /\ id \in 1 .. Len(stream')
         /\ lastDelivered <= lastDelivered'
<1>1. StreamTypeOK /\ lastDelivered \in Nat /\ Len(stream) \in Nat
  BY DEF IInv, TypeOK, StreamTypeOK
<1>2. CASE \E t \in Task : XAdd(t)
  <2>1. PICK t \in Task : XAdd(t)
    BY <1>2
  <2>2. /\ Len(stream') = Len(stream) + 1
        /\ \A id \in 1 .. Len(stream) : stream'[id] = stream[id]
    BY <1>1, <2>1, XAddTyped
  <2>3. lastDelivered' = lastDelivered
    BY <2>1 DEF XAdd
  <2>4. QED
    BY <1>1, <2>2, <2>3
<1>3. CASE UNCHANGED stream /\ lastDelivered' \in {lastDelivered, lastDelivered + 1}
  BY <1>1, <1>3
<1>4. ASSUME NEW p \in Publisher, Publish(p) \/ PublisherFault(p)
      PROVE  (\E t \in Task : XAdd(t)) \/ UNCHANGED <<stream, lastDelivered>>
  BY <1>4 DEF Publish, PublisherFault, ListBatch, PublishTask, PublishReplyLost, MarkPublished,
              MarkReplyLost, MarkConflict, AbandonBatch, streamVars
<1>5. ASSUME NEW p \in Proc, Consume(p)
      PROVE  UNCHANGED stream /\ lastDelivered' = lastDelivered + 1
  BY <1>5 DEF Consume, XReadGroup
<1>6. ASSUME NEW p \in Proc,
             \/ Reclaim(p) \/ EndSweep(p) \/ AcquireGate(p) \/ CallFails(p)
             \/ Process(p) \/ ClaimReplyLost(p) \/ CompleteReplyLost(p)
      PROVE  UNCHANGED <<stream, lastDelivered>>
  BY <1>6 DEF Reclaim, XAutoClaim, EndSweep, AcquireGate, CallFails, Process, Load, Claim,
              ClaimConflict, Execute, Complete, CompleteConflict, Ack, XAck, ClaimReplyLost,
              CompleteReplyLost, streamVars
<1>7. \/ \E t \in Task : XAdd(t)
      \/ UNCHANGED stream /\ lastDelivered' \in {lastDelivered, lastDelivered + 1}
  BY <1>4, <1>5, <1>6
     DEF Next, vars, Fault, WorkerFault, Crash, Accept, OrphanLeaseExpires, OwnerOverruns,
         MessageBecomesIdle, BecomesIdle, Quiescent, PublisherStep, ConsumeStep, ReclaimStep,
         EndSweepStep, GateStep, ProcessStep, streamVars
<1>8. QED
  BY <1>2, <1>3, <1>7

\* A step either leaves loop q as it is or takes it to where it owes nothing.
Carried(q) == pc'[q] = pc[q] /\ job'[q] = job[q]
Dropped(q) == pc'[q] \in {"idle", "gate", "load", "claim"}

\* A loop that does not move keeps naming the same task.
LEMMA SameTask ==
  ASSUME IInv, [Next]_vars, NEW q \in Proc, pc[q] # "idle", job'[q].message = job[q].message
  PROVE  TaskOf(q) \in Task /\ TaskOf(q)' = TaskOf(q)
<1>1. job[q].message \in 1 .. Len(stream) /\ TaskOf(q) \in Task
  BY TaskOfTyped DEF IInv
<1>2. QED
  BY <1>1, StreamGrows DEF TaskOf

\* What the other loops know survives any step.
LEMMA OthersAreSound ==
  ASSUME IInv, [Next]_vars, NEW q \in Proc, Carried(q) \/ Dropped(q)
  PROVE  /\ JobIsSound(q)'
         /\ AtWork(q)' => AtWork(q) /\ job'[q] = job[q] /\ TaskOf(q)' = TaskOf(q)
<1>1. CASE Dropped(q)
  BY <1>1 DEF Dropped, JobIsSound, AtWork
<1>2. CASE Carried(q) /\ pc[q] = "idle"
  BY <1>2 DEF Carried, JobIsSound, AtWork
<1>3. CASE Carried(q) /\ pc[q] # "idle"
  <2>1. TaskOf(q) \in Task /\ TaskOf(q)' = TaskOf(q)
    BY <1>3, SameTask DEF Carried
  <2>2. JobIsSound(q)
    BY DEF IInv, JobsAreSound
  <2>3. AtWork(q)' => job'[q].token \in 1 .. nextToken' - 1
    <3>1. job[q].token \in Nat /\ nextToken \in Nat
      BY DEF IInv, TypeOK, WorkerTypeOK, StoreTypeOK, Job
    <3>2. QED
      BY <1>3, <2>2, <3>1, RowsKept DEF Carried, JobIsSound, AtWork
  <2>4. pc'[q] = "ack" => IsTerminal(tasks'[TaskOf(q)'].status)
    BY <1>3, <2>1, <2>2, RowsKept DEF Carried, JobIsSound, EndedStays
  <2>5. pc'[q] = "complete" => job'[q].outcome # "none"
    BY <1>3, <2>2 DEF Carried, JobIsSound
  <2>6. QED
    BY <1>3, <2>1, <2>3, <2>4, <2>5 DEF Carried, JobIsSound, AtWork
<1>4. QED
  BY <1>1, <1>2, <1>3

\* Ownership survives a step that puts nobody to work and leaves the rows of those at work.
LEMMA OwnersKept ==
  ASSUME IInv, overruns' = 0 => overruns = 0,
         \A q \in Proc : AtWork(q)' =>
             /\ AtWork(q) /\ job'[q].token = job[q].token /\ TaskOf(q)' = TaskOf(q)
             /\ overruns' = 0 =>
                   /\ tasks'[TaskOf(q)].runToken = tasks[TaskOf(q)].runToken
                   /\ tasks'[TaskOf(q)].lease = tasks[TaskOf(q)].lease
  PROVE  SoleOwner' /\ OwnersAreLive'
<1>1. SoleOwner'
  BY DEF IInv, SoleOwner
<1>2. ASSUME overruns' = 0, NEW q \in Proc, AtWork(q)'
      PROVE  /\ tasks'[TaskOf(q)'].runToken = job'[q].token
             /\ tasks'[TaskOf(q)'].lease = "live"
  <2>1. tasks[TaskOf(q)].runToken = job[q].token /\ tasks[TaskOf(q)].lease = "live"
    BY <1>2 DEF IInv, OwnersAreLive
  <2>2. QED
    BY <1>2, <2>1
<1>3. QED
  BY <1>1, <1>2 DEF OwnersAreLive

\* The steps that leave the rows alone and put no loop to work.
LEMMA IdleStepKeepsJobs ==
  ASSUME IInv, [Next]_vars, UNCHANGED <<tasks, overruns>>,
         \A q \in Proc : Carried(q) \/ Dropped(q)
  PROVE  JobsAreSound' /\ SoleOwner' /\ OwnersAreLive'
  BY OthersAreSound, OwnersKept DEF JobsAreSound

\* A loop that loads a terminal task knows that it has ended.
LEMMA LoadKeepsJobs ==
  ASSUME IInv, [Next]_vars, NEW p \in Proc, Load(p), UNCHANGED overruns
  PROVE  JobsAreSound' /\ SoleOwner' /\ OwnersAreLive'
<1>1. \A q \in Proc : q # p => Carried(q)
  BY DEF Load, Proceed, Carried, IInv, TypeOK, WorkerTypeOK
<1>2. UNCHANGED <<tasks, stream>>
  BY DEF Load, storeVars, streamVars
<1>3. job'[p].message = job[p].message /\ pc[p] = "load"
  BY DEF Load, Proceed, IInv, TypeOK, WorkerTypeOK, Job
<1>4. pc'[p] = IF IsTerminal(tasks[TaskOf(p)].status) THEN "ack" ELSE "claim"
  BY DEF Load, Proceed, IInv, TypeOK, WorkerTypeOK
<1>5. TaskOf(p)' = TaskOf(p)
  BY <1>2, <1>3 DEF TaskOf
<1>6. JobIsSound(p)' /\ ~AtWork(p)'
  BY <1>2, <1>4, <1>5 DEF JobIsSound, AtWork
<1>7. QED
  BY <1>1, <1>2, <1>6, OthersAreSound, OwnersKept DEF JobsAreSound

\* A loop that has executed its task is still its owner, and has an outcome.
LEMMA ExecuteKeepsJobs ==
  ASSUME IInv, [Next]_vars, NEW p \in Proc, NEW outcome \in {"succeeded", "failed"},
         Execute(p, outcome), UNCHANGED overruns
  PROVE  JobsAreSound' /\ SoleOwner' /\ OwnersAreLive'
<1>1. \A q \in Proc : q # p => Carried(q)
  BY DEF Execute, Proceed, Carried, IInv, TypeOK, WorkerTypeOK
<1>2. UNCHANGED <<tasks, nextToken, stream>>
  BY DEF Execute, storeVars, streamVars
<1>3. /\ pc[p] = "execute" /\ pc'[p] = "complete"
      /\ job'[p].message = job[p].message /\ job'[p].token = job[p].token
      /\ job'[p].outcome = outcome
  BY DEF Execute, Proceed, IInv, TypeOK, WorkerTypeOK, Job
<1>4. TaskOf(p)' = TaskOf(p) /\ AtWork(p)
  BY <1>2, <1>3 DEF TaskOf, AtWork
<1>5. JobIsSound(p)'
  BY <1>2, <1>3, <1>4 DEF JobIsSound, IInv, JobsAreSound, AtWork
<1>6. QED
  BY <1>1, <1>2, <1>3, <1>4, <1>5, OthersAreSound, OwnersKept DEF JobsAreSound

\* A loop at work carries a token that was granted.
LEMMA TokenAtWork ==
  ASSUME IInv, NEW q \in Proc, AtWork(q)
  PROVE  /\ job[q].token \in Nat \ {0} /\ job[q].token < nextToken
         /\ TaskOf(q) \in Task /\ pc[q] # "idle"
<1>1. nextToken \in Nat /\ job[q].token \in 1 .. nextToken - 1 /\ pc[q] # "idle"
  BY DEF IInv, TypeOK, StoreTypeOK, JobsAreSound, JobIsSound, AtWork
<1>2. QED
  BY <1>1, TaskOfTyped DEF IInv

\* While nobody has overrun, a task somebody is at work on is running under a live lease.
LEMMA NoClaimUnderOwner ==
  ASSUME IInv, overruns = 0, NEW q \in Proc, AtWork(q)
  PROVE  /\ tasks[TaskOf(q)].status = "running" /\ tasks[TaskOf(q)].lease = "live"
         /\ tasks[TaskOf(q)].runToken = job[q].token
         /\ \A seen, reclaim : ~Claimable(TaskOf(q), seen, reclaim)
<1>1. tasks[TaskOf(q)].runToken = job[q].token /\ tasks[TaskOf(q)].lease = "live"
  BY DEF IInv, OwnersAreLive
<1>2. tasks[TaskOf(q)].status = "running"
  BY <1>1, TokenAtWork DEF IInv, RowsAreConsistent, RowIsConsistent
<1>3. QED
  BY <1>1, <1>2 DEF Claimable, ReclaimWhere

\* An acceptance or the expiry of a lease leaves every owner its task, unless it is itself
\* an overrun.
LEMMA TimeKeepsJobs ==
  ASSUME IInv, [Next]_vars, NEW t \in Task,
         Accept(t) \/ OrphanLeaseExpires(t) \/ OwnerOverruns(t)
  PROVE  JobsAreSound' /\ SoleOwner' /\ OwnersAreLive'
<1>1. \A q \in Proc : Carried(q)
  BY DEF Accept, OrphanLeaseExpires, OwnerOverruns, Carried, workerVars
<1>2. overruns' = 0 => overruns = 0
  BY DEF Accept, OrphanLeaseExpires, OwnerOverruns, IInv, TypeOK
<1>3. tasks \in [Task -> Row]
  BY DEF IInv, TypeOK, StoreTypeOK
<1>4. ASSUME NEW q \in Proc, AtWork(q), overruns' = 0
      PROVE  /\ tasks'[TaskOf(q)].runToken = tasks[TaskOf(q)].runToken
             /\ tasks'[TaskOf(q)].lease = tasks[TaskOf(q)].lease
  <2>1. TaskOf(q) \in Task /\ tasks[TaskOf(q)].runToken = job[q].token
    BY <1>2, <1>4, TokenAtWork, NoClaimUnderOwner
  <2>2. CASE Accept(t)
    BY <1>3, <2>1, <2>2 DEF Accept, CreateQueuedCrawlTaskWithOutbox, Row
  <2>3. CASE OrphanLeaseExpires(t)
    <3>1. TaskOf(q) # t
      BY <1>4, <2>1, <2>3 DEF OrphanLeaseExpires, Owns, AtWork
    <3>2. QED
      BY <1>3, <2>1, <2>3, <3>1 DEF OrphanLeaseExpires, LeaseRunsOut
  <2>4. CASE OwnerOverruns(t)
    BY <1>2, <1>4, <2>4 DEF OwnerOverruns
  <2>5. QED
    BY <2>2, <2>3, <2>4
<1>5. QED
  BY <1>1, <1>2, <1>4, OthersAreSound, OwnersKept DEF JobsAreSound

\* A loop that is granted a task is its only owner: the token is new, and while nobody has
\* overrun there was no other owner to replace.
LEMMA ClaimKeepsJobs ==
  ASSUME IInv, [Next]_vars, NEW p \in Proc, Claim(p) \/ ClaimReplyLost(p), UNCHANGED overruns
  PROVE  JobsAreSound' /\ SoleOwner' /\ OwnersAreLive'
<1>1. /\ ClaimCrawlTask(TaskOf(p), job[p].seen, MayTakeOver(p))
      /\ UNCHANGED stream /\ pc[p] = "claim" /\ TaskOf(p) \in Task
  BY TaskOfTyped DEF Claim, ClaimReplyLost, streamVars, IInv
<1>2. /\ tasks \in [Task -> Row] /\ nextToken \in Nat \ {0}
      /\ pc \in [Proc -> {"idle", "gate"} \cup Inside] /\ job \in [Proc -> Job]
  BY DEF IInv, TypeOK, StoreTypeOK, WorkerTypeOK
<1>3. /\ nextToken' = nextToken + 1
      /\ tasks'[TaskOf(p)].runToken = nextToken /\ tasks'[TaskOf(p)].lease = "live"
      /\ \A t \in Task : t # TaskOf(p) => tasks'[t] = tasks[t]
  BY <1>1, <1>2 DEF ClaimCrawlTask, TokenAfterClaim, ClaimedRow
<1>4. \A q \in Proc : q # p => Carried(q)
  BY <1>2 DEF Claim, ClaimReplyLost, Proceed, Return, Carried
<1>5. ASSUME NEW q \in Proc, q # p, AtWork(q)'
      PROVE  /\ AtWork(q) /\ job'[q] = job[q] /\ TaskOf(q)' = TaskOf(q)
             /\ job[q].token < nextToken /\ JobIsSound(q)'
             /\ overruns = 0 => /\ tasks'[TaskOf(q)].runToken = job[q].token
                                /\ tasks'[TaskOf(q)].lease = "live"
  <2>1. AtWork(q) /\ job'[q] = job[q] /\ TaskOf(q)' = TaskOf(q) /\ JobIsSound(q)'
    BY <1>4, <1>5, OthersAreSound
  <2>2. job[q].token < nextToken /\ TaskOf(q) \in Task
    BY <2>1, TokenAtWork
  <2>3. ASSUME overruns = 0
        PROVE  tasks'[TaskOf(q)].runToken = job[q].token /\ tasks'[TaskOf(q)].lease = "live"
    <3>1. /\ tasks[TaskOf(q)].runToken = job[q].token /\ tasks[TaskOf(q)].lease = "live"
          /\ \A seen, reclaim : ~Claimable(TaskOf(q), seen, reclaim)
      BY <2>1, <2>3, NoClaimUnderOwner
    <3>2. TaskOf(q) # TaskOf(p)
      BY <1>1, <3>1 DEF ClaimCrawlTask
    <3>3. QED
      BY <1>3, <2>2, <3>1, <3>2
  <2>4. QED
    BY <2>1, <2>2, <2>3
<1>6. CASE ClaimReplyLost(p)
  <2>1. Dropped(p) /\ ~AtWork(p)'
    BY <1>2, <1>6 DEF ClaimReplyLost, Return, Dropped, AtWork
  <2>2. JobsAreSound'
    BY <1>4, <2>1, OthersAreSound DEF JobsAreSound
  <2>3. SoleOwner'
    BY <1>5, <2>1 DEF SoleOwner, IInv
  <2>4. OwnersAreLive'
    BY <1>5, <2>1 DEF OwnersAreLive
  <2>5. QED
    BY <2>2, <2>3, <2>4
<1>7. CASE Claim(p)
  <2>1. /\ pc'[p] = "execute" /\ job'[p].token = nextToken
        /\ job'[p].message = job[p].message
    BY <1>2, <1>7 DEF Claim, Proceed, Job
  <2>2. TaskOf(p)' = TaskOf(p)
    BY <1>1, <2>1 DEF TaskOf
  <2>3. JobIsSound(p)'
    BY <1>2, <1>3, <2>1 DEF JobIsSound, AtWork
  <2>4. JobsAreSound'
    BY <1>4, <2>3, OthersAreSound DEF JobsAreSound
  <2>5. SoleOwner'
    <3> SUFFICES ASSUME NEW q \in Proc, NEW r \in Proc, AtWork(q)', AtWork(r)',
                        job'[q].token = job'[r].token
                 PROVE  q = r
      BY DEF SoleOwner
    <3>1. CASE q = p \/ r = p
      BY <1>2, <1>5, <2>1, <3>1
    <3>2. CASE q # p /\ r # p
      BY <1>5, <3>2 DEF IInv, SoleOwner
    <3>3. QED
      BY <3>1, <3>2
  <2>6. OwnersAreLive'
    BY <1>3, <1>5, <2>1, <2>2 DEF OwnersAreLive
  <2>7. QED
    BY <2>4, <2>5, <2>6
<1>8. QED
  BY <1>6, <1>7

\* A completion ends the task of the one loop that carries its token.
LEMMA CompleteKeepsJobs ==
  ASSUME IInv, [Next]_vars, NEW p \in Proc, Complete(p) \/ CompleteReplyLost(p),
         UNCHANGED overruns
  PROVE  JobsAreSound' /\ SoleOwner' /\ OwnersAreLive'
<1>1. /\ CompleteCrawlTask(TaskOf(p), job[p].token, job[p].outcome)
      /\ UNCHANGED stream /\ pc[p] = "complete" /\ TaskOf(p) \in Task /\ AtWork(p)
  BY TaskOfTyped DEF Complete, CompleteReplyLost, streamVars, IInv, AtWork
<1>2. /\ tasks \in [Task -> Row]
      /\ pc \in [Proc -> {"idle", "gate"} \cup Inside] /\ job \in [Proc -> Job]
      /\ job[p].outcome \in {"succeeded", "failed"}
  BY <1>1 DEF IInv, TypeOK, StoreTypeOK, WorkerTypeOK, JobsAreSound, JobIsSound, Job
<1>3. /\ IsTerminal(tasks'[TaskOf(p)].status)
      /\ tasks[TaskOf(p)].runToken = job[p].token
      /\ \A t \in Task : t # TaskOf(p) => tasks'[t] = tasks[t]
  BY <1>1, <1>2 DEF CompleteCrawlTask, CompleteWhere, IsTerminal, Row
<1>4. \A q \in Proc : q # p => Carried(q)
  BY <1>2 DEF Complete, CompleteReplyLost, Proceed, Return, Carried
<1>5. ~AtWork(p)' /\ JobIsSound(p)'
  <2>1. CASE CompleteReplyLost(p)
    BY <1>2, <2>1 DEF CompleteReplyLost, Return, AtWork, JobIsSound
  <2>2. CASE Complete(p)
    <3>1. pc'[p] = "ack" /\ job'[p] = job[p]
      BY <1>2, <2>2 DEF Complete, Proceed
    <3>2. TaskOf(p)' = TaskOf(p)
      BY <1>1, <3>1 DEF TaskOf
    <3>3. QED
      BY <1>3, <3>1, <3>2 DEF AtWork, JobIsSound
  <2>3. QED
    BY <2>1, <2>2
<1>6. JobsAreSound'
  BY <1>4, <1>5, OthersAreSound DEF JobsAreSound
<1>7. ASSUME NEW q \in Proc, AtWork(q)'
      PROVE  /\ AtWork(q) /\ job'[q].token = job[q].token /\ TaskOf(q)' = TaskOf(q)
             /\ overruns' = 0 =>
                   /\ tasks'[TaskOf(q)].runToken = tasks[TaskOf(q)].runToken
                   /\ tasks'[TaskOf(q)].lease = tasks[TaskOf(q)].lease
  <2>1. q # p /\ AtWork(q) /\ job'[q] = job[q] /\ TaskOf(q)' = TaskOf(q) /\ TaskOf(q) \in Task
    BY <1>4, <1>5, <1>7, OthersAreSound, TokenAtWork
  <2>2. ASSUME overruns' = 0
        PROVE  TaskOf(q) # TaskOf(p)
    BY <1>1, <1>3, <2>1, <2>2, NoClaimUnderOwner DEF IInv, SoleOwner
  <2>3. QED
    BY <1>3, <2>1, <2>2
<1>8. QED
  BY <1>6, <1>7, OwnersKept

\* Every step keeps what the loops know, and who owns what.
LEMMA JobsKept ==
  ASSUME IInv, [Next]_vars
  PROVE  JobsAreSound' /\ SoleOwner' /\ OwnersAreLive'
<1>0. pc \in [Proc -> {"idle", "gate"} \cup Inside] /\ job \in [Proc -> Job]
  BY DEF IInv, TypeOK, WorkerTypeOK
<1>1. ASSUME NEW t \in Task, Accept(t) \/ OrphanLeaseExpires(t) \/ OwnerOverruns(t)
      PROVE  JobsAreSound' /\ SoleOwner' /\ OwnersAreLive'
  BY <1>1, TimeKeepsJobs
<1>2. CASE UNCHANGED <<tasks, overruns, pc, job>>
  BY <1>2, IdleStepKeepsJobs DEF Carried
<1>3. ASSUME NEW p \in Publisher, Publish(p) \/ PublisherFault(p)
      PROVE  UNCHANGED tasks
  BY <1>3 DEF Publish, PublisherFault, ListBatch, PublishTask, PublishReplyLost, MarkPublished,
              MarkReplyLost, MarkConflict, AbandonBatch, MarkTaskOutboxPublished, storeVars
<1>4. ASSUME NEW p \in Proc, UNCHANGED overruns,
             \/ Consume(p) \/ Reclaim(p) \/ AcquireGate(p) \/ ClaimConflict(p)
             \/ CompleteConflict(p) \/ Ack(p) \/ CallFails(p)
      PROVE  JobsAreSound' /\ SoleOwner' /\ OwnersAreLive'
  <2>1. UNCHANGED tasks
    BY <1>4 DEF Consume, Reclaim, AcquireGate, ClaimConflict, CompleteConflict, Ack, CallFails,
                storeVars
  <2>2. \A q \in Proc : Carried(q) \/ Dropped(q)
    BY <1>0, <1>4 DEF Consume, Reclaim, Receive, AcquireGate, ClaimConflict, AfterConflict,
                CompleteConflict, Ack, CallFails, Return, Carried, Dropped
  <2>3. QED
    BY <1>4, <2>1, <2>2, IdleStepKeepsJobs
<1>5. ASSUME NEW p \in Proc, UNCHANGED overruns, Process(p)
      PROVE  JobsAreSound' /\ SoleOwner' /\ OwnersAreLive'
  BY <1>4, <1>5, LoadKeepsJobs, ExecuteKeepsJobs, ClaimKeepsJobs, CompleteKeepsJobs DEF Process
<1>6. ASSUME NEW p \in Proc, UNCHANGED overruns,
             CallFails(p) \/ ClaimReplyLost(p) \/ CompleteReplyLost(p)
      PROVE  JobsAreSound' /\ SoleOwner' /\ OwnersAreLive'
  BY <1>4, <1>6, ClaimKeepsJobs, CompleteKeepsJobs
<1>7. ASSUME NEW h \in Host, Crash(h), UNCHANGED overruns
      PROVE  JobsAreSound' /\ SoleOwner' /\ OwnersAreLive'
  <2>1. UNCHANGED tasks /\ \A q \in Proc : Carried(q) \/ Dropped(q)
    BY <1>0, <1>7 DEF Crash, Carried, Dropped, storeVars
  <2>2. QED
    BY <1>7, <2>1, IdleStepKeepsJobs
<1>8. CASE Fault
  <2>1. UNCHANGED overruns
    BY <1>8 DEF Fault
  <2>2. CASE \E p \in Publisher : PublisherFault(p) /\ UNCHANGED workerVars
    BY <1>2, <1>3, <2>1, <2>2 DEF workerVars
  <2>3. CASE WorkerFault
    BY <1>6, <1>7, <2>1, <2>3 DEF WorkerFault
  <2>4. QED
    BY <1>8, <2>2, <2>3 DEF Fault
<1>9. ASSUME NEW p \in Publisher, PublisherStep(p)
      PROVE  JobsAreSound' /\ SoleOwner' /\ OwnersAreLive'
  BY <1>2, <1>3, <1>9 DEF PublisherStep, workerVars
<1>10. ASSUME NEW p \in Proc,
              \/ ConsumeStep(p) \/ ReclaimStep(p) \/ EndSweepStep(p) \/ GateStep(p)
              \/ ProcessStep(p)
       PROVE  JobsAreSound' /\ SoleOwner' /\ OwnersAreLive'
  BY <1>2, <1>4, <1>5, <1>10
     DEF ConsumeStep, ReclaimStep, EndSweepStep, GateStep, ProcessStep, EndSweep, storeVars
<1>11. QED
  BY <1>1, <1>2, <1>8, <1>9, <1>10
     DEF Next, vars, storeVars, workerVars, MessageBecomesIdle, Quiescent

-----------------------------------------------------------------------------
(* The outbox: a marked row names a message that carries its task.         *)

\* Every step of a publisher keeps its batch sound and the marks truthful.
LEMMA PublisherKeepsMarks ==
  ASSUME IInv, [Next]_vars, NEW p \in Publisher, Publish(p) \/ PublisherFault(p)
  PROVE  BatchesAreSound' /\ MarkNamesItsMessage'
<1>0. /\ pubPc \in [Publisher -> {"list", "xadd", "mark"}]
      /\ batch \in [Publisher -> SUBSET Task] /\ sent \in [Publisher -> Nat]
      /\ messageID \in [Task -> Nat] /\ Len(stream) \in Nat /\ outboxes \subseteq Task
  BY DEF IInv, TypeOK, PublisherTypeOK, StoreTypeOK, StreamTypeOK
<1>1. \A id \in 1 .. Len(stream) : stream'[id] = stream[id] /\ id \in 1 .. Len(stream')
  BY StreamGrows
<1>2. UNCHANGED outboxes
  BY DEF Publish, PublisherFault, ListBatch, PublishTask, PublishReplyLost, MarkPublished,
         MarkReplyLost, MarkConflict, AbandonBatch, MarkTaskOutboxPublished, storeVars
<1>3. \A q \in Publisher : q # p => /\ pubPc'[q] = pubPc[q] /\ batch'[q] = batch[q]
                                    /\ sent'[q] = sent[q]
  BY <1>0 DEF Publish, PublisherFault, ListBatch, PublishTask, PublishReplyLost, MarkPublished,
         MarkReplyLost, MarkConflict, AbandonBatch, GoTo, EndBatch
<1>4. \A q \in Publisher : /\ batch[q] \subseteq outboxes
                           /\ pubPc[q] = "mark" => sent[q] \in 1 .. Len(stream)
                           /\ pubPc[q] = "mark" =>
                                \A t \in Task : IsNext(q, t) => stream[sent[q]] = t
  BY DEF IInv, BatchesAreSound
<1>5. \A q \in Publisher : q # p => /\ batch'[q] \subseteq outboxes'
                                    /\ pubPc'[q] = "mark" => sent'[q] \in 1 .. Len(stream')
                                    /\ pubPc'[q] = "mark" =>
                                        \A t \in Task : IsNext(q, t)' => stream'[sent'[q]] = t
  BY <1>1, <1>2, <1>3, <1>4 DEF IsNext
<1>6. batch'[p] \subseteq outboxes' /\ (pubPc'[p] = "mark" => \E t \in Task : PublishTask(p, t))
  <2>1. CASE ListBatch(p)
    BY <1>0, <1>2, <2>1 DEF ListBatch, GoTo, ListUnpublishedTaskOutboxes, Unpublished
  <2>2. CASE AbandonBatch(p)
    BY <1>0, <1>2, <2>2 DEF AbandonBatch, GoTo, EndBatch
  <2>3. ASSUME NEW t \in Task, PublishTask(p, t)
        PROVE  batch'[p] \subseteq outboxes'
    BY <1>0, <1>2, <1>4, <2>3 DEF PublishTask, GoTo
  <2>4. ASSUME NEW t \in Task,
               PublishReplyLost(p, t) \/ MarkPublished(p, t) \/ MarkReplyLost(p, t) \/ MarkConflict(p, t)
        PROVE  batch'[p] \subseteq outboxes' /\ pubPc'[p] # "mark"
    BY <1>0, <1>2, <1>4, <2>4
       DEF PublishReplyLost, MarkPublished, MarkReplyLost, MarkConflict, GoTo, EndBatch
  <2>5. QED
    BY <2>1, <2>2, <2>3, <2>4 DEF Publish, PublisherFault
<1>7. ASSUME NEW t \in Task, PublishTask(p, t)
      PROVE  /\ sent'[p] \in 1 .. Len(stream')
             /\ \A u \in Task : IsNext(p, u)' => stream'[sent'[p]] = u
  <2>1. XAdd(t) /\ IsNext(p, t) /\ sent'[p] = Len(stream') /\ batch'[p] = batch[p]
    BY <1>0, <1>7 DEF PublishTask, GoTo
  <2>2. Len(stream') = Len(stream) + 1 /\ stream'[Len(stream')] = t
    BY <2>1, XAddTyped DEF IInv, TypeOK
  <2>3. \A u \in Task : IsNext(p, u)' => u = t
    <3> SUFFICES ASSUME NEW u \in Task, IsNext(p, u)'
                 PROVE  u = t
      OBVIOUS
    <3>1. t \in Nat /\ u \in Nat
      BY TaskAssumption
    <3>2. t <= u /\ u <= t
      BY <2>1 DEF IsNext
    <3>3. QED
      BY <3>1, <3>2
  <2>4. QED
    BY <1>0, <2>1, <2>2, <2>3
<1>8. BatchesAreSound'
  BY <1>5, <1>6, <1>7 DEF BatchesAreSound
<1>9. MarkNamesItsMessage'
  <2>1. ASSUME NEW t \in Task, MarkPublished(p, t) \/ MarkReplyLost(p, t)
        PROVE  MarkNamesItsMessage'
    <3>1. /\ messageID' = [messageID EXCEPT ![t] = sent[p]]
          /\ pubPc[p] = "mark" /\ IsNext(p, t)
      BY <2>1 DEF MarkPublished, MarkReplyLost, MarkTaskOutboxPublished, RecordedID
    <3>2. sent[p] \in 1 .. Len(stream) /\ stream[sent[p]] = t
      BY <1>4, <3>1
    <3>3. QED
      BY <1>0, <1>1, <3>1, <3>2 DEF IInv, MarkNamesItsMessage
  <2>2. CASE UNCHANGED messageID
    BY <1>0, <1>1, <2>2 DEF IInv, MarkNamesItsMessage
  <2>3. QED
    BY <2>1, <2>2 DEF Publish, PublisherFault, ListBatch, PublishTask, PublishReplyLost,
                      MarkConflict, AbandonBatch, storeVars
<1>10. QED
  BY <1>8, <1>9

\* Every step keeps the batches sound and the marks truthful.
LEMMA MarksKept ==
  ASSUME IInv, [Next]_vars
  PROVE  BatchesAreSound' /\ MarkNamesItsMessage'
<1>1. ASSUME NEW p \in Publisher, Publish(p) \/ PublisherFault(p)
      PROVE  BatchesAreSound' /\ MarkNamesItsMessage'
  BY <1>1, PublisherKeepsMarks
<1>2. CASE UNCHANGED <<pubPc, batch, sent, messageID>> /\ outboxes \subseteq outboxes'
  <2>1. \A id \in 1 .. Len(stream) : stream'[id] = stream[id] /\ id \in 1 .. Len(stream')
    BY StreamGrows
  <2>2. BatchesAreSound'
    BY <1>2, <2>1 DEF IInv, BatchesAreSound, IsNext
  <2>3. messageID \in [Task -> Nat] /\ Len(stream) \in Nat
    BY DEF IInv, TypeOK, StoreTypeOK, StreamTypeOK
  <2>4. MarkNamesItsMessage'
    BY <1>2, <2>1, <2>3 DEF IInv, MarkNamesItsMessage
  <2>5. QED
    BY <2>2, <2>4
<1>3. ASSUME NEW p \in Proc,
             \/ ConsumeStep(p) \/ ReclaimStep(p) \/ EndSweepStep(p) \/ GateStep(p)
             \/ ProcessStep(p)
             \/ /\ CallFails(p) \/ ClaimReplyLost(p) \/ CompleteReplyLost(p)
                /\ UNCHANGED publisherVars
      PROVE  UNCHANGED <<pubPc, batch, sent, messageID, outboxes>>
  BY <1>3 DEF ConsumeStep, ReclaimStep, EndSweepStep, GateStep, ProcessStep, Consume, Reclaim,
     EndSweep, AcquireGate, Process, Load, Claim, ClaimConflict, Execute, Complete,
     CompleteConflict, Ack, CallFails, ClaimReplyLost, CompleteReplyLost, ClaimCrawlTask,
     CompleteCrawlTask, storeVars, publisherVars
<1>4. ASSUME NEW t \in Task, Accept(t) \/ OrphanLeaseExpires(t) \/ OwnerOverruns(t)
      PROVE  UNCHANGED <<pubPc, batch, sent, messageID>> /\ outboxes \subseteq outboxes'
  BY <1>4 DEF Accept, OrphanLeaseExpires, OwnerOverruns, CreateQueuedCrawlTaskWithOutbox,
              LeaseRunsOut, publisherVars
<1>5. CASE Fault
  BY <1>1, <1>2, <1>3, <1>5 DEF Fault, WorkerFault, Crash, storeVars, publisherVars
<1>6. QED
  BY <1>1, <1>2, <1>3, <1>4, <1>5
     DEF Next, PublisherStep, MessageBecomesIdle, Quiescent, vars, storeVars, publisherVars

-----------------------------------------------------------------------------
(* Acknowledgements.                                                       *)

\* A delivered message that is not pending stays the message of a task that has ended; one
\* more can only join by the acknowledgement of a loop that saw its task ended.
LEMMA AcksKept ==
  ASSUME IInv, [Next]_vars
  PROVE  AckedOnlyAfterTerminal'
<1>0. StreamTypeOK /\ lastDelivered \in Nat /\ lastDelivered' \in Nat /\ TypeOK'
  BY TypesKept DEF IInv, TypeOK, StreamTypeOK
<1>1. ASSUME NEW id \in 1 .. lastDelivered, IsTerminal(tasks[stream[id]].status)
      PROVE  IsTerminal(tasks'[stream'[id]].status)
  <2>1. id \in 1 .. Len(stream) /\ stream[id] \in Task
    BY <1>0 DEF StreamTypeOK
  <2>2. QED
    BY <1>1, <2>1, StreamGrows, RowsKept DEF EndedStays
<1>2. CASE lastDelivered' = lastDelivered /\ pel \subseteq pel'
  BY <1>0, <1>1, <1>2 DEF IInv, AckedOnlyAfterTerminal
<1>3. ASSUME NEW p \in Proc, Consume(p)
      PROVE  AckedOnlyAfterTerminal'
  <2>1. lastDelivered' = lastDelivered + 1 /\ pel' = pel \cup {lastDelivered + 1}
    BY <1>3 DEF Consume, XReadGroup, PendingAfterRead
  <2>2. QED
    BY <1>0, <1>1, <2>1 DEF IInv, AckedOnlyAfterTerminal
<1>4. ASSUME NEW p \in Proc, Ack(p)
      PROVE  AckedOnlyAfterTerminal'
  <2>1. /\ lastDelivered' = lastDelivered /\ pel' = pel \ {job[p].message}
        /\ job[p].message \in 1 .. lastDelivered
    BY <1>4 DEF Ack, XAck, IInv, JobsAreDelivered
  <2>2. IsTerminal(tasks[stream[job[p].message]].status)
    BY <1>4 DEF Ack, IInv, JobsAreSound, JobIsSound, TaskOf
  <2>3. QED
    BY <1>0, <1>1, <2>1, <2>2 DEF IInv, AckedOnlyAfterTerminal
<1>5. ASSUME NEW p \in Proc,
             \/ Reclaim(p) \/ EndSweep(p) \/ AcquireGate(p) \/ CallFails(p)
             \/ ClaimReplyLost(p) \/ CompleteReplyLost(p) \/ (Process(p) /\ ~Ack(p))
      PROVE  lastDelivered' = lastDelivered /\ pel \subseteq pel'
  BY <1>5 DEF Reclaim, XAutoClaim, EndSweep, AcquireGate, CallFails, Process, Load, Claim,
              ClaimConflict, Execute, Complete, CompleteConflict, ClaimReplyLost,
              CompleteReplyLost, streamVars
<1>6. ASSUME NEW p \in Publisher, Publish(p) \/ PublisherFault(p)
      PROVE  lastDelivered' = lastDelivered /\ pel \subseteq pel'
  BY <1>6 DEF Publish, PublisherFault, ListBatch, PublishTask, PublishReplyLost, MarkPublished,
              MarkReplyLost, MarkConflict, AbandonBatch, XAdd, streamVars
<1>7. QED
  BY <1>2, <1>3, <1>4, <1>5, <1>6
     DEF Next, vars, Fault, WorkerFault, Crash, Accept, OrphanLeaseExpires, OwnerOverruns,
         MessageBecomesIdle, BecomesIdle, Quiescent, PublisherStep, ConsumeStep, ReclaimStep,
         EndSweepStep, GateStep, ProcessStep, streamVars

-----------------------------------------------------------------------------
(* The theorems.                                                           *)

\* The inductive invariant holds of every reachable state.
LEMMA InductiveInvariant == Spec => []IInv
<1>1. Init => IInv
  <2> SUFFICES ASSUME Init
               PROVE  IInv
    OBVIOUS
  <2>1. TypeOK
    BY InitTyped
  <2>2. RowsAreConsistent /\ ResultIsFenced
    BY DEF Init, StoreInit, NoRow, RowsAreConsistent, RowIsConsistent, ResultIsFenced
  <2>3. JobsAreDelivered /\ JobsAreSound /\ SoleOwner /\ OwnersAreLive
    BY DEF Init, WorkerInit, JobsAreDelivered, JobsAreSound, JobIsSound, AtWork, SoleOwner,
           OwnersAreLive
  <2>4. BatchesAreSound /\ MarkNamesItsMessage
    BY DEF Init, PublisherInit, StoreInit, BatchesAreSound, MarkNamesItsMessage
  <2>5. AckedOnlyAfterTerminal
    BY DEF Init, StreamInit, AckedOnlyAfterTerminal
  <2>6. QED
    BY <2>1, <2>2, <2>3, <2>4, <2>5 DEF IInv
<1>2. IInv /\ [Next]_vars => IInv'
  BY TypesKept, RowsKept, JobsKept, MarksKept, AcksKept DEF IInv
<1>3. QED
  BY <1>1, <1>2, PTL DEF Spec

\* Every variable keeps its type: the tables, the stream, the publishers and the workers.
THEOREM TypeCorrect == Spec => []TypeOK
<1>1. IInv => TypeOK
  BY DEF IInv
<1>2. QED
  BY <1>1, InductiveInvariant, PTL

\* A result is the payload of the attempt on record, and exists exactly for a success, for any
\* number of workers, duplicates, crashes and overruns (CompleteCrawlTask).
THEOREM ResultsAreFenced == Spec => []ResultIsFenced
<1>1. IInv => ResultIsFenced
  BY DEF IInv
<1>2. QED
  BY <1>1, InductiveInvariant, PTL

\* No message leaves the pending list before its task's terminal commit (Processor.process).
THEOREM AcksFollowCommits == Spec => []AckedOnlyAfterTerminal
<1>1. IInv => AckedOnlyAfterTerminal
  BY DEF IInv
<1>2. QED
  BY <1>1, InductiveInvariant, PTL

\* Two loops at work never carry the same run token (ClaimCrawlTask).
THEOREM OwnersAreUnique == Spec => []SoleOwner
<1>1. IInv => SoleOwner
  BY DEF IInv
<1>2. QED
  BY <1>1, InductiveInvariant, PTL

\* A running task always has a lease that can expire and a token to compare: the takeover's
\* WHERE clause can become true (ClaimCrawlTask, CompleteCrawlTask).
THEOREM RunningTasksCanBeTakenOver == Spec => []RunningCanBeTakenOver
<1>1. IInv => RunningCanBeTakenOver
  BY DEF IInv, RowsAreConsistent, RowIsConsistent, RunningCanBeTakenOver
<1>2. QED
  BY <1>1, InductiveInvariant, PTL

\* A marked outbox row names a message that carries its task, whichever publisher marked it
\* and however many messages name the task (PublishPendingTaskOutboxes).
THEOREM MarksNameMessages == Spec => []MarkNamesItsMessage
<1>1. IInv => MarkNamesItsMessage
  BY DEF IInv
<1>2. QED
  BY <1>1, InductiveInvariant, PTL

\* Until an owner outlives its lease, no task is executed by two loops at once.
THEOREM ExecutionIsExclusive == Spec => []SoleExecutor
<1>1. IInv => SoleExecutor
  <2> SUFFICES ASSUME IInv, overruns = 0, NEW p \in Proc, NEW q \in Proc, AtWork(p), AtWork(q),
                      TaskOf(p) = TaskOf(q)
               PROVE  p = q
    BY DEF SoleExecutor
  <2>1. job[p].token = job[q].token
    BY DEF IInv, OwnersAreLive
  <2>2. QED
    BY <2>1 DEF IInv, SoleOwner
<1>2. QED
  BY <1>1, InductiveInvariant, PTL

\* An accepted task that has not ended has an unpublished outbox row, or a message that is
\* undelivered or pending.
THEOREM TasksAreNeverLost == Spec => []NoTaskIsLost
<1>1. IInv => NoTaskIsLost
  <2> SUFFICES ASSUME IInv, NEW t \in Task, tasks[t].status \in {"queued", "running"}
               PROVE  Reachable(t)
    BY DEF NoTaskIsLost
  <2>1. t \in outboxes
    BY DEF IInv, RowsAreConsistent, RowIsConsistent
  <2>2. CASE messageID[t] = 0
    BY <2>1, <2>2 DEF Reachable, Unpublished
  <2>3. CASE messageID[t] # 0
    <3>1. messageID[t] \in 1 .. Len(stream) /\ stream[messageID[t]] = t
      BY <2>3 DEF IInv, TypeOK, StoreTypeOK, StreamTypeOK, MarkNamesItsMessage
    <3>2. messageID[t] > lastDelivered \/ messageID[t] \in pel
      BY <3>1 DEF IInv, AckedOnlyAfterTerminal, IsTerminal, TypeOK, StreamTypeOK
    <3>3. QED
      BY <3>1, <3>2 DEF Reachable
  <2>4. QED
    BY <2>2, <2>3
<1>2. QED
  BY <1>1, InductiveInvariant, PTL

\* The status column moves along the table of status.go, whichever code writes it.
THEOREM StatusMovesAlongTable == Spec => StatusFollowsTable
<1>1. ASSUME IInv, [Next]_vars, NEW t \in Task, tasks'[t].status # tasks[t].status
      PROVE  \/ CanTransition(tasks[t].status, tasks'[t].status)
             \/ tasks[t].status = "absent" /\ tasks'[t].status = "queued"
  <2>1. TableStep
    BY <1>1, TablesMoveByStatements DEF storeVars
  <2>2. tasks \in [Task -> Row] /\ tasks[t] \in Row
    BY <1>1 DEF IInv, TypeOK, StoreTypeOK
  <2>3. ASSUME NEW u \in Task, CreateQueuedCrawlTaskWithOutbox(u)
        PROVE  tasks[t].status = "absent" /\ tasks'[t].status = "queued"
    BY <1>1, <2>2, <2>3 DEF CreateQueuedCrawlTaskWithOutbox, Row
  <2>4. ASSUME NEW u \in Task, NEW seen \in Snapshot, NEW reclaim \in BOOLEAN,
               ClaimCrawlTask(u, seen, reclaim)
        PROVE  CanTransition(tasks[t].status, tasks'[t].status)
    <3>1. u = t /\ tasks'[t].status = "running" /\ tasks[t].status = "queued"
      BY <1>1, <2>2, <2>4 DEF ClaimCrawlTask, ClaimedRow, Claimable, ReclaimWhere
    <3>2. QED
      BY <3>1 DEF CanTransition
  <2>5. ASSUME NEW u \in Task, NEW token \in Nat, NEW outcome \in {"succeeded", "failed"},
               CompleteCrawlTask(u, token, outcome)
        PROVE  CanTransition(tasks[t].status, tasks'[t].status)
    <3>1. u = t /\ tasks'[t].status = outcome /\ tasks[t].status = "running"
      BY <1>1, <2>2, <2>5 DEF CompleteCrawlTask, CompleteWhere, Row
    <3>2. QED
      BY <3>1 DEF CanTransition
  <2>6. ASSUME NEW u \in Task, LeaseRunsOut(u) \/ (\E id \in Nat : MarkTaskOutboxPublished(u, id))
        PROVE  FALSE
    BY <1>1, <2>2, <2>6 DEF LeaseRunsOut, MarkTaskOutboxPublished, Row
  <2>7. QED
    BY <2>1, <2>3, <2>4, <2>5, <2>6 DEF TableStep
<1>2. IInv /\ [Next]_vars =>
        [\A t \in Task : LET from == tasks[t].status
                             to   == tasks'[t].status
                         IN  to # from => \/ CanTransition(from, to)
                                          \/ from = "absent" /\ to = "queued"]_vars
  BY <1>1
<1>3. QED
  BY <1>2, InductiveInvariant, PTL DEF Spec, StatusFollowsTable

\* An attempt is replaced only while its task is running under an expired lease.
THEOREM TakeoversWaitForLeases == Spec => NoEarlyTakeover
<1>1. ASSUME IInv, [Next]_vars, NEW t \in Task,
             tasks[t].runToken # 0, tasks'[t].runToken # tasks[t].runToken
      PROVE  tasks[t].status = "running" /\ tasks[t].lease = "expired"
  <2>1. TableStep
    BY <1>1, TablesMoveByStatements DEF storeVars
  <2>2. tasks \in [Task -> Row] /\ tasks[t] \in Row /\ RowIsConsistent(t)
    BY <1>1 DEF IInv, TypeOK, StoreTypeOK, RowsAreConsistent
  <2>3. ASSUME NEW u \in Task, NEW seen \in Snapshot, NEW reclaim \in BOOLEAN,
               ClaimCrawlTask(u, seen, reclaim)
        PROVE  tasks[t].status = "running" /\ tasks[t].lease = "expired"
    <3>1. u = t
      BY <1>1, <2>2, <2>3 DEF ClaimCrawlTask
    <3>2. tasks[t].status # "queued"
      BY <1>1, <2>2 DEF RowIsConsistent
    <3>3. QED
      BY <2>3, <3>1, <3>2 DEF ClaimCrawlTask, Claimable, ReclaimWhere
  <2>4. ASSUME NEW u \in Task,
               \/ CreateQueuedCrawlTaskWithOutbox(u) \/ LeaseRunsOut(u)
               \/ \E id \in Nat : MarkTaskOutboxPublished(u, id)
               \/ \E token \in Nat, outcome \in {"succeeded", "failed"} :
                      CompleteCrawlTask(u, token, outcome)
        PROVE  FALSE
    BY <1>1, <2>2, <2>4 DEF CreateQueuedCrawlTaskWithOutbox, LeaseRunsOut,
                            MarkTaskOutboxPublished, CompleteCrawlTask, Row
  <2>5. QED
    BY <2>1, <2>3, <2>4 DEF TableStep
<1>2. IInv /\ [Next]_vars =>
        [\A t \in Task : tasks[t].runToken # 0 /\ tasks'[t].runToken # tasks[t].runToken
                          => tasks[t].status = "running" /\ tasks[t].lease = "expired"]_vars
  BY <1>1
<1>3. QED
  BY <1>2, InductiveInvariant, PTL DEF Spec, NoEarlyTakeover

-----------------------------------------------------------------------------
(* The pipeline implements the lifecycle.                                  *)

\* Each statement on the tables is one step of the lifecycle, or none.
LEMMA StatementsAreLifecycleSteps ==
  ASSUME IInv, TableStep
  PROVE  [Lifecycle!Next]_(Lifecycle!vars)
<1>0. /\ tasks \in [Task -> Row] /\ results \in [Task -> Nat] /\ nextToken \in Nat
      /\ \A t \in Task : RowIsConsistent(t) /\ tasks[t] \in Row
      /\ \A t \in Task : results[t] = IF tasks[t].status = "succeeded"
                                      THEN tasks[t].runToken ELSE 0
  BY DEF IInv, TypeOK, StoreTypeOK, RowsAreConsistent, ResultIsFenced
<1>1. ASSUME NEW t \in Task, CreateQueuedCrawlTaskWithOutbox(t)
      PROVE  Lifecycle!Accept(t)
  BY <1>0, <1>1 DEF CreateQueuedCrawlTaskWithOutbox, Lifecycle!Accept, Row
<1>2. ASSUME NEW t \in Task, LeaseRunsOut(t) \/ (\E id \in Nat : MarkTaskOutboxPublished(t, id))
      PROVE  UNCHANGED Lifecycle!vars
  BY <1>0, <1>2 DEF LeaseRunsOut, MarkTaskOutboxPublished, Lifecycle!vars, Row
<1>3. ASSUME NEW t \in Task, NEW seen \in Snapshot, NEW reclaim \in BOOLEAN,
             ClaimCrawlTask(t, seen, reclaim)
      PROVE  Lifecycle!Attempt(t)
  <2>1. tasks[t].status \in {"queued", "running"}
    BY <1>3 DEF ClaimCrawlTask, Claimable, ReclaimWhere
  <2>2. tasks'[t].status = "running" /\ tasks'[t].runToken = nextToken
    BY <1>0, <1>3 DEF ClaimCrawlTask, ClaimedRow
  <2>3. /\ \A u \in Task : u # t => tasks'[u] = tasks[u]
        /\ nextToken' = nextToken + 1 /\ results' = results
    BY <1>0, <1>3 DEF ClaimCrawlTask, TokenAfterClaim
  <2>4. nextToken' - 1 = nextToken
    BY <1>0, <2>3
  <2>5. [u \in Task |-> tasks'[u].runToken]
          = [[u \in Task |-> tasks[u].runToken] EXCEPT ![t] = nextToken]
    BY <2>2, <2>3
  <2>6. [u \in Task |-> IF tasks'[u].status \in {"queued", "running"}
                        THEN "open" ELSE tasks'[u].status]
          = [u \in Task |-> IF tasks[u].status \in {"queued", "running"}
                            THEN "open" ELSE tasks[u].status]
    BY <2>1, <2>2, <2>3
  <2>7. QED
    BY <1>0, <2>1, <2>3, <2>4, <2>5, <2>6 DEF Lifecycle!Attempt
<1>4. ASSUME NEW t \in Task, NEW token \in Nat, NEW outcome \in {"succeeded", "failed"},
             CompleteCrawlTask(t, token, outcome)
      PROVE  Lifecycle!Finish(t, outcome)
  <2>1. tasks[t].status = "running" /\ tasks[t].runToken = token /\ token # 0 /\ results[t] = 0
    BY <1>0, <1>4 DEF CompleteCrawlTask, CompleteWhere, RowIsConsistent
  <2>2. tasks'[t].status = outcome /\ tasks'[t].runToken = token
    BY <1>0, <1>4, <2>1 DEF CompleteCrawlTask, Row
  <2>3. /\ \A u \in Task : u # t => tasks'[u] = tasks[u]
        /\ results' = [results EXCEPT ![t] = IF outcome = "succeeded" THEN token ELSE 0]
        /\ nextToken' = nextToken
    BY <1>0, <1>4, <2>1 DEF CompleteCrawlTask, ResultAfter
  <2>4. QED
    BY <1>0, <2>1, <2>2, <2>3 DEF Lifecycle!Finish
<1>5. QED
  BY <1>1, <1>2, <1>3, <1>4 DEF TableStep, Lifecycle!Next

\* The pipeline implements the lifecycle a client is promised.
THEOREM PipelineImplementsLifecycle == Spec => ImplementsLifecycle
<1>1. Init => Lifecycle!Init
  BY DEF Init, StoreInit, NoRow, Lifecycle!Init
<1>2. IInv /\ [Next]_vars => [Lifecycle!Next]_(Lifecycle!vars)
  <2>1. CASE UNCHANGED storeVars
    BY <2>1 DEF storeVars, Lifecycle!vars
  <2>2. QED
    BY <2>1, TablesMoveByStatements, StatementsAreLifecycleSteps
<1>3. QED
  BY <1>1, <1>2, InductiveInvariant, PTL DEF Spec, ImplementsLifecycle, Lifecycle!Spec

=============================================================================
