------------------------- MODULE PipelineCounts_proofs -------------------------
(***************************************************************************)
(* What the pipeline counts, for any number of tasks, publishers, hosts    *)
(* and services: a service has one execution slot, a message is due to a   *)
(* publisher or to a fault, and a token to a task's first attempt or to a  *)
(* retry.                                                                  *)
(***************************************************************************)
EXTENDS CrawlPipeline_proofs, FiniteSetTheorems

USE TaskAssumption, PublisherAssumption

-----------------------------------------------------------------------------
(* The execution slot: the gate is taken exactly while one of the two      *)
(* loops of its service is inside.                                         *)

InSlot(p) == pc[p] \in Inside

LoopsInside(s) == {p \in Proc : ServiceOf(p) = s /\ InSlot(p)}

\* Who is inside has taken the gate of the service, alone; a taken gate has somebody inside.
GateIsHeld ==
    /\ \A p \in Proc : InSlot(p) => gate[ServiceOf(p)]
    /\ \A s \in Service : gate[s] => \E p \in Proc : ServiceOf(p) = s /\ InSlot(p)
    /\ \A p, q \in Proc : ServiceOf(p) = ServiceOf(q) /\ InSlot(p) /\ InSlot(q) => p = q

-----------------------------------------------------------------------------
(* What the steps of the loops do to the gate.                             *)

StaysPut == gate' = gate /\ \A p \in Proc : InSlot(p)' <=> InSlot(p)

Enters(p) ==
    /\ ~gate[ServiceOf(p)]
    /\ gate' = [gate EXCEPT ![ServiceOf(p)] = TRUE]
    /\ InSlot(p)' /\ \A q \in Proc : q # p => (InSlot(q)' <=> InSlot(q))

Leaves(p) ==
    /\ InSlot(p)
    /\ gate' = [gate EXCEPT ![ServiceOf(p)] = FALSE]
    /\ ~InSlot(p)' /\ \A q \in Proc : q # p => (InSlot(q)' <=> InSlot(q))

LEMMA ReturnLeaves ==
    ASSUME WorkerTypeOK, NEW p \in Proc, pc[p] \in Inside, Return(p)
    PROVE  Leaves(p)
BY DEF WorkerTypeOK, Return, Leaves, InSlot, Inside

LEMMA ProceedStays ==
    ASSUME WorkerTypeOK, NEW p \in Proc, NEW next \in Inside, NEW facts, pc[p] \in Inside,
           Proceed(p, next, facts)
    PROVE  StaysPut
BY DEF WorkerTypeOK, Proceed, StaysPut, InSlot

LEMMA ProcessMoves ==
    ASSUME WorkerTypeOK, NEW p \in Proc, Process(p)
    PROVE  StaysPut \/ Leaves(p)
<1> USE DEF Inside
<1>1. CASE Load(p)
  BY <1>1, ProceedStays DEF Load
<1>2. CASE Claim(p)
  BY <1>2, ProceedStays DEF Claim
<1>3. CASE ClaimConflict(p)
  BY <1>3, ReturnLeaves DEF ClaimConflict, AfterConflict
<1>4. ASSUME NEW outcome \in {"succeeded", "failed"}, Execute(p, outcome)
      PROVE  StaysPut
  BY <1>4, ProceedStays DEF Execute
<1>5. CASE Complete(p)
  BY <1>5, ProceedStays DEF Complete
<1>6. CASE CompleteConflict(p)
  BY <1>6, ReturnLeaves DEF CompleteConflict
<1>7. CASE Ack(p)
  BY <1>7, ReturnLeaves DEF Ack
<1> QED
  BY <1>1, <1>2, <1>3, <1>4, <1>5, <1>6, <1>7 DEF Process

LEMMA DeliveryStays ==
    ASSUME WorkerTypeOK, NEW p \in Proc, Consume(p) \/ Reclaim(p) \/ EndSweep(p)
    PROVE  StaysPut
BY DEF WorkerTypeOK, Consume, Reclaim, EndSweep, Receive, StaysPut, InSlot, Inside

LEMMA GateAdmits ==
    ASSUME WorkerTypeOK, NEW p \in Proc, AcquireGate(p)
    PROVE  Enters(p)
BY DEF WorkerTypeOK, AcquireGate, GateOpen, Enters, InSlot, Inside

LEMMA FailureLeaves ==
    ASSUME WorkerTypeOK, NEW p \in Proc,
           CallFails(p) \/ ClaimReplyLost(p) \/ CompleteReplyLost(p)
    PROVE  Leaves(p)
BY ReturnLeaves DEF CallFails, ClaimReplyLost, CompleteReplyLost, Inside

-----------------------------------------------------------------------------
LEMMA ServiceOfLoop == \A p \in Proc : ServiceOf(p) \in Service /\ ServiceOf(p).host = p.host
BY DEF Proc, Service, ServiceOf

LEMMA StayKeepsGate == GateIsHeld /\ StaysPut => GateIsHeld'
BY ServiceOfLoop DEF GateIsHeld, StaysPut

LEMMA EntryKeepsGate ==
    ASSUME WorkerTypeOK, GateIsHeld, NEW p \in Proc, Enters(p)
    PROVE  GateIsHeld'
<1> DEFINE s == ServiceOf(p)
<1> USE ServiceOfLoop
<1>1. gate'[s] /\ \A u \in Service : u # s => gate'[u] = gate[u]
  BY DEF Enters, WorkerTypeOK
<1>2. \A q \in Proc : ServiceOf(q) = s => ~InSlot(q)
  BY DEF Enters, GateIsHeld
<1> QED
  BY <1>1, <1>2 DEF Enters, GateIsHeld

LEMMA ExitKeepsGate ==
    ASSUME WorkerTypeOK, GateIsHeld, NEW p \in Proc, Leaves(p)
    PROVE  GateIsHeld'
<1> DEFINE s == ServiceOf(p)
<1> USE ServiceOfLoop
<1>1. ~gate'[s] /\ \A u \in Service : u # s => gate'[u] = gate[u]
  BY DEF Leaves, WorkerTypeOK
<1>2. \A q \in Proc : ServiceOf(q) = s /\ q # p => ~InSlot(q)
  BY DEF Leaves, GateIsHeld
<1> QED
  BY <1>1, <1>2 DEF Leaves, GateIsHeld

LEMMA CrashKeepsGate ==
    ASSUME WorkerTypeOK, GateIsHeld, NEW h \in Host, Crash(h)
    PROVE  GateIsHeld'
<1> USE ServiceOfLoop
<1>1. \A p \in Proc : InSlot(p)' <=> InSlot(p) /\ p.host # h
  BY DEF Crash, InSlot, Inside
<1>2. \A s \in Service : gate'[s] <=> gate[s] /\ s.host # h
  BY DEF Crash
<1> QED
  BY <1>1, <1>2 DEF GateIsHeld

LEMMA GateStaysHeld == TypeOK /\ GateIsHeld /\ [Next]_vars => GateIsHeld'
<1> SUFFICES ASSUME TypeOK, GateIsHeld, [Next]_vars
             PROVE  GateIsHeld'
  OBVIOUS
<1> WorkerTypeOK
  BY DEF TypeOK
<1>1. CASE UNCHANGED workerVars
  BY <1>1, StayKeepsGate DEF workerVars, StaysPut, InSlot
<1>2. ASSUME NEW p \in Proc, ConsumeStep(p) \/ ReclaimStep(p) \/ EndSweepStep(p)
      PROVE  GateIsHeld'
  BY <1>2, DeliveryStays, StayKeepsGate DEF ConsumeStep, ReclaimStep, EndSweepStep
<1>3. ASSUME NEW p \in Proc, GateStep(p)
      PROVE  GateIsHeld'
  BY <1>3, GateAdmits, EntryKeepsGate DEF GateStep
<1>4. ASSUME NEW p \in Proc, ProcessStep(p)
      PROVE  GateIsHeld'
  BY <1>4, ProcessMoves, StayKeepsGate, ExitKeepsGate DEF ProcessStep
<1>5. CASE WorkerFault
  BY <1>5, FailureLeaves, ExitKeepsGate, CrashKeepsGate DEF WorkerFault
<1>6. CASE \E t \in Task : Accept(t) \/ OrphanLeaseExpires(t) \/ OwnerOverruns(t)
  BY <1>1, <1>6 DEF Accept, OrphanLeaseExpires, OwnerOverruns
<1>7. CASE \E p \in Publisher : PublisherStep(p)
  BY <1>1, <1>7 DEF PublisherStep
<1>8. CASE \E id \in pel : MessageBecomesIdle(id)
  BY <1>1, <1>8 DEF MessageBecomesIdle
<1>9. CASE Fault
  BY <1>1, <1>5, <1>9 DEF Fault
<1>10. CASE Quiescent \/ UNCHANGED vars
  BY <1>1, <1>10 DEF Quiescent, vars
<1> QED
  BY <1>2, <1>3, <1>4, <1>6, <1>7, <1>8, <1>9, <1>10 DEF Next

\* A processor handles one message at a time: the set of loops inside has the size the gate says.
THEOREM SlotsAreExclusive == Spec => []GateIsExclusive
<1>1. Init => GateIsHeld
  BY DEF Init, WorkerInit, GateIsHeld, InSlot, Inside, Service
<1>2. TypeOK /\ GateIsHeld => GateIsExclusive
  <2> SUFFICES ASSUME TypeOK, GateIsHeld, NEW s \in Service
               PROVE  Cardinality(LoopsInside(s)) = IF gate[s] THEN 1 ELSE 0
    BY DEF GateIsExclusive, LoopsInside, InSlot
  <2>1. CASE gate[s]
    <3>1. PICK p \in Proc : ServiceOf(p) = s /\ InSlot(p)
      BY <2>1 DEF GateIsHeld
    <3>2. LoopsInside(s) = {p}
      BY <3>1 DEF GateIsHeld, LoopsInside
    <3> QED
      BY <2>1, <3>2, FS_Singleton
  <2>2. CASE ~gate[s]
    <3>1. LoopsInside(s) = {}
      BY <2>2 DEF GateIsHeld, LoopsInside
    <3> QED
      BY <2>2, <3>1, FS_EmptySet
  <2> QED
    BY <2>1, <2>2
<1> QED
  BY <1>1, <1>2, GateStaysHeld, TypeCorrect, PTL DEF Spec

-----------------------------------------------------------------------------
(* Messages.  A publisher adds a task to the stream at most once per       *)
(* fault: a task and a publisher are a spent pair while the publisher has  *)
(* the task's message in hand, and once the task is marked and not in the  *)
(* publisher's batch any more.                                             *)

InHand(p, t) == pubPc[p] = "mark" /\ IsNext(p, t)

IsSpent(t, p) == InHand(p, t) \/ (messageID[t] # 0 /\ t \notin batch[p])

Spent == {x \in outboxes \X Publisher : IsSpent(x[1], x[2])}

\* Every message of the stream is that of a spent pair or due to a fault.
MessagesAreDue == Len(stream) <= Cardinality(Spent) + faults

CountsAreFinite == IsFiniteSet(outboxes)

LEMMA SpentIsFinite ==
    CountsAreFinite => /\ IsFiniteSet(Spent)
                       /\ Cardinality(Spent) \in Nat
                       /\ Cardinality(Spent) <= Cardinality(outboxes) * Cardinality(Publisher)
<1> SUFFICES ASSUME CountsAreFinite
             PROVE  /\ IsFiniteSet(Spent)
                    /\ Cardinality(Spent) \in Nat
                    /\ Cardinality(Spent) <= Cardinality(outboxes) * Cardinality(Publisher)
  OBVIOUS
<1>1. IsFiniteSet(outboxes) /\ IsFiniteSet(Publisher)
  BY DEF CountsAreFinite
<1>2. /\ IsFiniteSet(outboxes \X Publisher)
      /\ Cardinality(outboxes \X Publisher) = Cardinality(outboxes) * Cardinality(Publisher)
  BY <1>1, FS_Product
<1>3. Spent \in SUBSET (outboxes \X Publisher)
  BY DEF Spent
<1>4. IsFiniteSet(Spent) /\ Cardinality(Spent) <= Cardinality(outboxes \X Publisher)
  BY <1>2, <1>3, FS_Subset
<1> QED
  BY <1>2, <1>4, FS_CardinalityType

\* Sets that differ by one element at most.
LEMMA SetsByOne ==
    ASSUME NEW S, NEW T, IsFiniteSet(S), IsFiniteSet(T), NEW x
    PROVE  /\ Cardinality(S) \in Nat /\ Cardinality(T) \in Nat
           /\ S \subseteq T => Cardinality(S) <= Cardinality(T)
           /\ S \ {x} \subseteq T => Cardinality(S) <= Cardinality(T) + 1
           /\ S \subseteq T /\ x \in T \ S => Cardinality(S) + 1 <= Cardinality(T)
<1>1. Cardinality(S) \in Nat /\ Cardinality(T) \in Nat
  BY FS_CardinalityType
<1>2. ASSUME S \subseteq T
      PROVE  Cardinality(S) <= Cardinality(T)
  BY <1>2, FS_Subset
<1>3. ASSUME S \ {x} \subseteq T
      PROVE  Cardinality(S) <= Cardinality(T) + 1
  <2>1. IsFiniteSet(S \ {x}) /\ Cardinality(S) <= Cardinality(S \ {x}) + 1
    BY <1>1, FS_RemoveElement
  <2>2. Cardinality(S \ {x}) <= Cardinality(T) /\ Cardinality(S \ {x}) \in Nat
    BY <1>3, <2>1, FS_Subset, FS_CardinalityType
  <2> QED
    BY <1>1, <2>1, <2>2
<1>4. ASSUME S \subseteq T, x \in T \ S
      PROVE  Cardinality(S) + 1 <= Cardinality(T)
  <2>1. Cardinality(S \cup {x}) = Cardinality(S) + 1
    BY <1>4, FS_AddElement
  <2>2. S \cup {x} \in SUBSET T
    BY <1>4
  <2> QED
    BY <2>1, <2>2, FS_Subset
<1> QED
  BY <1>1, <1>2, <1>3, <1>4

\* A step that spends a new pair for a message it adds, or has a fault to account for what it
\* adds or forgets, keeps the account.
LEMMA SpendingKeepsAccount ==
    ASSUME TypeOK, TypeOK', CountsAreFinite, CountsAreFinite', MessagesAreDue,
           NEW x,
           \/ /\ Spent \subseteq Spent'
              /\ Len(stream') + faults <= Len(stream) + faults'
           \/ /\ Spent \subseteq Spent' /\ x \in Spent' \ Spent
              /\ Len(stream') + faults <= Len(stream) + faults' + 1
           \/ /\ Spent \ {x} \subseteq Spent'
              /\ Len(stream') + faults + 1 <= Len(stream) + faults'
    PROVE  MessagesAreDue'
<1>1. IsFiniteSet(Spent)
  BY SpentIsFinite
<1>2. IsFiniteSet(Spent)'
  BY SpentIsFinite, PTL
<1>3. Len(stream) \in Nat /\ Len(stream') \in Nat /\ faults \in Nat /\ faults' \in Nat
  BY DEF TypeOK, StreamTypeOK
<1>4. /\ Cardinality(Spent) \in Nat /\ Cardinality(Spent') \in Nat
      /\ Spent \subseteq Spent' => Cardinality(Spent) <= Cardinality(Spent')
      /\ Spent \ {x} \subseteq Spent' => Cardinality(Spent) <= Cardinality(Spent') + 1
      /\ Spent \subseteq Spent' /\ x \in Spent' \ Spent
            => Cardinality(Spent) + 1 <= Cardinality(Spent')
  BY <1>1, <1>2, SetsByOne
<1> QED
  BY <1>3, <1>4 DEF MessagesAreDue

\* A row in hand is the only one: ids are ordered.
LEMMA NextIsUnique ==
    ASSUME NEW p \in Publisher, NEW t \in Task, NEW u \in Task, IsNext(p, t), IsNext(p, u)
    PROVE  t = u
<1>1. t \in Nat /\ u \in Nat /\ t <= u /\ u <= t
  BY DEF IsNext
<1> QED
  BY <1>1

\* A publisher moves and forgets one of its pairs at most; the others', if anything, get spent.
LEMMA OthersStaySpent ==
    ASSUME IInv, NEW p \in Publisher, outboxes \subseteq outboxes',
           \A q \in Publisher \ {p} : pubPc'[q] = pubPc[q] /\ batch'[q] = batch[q],
           \A t \in Task : messageID[t] # 0 => messageID'[t] # 0,
           NEW except, \A t \in outboxes : IsSpent(t, p) /\ t # except => IsSpent(t, p)'
    PROVE  /\ Spent \ {<<except, p>>} \subseteq Spent'
           /\ (IsSpent(except, p) => IsSpent(except, p)') => Spent \subseteq Spent'
<1>1. outboxes \subseteq Task
  BY DEF IInv, TypeOK, StoreTypeOK
<1>2. ASSUME NEW t \in outboxes, NEW q \in Publisher, q # p, IsSpent(t, q)
      PROVE  IsSpent(t, q)'
  BY <1>1, <1>2 DEF IsSpent, InHand, IsNext
<1>3. ASSUME NEW x \in Spent, x # <<except, p>>
      PROVE  x \in Spent'
  <2>1. x[1] \in outboxes /\ x[2] \in Publisher /\ x = <<x[1], x[2]>> /\ IsSpent(x[1], x[2])
    BY DEF Spent
  <2>2. IsSpent(x[1], x[2])'
    BY <1>2, <1>3, <2>1
  <2> QED
    BY <2>1, <2>2 DEF Spent
<1>4. ASSUME IsSpent(except, p) => IsSpent(except, p)', NEW x \in Spent
      PROVE  x \in Spent'
  <2>1. x[1] \in outboxes /\ x[2] \in Publisher /\ x = <<x[1], x[2]>> /\ IsSpent(x[1], x[2])
    BY DEF Spent
  <2>2. IsSpent(x[1], x[2])'
    BY <1>2, <1>4, <2>1
  <2> QED
    BY <2>1, <2>2 DEF Spent
<1> QED
  BY <1>3, <1>4

\* Every step of a publisher keeps the account.
LEMMA PublisherKeepsAccount ==
    ASSUME IInv, IInv', CountsAreFinite, MessagesAreDue, NEW p \in Publisher,
           \/ Publish(p) /\ UNCHANGED faults
           \/ PublisherFault(p) /\ faults' = faults + 1
    PROVE  CountsAreFinite' /\ MessagesAreDue'
<1>0. /\ pubPc \in [Publisher -> {"list", "xadd", "mark"}]
      /\ batch \in [Publisher -> SUBSET Task] /\ sent \in [Publisher -> Nat]
      /\ messageID \in [Task -> Nat] /\ stream \in Seq(Task) /\ outboxes \subseteq Task
      /\ TypeOK /\ TypeOK'
  BY DEF IInv, TypeOK, PublisherTypeOK, StoreTypeOK, StreamTypeOK
<1>1. UNCHANGED outboxes
  BY DEF Publish, PublisherFault, ListBatch, PublishTask, PublishReplyLost, MarkPublished,
         MarkReplyLost, MarkConflict, AbandonBatch, MarkTaskOutboxPublished, storeVars
<1>2. CountsAreFinite'
  BY <1>1 DEF CountsAreFinite
<1>3. \A q \in Publisher \ {p} : pubPc'[q] = pubPc[q] /\ batch'[q] = batch[q]
  BY <1>0 DEF Publish, PublisherFault, ListBatch, PublishTask, PublishReplyLost, MarkPublished,
         MarkReplyLost, MarkConflict, AbandonBatch, GoTo, EndBatch
<1>4. /\ batch[p] \subseteq outboxes
      /\ pubPc[p] = "mark" => sent[p] \in 1 .. Len(stream)
  BY DEF IInv, BatchesAreSound
<1>5. \A t \in Task : messageID[t] # 0 => messageID'[t] # 0
  <2>1. ASSUME NEW t \in Task, MarkPublished(p, t) \/ MarkReplyLost(p, t)
        PROVE  messageID' = [messageID EXCEPT ![t] = sent[p]] /\ sent[p] # 0
    BY <1>0, <1>4, <2>1
       DEF MarkPublished, MarkReplyLost, MarkTaskOutboxPublished, RecordedID
  <2>2. CASE \E t \in Task : MarkPublished(p, t) \/ MarkReplyLost(p, t)
    BY <1>0, <2>1, <2>2
  <2>3. CASE UNCHANGED messageID
    BY <2>3
  <2> QED
    BY <2>2, <2>3 DEF Publish, PublisherFault, ListBatch, PublishTask, PublishReplyLost,
                      MarkConflict, AbandonBatch, storeVars
<1>6. ASSUME \A t \in outboxes : IsSpent(t, p) => IsSpent(t, p)'
      PROVE  Spent \subseteq Spent'
  <2>2. 0 \notin outboxes
    BY <1>0, TaskAssumption
  <2>3. Spent \ {<<0, p>>} \subseteq Spent'
    BY <1>1, <1>3, <1>5, <1>6, OthersStaySpent
  <2>4. <<0, p>> \notin Spent
    BY <2>2 DEF Spent
  <2> QED
    BY <2>3, <2>4
<1>7. ASSUME ListBatch(p)
      PROVE  Spent \subseteq Spent' /\ UNCHANGED stream
  <2>1. /\ pubPc[p] = "list" /\ UNCHANGED <<messageID, stream>>
        /\ \A t \in batch'[p] : messageID[t] = 0
    BY <1>0, <1>7 DEF ListBatch, GoTo, ListUnpublishedTaskOutboxes, Unpublished, storeVars,
                      streamVars
  <2>2. \A t \in outboxes : IsSpent(t, p) => IsSpent(t, p)'
    BY <2>1 DEF IsSpent, InHand
  <2> QED
    BY <1>6, <2>1, <2>2
<1>8. ASSUME NEW t \in Task, MarkPublished(p, t) \/ MarkReplyLost(p, t) \/ MarkConflict(p, t)
      PROVE  Spent \subseteq Spent' /\ UNCHANGED stream
  <2>1. /\ pubPc[p] = "mark" /\ IsNext(p, t) /\ UNCHANGED stream
        /\ batch'[p] \subseteq batch[p] \ {t}
    BY <1>0, <1>8 DEF MarkPublished, MarkReplyLost, MarkConflict, GoTo, EndBatch, streamVars
  <2>2. messageID'[t] # 0
    <3>1. t \in outboxes
      BY <1>4, <2>1 DEF IsNext
    <3> QED
      BY <1>0, <1>4, <1>8, <2>1, <3>1
         DEF MarkPublished, MarkReplyLost, MarkConflict, MarkTaskOutboxPublished, MarkWhere,
             Unpublished, RecordedID, storeVars
  <2>3. ASSUME NEW u \in outboxes, IsSpent(u, p)
        PROVE  IsSpent(u, p)'
    <3>1. u = t \/ (messageID[u] # 0 /\ u \notin batch[p])
      BY <1>0, <2>1, <2>3, NextIsUnique DEF IsSpent, InHand
    <3> QED
      BY <1>0, <1>5, <2>1, <2>2, <3>1 DEF IsSpent
  <2> QED
    BY <1>6, <2>1, <2>3
<1>9. ASSUME NEW t \in Task, PublishTask(p, t) \/ PublishReplyLost(p, t)
      PROVE  /\ Spent \subseteq Spent' /\ Len(stream') = Len(stream) + 1
             /\ PublishTask(p, t) => <<t, p>> \in Spent' \ Spent
  <2>1. /\ pubPc[p] = "xadd" /\ IsNext(p, t) /\ UNCHANGED messageID /\ XAdd(t)
        /\ batch'[p] \subseteq batch[p]
        /\ PublishTask(p, t) => pubPc'[p] = "mark" /\ batch'[p] = batch[p]
    BY <1>0, <1>9 DEF PublishTask, PublishReplyLost, GoTo, EndBatch, storeVars
  <2>2. Len(stream') = Len(stream) + 1
    BY <1>0, <2>1, XAddTyped DEF TypeOK
  <2>3. \A u \in outboxes : IsSpent(u, p) => IsSpent(u, p)'
    BY <2>1 DEF IsSpent, InHand
  <2>4. t \in outboxes /\ ~IsSpent(t, p)
    BY <1>4, <2>1 DEF IsSpent, InHand, IsNext
  <2>5. PublishTask(p, t) => IsSpent(t, p)'
    BY <2>1 DEF IsSpent, InHand, IsNext
  <2> QED
    BY <1>1, <1>6, <2>2, <2>3, <2>4, <2>5 DEF Spent
<1>10. ASSUME AbandonBatch(p)
       PROVE  UNCHANGED stream /\ \E except : Spent \ {<<except, p>>} \subseteq Spent'
  <2>1. UNCHANGED <<messageID, stream>> /\ batch'[p] = {}
    BY <1>0, <1>10 DEF AbandonBatch, GoTo, EndBatch, storeVars, streamVars
  <2>2. PICK except : \A u \in outboxes : InHand(p, u) => u = except
    BY <1>0, NextIsUnique DEF InHand
  <2>3. \A u \in outboxes : IsSpent(u, p) /\ u # except => IsSpent(u, p)'
    BY <2>1, <2>2 DEF IsSpent
  <2>4. Spent \ {<<except, p>>} \subseteq Spent'
    BY <1>1, <1>3, <1>5, <2>3, OthersStaySpent
  <2> QED
    BY <2>1, <2>4
<1>11. Len(stream) \in Nat /\ Len(stream') \in Nat /\ faults \in Nat
  BY <1>0 DEF TypeOK, StreamTypeOK
<1>12. CASE Publish(p) /\ UNCHANGED faults
  <2>1. ASSUME Spent \subseteq Spent', UNCHANGED stream
        PROVE  MessagesAreDue'
    <3>1. Len(stream') + faults <= Len(stream) + faults'
      BY <1>11, <1>12, <2>1
    <3> QED
      BY <1>0, <1>2, <2>1, <3>1, SpendingKeepsAccount
  <2>2. ASSUME NEW t \in Task, PublishTask(p, t)
        PROVE  MessagesAreDue'
    <3>1. Len(stream') = Len(stream) + 1
      BY <1>9, <2>2
    <3>2. Len(stream') + faults <= Len(stream) + faults' + 1
      BY <1>11, <1>12, <3>1
    <3>3. PICK pair : Spent \subseteq Spent' /\ pair \in Spent' \ Spent
      BY <1>9, <2>2
    <3> QED
      BY <1>0, <1>2, <3>2, <3>3, SpendingKeepsAccount
  <2> QED
    BY <1>2, <1>7, <1>8, <1>12, <2>1, <2>2 DEF Publish
<1>13. CASE PublisherFault(p) /\ faults' = faults + 1
  <2>1. ASSUME NEW t \in Task, PublishReplyLost(p, t) \/ MarkReplyLost(p, t)
        PROVE  MessagesAreDue'
    <3>1. Spent \subseteq Spent' /\ (UNCHANGED stream \/ Len(stream') = Len(stream) + 1)
      BY <1>8, <1>9, <2>1
    <3>2. Len(stream') + faults <= Len(stream) + faults'
      BY <1>11, <1>13, <3>1
    <3> QED
      BY <1>0, <1>2, <3>1, <3>2, SpendingKeepsAccount
  <2>2. CASE AbandonBatch(p)
    <3>1. PICK except : Spent \ {<<except, p>>} \subseteq Spent'
      BY <1>10, <2>2
    <3>2. Len(stream') + faults + 1 <= Len(stream) + faults'
      BY <1>10, <1>11, <1>13, <2>2
    <3> QED
      BY <1>0, <1>2, <3>1, <3>2, SpendingKeepsAccount
  <2> QED
    BY <1>2, <1>13, <2>1, <2>2 DEF PublisherFault
<1> QED
  BY <1>12, <1>13

\* Every step keeps the account.
LEMMA AccountKept ==
    ASSUME IInv, IInv', CountsAreFinite, MessagesAreDue, [Next]_vars
    PROVE  CountsAreFinite' /\ MessagesAreDue'
<1>1. CASE \E p \in Publisher : PublisherStep(p)
  BY <1>1, PublisherKeepsAccount DEF PublisherStep
<1>2. CASE \E p \in Publisher : PublisherFault(p) /\ faults' = faults + 1
  BY <1>2, PublisherKeepsAccount
<1>3. ASSUME UNCHANGED <<pubPc, batch, messageID, stream>>, faults' \in {faults, faults + 1},
             \/ UNCHANGED outboxes
             \/ \E t \in Task : outboxes' = outboxes \cup {t}
      PROVE  CountsAreFinite' /\ MessagesAreDue'
  <2>1. CountsAreFinite' /\ outboxes \subseteq outboxes'
    BY <1>3, FS_AddElement DEF CountsAreFinite
  <2>2. Spent \subseteq Spent'
    BY <1>3, <2>1 DEF Spent, IsSpent, InHand, IsNext
  <2>3. Len(stream) \in Nat /\ faults \in Nat /\ TypeOK /\ TypeOK'
    BY DEF IInv, TypeOK, StreamTypeOK
  <2>4. Len(stream') + faults <= Len(stream) + faults'
    BY <1>3, <2>3
  <2> QED
    BY <2>1, <2>2, <2>3, <2>4, SpendingKeepsAccount
<1>4. CASE \E t \in Task : Accept(t) \/ OrphanLeaseExpires(t) \/ OwnerOverruns(t)
  BY <1>3, <1>4 DEF Accept, OrphanLeaseExpires, OwnerOverruns, CreateQueuedCrawlTaskWithOutbox,
                    LeaseRunsOut, streamVars, publisherVars
<1>5. ASSUME NEW p \in Proc,
             \/ Consume(p) \/ Reclaim(p) \/ EndSweep(p) \/ AcquireGate(p) \/ Process(p)
             \/ CallFails(p) \/ ClaimReplyLost(p) \/ CompleteReplyLost(p)
      PROVE  UNCHANGED <<messageID, outboxes, stream>>
  BY <1>5 DEF Consume, XReadGroup, Reclaim, XAutoClaim, EndSweep, AcquireGate, Process, Load,
              Claim, ClaimConflict, Execute, Complete, CompleteConflict, Ack, XAck, CallFails,
              ClaimReplyLost, CompleteReplyLost, ClaimCrawlTask, CompleteCrawlTask, storeVars,
              streamVars
<1>6. ASSUME NEW p \in Proc,
             \/ ConsumeStep(p) \/ ReclaimStep(p) \/ EndSweepStep(p) \/ GateStep(p)
             \/ ProcessStep(p)
      PROVE  CountsAreFinite' /\ MessagesAreDue'
  BY <1>3, <1>5, <1>6 DEF ConsumeStep, ReclaimStep, EndSweepStep, GateStep, ProcessStep,
                          publisherVars
<1>7. ASSUME WorkerFault, UNCHANGED publisherVars, faults' = faults + 1
      PROVE  CountsAreFinite' /\ MessagesAreDue'
  <2>1. UNCHANGED <<messageID, outboxes, stream>>
    BY <1>5, <1>7 DEF WorkerFault, Crash, storeVars, streamVars
  <2> QED
    BY <1>3, <1>7, <2>1 DEF publisherVars
<1>8. CASE Fault
  BY <1>2, <1>7, <1>8 DEF Fault
<1>9. CASE (\E id \in pel : MessageBecomesIdle(id)) \/ Quiescent \/ UNCHANGED vars
  BY <1>3, <1>9 DEF MessageBecomesIdle, BecomesIdle, Quiescent, vars, storeVars, streamVars,
                    publisherVars
<1> QED
  BY <1>1, <1>4, <1>6, <1>8, <1>9 DEF Next

\* The stream holds at most one message per accepted task and publisher, and one per fault,
\* for any number of tasks, publishers and workers (PublishPendingTaskOutboxes).
THEOREM DuplicatesAreAccountedFor == Spec => []DuplicatesAreBounded
<1>1. Init => CountsAreFinite /\ MessagesAreDue
  <2> SUFFICES ASSUME Init
               PROVE  CountsAreFinite /\ MessagesAreDue
    OBVIOUS
  <2>1. CountsAreFinite /\ stream = << >> /\ faults = 0
    BY FS_EmptySet DEF Init, StoreInit, StreamInit, CountsAreFinite
  <2>2. Cardinality(Spent) \in Nat
    BY <2>1, SpentIsFinite
  <2> QED
    BY <2>1, <2>2 DEF MessagesAreDue
<1>2. CountsAreFinite /\ MessagesAreDue /\ TypeOK => DuplicatesAreBounded
  <2> SUFFICES ASSUME CountsAreFinite, MessagesAreDue, TypeOK
               PROVE  DuplicatesAreBounded
    OBVIOUS
  <2>1. /\ Cardinality(Spent) \in Nat
        /\ Cardinality(Spent) <= Cardinality(outboxes) * Cardinality(Publisher)
        /\ Cardinality(outboxes) \in Nat /\ Cardinality(Publisher) \in Nat
    BY SpentIsFinite, FS_CardinalityType DEF CountsAreFinite
  <2>2. Len(stream) \in Nat /\ faults \in Nat
    BY DEF TypeOK, StreamTypeOK
  <2> QED
    BY <2>1, <2>2 DEF MessagesAreDue, DuplicatesAreBounded
<1>3. IInv /\ IInv' /\ CountsAreFinite /\ MessagesAreDue /\ [Next]_vars
        => CountsAreFinite' /\ MessagesAreDue'
  BY AccountKept
<1> QED
  BY <1>1, <1>2, <1>3, InductiveInvariant, TypeCorrect, PTL DEF Spec

-----------------------------------------------------------------------------
(* Attempts.  Every token is a task's first or one of its retries.         *)

AttemptsAreCounted == IsFiniteSet(Attempts) /\ RetriesCountTakeovers

\* Attempts written without UNION.
AttemptsArePairs ==
    \A x : x \in Attempts <=> \E t \in Task : \E k \in 1 .. AttemptsOf(t) : x = <<t, k>>

LEMMA AttemptsMember == AttemptsArePairs
<1> SUFFICES ASSUME NEW x
             PROVE  x \in Attempts <=> \E t \in Task : \E k \in 1 .. AttemptsOf(t) : x = <<t, k>>
  BY DEF AttemptsArePairs
<1>1. x \in Attempts <=> \E t \in Task : x \in {t} \X (1 .. AttemptsOf(t))
  BY Zenon DEF Attempts
<1>2. ASSUME NEW t \in Task, NEW numbers
      PROVE  x \in {t} \X numbers <=> \E k \in numbers : x = <<t, k>>
  OBVIOUS
<1> QED
  BY <1>1, <1>2, Zenon

LEMMA AttemptsOfTyped == StoreTypeOK => \A t \in Task : AttemptsOf(t) \in Nat
BY DEF StoreTypeOK, Row, AttemptsOf

\* Statements other than a claim grant no attempt.
LEMMA NoAttemptGranted ==
    ASSUME AttemptsAreCounted, UNCHANGED nextToken,
           \A t \in Task : AttemptsOf(t)' = AttemptsOf(t)
    PROVE  AttemptsAreCounted'
<1>1. Attempts' = Attempts
  BY DEF Attempts
<1> QED
  BY <1>1 DEF AttemptsAreCounted, RetriesCountTakeovers

\* A claim grants one attempt, of one task.
LEMMA OneAttemptGranted ==
    ASSUME StoreTypeOK, AttemptsAreCounted, nextToken' = nextToken + 1, NEW t \in Task,
           AttemptsOf(t)' = AttemptsOf(t) + 1,
           \A u \in Task : u # t => AttemptsOf(u)' = AttemptsOf(u)
    PROVE  AttemptsAreCounted'
<1> DEFINE n == AttemptsOf(t)
<1>0. n \in Nat /\ nextToken \in Nat
  BY AttemptsOfTyped DEF StoreTypeOK
<1>1. 1 .. AttemptsOf(t)' = (1 .. n) \cup {n + 1}
  <2> HIDE DEF n
  <2> QED
    BY <1>0 DEF n
<1>2. Attempts' = Attempts \cup {<<t, n + 1>>}
  <2>1. AttemptsArePairs'
    BY AttemptsMember, PTL
  <2> HIDE DEF n
  <2>2. \A x : x \in Attempts' <=> x \in Attempts \/ x = <<t, n + 1>>
    BY <1>1, <2>1, AttemptsMember DEF n, AttemptsArePairs
  <2> QED
    BY <2>2
<1>3. <<t, n + 1>> \notin Attempts
  BY <1>0, AttemptsMember DEF AttemptsArePairs
<1>4. IsFiniteSet(Attempts') /\ Cardinality(Attempts') = Cardinality(Attempts) + 1
  BY <1>2, <1>3, FS_AddElement DEF AttemptsAreCounted
<1> QED
  BY <1>0, <1>4 DEF AttemptsAreCounted, RetriesCountTakeovers

LEMMA AttemptsKept ==
    ASSUME IInv, AttemptsAreCounted, [Next]_vars
    PROVE  AttemptsAreCounted'
<1>0. /\ StoreTypeOK /\ tasks \in [Task -> Row] /\ nextToken \in Nat \ {0}
      /\ \A t \in Task : RowIsConsistent(t)
  BY DEF IInv, TypeOK, StoreTypeOK, RowsAreConsistent
<1>1. ASSUME NEW t \in Task, NEW seen \in Snapshot, NEW reclaim \in BOOLEAN,
             ClaimCrawlTask(t, seen, reclaim)
      PROVE  AttemptsAreCounted'
  <2>1. \A u \in Task : u # t => AttemptsOf(u)' = AttemptsOf(u)
    BY <1>0, <1>1 DEF ClaimCrawlTask, AttemptsOf
  <2>2. /\ tasks'[t].runToken = nextToken /\ nextToken' = nextToken + 1
        /\ tasks'[t].retryCount = IF seen.status = "queued" THEN tasks[t].retryCount
                                                            ELSE tasks[t].retryCount + 1
    BY <1>0, <1>1 DEF ClaimCrawlTask, ClaimedRow, TokenAfterClaim
  <2>3. IF seen.status = "queued" THEN tasks[t].runToken = 0 ELSE tasks[t].runToken # 0
    BY <1>0, <1>1 DEF ClaimCrawlTask, Claimable, ReclaimWhere, RowIsConsistent
  <2>4. AttemptsOf(t)' = AttemptsOf(t) + 1
    <3>1. tasks[t].retryCount \in Nat
      BY <1>0 DEF Row
    <3> QED
      BY <1>0, <2>2, <2>3, <3>1 DEF AttemptsOf
  <2> QED
    BY <1>0, <2>1, <2>2, <2>4, OneAttemptGranted
<1>2. ASSUME NEW t \in Task,
             \/ CreateQueuedCrawlTaskWithOutbox(t)
             \/ \E id \in Nat : MarkTaskOutboxPublished(t, id)
             \/ LeaseRunsOut(t)
             \/ \E token \in Nat, outcome \in {"succeeded", "failed"} :
                    CompleteCrawlTask(t, token, outcome)
      PROVE  AttemptsAreCounted'
  <2>1. UNCHANGED nextToken
    BY <1>2 DEF CreateQueuedCrawlTaskWithOutbox, MarkTaskOutboxPublished, LeaseRunsOut,
                CompleteCrawlTask
  <2>2. \A u \in Task : /\ tasks'[u].runToken = tasks[u].runToken
                        /\ tasks'[u].retryCount = tasks[u].retryCount
    BY <1>0, <1>2 DEF CreateQueuedCrawlTaskWithOutbox, MarkTaskOutboxPublished, LeaseRunsOut,
                      CompleteCrawlTask, Row
  <2> QED
    BY <2>1, <2>2, NoAttemptGranted DEF AttemptsOf
<1>3. CASE UNCHANGED storeVars
  BY <1>3, NoAttemptGranted DEF storeVars, AttemptsOf
<1> QED
  BY <1>1, <1>2, <1>3, TablesMoveByStatements DEF TableStep

\* The retry counts of the tasks add up to the takeovers: a token was granted for each task's
\* first attempt and for each retry, and no other (ClaimCrawlTask).
THEOREM RetriesAreTakeovers == Spec => []RetriesCountTakeovers
<1>1. Init => AttemptsAreCounted
  <2> SUFFICES ASSUME Init
               PROVE  AttemptsAreCounted
    OBVIOUS
  <2>1. nextToken = 1 /\ \A t \in Task : AttemptsOf(t) = 0
    BY DEF Init, StoreInit, NoRow, AttemptsOf
  <2>2. \A x : x \notin Attempts
    BY <2>1, AttemptsMember DEF AttemptsArePairs
  <2>3. Attempts = {}
    BY <2>2
  <2> QED
    BY <2>1, <2>3, FS_EmptySet DEF AttemptsAreCounted, RetriesCountTakeovers
<1>2. IInv /\ AttemptsAreCounted /\ [Next]_vars => AttemptsAreCounted'
  BY AttemptsKept
<1>3. AttemptsAreCounted => RetriesCountTakeovers
  BY DEF AttemptsAreCounted
<1> QED
  BY <1>1, <1>2, <1>3, InductiveInvariant, PTL DEF Spec

=============================================================================
