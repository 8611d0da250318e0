--------------------------- MODULE OutboxPublisher ---------------------------
(***************************************************************************)
(* cmd/publisher: every tick, a publisher lists a bounded batch of         *)
(* unpublished outbox rows and, row by row, adds the task id to the stream *)
(* and marks the row.  The first error ends the batch; the next tick lists *)
(* again.  Several publishers may run.                                     *)
(***************************************************************************)
EXTENDS TaskStore, TaskStream, FiniteSets

CONSTANTS
    Publisher,  \* publisher processes
    BatchSize   \* rows per batch

ASSUME PublisherAssumption == BatchSize \in Nat \ {0} /\ IsFiniteSet(Publisher)

VARIABLES
    pubPc,  \* what a publisher does next: "list", "xadd" or "mark"
    batch,  \* the rows of its batch it has not finished
    sent    \* the message id its last XADD returned

publisherVars == <<pubPc, batch, sent>>

PublisherTypeOK ==
    /\ pubPc \in [Publisher -> {"list", "xadd", "mark"}]
    /\ batch \in [Publisher -> SUBSET Task]
    /\ sent \in [Publisher -> Nat]

PublisherInit ==
    /\ pubPc = [p \in Publisher |-> "list"]
    /\ batch = [p \in Publisher |-> {}]
    /\ sent = [p \in Publisher |-> 0]

-----------------------------------------------------------------------------
\* Mutation: OFFSET in the place of LIMIT.
ListUnpublishedTaskOutboxes_Offset ==
    {t \in Unpublished : Cardinality({u \in Unpublished : u < t}) >= BatchSize}

\* ORDER BY id ASC LIMIT BatchSize.
ListUnpublishedTaskOutboxes ==
    {t \in Unpublished : Cardinality({u \in Unpublished : u < t}) < BatchSize}

\* The row a batch has come to: rows are visited in the order of their ids.
IsNext(p, t) == t \in batch[p] /\ \A u \in batch[p] : t <= u

GoTo(p, pc, rows, id) ==
    /\ pubPc' = [pubPc EXCEPT ![p] = pc]
    /\ batch' = [batch EXCEPT ![p] = rows]
    /\ sent' = [sent EXCEPT ![p] = id]

EndBatch(p) == GoTo(p, "list", {}, 0)

\* The tick: nothing happens when no row is unpublished.
ListBatch(p) ==
    /\ pubPc[p] = "list"
    /\ ListUnpublishedTaskOutboxes # {}
    /\ GoTo(p, "xadd", ListUnpublishedTaskOutboxes, 0)
    /\ UNCHANGED <<storeVars, streamVars>>

\* queue.PublishTask.
PublishTask(p, t) ==
    /\ pubPc[p] = "xadd"
    /\ IsNext(p, t)
    /\ XAdd(t)
    /\ GoTo(p, "mark", batch[p], Len(stream'))
    /\ UNCHANGED storeVars

\* Redis applied the XADD and its reply never came: the batch ends on the error.
PublishReplyLost(p, t) ==
    /\ pubPc[p] = "xadd"
    /\ IsNext(p, t)
    /\ XAdd(t)
    /\ EndBatch(p)
    /\ UNCHANGED storeVars

\* Mutation: the mark records the newest id of the stream.
RecordedID_Newest(p) == Len(stream)

\* The message id recorded with published_at is the one XADD returned.
RecordedID(p) == sent[p]

\* The mark succeeds and the batch goes on.
MarkPublished(p, t) ==
    /\ pubPc[p] = "mark"
    /\ IsNext(p, t)
    /\ MarkTaskOutboxPublished(t, RecordedID(p))
    /\ IF batch[p] = {t} THEN EndBatch(p) ELSE GoTo(p, "xadd", batch[p] \ {t}, 0)
    /\ UNCHANGED streamVars

\* Another publisher marked the row first: ErrOutboxAlreadyPublished ends the batch.
MarkConflict(p, t) ==
    /\ pubPc[p] = "mark"
    /\ IsNext(p, t)
    /\ ~MarkWhere(t)
    /\ EndBatch(p)
    /\ UNCHANGED <<storeVars, streamVars>>

\* MySQL applied the mark and its reply never came.
MarkReplyLost(p, t) ==
    /\ pubPc[p] = "mark"
    /\ IsNext(p, t)
    /\ MarkTaskOutboxPublished(t, RecordedID(p))
    /\ EndBatch(p)
    /\ UNCHANGED streamVars

\* The pending call fails without effect, the batch times out, or the process dies.
AbandonBatch(p) ==
    /\ pubPc[p] # "list"
    /\ EndBatch(p)
    /\ UNCHANGED <<storeVars, streamVars>>

\* The steps of a publisher that meets no fault.
Publish(p) ==
    \/ ListBatch(p)
    \/ \E t \in Task : PublishTask(p, t) \/ MarkPublished(p, t) \/ MarkConflict(p, t)

\* The steps that cost a fault.
PublisherFault(p) ==
    \/ \E t \in Task : PublishReplyLost(p, t) \/ MarkReplyLost(p, t)
    \/ AbandonBatch(p)

=============================================================================
