----------------------------- MODULE TaskStream -----------------------------
(***************************************************************************)
(* The Redis Stream and its consumer group, from how the program uses      *)
(* them: XADD, XREADGROUP with ">", XAUTOCLAIM with MinIdle and XACK.  The *)
(* group starts at "0", so every message is delivered once as new.  A      *)
(* message id is a position in the stream.  Which consumer a pending entry *)
(* is filed under is left out: neither XAUTOCLAIM nor XACK depends on it.  *)
(***************************************************************************)
EXTENDS TaskStatus, Sequences

VARIABLES
    stream,         \* the task ids added so far
    lastDelivered,  \* last-delivered-id of the consumer group
    pel,            \* Pending Entries List: delivered and not acknowledged
    idle            \* the pending entries whose idle time has reached ClaimMinIdle

streamVars == <<stream, lastDelivered, pel, idle>>

StreamTypeOK ==
    /\ stream \in Seq(Task)
    /\ lastDelivered \in 0 .. Len(stream)
    /\ pel \subseteq 1 .. lastDelivered
    /\ idle \subseteq pel

StreamInit ==
    /\ stream = << >>
    /\ lastDelivered = 0
    /\ pel = {}
    /\ idle = {}

XAdd(t) ==
    /\ stream' = Append(stream, t)
    /\ UNCHANGED <<lastDelivered, pel, idle>>

\* Mutation: reading with NOACK, so that a delivered message never becomes pending.
PendingAfterRead_NoAck(id) == pel

PendingAfterRead(id) == pel \cup {id}

XReadGroup(id) ==
    /\ id = lastDelivered + 1
    /\ id <= Len(stream)
    /\ lastDelivered' = id
    /\ pel' = PendingAfterRead(id)
    /\ UNCHANGED <<stream, idle>>

\* The entry a scan of the pending list from a cursor takes with Count = 1.
FirstIdleAfter(cursor, id) ==
    /\ id \in idle
    /\ id > cursor
    /\ \A k \in idle : k > cursor => id <= k

XAutoClaim(cursor, id) ==
    /\ FirstIdleAfter(cursor, id)
    /\ idle' = idle \ {id}
    /\ UNCHANGED <<stream, lastDelivered, pel>>

XAck(id) ==
    /\ pel' = pel \ {id}
    /\ idle' = idle \ {id}
    /\ UNCHANGED <<stream, lastDelivered>>

\* ClaimMinIdle has passed since the entry was last delivered or taken over.
BecomesIdle(id) ==
    /\ id \in pel \ idle
    /\ idle' = idle \cup {id}
    /\ UNCHANGED <<stream, lastDelivered, pel>>

=============================================================================
