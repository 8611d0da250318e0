------------------------------- MODULE TaskAPI -------------------------------
(***************************************************************************)
(* POST /api/v1/tasks: handler.CreateCrawlTask, whose transaction inserts  *)
(* the task and its outbox row, and which answers a used request key with  *)
(* the task it names.  Requests are served concurrently.                   *)
(*                                                                         *)
(* Requests are numbered in the order they arrive in, and the row that a   *)
(* request inserts, if any, has its number.  InnoDB makes an insert wait   *)
(* for a transaction that has inserted the same unique key and has not     *)
(* ended.                                                                  *)
(***************************************************************************)
EXTENDS Naturals, FiniteSets

CONSTANTS
    Request,  \* the requests that reach the handler
    Key,      \* request keys
    Payload   \* (target, url) pairs, numbered as keys are

ASSUME RequestAssumption ==
    Request \subseteq Nat \ {0} /\ Key \subseteq Nat \ {0} /\ Payload \subseteq Nat \ {0}

VARIABLES
    apiPc,      \* where each request is: "new" until it is sent, "done" once it is answered
    asked,      \* the key and the payload of each request, 0 before it is sent
    answer,     \* the status and the task it is answered with, 0 for no task
    stored,     \* committed rows of crawl_tasks
    outboxed    \* committed rows of task_outboxes

apiVars == <<apiPc, asked, answer, stored, outboxed>>

Answer == [status : {"none", "accepted", "replayed", "conflict", "failed"},
           task   : Request \cup {0}]

Unanswered == [status |-> "none", task |-> 0]

APITypeOK ==
    /\ apiPc \in [Request -> {"new", "insert", "outbox", "commit", "lookup", "done"}]
    /\ asked \in [Request -> [key : Key \cup {0}, payload : Payload \cup {0}]]
    /\ answer \in [Request -> Answer]
    /\ stored \subseteq Request
    /\ outboxed \subseteq Request

APIInit ==
    /\ apiPc = [r \in Request |-> "new"]
    /\ asked = [r \in Request |-> [key |-> 0, payload |-> 0]]
    /\ answer = [r \in Request |-> Unanswered]
    /\ stored = {}
    /\ outboxed = {}

KeyOf(r) == asked[r].key

-----------------------------------------------------------------------------
\* The body is bound and the handler starts.
Send(r, key, payload) ==
    /\ apiPc[r] = "new" /\ \A s \in Request : s < r => apiPc[s] # "new"
    /\ apiPc' = [apiPc EXCEPT ![r] = "insert"]
    /\ asked' = [asked EXCEPT ![r] = [key |-> key, payload |-> payload]]
    /\ UNCHANGED <<answer, stored, outboxed>>

GoOn(r, next) ==
    /\ apiPc' = [apiPc EXCEPT ![r] = next]
    /\ UNCHANGED <<asked, answer, stored, outboxed>>

Reply(r, status, task) ==
    /\ apiPc' = [apiPc EXCEPT ![r] = "done"]
    /\ answer' = [answer EXCEPT ![r] = [status |-> status, task |-> task]]
    /\ UNCHANGED asked

\* Mutation: a transaction that failed keeps its lock on the key.
KeyIsLocked_Leaked(r) ==
    \E s \in Request \ {r} :
        /\ apiPc[s] \in {"outbox", "commit"} \/ answer[s].status = "failed"
        /\ KeyOf(s) = KeyOf(r)

\* Another transaction has inserted this key and has not ended.
KeyIsLocked(r) ==
    \E s \in Request : apiPc[s] \in {"outbox", "commit"} /\ KeyOf(s) = KeyOf(r)

\* Mutation: request_key has no unique index.
KeyIsUsed_NoIndex(r) == FALSE

\* uniqueIndex on request_key.
KeyIsUsed(r) == \E s \in stored : KeyOf(s) = KeyOf(r)

InsertTask(r) ==
    /\ apiPc[r] = "insert"
    /\ ~KeyIsLocked(r) /\ ~KeyIsUsed(r)
    /\ GoOn(r, "outbox")

\* ErrDuplicatedKey: the transaction rolls back and the handler looks the key up.
DuplicateKey(r) ==
    /\ apiPc[r] = "insert"
    /\ ~KeyIsLocked(r) /\ KeyIsUsed(r)
    /\ GoOn(r, "lookup")

InsertOutbox(r) ==
    /\ apiPc[r] = "outbox"
    /\ GoOn(r, "commit")

\* Mutation: the outbox row is inserted after the transaction, by a call that may fail.
OutboxesAfterCommit_Apart(r) == outboxed

OutboxesAfterCommit(r) == outboxed \cup {r}

CommitRows(r) ==
    /\ apiPc[r] = "commit"
    /\ stored' = stored \cup {r}
    /\ outboxed' = OutboxesAfterCommit(r)

Commit(r) == CommitRows(r) /\ Reply(r, "accepted", r)

\* COMMIT was applied and its reply never came: the handler answers 500.
CommitReplyLost(r) == CommitRows(r) /\ Reply(r, "failed", 0)

\* Mutation: the replay does not compare the target and the URL.
SameRequest_KeyOnly(r, s) == TRUE

SameRequest(r, s) == asked[s].payload = asked[r].payload

\* GetCrawlTaskByRequestKey, and the answer it leads to: 200 with the task, or 409.
Lookup(r) ==
    /\ apiPc[r] = "lookup"
    /\ \E s \in stored :
         /\ KeyOf(s) = KeyOf(r)
         /\ IF SameRequest(r, s) THEN Reply(r, "replayed", s) ELSE Reply(r, "conflict", 0)
    /\ UNCHANGED <<stored, outboxed>>

\* The statement in hand fails, or the client has gone and the request's context is
\* cancelled: an open transaction rolls back and the answer is 500.
Fail(r) ==
    /\ apiPc[r] \in {"insert", "outbox", "commit", "lookup"}
    /\ Reply(r, "failed", 0)
    /\ UNCHANGED <<stored, outboxed>>

Serve(r) == InsertTask(r) \/ DuplicateKey(r) \/ InsertOutbox(r) \/ Commit(r) \/ Lookup(r)

ServerFault(r) == CommitReplyLost(r) \/ Fail(r)

=============================================================================
