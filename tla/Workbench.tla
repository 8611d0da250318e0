------------------------------ MODULE Workbench ------------------------------
(***************************************************************************)
(* One page of the workbench (web/assets/app.js) against the analysis API: *)
(* loads of the ended tasks, which may overlap and be answered in any      *)
(* order, and the watches of the tasks it has submitted.                   *)
(*                                                                         *)
(* The server is asked at one moment, and its answer is applied at another *)
(* one: a load is "sent", then it has "read" or "failed", then it is       *)
(* "done".  A timer that runs until the next poll is part of that poll.    *)
(* Bounds: MaxLoads loads by the user, MaxFailures requests that fail or   *)
(* take more than 20 seconds.  Limit is 200 and MaxAttempts 60 in the      *)
(* code.                                                                   *)
(***************************************************************************)
EXTENDS Dataset

CONSTANTS
    Task,         \* the tasks that end while it is open
    Mine,         \* those of them that it submits
    OldTasks,     \* the tasks that had ended before it was opened, newest first
    RuleOf,       \* the target of each task, which is the id of a rule
    Rules,        \* the rules of rules.yaml: [id, minItems]
    Outcomes,     \* how each task may end: [status, payload]
    OldOutcomes,  \* how the old ones have ended
    Limit,        \* snapshots per load
    MaxAttempts,  \* polls after the first
    MaxLoads,
    MaxFailures

\* A list of anything.
IsSequence(s) == s \in Seq({s[i] : i \in DOMAIN s})

ASSUME WorkbenchAssumption ==
    /\ IsFiniteSet(Mine) /\ Mine \subseteq Task
    /\ IsSequence(OldTasks)
    /\ \A o \in OldOutcomes \cup UNION {Outcomes[t] : t \in Task} : IsSequence(o.payload.items)
    /\ \A rule \in Rules : rule.minItems \in Nat
    /\ Limit \in Nat /\ MaxAttempts \in Nat
    /\ MaxLoads \in Nat /\ MaxFailures \in Nat

VARIABLES
    history,     \* the ended tasks, by finished_at and id, newest first
    request,     \* state.request, the version of the newest load
    loads,       \* the loads: [pc, records, seen], seen being how many tasks had ended
    view,        \* state.data: [snapshots, seen]
    connection,  \* the state of the connection that is shown
    userLoads,   \* loads by the user
    watch,       \* watchTask of each task: [pc, attempt]
    failures     \* failed requests

loadVars == <<request, loads, view, connection>>
vars == <<history, loadVars, userLoads, watch, failures>>

Version == 1 .. 1 + MaxLoads + Cardinality(Mine)

-----------------------------------------------------------------------------
(* The server.                                                             *)

Ended == {history[i].task : i \in DOMAIN history}

Record(t, o) == [task |-> t, rule |-> RuleOf[t], status |-> o.status, payload |-> o.payload]

\* A worker completes a task.  finished_at is the worker's clock before the commit, so that a
\* task may appear behind others.
Complete(t) ==
    /\ t \notin Ended
    /\ \E o \in Outcomes[t], i \in 0 .. Len(history) :
         history' = SubSeq(history, 1, i) \o <<Record(t, o)>> \o SubSeq(history, i + 1, Len(history))
    /\ UNCHANGED <<loadVars, userLoads, watch, failures>>

\* ListEndedTaskSnapshots.
ListEndedTaskSnapshots == SubSeq(history, 1, IF Len(history) < Limit THEN Len(history) ELSE Limit)

Fail == failures < MaxFailures /\ failures' = failures + 1

-----------------------------------------------------------------------------
(* load.                                                                   *)

NoLoad == [pc |-> "none", records |-> <<>>, seen |-> 0]

\* The beginning of load: the version is taken before the requests are sent.
StartLoad ==
    /\ request' = request + 1
    /\ loads' = [loads EXCEPT ![request + 1].pc = "sent"]

\* The range is changed, or the page refreshed.
Refresh ==
    /\ userLoads < MaxLoads /\ userLoads' = userLoads + 1
    /\ StartLoad
    /\ UNCHANGED <<history, view, connection, watch, failures>>

Answer(v) ==
    /\ loads[v].pc = "sent"
    /\ loads' = [loads EXCEPT ![v] = [pc |-> "read", records |-> ListEndedTaskSnapshots,
                                      seen |-> Len(history)]]
    /\ UNCHANGED <<history, request, view, connection, userLoads, watch, failures>>

LoadFails(v) ==
    /\ loads[v].pc = "sent" /\ Fail
    /\ loads' = [loads EXCEPT ![v].pc = "failed"]
    /\ UNCHANGED <<history, request, view, connection, userLoads, watch>>

\* Mutation: every answer is shown.
IsNewest_Always(v) == v <= request

\* Anything else is out of date.
IsNewest(v) == v = request

Normalized(records) == [i \in DOMAIN records |-> normalizeSnapshot(records[i])]

Apply(v) ==
    /\ loads[v].pc = "read"
    /\ loads' = [loads EXCEPT ![v] = [NoLoad EXCEPT !.pc = "done"]]
    /\ IF IsNewest(v)
       THEN /\ view' = [snapshots |-> Normalized(loads[v].records), seen |-> loads[v].seen]
            /\ connection' = "online"
       ELSE UNCHANGED <<view, connection>>
    /\ UNCHANGED <<history, request, userLoads, watch, failures>>

ReportFailure(v) ==
    /\ loads[v].pc = "failed"
    /\ loads' = [loads EXCEPT ![v] = [NoLoad EXCEPT !.pc = "done"]]
    /\ connection' = IF v = request THEN "error" ELSE connection
    /\ UNCHANGED <<history, request, view, userLoads, watch, failures>>

LoadStep(v) == Answer(v) \/ LoadFails(v) \/ Apply(v) \/ ReportFailure(v)

-----------------------------------------------------------------------------
(* watchTask.                                                              *)

SetWatch(t, pc) == watch' = [watch EXCEPT ![t].pc = pc]

\* The task was accepted: state.pending has it and the first poll begins.
Collect(t) ==
    /\ watch[t].pc = "none" /\ SetWatch(t, "ask")
    /\ UNCHANGED <<history, loadVars, userLoads, failures>>

\* fetchTask, and what it has found when the page gets its answer.
FetchTask(t) ==
    /\ watch[t].pc = "ask"
    /\ SetWatch(t, IF t \in Ended THEN "terminal" ELSE "open")
    /\ UNCHANGED <<history, loadVars, userLoads, failures>>

FetchFails(t) ==
    /\ watch[t].pc = "ask" /\ Fail
    /\ SetWatch(t, "broken")
    /\ UNCHANGED <<history, loadVars, userLoads>>

\* Mutation: the page says that the results are up to date and does not load them.
LoadResult_No == UNCHANGED <<request, loads>>

LoadResult == StartLoad

SeeEnd(t) ==
    /\ watch[t].pc = "terminal" /\ SetWatch(t, "seen")
    /\ LoadResult
    /\ UNCHANGED <<history, view, connection, userLoads, failures>>

GiveUp(t) ==
    /\ watch[t].pc \in {"open", "broken"}
    /\ watch[t].attempt >= MaxAttempts
    /\ SetWatch(t, "gaveUp")
    /\ UNCHANGED <<history, loadVars, userLoads, failures>>

\* Mutation: a poll that found the task open is not counted.
NextAttempt_Broken(t) == IF watch[t].pc = "broken" THEN watch[t].attempt + 1 ELSE watch[t].attempt

NextAttempt(t) == watch[t].attempt + 1

PollAgain(t) ==
    /\ watch[t].pc \in {"open", "broken"}
    /\ watch[t].attempt < MaxAttempts
    /\ watch' = [watch EXCEPT ![t] = [pc |-> "ask", attempt |-> NextAttempt(t)]]
    /\ UNCHANGED <<history, loadVars, userLoads, failures>>

WatchStep(t) == FetchTask(t) \/ FetchFails(t) \/ SeeEnd(t) \/ GiveUp(t) \/ PollAgain(t)

-----------------------------------------------------------------------------
\* The page is opened and loads for the first time.
Init ==
    /\ \E o \in [DOMAIN OldTasks -> OldOutcomes] :
         history = [i \in DOMAIN OldTasks |-> Record(OldTasks[i], o[i])]
    /\ request = 1
    /\ loads = [v \in Version |-> IF v = 1 THEN [NoLoad EXCEPT !.pc = "sent"] ELSE NoLoad]
    /\ view = [snapshots |-> <<>>, seen |-> 0]
    /\ connection = "connecting"
    /\ userLoads = 0
    /\ watch = [t \in Mine |-> [pc |-> "none", attempt |-> 0]]
    /\ failures = 0

Next ==
    \/ Refresh
    \/ \E v \in Version : LoadStep(v)
    \/ \E t \in Task : Complete(t)
    \/ \E t \in Mine : Collect(t) \/ WatchStep(t)

Spec == Init /\ [][Next]_vars

\* Requests are answered or fail within 20 seconds, and timers go off.  Users and workers owe
\* nothing: a task may stay queued for ever.
Fairness ==
    /\ \A v \in Version : WF_vars(LoadStep(v))
    /\ \A t \in Mine : WF_vars(WatchStep(t))

FairSpec == Spec /\ Fairness

-----------------------------------------------------------------------------
\* However loads overlap, what is shown is never replaced by what the server said before.
ViewNeverGoesBack == [][view'.seen >= view.seen]_vars

\* Once the page has seen a task end, its result is in the view, or the newest load will bring
\* it, or the page says that reading failed; a view at its limit may have no room for it.
WatchedResultIsShown ==
    \A t \in Mine : watch[t].pc = "seen" =>
        \/ \E i \in DOMAIN view.snapshots : view.snapshots[i].task = t
        \/ Len(view.snapshots) >= Limit
        \/ loads[request].pc # "done"
        \/ connection = "error"

\* A watch does not last for ever, even if the task does, or every poll fails.
EveryWatchEnds ==
    \A t \in Mine : watch[t].pc # "none" ~> watch[t].pc \in {"seen", "gaveUp"}

\* When rows tell what has changed, they tell what the comparison of the two runs tells: every
\* row has a key of its own, and each kind of change names the same keys in both.
LabelsAgreeWithComparison ==
    \A rule \in Rules :
        LET h == History(view.snapshots, rule)
            labelled(change) == {item.key : item \in
                {ItemsOf(h)[i] : i \in {j \in DOMAIN ItemsOf(h) : Change(h, ItemsOf(h)[j]) = change}}}
        IN  h # <<>> /\ labelled("baseline") = {} /\ ItemsOf(h) # <<>> =>
                LET c == compareSnapshots(h[2], h[1])
                IN  /\ c.unkeyed = {}
                    /\ labelled("added") = c.added
                    /\ labelled("changed") = c.changed
                    /\ labelled("stable") \cap (c.added \cup c.changed) = {}

\* A rule that is called healthy shows the items of its newest run, as many as it must have and
\* with a key for each.
HealthyShowsLatest ==
    \A rule \in Rules, age \in Age :
        Health(view.snapshots, rule, age) = "healthy" =>
            LET runs == RunsOf(view.snapshots, rule)
                h    == History(view.snapshots, rule)
            IN  /\ h # <<>> /\ h[1].task = runs[1].task
                /\ Cardinality(KeysOf(h[1].items)) = Len(h[1].items)
                /\ Len(h[1].items) >= rule.minItems

=============================================================================
