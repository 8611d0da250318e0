--------------------------- MODULE WorkerLifecycle ---------------------------
(***************************************************************************)
(* One process of cmd/worker from its start to its exit, and Service.Run   *)
(* in between: what is opened, which loops run over it, how the failure of *)
(* one loop, or a signal, ends them all, and in which order main closes    *)
(* what they use.                                                          *)
(*                                                                         *)
(* What a loop does with a message is the business of WorkerProcessor;     *)
(* here it waits for one, waits for the slot of its service, or works.  A  *)
(* processing error is logged and the loop goes on; only a failing read    *)
(* ends it.                                                                *)
(* Bound: MaxFailures failing reads.                                       *)
(***************************************************************************)
EXTENDS Naturals

CONSTANTS
    WorkerCount,  \* services of the process (engine.worker_count)
    MaxFailures

ASSUME LifecycleAssumption == WorkerCount \in Nat /\ MaxFailures \in Nat

Main     == 0
Service  == 1 .. WorkerCount
Loops(s) == {s} \X {"consumer", "reclaimer"}
Loop     == Service \X {"consumer", "reclaimer"}

\* What ended a loop, a service or the process; "nil" is no error.
Outcome == {"none", "nil", "canceled", "failed"}

VARIABLES
    phase,      \* where run is
    valid,      \* the configuration passes the check of run and Config.Validate
    spawned,    \* services that were started
    outcome,    \* what run returns
    mysql,      \* the MySQL pool is open
    redis,      \* the Redis client is open
    drained,    \* services whose result main has received
    signalled,  \* SIGINT or SIGTERM has come: the context of main is cancelled
    cancelled,  \* who has cancelled the context it derived: Main, services
    taken,      \* the loop of a service whose result Service.Run received first
    result,     \* what each service returned
    pc,         \* where each loop is
    returned,   \* what it returned
    gate,       \* the slot of each service is taken
    failures    \* failed reads

connections == <<mysql, redis>>
serviceVars == <<cancelled, taken, result>>
loopVars    == <<pc, returned, gate, failures>>
mainVars    == <<phase, spawned, outcome, drained>>
vars == <<mainVars, valid, connections, signalled, serviceVars, loopVars>>

PhasesOK ==
    /\ phase \in {"mysql", "engine", "redis", "group", "config", "spawn",
                  "serve", "drain", "close", "gone"}
    /\ spawned \in 0 .. WorkerCount
    /\ outcome \in Outcome
    /\ drained \subseteq Service

FlagsOK ==
    /\ valid \in BOOLEAN
    /\ mysql \in BOOLEAN
    /\ redis \in BOOLEAN
    /\ signalled \in BOOLEAN

ServicesOK ==
    /\ cancelled \subseteq {Main} \cup Service
    /\ taken \in [Service -> SUBSET Loop]
    /\ result \in [Service -> Outcome]

LoopsOK ==
    /\ pc \in [Loop -> {"none", "poll", "gate", "work", "returned"}]
    /\ returned \in [Loop -> Outcome]
    /\ gate \in [Service -> BOOLEAN]
    /\ failures \in Nat

TypeOK == PhasesOK /\ FlagsOK /\ ServicesOK /\ LoopsOK

Init ==
    /\ phase = "mysql" /\ spawned = 0 /\ outcome = "none" /\ drained = {}
    /\ valid \in BOOLEAN
    /\ mysql = FALSE /\ redis = FALSE
    /\ signalled = FALSE
    /\ cancelled = {}
    /\ taken = [s \in Service |-> {}]
    /\ result = [s \in Service |-> "none"]
    /\ pc = [p \in Loop |-> "none"]
    /\ returned = [p \in Loop |-> "none"]
    /\ gate = [s \in Service |-> FALSE]
    /\ failures = 0

\* The context the services were given, and the one a service gives its loops, are done.
MainDone     == signalled \/ Main \in cancelled
LoopsDone(s) == MainDone \/ s \in cancelled

-----------------------------------------------------------------------------
(* run, until the services work.                                           *)

Advance(from, to) == phase = from /\ phase' = to

\* run returns; what is deferred remains to be done.
Leave(from, error) == Advance(from, "close") /\ outcome' = error

OpenMySQL ==
    /\ Advance("mysql", "engine")
    /\ mysql' = TRUE
    /\ UNCHANGED <<spawned, outcome, drained, valid, redis, signalled, serviceVars, loopVars>>

\* InitDB takes no context; InitLuaEngine only reads and watches a file.
StartEngine ==
    /\ Advance("engine", "redis")
    /\ UNCHANGED <<spawned, outcome, drained, valid, connections, signalled, serviceVars, loopVars>>

\* A missing rule file is fatal: nothing that is deferred is done.
EngineExits ==
    /\ Advance("engine", "gone")
    /\ outcome' = "failed"
    /\ mysql' = FALSE
    /\ UNCHANGED <<spawned, drained, valid, redis, signalled, serviceVars, loopVars>>

\* InitClient and EnsureConsumerGroup fail once the context is done.
OpenRedis ==
    /\ Advance("redis", "group") /\ ~signalled
    /\ redis' = TRUE
    /\ UNCHANGED <<spawned, outcome, drained, valid, mysql, signalled, serviceVars, loopVars>>

EnsureConsumerGroup ==
    /\ Advance("group", "config") /\ ~signalled
    /\ UNCHANGED <<spawned, outcome, drained, valid, connections, signalled, serviceVars, loopVars>>

StartupFails ==
    /\ \/ \E step \in {"mysql", "redis", "group"} : Leave(step, "failed")
       \/ signalled /\ \E step \in {"redis", "group"} : Leave(step, "canceled")
    /\ UNCHANGED <<spawned, drained, valid, connections, signalled, serviceVars, loopVars>>

\* The constructors check the same settings for every service.
ConfigIsValid == valid /\ WorkerCount > 0

CheckConfig ==
    /\ \/ ConfigIsValid /\ Advance("config", "spawn") /\ UNCHANGED outcome
       \/ ~ConfigIsValid /\ Leave("config", "failed")
    /\ UNCHANGED <<spawned, drained, valid, connections, signalled, serviceVars, loopVars>>

\* The next service of main's loop; Service.Run starts both of its loops.
SpawnService ==
    /\ phase = "spawn" /\ spawned < WorkerCount
    /\ spawned' = spawned + 1
    /\ pc' = [p \in Loop |-> IF p \in Loops(spawned') THEN "poll" ELSE pc[p]]
    /\ UNCHANGED <<phase, outcome, drained, valid, connections, signalled, serviceVars,
                   returned, gate, failures>>

Serve ==
    /\ Advance("spawn", "serve") /\ spawned = WorkerCount
    /\ UNCHANGED <<spawned, outcome, drained, valid, connections, signalled, serviceVars, loopVars>>

Start == OpenMySQL \/ StartEngine \/ EngineExits \/ OpenRedis \/ EnsureConsumerGroup
         \/ StartupFails \/ CheckConfig \/ SpawnService \/ Serve

-----------------------------------------------------------------------------
(* Consumer.Run and Reclaimer.Run.                                         *)

\* Where the loops are is all that changes, besides what is named.
Move(p, from, to) == pc[p] = from /\ pc' = [pc EXCEPT ![p] = to]

End(p, from, error) ==
    /\ Move(p, from, "returned")
    /\ returned' = [returned EXCEPT ![p] = error]

Receive(s, p) ==
    /\ Move(p, "poll", "gate") /\ ~LoopsDone(s)
    /\ UNCHANGED <<mainVars, valid, connections, signalled, serviceVars, returned, gate, failures>>

\* The error of a read counts only while the context is not done.
ReadFails(s, p) ==
    /\ End(p, "poll", "failed") /\ ~LoopsDone(s)
    /\ failures < MaxFailures /\ failures' = failures + 1
    /\ UNCHANGED <<mainVars, valid, connections, signalled, serviceVars, gate>>

\* At the next check of the context, or while waiting for the slot.
StopLoop(s, p) ==
    /\ LoopsDone(s)
    /\ \E at \in {"poll", "gate"} : End(p, at, "canceled")
    /\ UNCHANGED <<mainVars, valid, connections, signalled, serviceVars, gate, failures>>

\* select takes either branch when both are ready: the slot may be taken after the end.
TakeGate(s, p) ==
    /\ Move(p, "gate", "work")
    /\ ~gate[s] /\ gate' = [gate EXCEPT ![s] = TRUE]
    /\ UNCHANGED <<mainVars, valid, connections, signalled, serviceVars, returned, failures>>

\* process returns, with or without an error.
FinishWork(s, p) ==
    /\ Move(p, "work", "poll")
    /\ gate' = [gate EXCEPT ![s] = FALSE]
    /\ UNCHANGED <<mainVars, valid, connections, signalled, serviceVars, returned, failures>>

LoopStep(s, p) == Receive(s, p) \/ ReadFails(s, p) \/ StopLoop(s, p) \/ TakeGate(s, p)
                  \/ FinishWork(s, p)

-----------------------------------------------------------------------------
(* Service.Run.                                                            *)

\* Mutation: the loop that has not returned is left to itself.
CancelAfterFirst_No(s) == cancelled

CancelAfterFirst(s) == cancelled \cup {s}

TakeFirst(s, p) ==
    /\ taken[s] = {} /\ pc[p] = "returned"
    /\ taken' = [taken EXCEPT ![s] = {p}]
    /\ cancelled' = CancelAfterFirst(s)
    /\ UNCHANGED <<mainVars, valid, connections, signalled, result, loopVars>>

\* Mutation: the error that ended the service is taken for the end of its context.
ServiceResult_Second(first, second) ==
    IF second = "failed" THEN "failed" ELSE IF MainDone THEN "canceled" ELSE "nil"

\* The first error that is not the end of a context, or else ctx.Err().
ServiceResult(first, second) ==
    IF "failed" \in {first, second} THEN "failed" ELSE IF MainDone THEN "canceled" ELSE "nil"

TakeSecond(s, p) ==
    /\ result[s] = "none" /\ pc[p] = "returned" /\ p \notin taken[s]
    /\ \E first \in taken[s] :
         result' = [result EXCEPT ![s] = ServiceResult(returned[first], returned[p])]
    /\ UNCHANGED <<mainVars, valid, connections, signalled, cancelled, taken, loopVars>>

ServiceStep(s) == \E p \in Loops(s) : TakeFirst(s, p) \/ TakeSecond(s, p)

-----------------------------------------------------------------------------
(* run, once a service has returned.                                       *)

\* Mutation: run closes what the services use without waiting for the rest of them.
WaitingFor_First == {}

WaitingFor == Service \ drained

FirstReturns(s) ==
    /\ Advance("serve", "drain") /\ result[s] # "none"
    /\ outcome' = result[s]
    /\ cancelled' = cancelled \cup {Main}
    /\ drained' = {s}
    /\ UNCHANGED <<spawned, valid, connections, signalled, taken, result, loopVars>>

Drain(s) ==
    /\ phase = "drain" /\ s \notin drained /\ result[s] # "none"
    /\ drained' = drained \cup {s}
    /\ UNCHANGED <<phase, spawned, outcome, valid, connections, signalled, serviceVars, loopVars>>

Drained ==
    /\ Advance("drain", "close") /\ WaitingFor = {}
    /\ UNCHANGED <<spawned, outcome, drained, valid, connections, signalled, serviceVars, loopVars>>

\* What is deferred is done in the reverse order.
CloseRedis ==
    /\ phase = "close" /\ redis
    /\ redis' = FALSE
    /\ UNCHANGED <<mainVars, valid, mysql, signalled, serviceVars, loopVars>>

CloseMySQL ==
    /\ phase = "close" /\ ~redis /\ mysql
    /\ mysql' = FALSE
    /\ UNCHANGED <<mainVars, valid, redis, signalled, serviceVars, loopVars>>

Exit ==
    /\ Advance("close", "gone") /\ ~mysql
    /\ UNCHANGED <<spawned, outcome, drained, valid, connections, signalled, serviceVars, loopVars>>

Shutdown == (\E s \in Service : FirstReturns(s) \/ Drain(s)) \/ Drained
            \/ CloseRedis \/ CloseMySQL \/ Exit

-----------------------------------------------------------------------------
Signal ==
    /\ ~signalled /\ phase # "gone"
    /\ signalled' = TRUE
    /\ UNCHANGED <<mainVars, valid, connections, serviceVars, loopVars>>

\* The process has gone, and nothing else stops the model.
Gone == phase = "gone" /\ UNCHANGED vars

Next ==
    \/ Start \/ Shutdown \/ Signal \/ Gone
    \/ \E s \in Service : ServiceStep(s) \/ \E p \in Loops(s) : LoopStep(s, p)

Spec == Init /\ [][Next]_vars

\* The scheduler runs every goroutine.  Work ends, since every call it makes has a deadline or
\* a transport timeout, and a loop sees the end of its context at the next check.  Messages,
\* failures and signals owe nothing.
Fairness ==
    /\ WF_vars(Start) /\ WF_vars(Shutdown)
    /\ \A s \in Service :
         /\ WF_vars(ServiceStep(s))
         /\ \A p \in Loops(s) : WF_vars(StopLoop(s, p)) /\ WF_vars(FinishWork(s, p))

FairSpec == Spec /\ Fairness

-----------------------------------------------------------------------------
\* main closes Redis and MySQL only when no loop of any service can use them any more,
\* however the loops, the services, main and a signal interleave.
ConnectionsOutliveLoops ==
    \A p \in Loop : pc[p] \in {"poll", "gate", "work"} => mysql /\ redis

\* A process that exits without reporting an error was asked to: only a signal ends a worker
\* quietly, and no loop of the service whose result main returns had failed.
QuietExitWasAsked ==
    outcome \in {"nil", "canceled"} =>
        /\ signalled
        /\ \A s \in Service : drained = {s} => \A p \in Loops(s) : returned[p] = "canceled"

\* After a signal, or once one loop of one service has failed, the whole process exits,
\* whatever its other loops are doing.
StopIsCompleted ==
    (signalled \/ \E p \in Loop : returned[p] = "failed") ~> (phase = "gone")

=============================================================================
