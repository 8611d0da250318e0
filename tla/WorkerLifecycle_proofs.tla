----------------------- MODULE WorkerLifecycle_proofs -----------------------
(***************************************************************************)
(* The start and the stop of a worker, for any number of services and any  *)
(* number of failing reads.                                                *)
(***************************************************************************)
EXTENDS WorkerLifecycle, TLAPS

USE LifecycleAssumption

-----------------------------------------------------------------------------
(* The inductive invariant.                                                *)

Waiting == {"mysql", "engine", "redis", "group", "config"}
Running == {"spawn", "serve", "drain"}

\* From their opening until main has received the results of all services, the connections are
\* open; before services are started there is no loop, and until one has returned main cancels
\* nothing.
PhasesAreSound ==
    /\ phase \in {"engine", "redis"} => mysql
    /\ phase \in {"group", "config"} \cup Running => mysql /\ redis
    /\ phase \in Waiting => \A p \in Loop : pc[p] = "none"
    /\ phase \in Waiting \cup {"spawn", "serve"} =>
         Main \notin cancelled /\ drained = {} /\ outcome = "none"
    /\ phase = "drain" => drained # {}

\* A service that was not started yet has no loops.
LoopsAreSpawned ==
    \A s \in Service : spawned < s => \A p \in Loops(s) : pc[p] = "none"

\* A loop that is at work has a process that waits for it.
LoopsAreAwaited ==
    \A p \in Loop : pc[p] \in {"poll", "gate", "work"} => phase \in Running

\* A loop ends with an error of its own or because its context is done.
LoopsEndForAReason ==
    \A s \in Service : \A p \in Loops(s) :
        /\ pc[p] = "returned" => returned[p] \in {"failed", "canceled"}
        /\ pc[p] # "returned" => returned[p] = "none"
        /\ returned[p] = "canceled" => LoopsDone(s)

\* The first result of a service is that of a loop that returned, before which nobody had
\* cancelled the context of the service.
FirstResults ==
    \A s \in Service :
        /\ taken[s] = {} => s \notin cancelled
        /\ \A p \in taken[s] :
             p \in Loops(s) /\ pc[p] = "returned" /\ (returned[p] = "canceled" => MainDone)

\* A service has returned when both loops have, and "canceled" only if both were and main is done.
ServiceResults ==
    \A s \in Service : result[s] # "none" =>
        /\ \A p \in Loops(s) : pc[p] = "returned"
        /\ result[s] # "failed" => MainDone /\ \A p \in Loops(s) : returned[p] = "canceled"

\* main has received only results there are, and returns the first of them.
MainResults ==
    \A s \in Service :
        /\ s \in drained => result[s] # "none"
        /\ drained = {s} => outcome = result[s]

IInv == /\ TypeOK /\ PhasesAreSound /\ LoopsAreSpawned /\ LoopsAreAwaited /\ LoopsEndForAReason
        /\ FirstResults /\ ServiceResults /\ MainResults
        /\ outcome \in {"nil", "canceled"} => signalled

-----------------------------------------------------------------------------
(* The proofs.                                                             *)

\* The services are told apart, and so are their loops.
LEMMA LoopsOfServices ==
    /\ \A s \in Service : Loops(s) \subseteq Loop
    /\ \A p \in Loop : \E s \in Service : p \in Loops(s)
    /\ \A s, t \in Service : \A p \in Loops(s) : p \in Loops(t) => s = t
    /\ Main \notin Service
BY DEF Loops, Loop, Service, Main

\* A service has no third loop.
LEMMA TwoLoops ==
    \A s \in Service : \A p, q, r \in Loops(s) : p # q => r = p \/ r = q
BY DEF Loops

LEMMA TypesHold == TypeOK /\ [Next]_vars => TypeOK'
<1> SUFFICES ASSUME TypeOK, [Next]_vars
             PROVE  TypeOK'
  OBVIOUS
<1> USE DEF TypeOK, PhasesOK, FlagsOK, ServicesOK, LoopsOK, Outcome
<1> USE DEF mainVars, connections, serviceVars, loopVars
<1>1. CASE Start
  <2>1. CASE SpawnService
    <3>1. spawned' \in 0 .. WorkerCount
      BY <2>1 DEF SpawnService
    <3> QED
      BY <2>1, <3>1 DEF SpawnService
  <2>2. CASE StartupFails
    BY <2>2 DEF StartupFails, Leave, Advance
  <2>3. CASE OpenMySQL \/ StartEngine \/ EngineExits \/ OpenRedis \/ EnsureConsumerGroup \/ Serve
    BY <2>3 DEF OpenMySQL, StartEngine, EngineExits, OpenRedis, EnsureConsumerGroup, Serve, Advance
  <2>4. CASE CheckConfig
    BY <2>4 DEF CheckConfig, Leave, Advance
  <2> QED
    BY <1>1, <2>1, <2>2, <2>3, <2>4 DEF Start
<1>2. CASE Shutdown
  <2>1. ASSUME NEW s \in Service, FirstReturns(s) \/ Drain(s)
        PROVE  TypeOK'
    BY <2>1 DEF FirstReturns, Drain, Advance
  <2>2. CASE Drained \/ CloseRedis \/ CloseMySQL \/ Exit
    BY <2>2 DEF Drained, CloseRedis, CloseMySQL, Exit, Advance
  <2> QED
    BY <1>2, <2>1, <2>2 DEF Shutdown
<1>3. CASE Signal \/ Gone \/ UNCHANGED vars
  BY <1>3 DEF Signal, Gone, vars
<1>4. ASSUME NEW s \in Service, ServiceStep(s)
      PROVE  TypeOK'
  <2>1. ASSUME NEW p \in Loops(s), TakeFirst(s, p)
        PROVE  TypeOK'
    BY <2>1, LoopsOfServices DEF TakeFirst, CancelAfterFirst
  <2>2. ASSUME NEW p \in Loops(s), TakeSecond(s, p)
        PROVE  TypeOK'
    <3>1. \A a, b : ServiceResult(a, b) \in Outcome
      BY DEF ServiceResult
    <3> QED
      BY <2>2, <3>1 DEF TakeSecond
  <2> QED
    BY <1>4, <2>1, <2>2 DEF ServiceStep
<1>5. ASSUME NEW s \in Service, NEW p \in Loops(s), LoopStep(s, p)
      PROVE  TypeOK'
  <2> p \in Loop
    BY LoopsOfServices
  <2>1. CASE ReadFails(s, p)
    <3>1. failures' \in Nat
      BY <2>1 DEF ReadFails
    <3> QED
      BY <2>1, <3>1 DEF ReadFails, End, Move
  <2>2. CASE Receive(s, p)
    BY <2>2 DEF Receive, Move
  <2>3. CASE StopLoop(s, p)
    BY <2>3 DEF StopLoop, End, Move
  <2>4. CASE TakeGate(s, p)
    BY <2>4 DEF TakeGate, Move
  <2>5. CASE FinishWork(s, p)
    BY <2>5 DEF FinishWork, Move
  <2> QED
    BY <1>5, <2>1, <2>2, <2>3, <2>4, <2>5 DEF LoopStep
<1> QED
  BY <1>1, <1>2, <1>3, <1>4, <1>5 DEF Next

-----------------------------------------------------------------------------
\* What a step of a loop does, whichever it is.
LEMMA LoopSteps ==
    ASSUME TypeOK, NEW s \in Service, NEW p \in Loops(s), LoopStep(s, p)
    PROVE  /\ UNCHANGED <<mainVars, connections, signalled, serviceVars>>
           /\ pc[p] \in {"poll", "gate", "work"}
           /\ pc'[p] \in {"poll", "gate", "work", "returned"}
           /\ \A q \in Loop : q # p => pc'[q] = pc[q] /\ returned'[q] = returned[q]
           /\ pc'[p] # "returned" => returned'[p] = returned[p]
           /\ pc'[p] = "returned" => \/ returned'[p] = "failed"
                                     \/ returned'[p] = "canceled" /\ LoopsDone(s)
<1> p \in Loop
  BY LoopsOfServices
<1> USE DEF TypeOK, LoopsOK
<1>1. CASE ReadFails(s, p)
  BY <1>1 DEF ReadFails, End, Move
<1>2. CASE Receive(s, p)
  BY <1>2 DEF Receive, Move
<1>3. CASE StopLoop(s, p)
  BY <1>3 DEF StopLoop, End, Move
<1>4. CASE TakeGate(s, p)
  BY <1>4 DEF TakeGate, Move
<1>5. CASE FinishWork(s, p)
  BY <1>5 DEF FinishWork, Move
<1> QED
  BY <1>1, <1>2, <1>3, <1>4, <1>5 DEF LoopStep

\* What a step of Service.Run leaves alone, and how it changes the contexts and the results.
LEMMA ServiceSteps ==
    ASSUME TypeOK, NEW s \in Service, ServiceStep(s)
    PROVE  /\ UNCHANGED <<mainVars, connections, signalled, loopVars>>
           /\ cancelled \subseteq cancelled' /\ cancelled' \subseteq cancelled \cup {s}
           /\ \A t \in Service : t # s => taken'[t] = taken[t] /\ result'[t] = result[t]
           /\ \/ /\ UNCHANGED result
                 /\ taken[s] = {}
                 /\ \E p \in Loops(s) : pc[p] = "returned" /\ taken'[s] = {p}
              \/ /\ UNCHANGED <<taken, cancelled>>
                 /\ result[s] = "none"
                 /\ \E p \in Loops(s), q \in taken[s] :
                      /\ pc[p] = "returned" /\ p \notin taken[s]
                      /\ result'[s] = ServiceResult(returned[q], returned[p])
<1> USE DEF TypeOK, ServicesOK
<1>1. ASSUME NEW p \in Loops(s), TakeFirst(s, p)
      PROVE  /\ UNCHANGED <<mainVars, connections, signalled, loopVars, result>>
             /\ taken[s] = {} /\ pc[p] = "returned" /\ taken'[s] = {p}
             /\ cancelled' = cancelled \cup {s}
             /\ \A t \in Service : t # s => taken'[t] = taken[t]
  BY <1>1 DEF TakeFirst, CancelAfterFirst
<1>2. ASSUME NEW p \in Loops(s), TakeSecond(s, p)
      PROVE  /\ UNCHANGED <<mainVars, connections, signalled, loopVars, taken, cancelled>>
             /\ result[s] = "none" /\ pc[p] = "returned" /\ p \notin taken[s]
             /\ \E q \in taken[s] : result'[s] = ServiceResult(returned[q], returned[p])
             /\ \A t \in Service : t # s => result'[t] = result[t]
  BY <1>2 DEF TakeSecond
<1>3. CASE \E p \in Loops(s) : TakeFirst(s, p)
  BY <1>1, <1>3
<1>4. CASE \E p \in Loops(s) : TakeSecond(s, p)
  BY <1>2, <1>4
<1> QED
  BY <1>3, <1>4 DEF ServiceStep

-----------------------------------------------------------------------------
(* One lemma for every part of the inductive invariant.  Each distinguishes *)
(* the starting of services, the other steps of main, the signal, and the  *)
(* steps of services and loops.                                            *)

\* What the steps of main leave alone.
LEMMA MainSteps ==
    ASSUME TypeOK, LoopsAreSpawned, Start \/ Shutdown
    PROVE  /\ UNCHANGED <<signalled, taken, result, returned>>
           /\ \/ UNCHANGED pc
              \/ /\ phase = "spawn"
                 /\ UNCHANGED <<phase, outcome, drained, connections, cancelled>>
                 /\ \A p \in Loop : \/ pc'[p] = pc[p]
                                    \/ pc[p] = "none" /\ pc'[p] = "poll"
           /\ \/ UNCHANGED cancelled
              \/ cancelled' = cancelled \cup {Main}
<1> USE DEF mainVars, connections, serviceVars, loopVars
<1>1. CASE SpawnService
  <2>1. spawned' \in Service /\ spawned < spawned'
    BY <1>1 DEF SpawnService, TypeOK, PhasesOK, Service
  <2>2. \A p \in Loops(spawned') : pc[p] = "none"
    BY <2>1 DEF LoopsAreSpawned
  <2>3. \A p \in Loop : pc'[p] = pc[p] \/ (pc[p] = "none" /\ pc'[p] = "poll")
    BY <1>1, <2>2 DEF SpawnService
  <2> QED
    BY <1>1, <2>3 DEF SpawnService
<1>2. CASE OpenMySQL \/ StartEngine \/ EngineExits \/ OpenRedis \/ EnsureConsumerGroup \/ Serve
  BY <1>2 DEF OpenMySQL, StartEngine, EngineExits, OpenRedis, EnsureConsumerGroup, Serve
<1>3. CASE StartupFails \/ CheckConfig
  BY <1>3 DEF StartupFails, CheckConfig
<1>4. CASE Shutdown
  BY <1>4 DEF Shutdown, FirstReturns, Drain, Drained, CloseRedis, CloseMySQL, Exit
<1> QED
  BY <1>1, <1>2, <1>3, <1>4 DEF Start

\* The phases that main goes through, and what it opens and receives in them.
LEMMA PhasesStaySound == IInv /\ [Next]_vars => PhasesAreSound'
<1> SUFFICES ASSUME IInv, [Next]_vars
             PROVE  PhasesAreSound'
  OBVIOUS
<1> USE DEF mainVars, connections, serviceVars, loopVars
<1> TypeOK /\ PhasesAreSound /\ LoopsAreSpawned
  BY DEF IInv
<1> USE DEF PhasesAreSound, Running, Waiting
<1>1. CASE OpenMySQL \/ StartEngine \/ EngineExits
  BY <1>1 DEF OpenMySQL, StartEngine, EngineExits, Advance
<1>2. CASE OpenRedis \/ EnsureConsumerGroup \/ StartupFails
  BY <1>2 DEF OpenRedis, EnsureConsumerGroup, StartupFails, Leave, Advance
<1>3. CASE CheckConfig
  <2>1. /\ phase = "config" /\ UNCHANGED <<drained, connections, cancelled, pc>>
        /\ (phase' = "spawn" /\ UNCHANGED outcome) \/ phase' = "close"
    BY <1>3 DEF CheckConfig, Leave, Advance
  <2> QED
    BY <2>1
<1>4. CASE SpawnService \/ Serve
  BY <1>4 DEF SpawnService, Serve, Advance
<1>5. CASE Shutdown
  BY <1>5 DEF Shutdown, FirstReturns, Drain, Drained, CloseRedis, CloseMySQL, Exit, Advance
<1>6. CASE Signal \/ Gone \/ UNCHANGED vars
  BY <1>6 DEF Signal, Gone, vars
<1>7. ASSUME NEW s \in Service, ServiceStep(s)
      PROVE  PhasesAreSound'
  BY <1>7, ServiceSteps, LoopsOfServices
<1>8. ASSUME NEW s \in Service, NEW p \in Loops(s), LoopStep(s, p)
      PROVE  PhasesAreSound'
  <2>1. p \in Loop
    BY LoopsOfServices
  <2>2. UNCHANGED <<mainVars, connections, serviceVars>> /\ pc[p] # "none"
    BY <1>8, LoopSteps
  <2>3. phase \notin Waiting
    BY <2>1, <2>2
  <2> QED
    BY <2>2, <2>3
<1> QED
  BY <1>1, <1>2, <1>3, <1>4, <1>5, <1>6, <1>7, <1>8 DEF Next, Start

\* Loops are started with their services only.
LEMMA LoopsStaySpawned == IInv /\ [Next]_vars => LoopsAreSpawned'
<1> SUFFICES ASSUME IInv, [Next]_vars
             PROVE  LoopsAreSpawned'
  OBVIOUS
<1> USE DEF mainVars, connections, serviceVars, loopVars
<1> TypeOK /\ LoopsAreSpawned
  BY DEF IInv
<1>1. CASE SpawnService
  <2> SUFFICES ASSUME NEW s \in Service, spawned' < s, NEW p \in Loops(s)
               PROVE  pc'[p] = "none"
    BY DEF LoopsAreSpawned
  <2>1. spawned < s /\ spawned' \in Service /\ spawned' # s
    BY <1>1 DEF SpawnService, TypeOK, PhasesOK, Service
  <2>2. p \in Loop /\ p \notin Loops(spawned')
    BY <2>1, LoopsOfServices
  <2> QED
    BY <1>1, <2>1, <2>2 DEF SpawnService, LoopsAreSpawned
<1>2. CASE (Start /\ ~SpawnService) \/ Shutdown \/ Signal \/ Gone \/ UNCHANGED vars
  <2>1. UNCHANGED <<spawned, pc>>
    BY <1>2 DEF Start, OpenMySQL, StartEngine, EngineExits, OpenRedis, EnsureConsumerGroup,
                StartupFails, CheckConfig, Serve, Shutdown, FirstReturns, Drain, Drained,
                CloseRedis, CloseMySQL, Exit, Signal, Gone, vars
  <2> QED
    BY <2>1 DEF LoopsAreSpawned
<1>3. ASSUME NEW s \in Service, ServiceStep(s)
      PROVE  LoopsAreSpawned'
  BY <1>3, ServiceSteps DEF LoopsAreSpawned
<1>4. ASSUME NEW s \in Service, NEW p \in Loops(s), LoopStep(s, p)
      PROVE  LoopsAreSpawned'
  <2>1. /\ UNCHANGED spawned /\ pc[p] # "none"
        /\ \A q \in Loop : q # p => pc'[q] = pc[q]
    BY <1>4, LoopSteps
  <2>2. \A t \in Service : spawned < t => p \notin Loops(t)
    BY <2>1 DEF LoopsAreSpawned
  <2> QED
    BY <2>1, <2>2, LoopsOfServices DEF LoopsAreSpawned
<1> QED
  BY <1>1, <1>2, <1>3, <1>4 DEF Next

\* A loop that runs has a process that has not begun to close anything.
LEMMA LoopsStayAwaited == IInv /\ [Next]_vars => LoopsAreAwaited'
<1> SUFFICES ASSUME IInv, [Next]_vars,
                    NEW p \in Loop, pc'[p] \in {"poll", "gate", "work"}
             PROVE  phase' \in Running
  BY DEF LoopsAreAwaited
<1> USE DEF mainVars, connections, serviceVars, loopVars
<1> TypeOK /\ PhasesAreSound /\ LoopsAreSpawned /\ LoopsAreAwaited
  BY DEF IInv
<1>1. CASE Start
  <2>1. CASE phase = "spawn"
    BY <1>1, <2>1 DEF Start, OpenMySQL, StartEngine, EngineExits, OpenRedis, EnsureConsumerGroup,
                      StartupFails, CheckConfig, SpawnService, Serve, Leave, Advance, Running
  <2>2. CASE phase # "spawn"
    <3>1. phase \in Waiting
      BY <1>1, <2>2 DEF Start, OpenMySQL, StartEngine, EngineExits, OpenRedis, EnsureConsumerGroup,
                        StartupFails, CheckConfig, SpawnService, Serve, Leave, Advance, Waiting
    <3>2. pc'[p] = pc[p]
      BY <1>1, <2>2, MainSteps
    <3> QED
      BY <3>1, <3>2 DEF PhasesAreSound
  <2> QED
    BY <2>1, <2>2
<1>2. CASE Shutdown
  <2>1. pc'[p] = pc[p] /\ phase \in Running
    BY <1>2 DEF Shutdown, FirstReturns, Drain, Drained, CloseRedis, CloseMySQL, Exit, LoopsAreAwaited
  <2>2. ~Drained
    <3>1. PICK s \in Service : p \in Loops(s)
      BY LoopsOfServices
    <3>2. result[s] = "none"
      BY <2>1, <3>1 DEF IInv, ServiceResults
    <3>3. s \notin drained
      BY <3>2 DEF IInv, MainResults
    <3> QED
      BY <3>3 DEF Drained, WaitingFor
  <2> QED
    BY <1>2, <2>1, <2>2 DEF Shutdown, FirstReturns, Drain, CloseRedis, CloseMySQL, Exit, Advance, Running
<1>3. CASE Signal \/ Gone \/ UNCHANGED vars
  BY <1>3 DEF Signal, Gone, vars, LoopsAreAwaited
<1>4. ASSUME NEW s \in Service, ServiceStep(s)
      PROVE  phase' \in Running
  BY <1>4, ServiceSteps DEF LoopsAreAwaited
<1>5. ASSUME NEW s \in Service, NEW q \in Loops(s), LoopStep(s, q)
      PROVE  phase' \in Running
  <2>1. q \in Loop
    BY LoopsOfServices
  <2>2. pc[q] \in {"poll", "gate", "work"} /\ UNCHANGED phase
    BY <1>5, LoopSteps
  <2> QED
    BY <2>1, <2>2 DEF LoopsAreAwaited
<1> QED
  BY <1>1, <1>2, <1>3, <1>4, <1>5 DEF Next

\* A context that is done stays done.
LEMMA DoneStaysDone ==
    IInv /\ [Next]_vars =>
        /\ MainDone => MainDone'
        /\ \A s \in Service : LoopsDone(s) => LoopsDone(s)'
        /\ \A s \in Service : s \in cancelled' /\ s \notin cancelled => ServiceStep(s)
<1> SUFFICES ASSUME IInv, [Next]_vars
             PROVE  /\ signalled => signalled'
                    /\ cancelled \subseteq cancelled'
                    /\ \A s \in Service : s \in cancelled' /\ s \notin cancelled => ServiceStep(s)
  BY DEF MainDone, LoopsDone
<1> USE DEF mainVars, connections, serviceVars, loopVars
<1> TypeOK /\ LoopsAreSpawned
  BY DEF IInv
<1>1. CASE Start \/ Shutdown
  BY <1>1, MainSteps, LoopsOfServices
<1>2. CASE Signal \/ Gone \/ UNCHANGED vars
  BY <1>2 DEF Signal, Gone, vars
<1>3. ASSUME NEW s \in Service, ServiceStep(s)
      PROVE  /\ signalled => signalled'
             /\ cancelled \subseteq cancelled' /\ cancelled' \subseteq cancelled \cup {s}
  <2>1. UNCHANGED signalled
    BY <1>3 DEF ServiceStep, TakeFirst, TakeSecond
  <2> QED
    BY <1>3, <2>1, ServiceSteps
<1>4. ASSUME NEW s \in Service, NEW p \in Loops(s), LoopStep(s, p)
      PROVE  (signalled => signalled') /\ UNCHANGED cancelled
  BY <1>4, LoopSteps
<1> QED
  BY <1>1, <1>2, <1>3, <1>4 DEF Next

\* How a step changes a loop: not at all, by its start, or by a step of its own.
LEMMA LoopChanges ==
    ASSUME IInv, [Next]_vars, NEW s \in Service, NEW p \in Loops(s)
    PROVE  \/ pc'[p] = pc[p] /\ returned'[p] = returned[p]
           \/ pc[p] = "none" /\ pc'[p] = "poll" /\ returned'[p] = returned[p]
           \/ LoopStep(s, p)
<1> p \in Loop
  BY LoopsOfServices
<1> USE DEF mainVars, connections, serviceVars, loopVars
<1> TypeOK /\ LoopsAreSpawned
  BY DEF IInv
<1>1. CASE Start \/ Shutdown
  BY <1>1, MainSteps
<1>2. CASE Signal \/ Gone \/ UNCHANGED vars
  BY <1>2 DEF Signal, Gone, vars
<1>3. ASSUME NEW t \in Service, ServiceStep(t)
      PROVE  pc'[p] = pc[p] /\ returned'[p] = returned[p]
  BY <1>3, ServiceSteps
<1>4. ASSUME NEW t \in Service, NEW q \in Loops(t), LoopStep(t, q)
      PROVE  (pc'[p] = pc[p] /\ returned'[p] = returned[p]) \/ LoopStep(s, p)
  <2>1. CASE q = p
    BY <1>4, <2>1, LoopsOfServices
  <2>2. CASE q # p
    BY <1>4, <2>2, LoopSteps
  <2> QED
    BY <2>1, <2>2
<1> QED
  BY <1>1, <1>2, <1>3, <1>4 DEF Next

\* So a loop that has returned stays as it is.
LEMMA ReturnedStays ==
    ASSUME IInv, [Next]_vars, NEW s \in Service, NEW p \in Loops(s), pc[p] = "returned"
    PROVE  pc'[p] = "returned" /\ returned'[p] = returned[p]
<1> TypeOK
  BY DEF IInv
<1> QED
  BY LoopChanges, LoopSteps

LEMMA ReasonsStay == IInv /\ [Next]_vars => LoopsEndForAReason'
<1> SUFFICES ASSUME IInv, [Next]_vars, NEW s \in Service, NEW p \in Loops(s)
             PROVE  /\ pc'[p] = "returned" => returned'[p] \in {"failed", "canceled"}
                    /\ pc'[p] # "returned" => returned'[p] = "none"
                    /\ returned'[p] = "canceled" => LoopsDone(s)'
  BY DEF LoopsEndForAReason
<1> TypeOK
  BY DEF IInv
<1>1. /\ pc[p] = "returned" => returned[p] \in {"failed", "canceled"}
      /\ pc[p] # "returned" => returned[p] = "none"
      /\ returned[p] = "canceled" => LoopsDone(s)
  BY DEF IInv, LoopsEndForAReason
<1>2. LoopsDone(s) => LoopsDone(s)'
  BY DoneStaysDone
<1>3. CASE LoopStep(s, p)
  BY <1>1, <1>2, <1>3, LoopSteps
<1>4. CASE pc'[p] = pc[p] /\ returned'[p] = returned[p]
  BY <1>1, <1>2, <1>4
<1>5. CASE pc[p] = "none" /\ pc'[p] = "poll" /\ returned'[p] = returned[p]
  BY <1>1, <1>2, <1>5
<1> QED
  BY <1>3, <1>4, <1>5, LoopChanges

\* How a step changes what Service.Run has of a service: by a step of that service only.
LEMMA ServiceChanges ==
    ASSUME IInv, [Next]_vars, NEW s \in Service
    PROVE  UNCHANGED <<taken[s], result[s]>> \/ ServiceStep(s)
<1> USE DEF mainVars, connections, serviceVars, loopVars
<1> TypeOK /\ LoopsAreSpawned
  BY DEF IInv
<1>1. CASE Start \/ Shutdown
  BY <1>1, MainSteps
<1>2. CASE Signal \/ Gone \/ UNCHANGED vars
  BY <1>2 DEF Signal, Gone, vars
<1>3. ASSUME NEW t \in Service, ServiceStep(t)
      PROVE  UNCHANGED <<taken[s], result[s]>> \/ ServiceStep(s)
  <2>1. CASE t = s
    BY <1>3, <2>1
  <2>2. CASE t # s
    BY <1>3, <2>2, ServiceSteps
  <2> QED
    BY <2>1, <2>2
<1>4. ASSUME NEW t \in Service, NEW q \in Loops(t), LoopStep(t, q)
      PROVE  UNCHANGED <<taken[s], result[s]>>
  BY <1>4, LoopSteps
<1> QED
  BY <1>1, <1>2, <1>3, <1>4 DEF Next

LEMMA FirstResultsStay == IInv /\ [Next]_vars => FirstResults'
<1> SUFFICES ASSUME IInv, [Next]_vars, NEW s \in Service
             PROVE  /\ taken'[s] = {} => s \notin cancelled'
                    /\ \A p \in taken'[s] :
                         /\ p \in Loops(s) /\ pc'[p] = "returned"
                         /\ returned'[p] = "canceled" => MainDone'
  BY DEF FirstResults
<1> TypeOK
  BY DEF IInv
<1>1. /\ taken[s] = {} => s \notin cancelled
      /\ \A p \in taken[s] :
           p \in Loops(s) /\ pc[p] = "returned" /\ (returned[p] = "canceled" => MainDone)
  BY DEF IInv, FirstResults
<1>2. MainDone => MainDone'
  BY DoneStaysDone
<1>3. CASE taken'[s] = taken[s] /\ ~ServiceStep(s)
  <2>1. taken'[s] = {} => s \notin cancelled'
    BY <1>1, <1>3, DoneStaysDone
  <2>2. ASSUME NEW p \in taken'[s]
        PROVE  /\ p \in Loops(s) /\ pc'[p] = "returned"
               /\ returned'[p] = "canceled" => MainDone'
    BY <1>1, <1>2, <1>3, ReturnedStays
  <2> QED
    BY <2>1, <2>2
<1>4. CASE ServiceStep(s)
  <2>1. UNCHANGED <<pc, returned>>
    BY <1>4, ServiceSteps DEF loopVars
  <2>2. CASE UNCHANGED <<taken, cancelled>>
    BY <1>1, <1>2, <2>1, <2>2
  <2>3. CASE taken[s] = {} /\ \E p \in Loops(s) : pc[p] = "returned" /\ taken'[s] = {p}
    <3>1. PICK p \in Loops(s) : pc[p] = "returned" /\ taken'[s] = {p}
      BY <2>3
    <3>2. returned[p] = "canceled" => MainDone
      BY <1>1, <2>3 DEF IInv, LoopsEndForAReason, LoopsDone
    <3> QED
      BY <1>2, <2>1, <3>1, <3>2
  <2> QED
    BY <1>4, <2>2, <2>3, ServiceSteps
<1> QED
  BY <1>3, <1>4, ServiceChanges

LEMMA ServiceResultsStay == IInv /\ [Next]_vars => ServiceResults'
<1> SUFFICES ASSUME IInv, [Next]_vars, NEW s \in Service, result'[s] # "none"
             PROVE  /\ \A p \in Loops(s) : pc'[p] = "returned"
                    /\ result'[s] # "failed" =>
                         MainDone' /\ \A p \in Loops(s) : returned'[p] = "canceled"
  BY DEF ServiceResults
<1> TypeOK
  BY DEF IInv
<1>1. CASE result'[s] = result[s]
  <2>1. /\ \A p \in Loops(s) : pc[p] = "returned"
        /\ result[s] # "failed" => MainDone /\ \A p \in Loops(s) : returned[p] = "canceled"
    BY <1>1 DEF IInv, ServiceResults
  <2> QED
    BY <1>1, <2>1, ReturnedStays, DoneStaysDone
<1>2. CASE ServiceStep(s) /\ ~UNCHANGED result
  <2>1. PICK p \in Loops(s), q \in taken[s] :
             /\ pc[p] = "returned" /\ p # q
             /\ result'[s] = ServiceResult(returned[q], returned[p])
    BY <1>2, ServiceSteps
  <2>2. q \in Loops(s) /\ pc[q] = "returned" /\ (returned[q] = "canceled" => MainDone)
    BY DEF IInv, FirstResults
  <2>3. /\ returned[p] \in {"failed", "canceled"} /\ returned[q] \in {"failed", "canceled"}
        /\ \A r \in Loops(s) : r = p \/ r = q
    BY <2>1, <2>2, TwoLoops DEF IInv, LoopsEndForAReason
  <2>4. result'[s] # "failed" => returned[p] = "canceled" /\ returned[q] = "canceled"
    BY <2>1, <2>3 DEF ServiceResult
  <2> QED
    BY <2>1, <2>2, <2>3, <2>4, ReturnedStays, DoneStaysDone
<1> QED
  BY <1>1, <1>2, ServiceChanges

\* What main has received, and when: in the phases "serve" and "drain".
LEMMA MainReceives ==
    ASSUME IInv, [Next]_vars
    PROVE  \/ UNCHANGED <<drained, outcome>>
           \/ \E s \in Service : FirstReturns(s)
           \/ \E s \in Service : Drain(s)
           \/ UNCHANGED drained /\ outcome' = "failed" /\ phase \in Waiting
           \/ UNCHANGED drained /\ outcome' = "canceled" /\ phase \in Waiting /\ signalled
<1> USE DEF mainVars, connections, serviceVars, loopVars
<1> TypeOK
  BY DEF IInv
<1>1. CASE EngineExits \/ StartupFails
  BY <1>1 DEF EngineExits, StartupFails, Leave, Advance, Waiting
<1>2. CASE CheckConfig
  BY <1>2 DEF CheckConfig, Leave, Advance, Waiting
<1>3. CASE OpenMySQL \/ StartEngine \/ OpenRedis \/ EnsureConsumerGroup \/ SpawnService \/ Serve
  BY <1>3 DEF OpenMySQL, StartEngine, OpenRedis, EnsureConsumerGroup, SpawnService, Serve
<1>4. CASE Shutdown
  BY <1>4 DEF Shutdown, Drained, CloseRedis, CloseMySQL, Exit
<1>5. CASE Signal \/ Gone \/ UNCHANGED vars
  BY <1>5 DEF Signal, Gone, vars
<1>6. ASSUME NEW s \in Service, ServiceStep(s)
      PROVE  UNCHANGED <<drained, outcome>>
  BY <1>6, ServiceSteps
<1>7. ASSUME NEW s \in Service, NEW p \in Loops(s), LoopStep(s, p)
      PROVE  UNCHANGED <<drained, outcome>>
  BY <1>7, LoopSteps
<1> QED
  BY <1>1, <1>2, <1>3, <1>4, <1>5, <1>6, <1>7 DEF Next, Start

\* A result of a service stays.
LEMMA ResultStays ==
    ASSUME IInv, [Next]_vars, NEW s \in Service, result[s] # "none"
    PROVE  result'[s] = result[s]
<1> TypeOK
  BY DEF IInv
<1>1. CASE ServiceStep(s)
  BY <1>1, ServiceSteps
<1> QED
  BY <1>1, ServiceChanges

LEMMA MainResultsStay == IInv /\ [Next]_vars => MainResults'
<1> SUFFICES ASSUME IInv, [Next]_vars, NEW s \in Service
             PROVE  /\ s \in drained' => result'[s] # "none"
                    /\ drained' = {s} => outcome' = result'[s]
  BY DEF MainResults
<1> TypeOK /\ PhasesAreSound
  BY DEF IInv
<1>1. s \in drained => result[s] # "none"
  BY DEF IInv, MainResults
<1>2. drained = {s} => outcome = result[s]
  BY DEF IInv, MainResults
<1>3. result[s] # "none" => result'[s] = result[s]
  BY ResultStays
<1>4. CASE UNCHANGED <<drained, outcome>>
  BY <1>1, <1>2, <1>3, <1>4
<1>5. ASSUME NEW t \in Service, FirstReturns(t)
      PROVE  /\ s \in drained' => result'[s] # "none"
             /\ drained' = {s} => outcome' = result'[s]
  <2>1. result[t] # "none" /\ drained' = {t} /\ outcome' = result[t]
    BY <1>5 DEF FirstReturns
  <2> QED
    BY <1>3, <2>1
<1>6. ASSUME NEW t \in Service, Drain(t)
      PROVE  /\ s \in drained' => result'[s] # "none"
             /\ drained' = {s} => outcome' = result'[s]
  <2>1. result[t] # "none" /\ drained' = drained \cup {t} /\ t \notin drained /\ phase = "drain"
    BY <1>6 DEF Drain
  <2>2. drained # {}
    BY <2>1 DEF PhasesAreSound
  <2> QED
    BY <1>1, <1>3, <2>1, <2>2
<1>7. CASE UNCHANGED drained /\ phase \in Waiting
  BY <1>7 DEF PhasesAreSound
<1> QED
  BY <1>4, <1>5, <1>6, <1>7, MainReceives

LEMMA QuietNeedsSignal ==
    IInv /\ [Next]_vars => (outcome' \in {"nil", "canceled"} => signalled')
<1> SUFFICES ASSUME IInv, [Next]_vars, outcome' \in {"nil", "canceled"}
             PROVE  signalled'
  OBVIOUS
<1>1. outcome \in {"nil", "canceled"} => signalled
  BY DEF IInv
<1>2. signalled => signalled'
  <2> TypeOK /\ LoopsAreSpawned
    BY DEF IInv
  <2>1. CASE Start \/ Shutdown
    BY <2>1, MainSteps
  <2>2. CASE Signal \/ Gone \/ UNCHANGED vars
    BY <2>2 DEF Signal, Gone, vars
  <2>3. ASSUME NEW s \in Service, ServiceStep(s)
        PROVE  UNCHANGED signalled
    BY <2>3 DEF ServiceStep, TakeFirst, TakeSecond
  <2>4. ASSUME NEW s \in Service, NEW p \in Loops(s), LoopStep(s, p)
        PROVE  UNCHANGED signalled
    BY <2>4, LoopSteps
  <2> QED
    BY <2>1, <2>2, <2>3, <2>4 DEF Next
<1>3. ASSUME NEW s \in Service, FirstReturns(s)
      PROVE  signalled
  <2>1. phase = "serve" /\ result[s] # "none" /\ result[s] # "failed"
    BY <1>3 DEF FirstReturns, Advance
  <2>2. MainDone /\ Main \notin cancelled
    BY <2>1 DEF IInv, ServiceResults, PhasesAreSound
  <2> QED
    BY <2>2 DEF MainDone
<1>4. ASSUME NEW s \in Service, Drain(s)
      PROVE  UNCHANGED outcome
  BY <1>4 DEF Drain
<1> QED
  BY <1>1, <1>2, <1>3, <1>4, MainReceives

LEMMA InitIsSound == Init => IInv
<1> SUFFICES ASSUME Init
             PROVE  IInv
  OBVIOUS
<1> USE DEF Init
<1>1. TypeOK
  <2>1. PhasesOK
    BY DEF PhasesOK, Outcome
  <2>2. FlagsOK
    BY DEF FlagsOK
  <2>3. ServicesOK /\ LoopsOK
    BY DEF ServicesOK, LoopsOK, Outcome
  <2> QED
    BY <2>1, <2>2, <2>3 DEF TypeOK
<1>2. PhasesAreSound /\ LoopsAreAwaited
  BY DEF PhasesAreSound, LoopsAreAwaited, Waiting, Running
<1>3. LoopsAreSpawned /\ LoopsEndForAReason
  BY LoopsOfServices DEF LoopsAreSpawned, LoopsEndForAReason
<1>4. FirstResults /\ ServiceResults /\ MainResults
  BY DEF FirstResults, ServiceResults, MainResults
<1> QED
  BY <1>1, <1>2, <1>3, <1>4 DEF IInv

LEMMA InductiveInvariant == Spec => []IInv
<1>1. IInv /\ [Next]_vars => IInv'
  <2> SUFFICES ASSUME IInv, [Next]_vars
               PROVE  IInv'
    OBVIOUS
  <2>1. TypeOK'
    BY TypesHold DEF IInv
  <2>2. PhasesAreSound' /\ LoopsAreSpawned' /\ LoopsAreAwaited'
    BY PhasesStaySound, LoopsStaySpawned, LoopsStayAwaited
  <2>3. LoopsEndForAReason' /\ FirstResults' /\ ServiceResults' /\ MainResults'
    BY ReasonsStay, FirstResultsStay, ServiceResultsStay, MainResultsStay
  <2> QED
    BY <2>1, <2>2, <2>3, QuietNeedsSignal DEF IInv
<1> QED
  BY <1>1, InitIsSound, PTL DEF Spec

-----------------------------------------------------------------------------
\* Every variable keeps its type, however many services and failing reads there are.
THEOREM TypeCorrect == Spec => []TypeOK
BY InductiveInvariant, PTL DEF IInv

\* main closes MySQL and Redis after the last loop of the last service has returned.
THEOREM LoopsHaveConnections == Spec => []ConnectionsOutliveLoops
<1>1. IInv => ConnectionsOutliveLoops
  BY DEF IInv, LoopsAreAwaited, PhasesAreSound, ConnectionsOutliveLoops
<1> QED
  BY <1>1, InductiveInvariant, PTL

\* A process that reports no error was signalled, and hides no failure of the service it names.
THEOREM QuietExitsWereAsked == Spec => []QuietExitWasAsked
<1>1. IInv => QuietExitWasAsked
  <2> SUFFICES ASSUME IInv, outcome \in {"nil", "canceled"}
               PROVE  /\ signalled
                      /\ \A s \in Service :
                           drained = {s} => \A p \in Loops(s) : returned[p] = "canceled"
    BY DEF QuietExitWasAsked
  <2>1. signalled
    BY DEF IInv
  <2>2. ASSUME NEW s \in Service, drained = {s}
        PROVE  \A p \in Loops(s) : returned[p] = "canceled"
    <3>1. result[s] # "none" /\ result[s] # "failed"
      BY <2>2 DEF IInv, MainResults
    <3> QED
      BY <3>1 DEF IInv, ServiceResults
  <2> QED
    BY <2>1, <2>2
<1> QED
  BY <1>1, InductiveInvariant, PTL

=============================================================================
