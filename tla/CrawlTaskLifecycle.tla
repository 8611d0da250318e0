------------------------- MODULE CrawlTaskLifecycle -------------------------
(***************************************************************************)
(* What the pipeline promises of an accepted task, whatever happens to     *)
(* messages, workers and replies: attempts follow one another, each with a *)
(* number never used before; exactly one of them, the latest, ends the     *)
(* task; a success leaves the snapshot of that attempt and a failure none; *)
(* nothing changes afterwards; and every accepted task does end.           *)
(*                                                                         *)
(* There is no queue, lease, worker or fault here.                         *)
(***************************************************************************)
EXTENDS Naturals

CONSTANT Task

VARIABLES
    state,     \* "absent", "open", "succeeded" or "failed"
    attempt,   \* the number of the latest attempt, 0 before the first
    snapshot,  \* the attempt whose payload is the task's result, 0 for none
    attempts   \* how many attempts were started in all

vars == <<state, attempt, snapshot, attempts>>

Init ==
    /\ state = [t \in Task |-> "absent"]
    /\ attempt = [t \in Task |-> 0]
    /\ snapshot = [t \in Task |-> 0]
    /\ attempts = 0

Accept(t) ==
    /\ state[t] = "absent"
    /\ state' = [state EXCEPT ![t] = "open"]
    /\ UNCHANGED <<attempt, snapshot, attempts>>

Attempt(t) ==
    /\ state[t] = "open"
    /\ attempts' = attempts + 1
    /\ attempt' = [attempt EXCEPT ![t] = attempts']
    /\ UNCHANGED <<state, snapshot>>

Finish(t, outcome) ==
    /\ state[t] = "open"
    /\ attempt[t] # 0
    /\ state' = [state EXCEPT ![t] = outcome]
    /\ snapshot' = [snapshot EXCEPT ![t] = IF outcome = "succeeded" THEN attempt[t] ELSE 0]
    /\ UNCHANGED <<attempt, attempts>>

Next ==
    \E t \in Task :
        \/ Accept(t)
        \/ Attempt(t)
        \/ \E outcome \in {"succeeded", "failed"} : Finish(t, outcome)

Spec == Init /\ [][Next]_vars

\* An open task does not stay open.
EveryTaskEnds == \A t \in Task : state[t] = "open" ~> state[t] \in {"succeeded", "failed"}

LiveSpec == Spec /\ EveryTaskEnds

=============================================================================
