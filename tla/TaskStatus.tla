----------------------------- MODULE TaskStatus -----------------------------
(***************************************************************************)
(* The life of a crawl task's status column (internal/task/status.go).     *)
(* "absent" is not a status of the program: it stands for "no row yet" in  *)
(* the modules that model the crawl_tasks table.                           *)
(***************************************************************************)
EXTENDS Naturals

CONSTANT Task  \* primary keys of crawl_tasks: the requests that may be accepted

ASSUME TaskAssumption == Task \subseteq Nat \ {0}

Status == {"pending", "queued", "running", "succeeded", "failed"}

CanTransition(from, to) ==
    \/ from = "pending" /\ to \in {"queued", "failed"}
    \/ from = "queued"  /\ to \in {"running", "failed"}
    \/ from = "running" /\ to \in {"succeeded", "failed"}

IsTerminal(status) == status \in {"succeeded", "failed"}

=============================================================================
