---------------------------- MODULE RuleSelection ----------------------------
(***************************************************************************)
(* ExecuteTask (internal/engine/task_execution.go) while rules are edited: *)
(* which rule runs for a task.                                             *)
(*                                                                         *)
(* A target that rules.yaml lists has a rule file of its own, which is     *)
(* read for every task; the others have the rule in memory.  The rule in   *)
(* memory is also the own rule of Shared, as it is in the configuration of *)
(* the repository; the files of the other listed targets are not edited.   *)
(* rules.yaml is "broken" while an editor has truncated it, or when it     *)
(* does not parse or misses a field.                                       *)
(***************************************************************************)
EXTENDS ScriptCache

CONSTANTS
    Target,   \* the targets of tasks
    Listed,   \* those that rules.yaml lists
    Shared    \* the one whose rule file is the one in memory

ASSUME TargetAssumption == Listed \subseteq Target /\ Shared \in Listed

VARIABLES
    rulesFile,  \* "whole" or "broken"
    attempt     \* the task that a worker executes, or has executed

selectionVars == <<vars, rulesFile, attempt>>

\* A rule is a file and a version of its content.
Rule(t, version) == [file |-> t, version |-> version]

\* since is the version of the target's own file when the attempt began, and readable tells
\* whether it could read rules.yaml.
NoAttempt == [pc |-> "idle", target |-> Shared, script |-> Rule(Shared, 1), since |-> 1,
              readable |-> TRUE]

InitSelection == Init /\ rulesFile = "whole" /\ attempt = NoAttempt

-----------------------------------------------------------------------------
\* rules.yaml is edited in place.
EditRules ==
    /\ rulesFile' = IF rulesFile = "whole" THEN "broken" ELSE "whole"
    /\ UNCHANGED <<vars, attempt>>

Goto(pc, changes) == attempt' = [changes EXCEPT !.pc = pc]

OwnRule(t) == Rule(t, IF t = Shared THEN file ELSE 1)

\* Tasks are executed once InitLuaEngine has returned.  A reload holds ScriptMutex: the rule in
\* memory is read before or after it.
ReadCache(t) ==
    /\ watch # "none" /\ ~loading
    /\ attempt.pc \in {"idle", "stored", "failed"}
    /\ Goto("cached", [NoAttempt EXCEPT !.target = t, !.script = Rule(Shared, cache),
                                        !.since = OwnRule(t).version])
    /\ UNCHANGED <<vars, rulesFile>>

\* Without rules.yaml every target is taken for one that is not listed.
ListRuleDefinitions ==
    /\ attempt.pc = "cached"
    /\ Goto(IF rulesFile = "whole" /\ attempt.target \in Listed THEN "listed" ELSE "chosen",
            [attempt EXCEPT !.readable = rulesFile = "whole"])
    /\ UNCHANGED <<vars, rulesFile>>

\* Mutation: the file is not read again if it is the one in memory.
ScriptOf_Cached(t) == IF t = Shared THEN attempt.script ELSE OwnRule(t)

ScriptOf(t) == OwnRule(t)

ReadScript ==
    /\ attempt.pc = "listed"
    /\ IF attempt.target = Shared /\ ~present
       THEN Goto("failed", attempt)
       ELSE Goto("chosen", [attempt EXCEPT !.script = ScriptOf(attempt.target)])
    /\ UNCHANGED <<vars, rulesFile>>

\* There is no rule, or only the beginning of one; or it fails, or takes too long.
RuleFails ==
    /\ attempt.pc = "chosen"
    /\ Goto("failed", attempt)
    /\ UNCHANGED <<vars, rulesFile>>

\* The rule returns, and its result is accepted or rejected.
RuleReturns(accepted) ==
    /\ attempt.pc = "chosen" /\ attempt.script.version # Partial
    /\ Goto(IF accepted THEN "stored" ELSE "failed", attempt)
    /\ UNCHANGED <<vars, rulesFile>>

\* Everything that leaves the attempt alone, ...
RuleCache == (Edit \/ Reload \/ Watch) /\ UNCHANGED <<rulesFile, attempt>>

\* ... and a new process, which knows nothing of it.
Restart == InitLuaEngine /\ attempt' = NoAttempt /\ UNCHANGED rulesFile

NextSelection ==
    \/ RuleCache \/ EditRules \/ Restart
    \/ \E t \in Target : ReadCache(t)
    \/ ListRuleDefinitions \/ ReadScript \/ RuleFails
    \/ \E accepted \in BOOLEAN : RuleReturns(accepted)

SelectionSpec == InitSelection /\ [][NextSelection]_selectionVars

-----------------------------------------------------------------------------
\* "Registered rules read their local script when the task is executed": whatever became of the
\* watch and of the rule in memory, what is stored for a listed target was made by its own
\* rule, in no older version than the file had when the attempt began - if rules.yaml could be
\* read.
ListedTargetsRunTheirRule ==
    attempt.pc = "stored" /\ attempt.target \in Listed /\ attempt.readable =>
        attempt.script.file = attempt.target /\ attempt.script.version >= attempt.since

=============================================================================
