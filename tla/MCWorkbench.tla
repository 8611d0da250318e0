----------------------------- MODULE MCWorkbench -----------------------------
(* Instances of Workbench for TLC. *)
EXTENDS Workbench

CONSTANTS t1, t2, old

MCTask == {t1, t2}
MCMine == {t1}
MCOldTasks == <<old>>

\* Two rules, one of which has made the old run.
MCRuleOf == [t \in MCTask \cup {old} |-> IF t = t2 THEN "r2" ELSE "r1"]
MCRules == {[id |-> "r1", minItems |-> 1], [id |-> "r2", minItems |-> 2]}

Item(key, body) == [key |-> key, body |-> body]
Succeeded(payload) == [status |-> "succeeded", payload |-> payload]
Failed == [status |-> "failed", payload |-> NoPayload]

\* Two items; a changed one and another; two of one key; one without a key; what the old kind
\* of rule returns; a failure.
MCOldOutcomes ==
    {Succeeded(CollectionPayload("v1", <<Item("a", 1), Item("b", 1)>>)),
     Succeeded(CollectionPayload("v1", <<Item("a", 2), Item("c", 1)>>)),
     Succeeded(CollectionPayload("v1", <<Item("a", 1), Item("a", 2)>>)),
     Succeeded(CollectionPayload("v2", <<Item(NoKey, 1)>>)),
     Succeeded(LegacyPayload("v1")),
     Failed}

\* A new run of the rule that has an old one, and one of the other rule.
MCOutcomes == [t \in MCTask |->
    IF t = t1 THEN {Succeeded(CollectionPayload("v1", <<Item("a", 1), Item("b", 2)>>)), Failed}
              ELSE {Succeeded(CollectionPayload("v1", <<Item("a", 1)>>))}]

=============================================================================
