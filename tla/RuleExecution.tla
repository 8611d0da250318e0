---------------------------- MODULE RuleExecution ----------------------------
(***************************************************************************)
(* ExecuteTask with what its rule returns (internal/engine/lua_engine.go,  *)
(* collection_result.go): RuleSelection, and what is stored of the result. *)
(***************************************************************************)
EXTENDS RuleSelection, CollectionResult

VARIABLE result   \* what the rule of the attempt has returned, and the payload made of it

executionVars == <<selectionVars, result>>

NoResult == [returned |-> [type |-> "nothing"], payload |-> Rejected]

InitExecution == InitSelection /\ result = NoResult

-----------------------------------------------------------------------------
\* The rule returns true and a value.
RunRule(value) ==
    LET payload == decodeLuaResult(value)
    IN  /\ RuleReturns(payload # Rejected)
        /\ result' = [returned |-> value, payload |-> payload]

BeginAttempt == (Restart \/ \E t \in Target : ReadCache(t)) /\ result' = NoResult

SelectRule == ListRuleDefinitions \/ ReadScript \/ RuleFails

NextExecution ==
    \/ BeginAttempt
    \/ (RuleCache \/ EditRules \/ SelectRule) /\ UNCHANGED result
    \/ \E value \in Returned : RunRule(value)

\* As in ScriptCache, only the watching goroutine owes anything.
ExecutionSpec ==
    /\ InitExecution /\ [][NextExecution]_executionVars
    /\ WF_vars(Reload /\ UNCHANGED <<rulesFile, attempt, result>>)

-----------------------------------------------------------------------------
\* A collection is stored if and only if JSON can say what it is, and its items are an array;
\* what is stored then says it.
CollectionsAreFaithful ==
    LET value    == result.returned
        items    == Heap[value.id].named["items"]
        storable == /\ IsRepresentable(value)
                    /\ items.type = "table" /\ DOMAIN Heap[items.id].named = {}
    IN  value.type = "table" /\ "items" \in DOMAIN Heap[value.id].named =>
            /\ storable <=> attempt.pc = "stored"
            /\ storable => result.payload = CollectionText(value)

=============================================================================
