------------------------------- MODULE Dataset -------------------------------
(***************************************************************************)
(* What the workbench makes of the snapshots it has loaded (web/assets/    *)
(* analysis.js and workbench.js): the items of a payload, the latest and   *)
(* the previous run of a rule, the label of every row, the comparison of   *)
(* the two runs, and the health of the rule.                               *)
(*                                                                         *)
(* An item is a key, or NoKey, and a body that stands for its fields.  A   *)
(* payload is [form, version, items]; its form tells what JSON it is.      *)
(* Sequences of snapshots are newest first.  How old the newest run is,    *)
(* against the schedule of the rule, is one of Age.                        *)
(***************************************************************************)
EXTENDS Naturals, Sequences, FiniteSets

NoKey == "no key"
Age == {"fresh", "due", "overdue"}

\* What failed tasks have instead of a payload.
NoPayload == [form |-> "absent", version |-> "none", items |-> <<>>]

\* collection_result.go: a rule's result is stored as {"items": [...]} when it has items, and
\* as the fields of the old result, in capitals, when it has none.
CollectionPayload(version, items) == [form |-> "object", version |-> version, items |-> items]
LegacyPayload(version) == [form |-> "unknown", version |-> version, items |-> <<>>]

\* extractItems: an object with items, an array, or an object with the name or url of a
\* single item; everything else is an error.
ExtractionError(payload) ==
    IF payload.form \in {"absent", "object", "array", "single"} THEN "none" ELSE "missing_items"

RuleVersion(payload) == IF payload.form = "object" THEN payload.version ELSE "none"

normalizeSnapshot(record) ==
    [task       |-> record.task,
     rule       |-> record.rule,
     status     |-> record.status,
     items      |-> IF ExtractionError(record.payload) = "none" THEN record.payload.items ELSE <<>>,
     version    |-> RuleVersion(record.payload),
     parseError |-> ExtractionError(record.payload)]

\* The newest of the snapshots at these positions, two at most: nothing looks at a third.
First(positions) == CHOOSE i \in positions : \A j \in positions : i <= j

Newest(snapshots, positions) ==
    LET first == First(positions)
        rest  == positions \ {first}
    IN  CASE positions = {}                -> <<>>
          [] positions # {} /\ rest = {}   -> <<snapshots[first]>>
          [] OTHER                         -> <<snapshots[first], snapshots[First(rest)]>>

\* The runs of a rule, and those its rows can come from.
PositionsOf(snapshots, rule) == {i \in DOMAIN snapshots : snapshots[i].rule = rule.id}
IsObservation(s) == s.status = "succeeded" /\ s.parseError = "none"

RunsOf(snapshots, rule) == Newest(snapshots, PositionsOf(snapshots, rule))

-----------------------------------------------------------------------------
(* compareSnapshots.                                                       *)

KeysOf(items) == {items[i].key : i \in DOMAIN items} \ {NoKey}

\* A map keeps the last item of a key.
ItemOf(items, key) ==
    items[CHOOSE i \in DOMAIN items :
              items[i].key = key /\ \A j \in DOMAIN items : items[j].key = key => j <= i]

compareSnapshots(previous, current) ==
    LET earlier == KeysOf(previous.items)
        later   == KeysOf(current.items)
    IN  [added   |-> later \ earlier,
         removed |-> earlier \ later,
         changed |-> {key \in earlier \cap later :
                         ItemOf(previous.items, key) # ItemOf(current.items, key)},
         unkeyed |-> {i \in DOMAIN current.items : current.items[i].key = NoKey}]

-----------------------------------------------------------------------------
(* dataset, for one rule.                                                  *)

\* The observations of a rule; its rows are the items of the first.
History(snapshots, rule) ==
    Newest(snapshots, {i \in PositionsOf(snapshots, rule) : IsObservation(snapshots[i])})

ItemsOf(history) == IF history = <<>> THEN <<>> ELSE history[1].items

\* The run before is comparable when the same version of the rule made it.
HasPrevious(history) == Len(history) > 1 /\ history[1].version = history[2].version

missingKeys(items) == Cardinality({i \in DOMAIN items : items[i].key = NoKey})
duplicates(items)  == Len(items) - missingKeys(items) - Cardinality(KeysOf(items))

\* Mutation: items with the same key are compared one by one.
IsReliable_Duplicates(history) == HasPrevious(history) /\ missingKeys(ItemsOf(history)) = 0

IsReliable(history) ==
    /\ HasPrevious(history)
    /\ missingKeys(ItemsOf(history)) = 0 /\ duplicates(ItemsOf(history)) = 0

\* The change that the row of an item shows.
Change(history, item) ==
    IF ~IsReliable(history) THEN "baseline"
    ELSE IF item.key \notin KeysOf(history[2].items) THEN "added"
    ELSE IF item # ItemOf(history[2].items, item.key) THEN "changed"
    ELSE "stable"

-----------------------------------------------------------------------------
(* evaluateRuleHealth, and what dataset adds to it.                        *)

Successes(snapshots, rule) ==
    Newest(snapshots, {i \in PositionsOf(snapshots, rule) : snapshots[i].status = "succeeded"})

\* Mutation: only what failed after the last success counts as a failure of the rule.
Judged_Successes(snapshots, rule) ==
    IF Successes(snapshots, rule) = <<>> THEN RunsOf(snapshots, rule) ELSE Successes(snapshots, rule)

\* The runs whose first one decides whether the rule is failing.
Judged(snapshots, rule) == RunsOf(snapshots, rule)

evaluateRuleHealth(snapshots, rule, age) ==
    LET runs == Judged(snapshots, rule)
    IN  CASE runs = <<>>                            -> "unknown"
          [] runs # <<>> /\ (\/ runs[1].status # "succeeded" \/ runs[1].parseError # "none"
                             \/ age = "overdue")    -> "failing"
          [] OTHER ->
               IF Len(Successes(snapshots, rule)[1].items) < rule.minItems \/ age = "due"
               THEN "degraded" ELSE "healthy"

Health(snapshots, rule, age) ==
    LET items  == ItemsOf(History(snapshots, rule))
        status == evaluateRuleHealth(snapshots, rule, age)
    IN  IF status = "healthy" /\ missingKeys(items) + duplicates(items) > 0
        THEN "degraded" ELSE status

=============================================================================
