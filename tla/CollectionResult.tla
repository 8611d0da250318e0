--------------------------- MODULE CollectionResult ---------------------------
(***************************************************************************)
(* From what a Lua rule returns to the payload that is stored              *)
(* (decodeLuaResult in internal/engine/lua_engine.go, and                  *)
(* collection_result.go).                                                  *)
(*                                                                         *)
(* A Lua value is [type |-> "scalar", value |-> ...], a string, a boolean  *)
(* or a finite number; [type |-> "table", id |-> ...]; or one of a type    *)
(* that JSON cannot represent, an infinite number among them.  Heap maps   *)
(* the id of each table to its entries: those of string keys, those of     *)
(* integer keys, and whether it has a key of another kind.                 *)
(***************************************************************************)
EXTENDS Integers, FiniteSets

CONSTANTS
    MaxDepth,  \* 32 in the code
    Heap,      \* the tables of what rules return
    Returned   \* what they may return: tables, and values that are none

EntriesOf(table) ==
    {table.named[k] : k \in DOMAIN table.named} \cup {table.indexed[i] : i \in DOMAIN table.indexed}

Value == Returned \cup UNION {EntriesOf(Heap[id]) : id \in DOMAIN Heap}

ASSUME CollectionAssumption ==
    /\ MaxDepth \in Nat
    /\ \A id \in DOMAIN Heap : DOMAIN Heap[id].indexed \subseteq Int
    /\ \A v \in Value : v.type = "table" => v.id \in DOMAIN Heap

MaxIndex == 100000

Rejected == [form |-> "rejected"]
JSONScalar(value) == [form |-> "scalar", value |-> value]
JSONArray(elements) == [form |-> "array", elements |-> elements]
JSONObject(fields) == [form |-> "object", fields |-> fields]

\* Mutation: an array with holes passes.
IsArray_Sparse(indexed) == 1 \in DOMAIN indexed

\* The indices are those of an array without holes.
IsArray(indexed) == DOMAIN indexed = 1 .. Cardinality(DOMAIN indexed)

\* What becomes of a table whose entries are converted.
tableJSON(table, converted) ==
    LET object  == [k \in DOMAIN table.named |-> converted[table.named[k]]]
        numbers == [i \in DOMAIN table.indexed |-> converted[table.indexed[i]]]
        failure == \/ table.other
                   \/ \E v \in EntriesOf(table) : converted[v] = Rejected
                   \/ ~(DOMAIN numbers \subseteq 1 .. MaxIndex)
    IN  CASE failure -> Rejected
          [] ~failure /\ DOMAIN numbers = {} -> JSONObject(object)
          [] OTHER -> IF DOMAIN object = {} /\ IsArray(numbers)
                      THEN JSONArray(numbers) ELSE Rejected

\* levels is how many levels of nesting are left, and seen has the tables on the path to value: a
\* table is taken out again when it is left.
luaJSON[levels \in 0 .. MaxDepth + 1] ==
    [seen \in SUBSET DOMAIN Heap |-> [value \in Value |->
        CASE levels > 0 /\ value.type = "scalar" -> JSONScalar(value.value)
          [] levels > 0 /\ value.type = "table" /\ value.id \notin seen ->
               tableJSON(Heap[value.id], luaJSON[levels - 1][seen \cup {value.id}])
          [] OTHER -> Rejected]]

\* An empty table is an empty array here.
ItemsOrEmpty(items) ==
    IF items.form = "object" /\ DOMAIN items.fields = {} THEN JSONArray(items.fields) ELSE items

decodeCollection(value) ==
    LET payload == luaJSON[MaxDepth + 1][{}][value]
        items   == ItemsOrEmpty(payload.fields["items"])
    IN  IF /\ Heap[value.id].named["items"].type = "table"
           /\ payload.form = "object"
           /\ items.form = "array"
        THEN JSONObject([payload.fields EXCEPT !["items"] = items])
        ELSE Rejected

\* What a rule without items returns is stored as it ever was, if it has stars, which are a
\* number then.
legacyResult(value) ==
    IF "stars" \in DOMAIN Heap[value.id].named THEN [form |-> "legacy"] ELSE Rejected

\* The second value that the rule returns, after true.
decodeLuaResult(value) ==
    CASE value.type # "table" -> Rejected
      [] value.type = "table" /\ "items" \in DOMAIN Heap[value.id].named -> decodeCollection(value)
      [] OTHER -> legacyResult(value)

-----------------------------------------------------------------------------
(* The reference: when JSON can say what a value is, and what it says.     *)

\* The values found by following exactly n entries.
Below[n \in 0 .. MaxDepth + 1] ==
    [v \in Value |->
        IF n = 0 THEN {v}
        ELSE IF v.type = "table" THEN UNION {Below[n - 1][w] : w \in EntriesOf(Heap[v.id])} ELSE {}]

\* Indices from 1 on, without a hole, and no more than the code takes.
IsList(indexed) == \A i \in DOMAIN indexed : i \in 1 .. MaxIndex /\ 1 .. i \subseteq DOMAIN indexed

\* A scalar, an object or an array, whatever its entries are.
HasForm(v) ==
    \/ v.type = "scalar"
    \/ /\ v.type = "table" /\ ~Heap[v.id].other
       /\ \/ DOMAIN Heap[v.id].indexed = {}
          \/ DOMAIN Heap[v.id].named = {} /\ IsList(Heap[v.id].indexed)

\* No path is longer than MaxDepth, which excludes cycles, and every value on one has a form.
IsRepresentable(v) ==
    /\ Below[MaxDepth + 1][v] = {}
    /\ \A n \in 0 .. MaxDepth : \A w \in Below[n][v] : HasForm(w)

\* The JSON text of a value that has one, to a depth of n levels.
Text[n \in 0 .. MaxDepth + 1] ==
    [v \in Value |->
        CASE n > 0 /\ v.type = "scalar" -> JSONScalar(v.value)
          [] n > 0 /\ v.type = "table" ->
               LET table      == Heap[v.id]
                   Texts(part) == [k \in DOMAIN part |-> Text[n - 1][part[k]]]
               IN  IF DOMAIN table.indexed = {} THEN JSONObject(Texts(table.named))
                   ELSE JSONArray(Texts(table.indexed))
          [] OTHER -> Rejected]

\* The text of a collection, whose items are an array even when there are none.
CollectionText(value) ==
    LET named == Heap[value.id].named
        items == Heap[named["items"].id].indexed
    IN  JSONObject([k \in DOMAIN named |->
            IF k = "items" THEN JSONArray([i \in DOMAIN items |-> Text[MaxDepth - 1][items[i]]])
            ELSE Text[MaxDepth][named[k]]])

=============================================================================
