--------------------------- MODULE MCRuleExecution ---------------------------
(* Instances of RuleExecution for TLC: a heap with a table of every kind. *)
EXTENDS RuleExecution, Sequences, TLC

S == [type |-> "scalar", value |-> "text"]
Infinite == [type |-> "number"]
Function == [type |-> "function"]
Table(id) == [type |-> "table", id |-> id]

Entries(named, indexed) == [named |-> named, indexed |-> indexed, other |-> FALSE]
Object(named) == Entries(named, <<>>)
Array(indexed) == Entries(<<>>, indexed)
Items(id) == Object([items |-> Table(id), meta |-> S])

Contents ==
    [none       |-> Array(<<>>),
     item       |-> Object([title |-> S, score |-> S]),
     list       |-> Array(<<Table("item"), S>>),
     twice      |-> Array(<<Table("item"), Table("item")>>),
     loop       |-> Array(<<Table("loop")>>),
     sparse     |-> Array((1 :> Table("item")) @@ (3 :> Table("item"))),
     zero       |-> Array((0 :> Table("item")) @@ (1 :> Table("item"))),
     mixed      |-> Entries([title |-> S], <<Table("item")>>),
     functions  |-> Array(<<Function>>),
     infinite   |-> Array(<<Infinite>>),
     boolKey    |-> [Array(<<S>>) EXCEPT !.other = TRUE],
     nested     |-> Array(<<Table("list")>>),
     tooDeep    |-> Array(<<Table("nested")>>)]

\* Collections, a root with an index, items that are no table, results of the old kind with
\* and without stars.
Roots ==
    [id \in {"of_" \o c : c \in DOMAIN Contents} |->
        Items(CHOOSE c \in DOMAIN Contents : id = "of_" \o c)]
    @@ [indexedRoot |-> Entries([items |-> Table("list")], <<S>>),
        noTable     |-> Object([items |-> S]),
        stars       |-> Object([stars |-> S]),
        noStars     |-> Object([url |-> S])]

MCHeap == Contents @@ Roots
MCReturned == {Table(id) : id \in DOMAIN Roots} \cup {S, Function}

=============================================================================
