------------------------ MODULE RuleExecution_proofs ------------------------
(***************************************************************************)
(* The rule in memory follows the watched file, a listed target runs its   *)
(* own rule, and a collection is stored when JSON can say what it is: for  *)
(* any number of edits, any targets, any heap and any depth.               *)
(***************************************************************************)
EXTENDS RuleExecution, FiniteSetTheorems, WellFoundedInduction, TLAPS

USE EditAssumption, TargetAssumption

-----------------------------------------------------------------------------
(* The rule cache by itself.                                               *)

\* The contents of the file, of the buffer and of the cache are versions.
LEMMA ContentCorrect == Spec => []ContentOK
<1>1. Init => ContentOK
  BY DEF Init, ContentOK, Content, Partial
<1>2. ContentOK /\ [Next]_vars => ContentOK'
  <2> SUFFICES ASSUME ContentOK, [Next]_vars
               PROVE  ContentOK'
    OBVIOUS
  <2> USE DEF ContentOK, Content, Partial
  <2>1. CASE Truncate
    BY <2>1 DEF Truncate, BeginEdit
  <2>2. CASE Write
    BY <2>2 DEF Write
  <2>3. CASE Replace
    BY <2>3 DEF Replace, BeginEdit
  <2>4. CASE MoveAway
    BY <2>4 DEF MoveAway, BeginEdit
  <2>5. CASE Create
    BY <2>5 DEF Create
  <2>6. CASE Reload \/ Watch \/ InitLuaEngine
    BY <2>6 DEF Reload, ReadRule, ReadFails, Install, LoadedScript, Watch, AddWatch,
                NewWatcherFails, InitLuaEngine
  <2>7. CASE UNCHANGED vars
    BY <2>7 DEF vars
  <2>8. QED
    BY <2>1, <2>2, <2>3, <2>4, <2>5, <2>6, <2>7 DEF Next, Edit
<1>3. QED
  BY <1>1, <1>2, PTL DEF Spec

\* The flags are Booleans.
LEMMA FlagsCorrect == Spec => []FlagsOK
<1>1. Init => FlagsOK
  BY Zenon DEF Init, FlagsOK
<1>2. FlagsOK /\ [Next]_vars => FlagsOK'
  <2> SUFFICES ASSUME FlagsOK, [Next]_vars
               PROVE  FlagsOK'
    OBVIOUS
  <2> USE DEF FlagsOK
  <2>1. CASE Edit
    BY <2>1, Zenon DEF Edit, Truncate, Write, Replace, MoveAway, Create, EventAfterWrite
  <2>2. CASE Reload \/ Watch \/ InitLuaEngine
    BY <2>2, Zenon DEF Reload, ReadRule, ReadFails, Install, Watch, AddWatch, NewWatcherFails,
                       InitLuaEngine
  <2>3. CASE UNCHANGED vars
    BY <2>3, Zenon DEF vars
  <2>4. QED
    BY <2>1, <2>2, <2>3 DEF Next
<1>3. QED
  BY <1>1, <1>2, PTL DEF Spec

LEMMA WatchCorrect == Spec => [](watch \in {"none", "on", "ended"})
<1> DEFINE WatchOK == watch \in {"none", "on", "ended"}
<1>1. Init => WatchOK
  BY DEF Init
<1>2. WatchOK /\ [Next]_vars => WatchOK'
  BY DEF Next, Edit, Truncate, Write, Replace, MoveAway, WatchEnds, Create, Reload, ReadRule,
         ReadFails, Install, Watch, AddWatch, NewWatcherFails, InitLuaEngine, vars
<1> HIDE DEF WatchOK
<1>3. Spec => []WatchOK
  BY <1>1, <1>2, PTL DEF Spec
<1>4. QED
  BY <1>3 DEF WatchOK

\* Every variable of the rule cache keeps its type.
THEOREM TypeCorrect == Spec => []TypeOK
BY ContentCorrect, FlagsCorrect, WatchCorrect, PTL DEF TypeOK

\* Only a file that is there is watched.
WatchNeedsFile == watch = "on" => present

\* Nothing is loaded again before the watch.
QuietBeforeWatch == watch = "none" => ~event /\ ~loading

\* What a reload has read is the file, or there is another event.
LoadIsNoticed == watch = "on" /\ loading => event \/ data = file

IInv == WatchNeedsFile /\ QuietBeforeWatch /\ LoadIsNoticed /\ StaleRuleIsNoticed

\* A write that comes while reloadScript runs raises another event, so that no reload leaves a
\* rule behind that nothing will replace.
THEOREM StaleRulesAreNoticed == Spec => []StaleRuleIsNoticed
<1>1. Init => IInv
  BY Zenon DEF Init, IInv, WatchNeedsFile, QuietBeforeWatch, LoadIsNoticed, StaleRuleIsNoticed
<1>2. IInv /\ [Next]_vars => IInv'
  <2> SUFFICES ASSUME IInv, [Next]_vars
               PROVE  IInv'
    OBVIOUS
  <2> USE DEF IInv, WatchNeedsFile, QuietBeforeWatch, LoadIsNoticed, StaleRuleIsNoticed
  <2>1. CASE Truncate
    BY <2>1, Zenon DEF Truncate, EventAfterWrite
  <2>2. CASE Write
    BY <2>2, Zenon DEF Write, EventAfterWrite
  <2>3. CASE Replace \/ MoveAway
    <3>1. watch' # "on" /\ (watch' = "none" => watch = "none")
      BY <2>3 DEF Replace, MoveAway, WatchEnds
    <3>2. event' = event /\ loading' = loading
      BY <2>3, Zenon DEF Replace, MoveAway
    <3>3. QED
      BY <3>1, <3>2, Zenon
  <2>4. CASE Create
    BY <2>4, Zenon DEF Create
  <2>5. CASE ReadRule
    BY <2>5, Zenon DEF ReadRule
  <2>6. CASE ReadFails
    BY <2>6, Zenon DEF ReadFails
  <2>7. CASE Install
    BY <2>7, Zenon DEF Install, LoadedScript
  <2>8. CASE AddWatch
    BY <2>8, Zenon DEF AddWatch
  <2>9. CASE NewWatcherFails \/ InitLuaEngine
    BY <2>9, Zenon DEF NewWatcherFails, InitLuaEngine
  <2>10. CASE UNCHANGED vars
    BY <2>10, Zenon DEF vars
  <2>11. QED
    BY <2>1, <2>2, <2>3, <2>4, <2>5, <2>6, <2>7, <2>8, <2>9, <2>10 DEF Next, Edit, Reload, Watch
<1>3. QED
  BY <1>1, <1>2, PTL DEF Spec, IInv

-----------------------------------------------------------------------------
(* The rule that an attempt runs.                                          *)

\* Attempts only look at the rule cache, and a restart is one of its own steps.
THEOREM SelectionKeepsTheCache == SelectionSpec => Spec
<1>1. InitSelection => Init
  BY DEF InitSelection
<1>2. [NextSelection]_selectionVars => [Next]_vars
  BY DEF NextSelection, RuleCache, EditRules, Restart, ReadCache, ListRuleDefinitions, ReadScript,
         RuleFails, RuleReturns, Next, selectionVars
<1>3. QED
  BY <1>1, <1>2, PTL DEF SelectionSpec, Spec

\* A file that is there is partial or the newest version; one that was moved away was no newer.
FileIsNewest ==
    /\ present => file \in {Partial, edits + 1}
    /\ file <= edits + 1

\* The own file of the attempt has not become older since it began.
SinceIsPast == attempt.since <= (IF attempt.target = Shared THEN edits + 1 ELSE 1)

\* A target is only looked up when it is listed.
LookedUpIsListed == attempt.pc = "listed" => attempt.target \in Listed

\* The rule that was chosen for a listed target is its own, and partial or not too old.
ChosenIsOwn ==
    attempt.pc = "chosen" /\ attempt.target \in Listed /\ attempt.readable =>
        /\ attempt.script.file = attempt.target
        /\ attempt.script.version = Partial \/ attempt.script.version >= attempt.since

SelectionInv ==
    FileIsNewest /\ SinceIsPast /\ LookedUpIsListed /\ ChosenIsOwn /\ ListedTargetsRunTheirRule

Attempts ==
    [pc : {"idle", "cached", "listed", "chosen", "stored", "failed"}, target : Target,
     script : [file : Target, version : Nat], since : Nat, readable : BOOLEAN]

AttemptOK == attempt \in Attempts

LEMMA NoAttemptIsIdle ==
    NoAttempt \in Attempts /\ NoAttempt.pc = "idle" /\ NoAttempt.target = Shared /\ NoAttempt.since = 1
BY DEF NoAttempt, Attempts, Rule

LEMMA InitSatisfiesSelectionInv == InitSelection => ContentOK /\ AttemptOK /\ SelectionInv
BY DEF InitSelection, Init, ContentOK, Content, Partial, AttemptOK, Attempts, NoAttempt, Rule,
       SelectionInv, FileIsNewest, SinceIsPast, LookedUpIsListed, ChosenIsOwn,
       ListedTargetsRunTheirRule

LEMMA StepsKeepAttempts == ContentOK /\ AttemptOK /\ [NextSelection]_selectionVars => AttemptOK'
<1> SUFFICES ASSUME ContentOK, AttemptOK, [NextSelection]_selectionVars
             PROVE  AttemptOK'
  OBVIOUS
<1> USE DEF AttemptOK, Attempts
<1>1. file \in Nat /\ cache \in Nat
  BY DEF ContentOK, Content, Partial
<1>2. CASE Restart
  BY <1>2, NoAttemptIsIdle DEF Restart
<1>3. CASE \E t \in Target : ReadCache(t)
  <2>1. PICK t \in Target : ReadCache(t)
    BY <1>3
  <2>2. Rule(Shared, cache) \in [file : Target, version : Nat] /\ OwnRule(t).version \in Nat
    BY <1>1 DEF Rule, OwnRule
  <2>3. attempt' = [NoAttempt EXCEPT !.target = t, !.script = Rule(Shared, cache),
                                     !.since = OwnRule(t).version, !.pc = "cached"]
    BY <2>1, NoAttemptIsIdle DEF ReadCache, Goto
  <2>4. QED
    BY <2>2, <2>3, NoAttemptIsIdle
<1>4. CASE ListRuleDefinitions
  <2> DEFINE whole == rulesFile = "whole"
  <2>1. whole \in BOOLEAN
    OBVIOUS
  <2>2. \E pc \in {"listed", "chosen"} : attempt' = [attempt EXCEPT !.readable = whole, !.pc = pc]
    BY <1>4 DEF ListRuleDefinitions, Goto
  <2> HIDE DEF whole
  <2>3. QED
    BY <2>1, <2>2
<1>5. CASE ReadScript
  <2>1. OwnRule(attempt.target) \in [file : Target, version : Nat]
    BY <1>1 DEF Rule, OwnRule
  <2>2. \/ attempt' = [attempt EXCEPT !.pc = "failed"]
        \/ attempt' = [attempt EXCEPT !.script = OwnRule(attempt.target), !.pc = "chosen"]
    BY <1>5 DEF ReadScript, Goto, ScriptOf
  <2>3. QED
    BY <2>1, <2>2
<1>6. CASE RuleFails \/ \E accepted \in BOOLEAN : RuleReturns(accepted)
  BY <1>6 DEF RuleFails, RuleReturns, Goto
<1>7. CASE RuleCache \/ EditRules \/ UNCHANGED selectionVars
  BY <1>7 DEF RuleCache, EditRules, selectionVars
<1>8. QED
  BY <1>2, <1>3, <1>4, <1>5, <1>6, <1>7 DEF NextSelection

\* Edits make newer versions: edits grows with each that is begun, and what one that moves the
\* file away leaves behind is older.
LEMMA FilesGrow ==
    ASSUME ContentOK, FileIsNewest, [Next]_vars
    PROVE  FileIsNewest' /\ edits' \in Nat /\ edits' >= edits
<1> USE DEF ContentOK, Content, Partial, FileIsNewest
<1>1. CASE Truncate
  BY <1>1 DEF Truncate, BeginEdit
<1>2. CASE Write
  BY <1>2 DEF Write
<1>3. CASE Replace
  BY <1>3 DEF Replace, BeginEdit
<1>4. CASE MoveAway
  BY <1>4 DEF MoveAway, BeginEdit
<1>5. CASE Create
  BY <1>5 DEF Create
<1>6. CASE Reload \/ Watch \/ InitLuaEngine \/ UNCHANGED vars
  BY <1>6 DEF Reload, ReadRule, ReadFails, Install, Watch, AddWatch, NewWatcherFails,
              InitLuaEngine, vars
<1>7. QED
  BY <1>1, <1>2, <1>3, <1>4, <1>5, <1>6 DEF Next, Edit

LEMMA StepsKeepSelectionInv ==
    ContentOK /\ AttemptOK /\ SelectionInv /\ [NextSelection]_selectionVars => SelectionInv'
<1> SUFFICES ASSUME ContentOK, AttemptOK, SelectionInv, [NextSelection]_selectionVars
             PROVE  SelectionInv'
  OBVIOUS
<1> USE DEF SelectionInv
<1>1. file \in Nat /\ edits \in Nat /\ attempt \in Attempts
  BY DEF ContentOK, Content, Partial, AttemptOK
<1>2. [Next]_vars
  BY DEF NextSelection, RuleCache, EditRules, Restart, ReadCache, ListRuleDefinitions, ReadScript,
         RuleFails, RuleReturns, Next, selectionVars
<1>3. FileIsNewest' /\ edits' \in Nat /\ edits' >= edits
  BY <1>2, FilesGrow
<1> USE DEF SinceIsPast, LookedUpIsListed, ChosenIsOwn, ListedTargetsRunTheirRule, Partial
<1>4. CASE Restart
  <2>1. attempt'.pc = "idle" /\ attempt'.target = Shared /\ attempt'.since = 1
    <3>1. attempt' = NoAttempt
      BY <1>4 DEF Restart
    <3>2. QED
      BY <3>1, NoAttemptIsIdle
  <2>2. SinceIsPast'
    <3>1. edits' \in Nat
      BY <1>3
    <3>2. \A n \in Nat : 1 <= n + 1
      OBVIOUS
    <3>3. 1 <= edits' + 1
      BY <3>1, <3>2
    <3>4. QED
      BY <2>1, <3>3
  <2>3. LookedUpIsListed' /\ ChosenIsOwn' /\ ListedTargetsRunTheirRule'
    BY <2>1
  <2>4. QED
    BY <1>3, <2>2, <2>3
<1>5. CASE \E t \in Target : ReadCache(t)
  <2>1. PICK t \in Target : ReadCache(t)
    BY <1>5
  <2>2. /\ attempt'.pc = "cached" /\ attempt'.target = t /\ edits' = edits
        /\ attempt'.since = IF t = Shared THEN file ELSE 1
    BY <2>1 DEF ReadCache, Goto, NoAttempt, Rule, OwnRule, vars
  <2>3. QED
    BY <1>1, <1>3, <2>2 DEF FileIsNewest
<1>6. CASE ListRuleDefinitions
  <2> DEFINE whole == rulesFile = "whole"
  <2>1. \/ attempt' = [attempt EXCEPT !.readable = whole, !.pc = "listed"] /\ attempt.target \in Listed
        \/ attempt' = [attempt EXCEPT !.readable = whole, !.pc = "chosen"]
              /\ (whole => attempt.target \notin Listed)
    BY <1>6 DEF ListRuleDefinitions, Goto
  <2>2. edits' = edits
    BY <1>6 DEF ListRuleDefinitions, vars
  <2> HIDE DEF whole
  <2>3. attempt'.target = attempt.target /\ attempt'.since = attempt.since
    BY <1>1, <2>1 DEF Attempts
  <2>4. \/ attempt'.pc = "listed" /\ attempt.target \in Listed
        \/ attempt'.pc = "chosen" /\ attempt'.readable = whole /\ (whole => attempt.target \notin Listed)
    BY <1>1, <2>1 DEF Attempts
  <2>5. SinceIsPast'
    BY <2>2, <2>3
  <2>6. LookedUpIsListed' /\ ListedTargetsRunTheirRule'
    BY <2>3, <2>4
  <2>7. ChosenIsOwn'
    BY <2>3, <2>4
  <2>8. QED
    BY <1>3, <2>5, <2>6, <2>7
<1>7. CASE ReadScript
  <2>1. edits' = edits /\ attempt.target \in Listed
    BY <1>7 DEF ReadScript, vars
  <2>2. attempt'.target = attempt.target /\ attempt'.since = attempt.since
    BY <1>1, <1>7 DEF ReadScript, Goto, Attempts
  <2>3. CASE attempt' = [attempt EXCEPT !.pc = "failed"]
    BY <1>1, <1>3, <2>1, <2>2, <2>3 DEF Attempts
  <2>4. CASE /\ attempt.target = Shared => present
             /\ attempt' = [attempt EXCEPT !.script = OwnRule(attempt.target), !.pc = "chosen"]
    <3>1. /\ attempt'.pc = "chosen" /\ attempt'.script.file = attempt.target
          /\ attempt'.script.version = IF attempt.target = Shared THEN file ELSE 1
      BY <1>1, <2>4 DEF OwnRule, Rule, Attempts
    <3>2. attempt.since \in Nat
      BY <1>1 DEF Attempts
    <3>3. \/ attempt'.script.version = Partial
          \/ attempt'.script.version >= attempt.since
      BY <1>1, <2>4, <3>1, <3>2 DEF FileIsNewest
    <3>4. QED
      BY <1>3, <2>1, <2>2, <3>1, <3>3
  <2>5. QED
    BY <1>7, <2>3, <2>4 DEF ReadScript, Goto, ScriptOf
<1>8. CASE RuleFails \/ \E accepted \in BOOLEAN : RuleReturns(accepted)
  BY <1>1, <1>3, <1>8 DEF RuleFails, RuleReturns, Goto, Attempts, vars
<1>9. CASE RuleCache \/ EditRules \/ UNCHANGED selectionVars
  BY <1>1, <1>3, <1>9 DEF RuleCache, EditRules, selectionVars, Attempts
<1>10. QED
  BY <1>3, <1>4, <1>5, <1>6, <1>7, <1>8, <1>9 DEF NextSelection

\* ExecuteTask reads the file of a listed target for every task (task_execution.go:22-34): however
\* the rule in memory, its watch and the files are edited meanwhile, a result is stored of the
\* target's own rule, in a version that is no older than the attempt.
THEOREM ListedTargetsRunTheirOwnRule == SelectionSpec => []ListedTargetsRunTheirRule
BY SelectionKeepsTheCache, ContentCorrect, InitSatisfiesSelectionInv, StepsKeepAttempts,
   StepsKeepSelectionInv, PTL DEF SelectionSpec, SelectionInv

-----------------------------------------------------------------------------
(* Induction over the levels of nesting.                                   *)

\* A set of numbers has a least one.
LEMMA LeastNumber ==
    ASSUME NEW S \in SUBSET Nat, S # {}
    PROVE  \E i \in S : \A j \in S : i <= j
<1>1. IsWellFoundedOn(OpToRel(<, Nat), Nat)
  BY NatLessThanWellFounded
<1>2. PICK i \in S : \A j \in S : ~(<<j, i>> \in OpToRel(<, Nat))
  BY <1>1, WFMin
<1>3. \A j \in S : ~(j < i)
  BY <1>2 DEF OpToRel
<1> QED
  BY <1>3

\* A set of numbers that has 0, and with each the next, has all of them.
LEMMA Induction ==
    ASSUME NEW S, 0 \in S, \A n \in Nat : n \in S => n + 1 \in S
    PROVE  Nat \subseteq S
<1> SUFFICES ASSUME Nat \ S # {} PROVE FALSE
  OBVIOUS
<1> DEFINE R == Nat \ S
<1>1. PICK m \in R : \A j \in R : m <= j
  BY LeastNumber
<1>3. \A j \in R : ~(j < m)
  BY <1>1
<1>4. m # 0 /\ m \in Nat
  OBVIOUS
<1>5. m - 1 \in Nat /\ m - 1 < m /\ (m - 1) + 1 = m
  BY <1>4
<1>6. m - 1 \in S
  BY <1>3, <1>5
<1>7. m \in S
  BY <1>5, <1>6
<1> QED
  BY <1>7

(***************************************************************************)
(* The recursive functions are what their equations say.  Each takes a     *)
(* number of levels to what a step makes of the level below.               *)
(***************************************************************************)
LuaStep(levels, below) ==
    [seen \in SUBSET DOMAIN Heap |-> [value \in Value |->
        CASE levels > 0 /\ value.type = "scalar" -> JSONScalar(value.value)
          [] levels > 0 /\ value.type = "table" /\ value.id \notin seen ->
               tableJSON(Heap[value.id], below[seen \cup {value.id}])
          [] OTHER -> Rejected]]

BelowStep(n, below) ==
    [v \in Value |->
        IF n = 0 THEN {v}
        ELSE IF v.type = "table" THEN UNION {below[w] : w \in EntriesOf(Heap[v.id])} ELSE {}]

TextStep(n, below) ==
    [v \in Value |->
        CASE n > 0 /\ v.type = "scalar" -> JSONScalar(v.value)
          [] n > 0 /\ v.type = "table" ->
               LET table      == Heap[v.id]
                   Texts(part) == [k \in DOMAIN part |-> below[part[k]]]
               IN  IF DOMAIN table.indexed = {} THEN JSONObject(Texts(table.named))
                   ELSE JSONArray(Texts(table.indexed))
          [] OTHER -> Rejected]

\* The three steps at once, and none at level 0 looks below.
Step(n, below) ==
    [lua |-> LuaStep(n, below.lua), below |-> BelowStep(n, below.below),
     text |-> TextStep(n, below.text)]

LEMMA LevelZero ==
    \A a, b : /\ LuaStep(0, a) = LuaStep(0, b) /\ BelowStep(0, a) = BelowStep(0, b)
              /\ TextStep(0, a) = TextStep(0, b)
<1>1. \A a, b : LuaStep(0, a) = LuaStep(0, b)
  BY DEF LuaStep
<1>2. \A a, b : BelowStep(0, a) = BelowStep(0, b)
  BY DEF BelowStep
<1>3. \A a, b : TextStep(0, a) = TextStep(0, b)
  BY DEF TextStep
<1> QED
  BY <1>1, <1>2, <1>3

\* Steps can be taken from level 0 to any other.
LEMMA StepsCompose == \A m \in Nat : \E g : g = [n \in 0 .. m |-> Step(n, g[n - 1])]
<1>1. \A a, b : Step(0, a) = Step(0, b)
  BY LevelZero DEF Step
<1> DEFINE S == {m \in Nat : \E g : g = [n \in 0 .. m |-> Step(n, g[n - 1])]}
<1>2. 0 \in S
  <2> DEFINE g == [n \in 0 .. 0 |-> Step(0, 0)]
  <2>1. g = [n \in 0 .. 0 |-> Step(n, g[n - 1])]
    BY <1>1
  <2> QED
    BY <2>1
<1>3. ASSUME NEW m \in Nat, m \in S
      PROVE  m + 1 \in S
  <2>1. PICK g : g = [n \in 0 .. m |-> Step(n, g[n - 1])]
    BY <1>3
  <2> DEFINE h == [n \in 0 .. m + 1 |-> IF n = m + 1 THEN Step(m + 1, g[m]) ELSE g[n]]
  <2>2. ASSUME NEW n \in 0 .. m + 1
        PROVE  h[n] = Step(n, h[n - 1])
    <3>1. CASE n = 0
      BY <1>1, <2>1, <3>1
    <3>2. CASE n = m + 1
      BY <3>2
    <3>3. CASE n \in 1 .. m
      <4>1. n \in 0 .. m /\ n - 1 \in 0 .. m + 1 /\ n # m + 1 /\ n - 1 # m + 1
        BY <3>3
      <4>2. h[n] = g[n] /\ h[n - 1] = g[n - 1]
        BY <4>1
      <4>3. g[n] = Step(n, g[n - 1])
        BY <2>1, <4>1
      <4> QED
        BY <4>2, <4>3
    <3> QED
      BY <3>1, <3>2, <3>3
  <2>3. h = [n \in 0 .. m + 1 |-> Step(n, h[n - 1])]
    BY <2>2
  <2> HIDE DEF h
  <2> QED
    BY <2>3
<1> HIDE DEF S
<1>4. Nat \subseteq S
  BY <1>2, <1>3, Induction
<1> QED
  BY <1>4 DEF S

\* A function that obeys an equation is the one that was defined by it.
LEMMA LuaEquation ==
    ASSUME NEW l, l = [n \in 0 .. MaxDepth + 1 |-> LuaStep(n, l[n - 1])]
    PROVE  luaJSON = [n \in 0 .. MaxDepth + 1 |-> LuaStep(n, luaJSON[n - 1])]
BY SMTT(30) DEF luaJSON, LuaStep

LEMMA BelowEquation ==
    ASSUME NEW b, b = [n \in 0 .. MaxDepth + 1 |-> BelowStep(n, b[n - 1])]
    PROVE  Below = [n \in 0 .. MaxDepth + 1 |-> BelowStep(n, Below[n - 1])]
<1>1. Below = CHOOSE g : g = [n \in 0 .. MaxDepth + 1 |-> BelowStep(n, g[n - 1])]
  BY SMTT(30) DEF Below, BelowStep
<1> QED
  BY <1>1, Zenon

LEMMA TextEquation ==
    ASSUME NEW t, t = [n \in 0 .. MaxDepth + 1 |-> TextStep(n, t[n - 1])]
    PROVE  Text = [n \in 0 .. MaxDepth + 1 |-> TextStep(n, Text[n - 1])]
BY SMTT(30) DEF Text, TextStep

\* There is one for each, so that the definitions mean what they say.
LEMMA FunctionsAreDefined ==
    /\ luaJSON = [n \in 0 .. MaxDepth + 1 |-> LuaStep(n, luaJSON[n - 1])]
    /\ Below = [n \in 0 .. MaxDepth + 1 |-> BelowStep(n, Below[n - 1])]
    /\ Text = [n \in 0 .. MaxDepth + 1 |-> TextStep(n, Text[n - 1])]
<1> DEFINE M == MaxDepth + 1
<1>1. MaxDepth \in Nat /\ M \in Nat
  BY CollectionAssumption
<1> HIDE DEF M
<1>2. PICK g : g = [n \in 0 .. M |-> Step(n, g[n - 1])]
  BY <1>1, StepsCompose
<1>3. ASSUME NEW n \in 0 .. M
      PROVE  /\ g[n].lua = LuaStep(n, g[n - 1].lua) /\ g[n].below = BelowStep(n, g[n - 1].below)
             /\ g[n].text = TextStep(n, g[n - 1].text)
  <2>1. g[n] = Step(n, g[n - 1])
    BY <1>2
  <2> QED
    BY <2>1 DEF Step
<1>4. ASSUME NEW n \in 0 .. M
      PROVE  n = 0 \/ n - 1 \in 0 .. M
  BY <1>1
<1>5. luaJSON = [n \in 0 .. M |-> LuaStep(n, luaJSON[n - 1])]
  <2> DEFINE l == [n \in 0 .. M |-> g[n].lua]
  <2>1. l = [n \in 0 .. M |-> LuaStep(n, l[n - 1])]
    BY <1>3, <1>4, LevelZero
  <2> HIDE DEF l
  <2> QED
    BY <2>1, LuaEquation DEF M
<1>6. Below = [n \in 0 .. M |-> BelowStep(n, Below[n - 1])]
  <2> DEFINE b == [n \in 0 .. M |-> g[n].below]
  <2>1. b = [n \in 0 .. M |-> BelowStep(n, b[n - 1])]
    BY <1>3, <1>4, LevelZero
  <2> HIDE DEF b
  <2> QED
    BY <2>1, BelowEquation DEF M
<1>7. Text = [n \in 0 .. M |-> TextStep(n, Text[n - 1])]
  <2> DEFINE t == [n \in 0 .. M |-> g[n].text]
  <2>1. t = [n \in 0 .. M |-> TextStep(n, t[n - 1])]
    BY <1>3, <1>4, LevelZero
  <2> HIDE DEF t
  <2> QED
    BY <2>1, TextEquation DEF M
<1> QED
  BY <1>5, <1>6, <1>7 DEF M

\* The entries of a table are values.
LEMMA EntriesAreValues ==
    \A v \in Value : v.type = "table" => v.id \in DOMAIN Heap /\ EntriesOf(Heap[v.id]) \subseteq Value
BY CollectionAssumption DEF Value

\* What is n entries below a value is n - 1 entries below one of its entries.
LEMMA BelowUnfolds ==
    \A v \in Value :
        /\ Below[0][v] = {v}
        /\ \A n \in 1 .. MaxDepth + 1 :
              /\ v.type # "table" => Below[n][v] = {}
              /\ v.type = "table" => \A w : w \in Below[n][v] <=>
                                        \E e \in EntriesOf(Heap[v.id]) : w \in Below[n - 1][e]
<1> SUFFICES ASSUME NEW v \in Value
             PROVE  /\ Below[0][v] = {v}
                    /\ \A n \in 1 .. MaxDepth + 1 :
                         /\ v.type # "table" => Below[n][v] = {}
                         /\ v.type = "table" => \A w : w \in Below[n][v] <=>
                                        \E e \in EntriesOf(Heap[v.id]) : w \in Below[n - 1][e]
  OBVIOUS
<1>1. MaxDepth \in Nat
  BY CollectionAssumption
<1>2. \A n \in 0 .. MaxDepth + 1 : Below[n] = BelowStep(n, Below[n - 1])
  BY FunctionsAreDefined
<1>3. Below[0][v] = {v}
  <2>1. Below[0] = BelowStep(0, Below[0 - 1])
    BY <1>1, <1>2
  <2> QED
    BY <2>1 DEF BelowStep
<1>4. ASSUME NEW n \in 1 .. MaxDepth + 1
      PROVE  /\ v.type # "table" => Below[n][v] = {}
             /\ v.type = "table" => \A w : w \in Below[n][v] <=>
                                        \E e \in EntriesOf(Heap[v.id]) : w \in Below[n - 1][e]
  <2>1. Below[n] = BelowStep(n, Below[n - 1]) /\ n # 0
    BY <1>1, <1>2
  <2> QED
    BY <2>1 DEF BelowStep
<1> QED
  BY <1>3, <1>4

\* What is below something that is below a value is below the value, ...
LEMMA BelowAdds ==
    ASSUME NEW n \in 0 .. MaxDepth + 1, NEW v \in Value, NEW w \in Below[n][v],
           NEW j \in 0 .. MaxDepth + 1 - n
    PROVE  w \in Value /\ (Below[j][w] # {} => Below[n + j][v] # {})
<1> DEFINE M == MaxDepth + 1
<1> DEFINE Adds(m) ==
      \A x \in Value : \A y \in Below[m][x] : \A k \in 0 .. M - m :
          y \in Value /\ (Below[k][y] # {} => Below[m + k][x] # {})
<1> DEFINE S == {m \in Nat : m \in 0 .. M => Adds(m)}
<1>1. MaxDepth \in Nat /\ M \in Nat
  BY CollectionAssumption
<1>2. 0 \in S
  <2> SUFFICES ASSUME NEW x \in Value, NEW y \in Below[0][x], NEW k \in 0 .. M - 0
               PROVE  y \in Value /\ (Below[k][y] # {} => Below[0 + k][x] # {})
    OBVIOUS
  <2>1. y = x /\ 0 + k = k
    BY <1>1, BelowUnfolds
  <2> QED
    BY <2>1
<1>3. ASSUME NEW m \in Nat, m \in S
      PROVE  m + 1 \in S
  <2> SUFFICES ASSUME m + 1 \in 0 .. M, NEW x \in Value, NEW y \in Below[m + 1][x],
                      NEW k \in 0 .. M - (m + 1)
               PROVE  y \in Value /\ (Below[k][y] # {} => Below[(m + 1) + k][x] # {})
    OBVIOUS
  <2>1. /\ m \in 0 .. M /\ m + 1 \in 1 .. MaxDepth + 1 /\ (m + 1) - 1 = m
        /\ k \in 0 .. M - m /\ (m + 1) + k \in 1 .. MaxDepth + 1 /\ ((m + 1) + k) - 1 = m + k
    BY <1>1
  <2>2. x.type = "table"
    BY <2>1, BelowUnfolds
  <2>3. PICK e \in EntriesOf(Heap[x.id]) : y \in Below[m][e]
    BY <2>1, <2>2, BelowUnfolds
  <2>4. e \in Value
    BY <2>2, EntriesAreValues
  <2> HIDE DEF M
  <2>5. y \in Value /\ (Below[k][y] # {} => Below[m + k][e] # {})
    BY <1>3, <2>1, <2>3, <2>4
  <2>6. ASSUME NEW z \in Below[m + k][e]
        PROVE  z \in Below[(m + 1) + k][x]
    BY <2>1, <2>2, <2>3, <2>6, BelowUnfolds
  <2> QED
    BY <2>5, <2>6
<1> HIDE DEF S
<1>4. Nat \subseteq S
  BY <1>2, <1>3, Induction
<1>5. n \in Nat
  BY <1>1
<1>6. Adds(n)
  BY <1>4, <1>5 DEF S
<1>7. j \in 0 .. M - n
  BY <1>1, <1>5
<1> QED
  BY <1>6, <1>7

\* ... and where there is nothing, there is nothing further down.
LEMMA BelowEnds ==
    ASSUME NEW n \in 0 .. MaxDepth + 1, NEW i \in 0 .. n, NEW v \in Value, Below[n][v] # {}
    PROVE  Below[i][v] # {}
<1> DEFINE M == MaxDepth + 1
<1> DEFINE Ends(m) == \A x \in Value : Below[m][x] # {} => \A k \in 0 .. m : Below[k][x] # {}
<1> DEFINE S == {m \in Nat : m \in 0 .. M => Ends(m)}
<1>1. MaxDepth \in Nat /\ M \in Nat
  BY CollectionAssumption
<1>2. 0 \in S
  OBVIOUS
<1>3. ASSUME NEW m \in Nat, m \in S
      PROVE  m + 1 \in S
  <2> SUFFICES ASSUME m + 1 \in 0 .. M, NEW x \in Value, Below[m + 1][x] # {}, NEW k \in 0 .. m + 1
               PROVE  Below[k][x] # {}
    OBVIOUS
  <2>1. m \in 0 .. M /\ m + 1 \in 1 .. MaxDepth + 1 /\ (m + 1) - 1 = m
    BY <1>1
  <2>2. PICK e \in EntriesOf(Heap[x.id]) : x.type = "table" /\ Below[m][e] # {}
    BY <2>1, BelowUnfolds
  <2>3. e \in Value
    BY <2>2, EntriesAreValues
  <2>4. CASE k = 0
    BY <2>4, BelowUnfolds
  <2>5. CASE k # 0
    <3>1. k - 1 \in 0 .. m /\ k \in 1 .. MaxDepth + 1
      BY <1>1, <2>5
    <3>2. Below[k - 1][e] # {}
      BY <1>3, <2>1, <2>2, <2>3, <3>1
    <3> QED
      BY <2>2, <3>1, <3>2, BelowUnfolds
  <2> QED
    BY <2>4, <2>5
<1> HIDE DEF S
<1>4. Nat \subseteq S
  BY <1>2, <1>3, Induction
<1>5. n \in Nat
  BY <1>1
<1>6. Ends(n)
  BY <1>4, <1>5 DEF S
<1> QED
  BY <1>6

\* So a table that everything below ends above some depth is not below itself.
LEMMA NoCycles ==
    ASSUME NEW d \in 0 .. MaxDepth + 1, NEW n \in 1 .. d, NEW v \in Value, NEW w \in Below[n][v],
           v.type = "table", w.type = "table", Below[d][v] = {}
    PROVE  w.id # v.id
<1> SUFFICES ASSUME w.id = v.id PROVE FALSE
  OBVIOUS
<1> DEFINE M == MaxDepth + 1
<1> DEFINE Empty == {m \in 0 .. M : Below[m][v] = {}}
<1>1. MaxDepth \in Nat /\ M \in Nat
  BY CollectionAssumption
<1>2. PICK m \in Empty : \A j \in Empty : m <= j
  <2>1. Empty \in SUBSET Nat /\ d \in Empty
    BY <1>1
  <2> HIDE DEF Empty
  <2> QED
    BY <2>1, LeastNumber
<1>3. n \in 1 .. M /\ m \in 0 .. M
  BY <1>1
<1>4. n < m
  <2> SUFFICES ASSUME m <= n PROVE FALSE
    BY <1>3
  <2>1. m \in 0 .. n /\ n \in 0 .. MaxDepth + 1
    BY <1>3
  <2>2. Below[m][v] # {}
    BY <2>1, BelowEnds
  <2> QED
    BY <2>2
<1>5. /\ n \in 0 .. MaxDepth + 1 /\ m - n \in 1 .. MaxDepth + 1 /\ m - n < m
      /\ n + (m - n) = m /\ m - n \in 0 .. MaxDepth + 1 - n
  BY <1>1, <1>3, <1>4
<1>6. Below[m - n][v] # {}
  <2> SUFFICES ASSUME Below[m - n][v] = {} PROVE FALSE
    OBVIOUS
  <2>1. m - n \in Empty
    BY <1>5
  <2>2. m <= m - n
    BY <1>2, <2>1
  <2> QED
    BY <1>3, <1>5, <2>2
<1>7. w \in Value
  BY <1>5, BelowAdds
<1>8. Below[m - n][w] # {}
  <2>1. PICK x \in Below[m - n][v] : TRUE
    BY <1>6
  <2>2. PICK e \in EntriesOf(Heap[v.id]) : x \in Below[(m - n) - 1][e]
    BY <1>5, <2>1, BelowUnfolds
  <2>3. x \in Below[m - n][w]
    BY <1>5, <1>7, <2>2, BelowUnfolds
  <2> QED
    BY <2>3
<1>9. Below[m][v] # {}
  BY <1>3, <1>5, <1>8, BelowAdds
<1> QED
  BY <1>9

\* Indices without a hole are an interval from 1 on.
LEMMA ListsAreArrays ==
    ASSUME NEW f, DOMAIN f \subseteq 1 .. MaxIndex
    PROVE  IsArray(f) <=> IsList(f)
<1> DEFINE D == DOMAIN f
<1>1. MaxIndex \in Nat
  BY DEF MaxIndex
<1>2. IsFiniteSet(D) /\ Cardinality(D) \in Nat
  <2>1. IsFiniteSet(1 .. MaxIndex)
    BY <1>1, FS_Interval
  <2> QED
    BY <2>1, FS_Subset, FS_CardinalityType
<1>3. ASSUME IsArray(f)
      PROVE  IsList(f)
  BY <1>1, <1>2, <1>3 DEF IsArray, IsList
<1>4. ASSUME IsList(f)
      PROVE  IsArray(f)
  <2> DEFINE Bounds == {k \in Nat : \A i \in D : i <= k}
  <2>1. Bounds \in SUBSET Nat /\ MaxIndex \in Bounds
    BY <1>1
  <2> HIDE DEF Bounds
  <2>2. PICK m \in Bounds : \A k \in Bounds : m <= k
    BY <2>1, LeastNumber
  <2>3. m \in Nat /\ \A i \in D : i \in 1 .. m
    BY <1>1, <2>2 DEF Bounds
  <2>4. m # 0 => m \in D
    <3> SUFFICES ASSUME m # 0, m \notin D PROVE FALSE
      OBVIOUS
    <3>1. m - 1 \in Nat /\ ~(m <= m - 1) /\ \A i \in D : i <= m - 1
      BY <2>3
    <3> QED
      BY <2>2, <3>1 DEF Bounds
  <2>5. D = 1 .. m
    <3>1. m # 0 => 1 .. m \subseteq D
      BY <1>4, <2>4 DEF IsList
    <3>2. m = 0 => 1 .. m = {}
      BY <2>3
    <3>3. 1 .. m \subseteq D /\ D \subseteq 1 .. m
      BY <2>3, <3>1, <3>2
    <3> QED
      BY <3>3
  <2>6. Cardinality(1 .. m) = m
    BY <2>3, FS_Interval
  <2> QED
    BY <2>5, <2>6 DEF IsArray
<1> QED
  BY <1>3, <1>4

\* What is converted is not rejected.
LEMMA FormsDiffer ==
    \A x : JSONScalar(x) # Rejected /\ JSONObject(x) # Rejected /\ JSONArray(x) # Rejected
<1>1. \A x : JSONScalar(x).form # "rejected" /\ JSONObject(x).form # "rejected"
            /\ JSONArray(x).form # "rejected"
  BY DEF JSONScalar, JSONObject, JSONArray
<1>2. Rejected.form = "rejected"
  BY DEF Rejected
<1> QED
  BY <1>1, <1>2

\* The array or the object of what the entries of a table become.
Converted(table, converted) ==
    IF DOMAIN table.indexed = {}
    THEN JSONObject([k \in DOMAIN table.named |-> converted[table.named[k]]])
    ELSE JSONArray([i \in DOMAIN table.indexed |-> converted[table.indexed[i]]])

\* A table is converted when it has a form and all its entries are converted.
LEMMA TablesConvert ==
    ASSUME NEW v \in Value, v.type = "table", NEW converted
    PROVE  /\ tableJSON(Heap[v.id], converted) # Rejected <=>
                HasForm(v) /\ \A e \in EntriesOf(Heap[v.id]) : converted[e] # Rejected
           /\ tableJSON(Heap[v.id], converted) # Rejected =>
                tableJSON(Heap[v.id], converted) = Converted(Heap[v.id], converted)
<1> DEFINE table == Heap[v.id]
<1> DEFINE numbers == [i \in DOMAIN table.indexed |-> converted[table.indexed[i]]]
<1> DEFINE Failure == \/ table.other
                      \/ \E e \in EntriesOf(table) : converted[e] = Rejected
                      \/ ~(DOMAIN numbers \subseteq 1 .. MaxIndex)
<1>1. DOMAIN numbers = DOMAIN table.indexed
  OBVIOUS
<1>2. HasForm(v) <=> /\ ~table.other
                     /\ \/ DOMAIN table.indexed = {}
                        \/ DOMAIN table.named = {} /\ IsList(table.indexed)
  BY DEF HasForm
<1>3. IsList(table.indexed) => DOMAIN table.indexed \subseteq 1 .. MaxIndex
  BY DEF IsList
<1>4. DOMAIN table.indexed \subseteq 1 .. MaxIndex => (IsArray(numbers) <=> IsList(table.indexed))
  <2> SUFFICES ASSUME DOMAIN numbers \subseteq 1 .. MaxIndex
               PROVE  IsArray(numbers) <=> IsList(table.indexed)
    BY <1>1
  <2>1. IsArray(numbers) <=> IsList(numbers)
    BY ListsAreArrays
  <2>2. IsList(numbers) <=> IsList(table.indexed)
    BY <1>1 DEF IsList
  <2> QED
    BY <2>1, <2>2
<1>5. tableJSON(table, converted) =
        CASE Failure -> Rejected
          [] ~Failure /\ DOMAIN numbers = {} ->
               JSONObject([k \in DOMAIN table.named |-> converted[table.named[k]]])
          [] OTHER -> IF DOMAIN table.named = {} /\ IsArray(numbers)
                      THEN JSONArray(numbers) ELSE Rejected
  BY DEF tableJSON
<1>6. \A x : JSONObject(x) # Rejected /\ JSONArray(x) # Rejected
  BY FormsDiffer, Zenon
<1>7. CASE Failure
  BY <1>1, <1>2, <1>3, <1>5, <1>7
<1>8. CASE ~Failure /\ DOMAIN numbers = {}
  BY <1>1, <1>2, <1>5, <1>6, <1>8 DEF Converted
<1>9. CASE ~Failure /\ DOMAIN numbers # {}
  <2>1. tableJSON(table, converted) =
          IF DOMAIN table.named = {} /\ IsArray(numbers) THEN JSONArray(numbers) ELSE Rejected
    BY <1>5, <1>9
  <2>2. IsArray(numbers) <=> IsList(table.indexed)
    BY <1>1, <1>4, <1>9
  <2> QED
    BY <1>1, <1>2, <1>6, <1>9, <2>1, <2>2 DEF Converted
<1> QED
  BY <1>7, <1>8, <1>9

\* Whether a value and what is below it have a form, to a depth of d levels, and no table of it
\* is among those that were seen.
Good(d, seen, v) ==
    /\ Below[d][v] = {}
    /\ \A n \in 0 .. d - 1 : \A w \in Below[n][v] :
          HasForm(w) /\ (w.type = "table" => w.id \notin seen)

\* A table is good when it has a form and its entries are good once it is seen itself.
LEMMA TablesAreGood ==
    ASSUME NEW d \in 0 .. MaxDepth, NEW seen \in SUBSET DOMAIN Heap,
           NEW v \in Value, v.type = "table", v.id \notin seen
    PROVE  Good(d + 1, seen, v) <=>
              HasForm(v) /\ \A e \in EntriesOf(Heap[v.id]) : Good(d, seen \cup {v.id}, e)
<1>1. MaxDepth \in Nat
  BY CollectionAssumption
<1>2. EntriesOf(Heap[v.id]) \subseteq Value
  BY EntriesAreValues
<1>3. /\ d + 1 \in 1 .. MaxDepth + 1 /\ d + 1 \in 0 .. MaxDepth + 1 /\ (d + 1) - 1 = d
      /\ 0 \in 0 .. (d + 1) - 1
  BY <1>1
<1>4. Below[d + 1][v] = {} <=> \A e \in EntriesOf(Heap[v.id]) : Below[d][e] = {}
  BY <1>3, BelowUnfolds
<1>5. ASSUME Good(d + 1, seen, v)
      PROVE  HasForm(v) /\ \A e \in EntriesOf(Heap[v.id]) : Good(d, seen \cup {v.id}, e)
  <2>1. HasForm(v)
    <3>1. v \in Below[0][v]
      BY BelowUnfolds
    <3> QED
      BY <1>3, <1>5, <3>1 DEF Good
  <2>2. ASSUME NEW e \in EntriesOf(Heap[v.id]), NEW n \in 0 .. d - 1, NEW w \in Below[n][e]
        PROVE  HasForm(w) /\ (w.type = "table" => w.id \notin seen \cup {v.id})
    <3>1. n + 1 \in 0 .. (d + 1) - 1 /\ n + 1 \in 1 .. MaxDepth + 1 /\ (n + 1) - 1 = n
          /\ n + 1 \in 1 .. d + 1
      BY <1>1
    <3>2. w \in Below[n + 1][v]
      BY <2>2, <3>1, BelowUnfolds
    <3>3. HasForm(w) /\ (w.type = "table" => w.id \notin seen)
      BY <1>5, <3>1, <3>2 DEF Good
    <3>4. Below[d + 1][v] = {}
      BY <1>5 DEF Good
    <3>5. w.type = "table" => w.id # v.id
      BY <1>3, <3>1, <3>2, <3>4, NoCycles
    <3> QED
      BY <3>3, <3>5
  <2>3. \A e \in EntriesOf(Heap[v.id]) : Below[d][e] = {}
    BY <1>4, <1>5 DEF Good
  <2> QED
    BY <2>1, <2>2, <2>3 DEF Good
<1>6. ASSUME HasForm(v), \A e \in EntriesOf(Heap[v.id]) : Good(d, seen \cup {v.id}, e)
      PROVE  Good(d + 1, seen, v)
  <2>1. Below[d + 1][v] = {}
    BY <1>4, <1>6 DEF Good
  <2>2. ASSUME NEW n \in 0 .. (d + 1) - 1, NEW w \in Below[n][v]
        PROVE  HasForm(w) /\ (w.type = "table" => w.id \notin seen)
    <3>1. CASE n = 0
      <4>1. w = v
        BY <3>1, BelowUnfolds
      <4> QED
        BY <1>6, <4>1
    <3>2. CASE n # 0
      <4>1. n \in 1 .. MaxDepth + 1 /\ n - 1 \in 0 .. d - 1
        BY <1>1, <3>2
      <4>2. PICK e \in EntriesOf(Heap[v.id]) : w \in Below[n - 1][e]
        BY <4>1, BelowUnfolds
      <4>3. Good(d, seen \cup {v.id}, e)
        BY <1>6
      <4> QED
        BY <4>1, <4>2, <4>3 DEF Good
    <3> QED
      BY <3>1, <3>2
  <2> QED
    BY <2>1, <2>2 DEF Good
<1> QED
  BY <1>5, <1>6

\* One level of luaJSON, ...
LEMMA LuaUnfolds ==
    ASSUME NEW n \in 0 .. MaxDepth + 1, NEW seen \in SUBSET DOMAIN Heap, NEW v \in Value
    PROVE  luaJSON[n][seen][v] =
             CASE n > 0 /\ v.type = "scalar" -> JSONScalar(v.value)
               [] n > 0 /\ v.type = "table" /\ v.id \notin seen ->
                    tableJSON(Heap[v.id], luaJSON[n - 1][seen \cup {v.id}])
               [] OTHER -> Rejected
<1>1. luaJSON[n] = LuaStep(n, luaJSON[n - 1])
  BY FunctionsAreDefined
<1> QED
  BY <1>1 DEF LuaStep

\* ... and of the text.
LEMMA TextUnfolds ==
    ASSUME NEW n \in 0 .. MaxDepth + 1, NEW v \in Value
    PROVE  Text[n][v] =
             CASE n > 0 /\ v.type = "scalar" -> JSONScalar(v.value)
               [] n > 0 /\ v.type = "table" -> Converted(Heap[v.id], Text[n - 1])
               [] OTHER -> Rejected
<1>1. Text[n] = TextStep(n, Text[n - 1])
  BY FunctionsAreDefined
<1> QED
  BY <1>1 DEF TextStep, Converted

\* luaJSON takes what is good, and what it makes of it is its text.
Faithful(d) ==
    \A seen \in SUBSET DOMAIN Heap : \A v \in Value :
        /\ luaJSON[d][seen][v] # Rejected <=> Good(d, seen, v)
        /\ Good(d, seen, v) => luaJSON[d][seen][v] = Text[d][v]

LEMMA FaithfulStep ==
    ASSUME NEW d \in 0 .. MaxDepth, Faithful(d)
    PROVE  Faithful(d + 1)
<1> SUFFICES ASSUME NEW seen \in SUBSET DOMAIN Heap, NEW v \in Value
             PROVE  /\ luaJSON[d + 1][seen][v] # Rejected <=> Good(d + 1, seen, v)
                    /\ Good(d + 1, seen, v) => luaJSON[d + 1][seen][v] = Text[d + 1][v]
  BY DEF Faithful
<1>1. /\ d + 1 \in 0 .. MaxDepth + 1 /\ d + 1 \in 1 .. MaxDepth + 1 /\ d + 1 > 0 /\ (d + 1) - 1 = d
      /\ 0 \in 0 .. (d + 1) - 1 /\ MaxDepth \in Nat
  BY CollectionAssumption
<1>2. Good(d + 1, seen, v) => HasForm(v) /\ (v.type = "table" => v.id \notin seen)
  BY <1>1, BelowUnfolds DEF Good
<1> DEFINE made == luaJSON[d + 1][seen][v]
<1> DEFINE below == luaJSON[d][seen \cup {v.id}]
<1>3. made = CASE v.type = "scalar" -> JSONScalar(v.value)
               [] v.type = "table" /\ v.id \notin seen -> tableJSON(Heap[v.id], below)
               [] OTHER -> Rejected
  BY <1>1, LuaUnfolds
<1>4. Text[d + 1][v] = CASE v.type = "scalar" -> JSONScalar(v.value)
                         [] v.type = "table" -> Converted(Heap[v.id], Text[d])
                         [] OTHER -> Rejected
  BY <1>1, TextUnfolds
<1> HIDE DEF made, below
<1>5. CASE v.type = "scalar"
  <2>1. made = JSONScalar(v.value) /\ Text[d + 1][v] = JSONScalar(v.value)
    BY <1>3, <1>4, <1>5
  <2>2. JSONScalar(v.value) # Rejected
    BY FormsDiffer
  <2>3. Good(d + 1, seen, v)
    <3>1. HasForm(v) /\ v.type # "table"
      BY <1>5 DEF HasForm
    <3>2. Below[d + 1][v] = {}
      BY <1>1, <3>1, BelowUnfolds
    <3>3. ASSUME NEW n \in 0 .. (d + 1) - 1, NEW w \in Below[n][v]
          PROVE  w = v
      <4>1. n = 0 \/ n \in 1 .. MaxDepth + 1
        BY <1>1
      <4> QED
        BY <3>1, <4>1, BelowUnfolds
    <3> QED
      BY <3>1, <3>2, <3>3 DEF Good
  <2> QED
    BY <2>1, <2>2, <2>3 DEF made
<1>6. CASE v.type = "table" /\ v.id \notin seen
  <2>1. made = tableJSON(Heap[v.id], below)
    BY <1>3, <1>6
  <2>2. EntriesOf(Heap[v.id]) \subseteq Value /\ seen \cup {v.id} \in SUBSET DOMAIN Heap
    BY <1>6, EntriesAreValues
  <2>3. \A e \in EntriesOf(Heap[v.id]) :
          /\ below[e] # Rejected <=> Good(d, seen \cup {v.id}, e)
          /\ Good(d, seen \cup {v.id}, e) => below[e] = Text[d][e]
    BY <2>2 DEF Faithful, below
  <2>4. made # Rejected <=> HasForm(v) /\ \A e \in EntriesOf(Heap[v.id]) : below[e] # Rejected
    BY <1>6, <2>1, TablesConvert
  <2>5. made # Rejected <=> Good(d + 1, seen, v)
    BY <1>6, <2>3, <2>4, TablesAreGood
  <2>6. ASSUME Good(d + 1, seen, v)
        PROVE  made = Text[d + 1][v]
    <3>1. made = Converted(Heap[v.id], below)
      BY <1>6, <2>1, <2>5, <2>6, TablesConvert
    <3>2. \A e \in EntriesOf(Heap[v.id]) : below[e] = Text[d][e]
      BY <2>3, <2>4, <2>5, <2>6
    <3>3. Converted(Heap[v.id], below) = Converted(Heap[v.id], Text[d])
      BY <3>2 DEF Converted, EntriesOf
    <3>4. Text[d + 1][v] = Converted(Heap[v.id], Text[d])
      BY <1>4, <1>6
    <3> QED
      BY <3>1, <3>3, <3>4
  <2> QED
    BY <2>5, <2>6 DEF made
<1>7. CASE v.type # "scalar" /\ ~(v.type = "table" /\ v.id \notin seen)
  <2>1. made = Rejected
    BY <1>3, <1>7
  <2>2. ~Good(d + 1, seen, v)
    BY <1>2, <1>7 DEF HasForm
  <2> QED
    BY <2>1, <2>2 DEF made
<1> QED
  BY <1>5, <1>6, <1>7

LEMMA LuaJSONIsFaithful == \A d \in 0 .. MaxDepth + 1 : Faithful(d)
<1>1. MaxDepth \in Nat
  BY CollectionAssumption
<1> DEFINE S == {d \in Nat : d \in 0 .. MaxDepth + 1 => Faithful(d)}
<1>2. 0 \in S
  <2>1. 0 \in 0 .. MaxDepth + 1
    BY <1>1
  <2>2. ASSUME NEW seen \in SUBSET DOMAIN Heap, NEW v \in Value
        PROVE  luaJSON[0][seen][v] = Rejected /\ ~Good(0, seen, v)
    <3>1. luaJSON[0][seen][v] = Rejected
      <4>1. luaJSON[0] = LuaStep(0, luaJSON[0 - 1])
        BY <2>1, FunctionsAreDefined
      <4> QED
        BY <4>1 DEF LuaStep
    <3>2. Below[0][v] # {}
      BY BelowUnfolds
    <3> QED
      BY <3>1, <3>2 DEF Good
  <2> QED
    BY <2>2 DEF Faithful
<1>3. ASSUME NEW d \in Nat, d \in S
      PROVE  d + 1 \in S
  <2> SUFFICES ASSUME d + 1 \in 0 .. MaxDepth + 1 PROVE Faithful(d + 1)
    OBVIOUS
  <2>1. d \in 0 .. MaxDepth /\ d \in 0 .. MaxDepth + 1
    BY <1>1
  <2> QED
    BY <1>3, <2>1, FaithfulStep
<1> HIDE DEF S
<1>4. Nat \subseteq S
  BY <1>2, <1>3, Induction
<1> QED
  BY <1>1, <1>4 DEF S

\* A collection that can be stored.
Storable(value) ==
    LET items == Heap[value.id].named["items"]
    IN  IsRepresentable(value) /\ items.type = "table" /\ DOMAIN Heap[items.id].named = {}

\* The items of a collection: an array, or an empty table, or no items.
ListOf(items, n) ==
    JSONArray([i \in DOMAIN Heap[items.id].indexed |-> Text[n][Heap[items.id].indexed[i]]])

LEMMA ItemsAreListed ==
    ASSUME NEW items \in Value, items.type = "table", HasForm(items), NEW n \in 1 .. MaxDepth,
           NEW entry, entry = Text[n][items]
    PROVE  IF DOMAIN Heap[items.id].named = {} THEN ItemsOrEmpty(entry) = ListOf(items, n - 1)
                                               ELSE ItemsOrEmpty(entry).form # "array"
<1> DEFINE table == Heap[items.id]
<1> DEFINE numbers == [i \in DOMAIN table.indexed |-> Text[n - 1][table.indexed[i]]]
<1> DEFINE object == [k \in DOMAIN table.named |-> Text[n - 1][table.named[k]]]
<1>1. entry = IF DOMAIN table.indexed = {} THEN JSONObject(object) ELSE JSONArray(numbers)
  <2>1. n \in 0 .. MaxDepth + 1 /\ n > 0
    BY CollectionAssumption
  <2>2. entry = Converted(table, Text[n - 1])
    BY <2>1, TextUnfolds
  <2> QED
    BY <2>2, Zenon DEF Converted
<1>2. DOMAIN object = DOMAIN table.named /\ DOMAIN numbers = DOMAIN table.indexed
  OBVIOUS
<1>3. ListOf(items, n - 1) = JSONArray(numbers)
  BY DEF ListOf
<1>4. DOMAIN table.indexed = {} \/ DOMAIN table.named = {}
  BY DEF HasForm
<1>5. DOMAIN table.indexed = {} /\ DOMAIN table.named = {} => object = numbers
  BY <1>2
<1> HIDE DEF table, object, numbers
<1>6. CASE DOMAIN table.indexed = {} /\ DOMAIN table.named = {}
  <2>1. entry = JSONObject(numbers)
    BY <1>1, <1>5, <1>6
  <2>2. entry.form = "object" /\ entry.fields = numbers
    BY <2>1 DEF JSONObject
  <2>3. ItemsOrEmpty(entry) = JSONArray(numbers)
    BY <1>2, <1>6, <2>2 DEF ItemsOrEmpty
  <2> QED
    BY <1>3, <1>6, <2>3 DEF table
<1>7. CASE DOMAIN table.indexed = {} /\ DOMAIN table.named # {}
  <2>1. entry = JSONObject(object)
    BY <1>1, <1>7
  <2>2. entry.form = "object" /\ entry.fields = object
    BY <2>1 DEF JSONObject
  <2>3. ItemsOrEmpty(entry) = entry
    BY <1>2, <1>7, <2>2 DEF ItemsOrEmpty
  <2> QED
    BY <1>7, <2>2, <2>3 DEF table
<1>8. CASE DOMAIN table.indexed # {}
  <2>1. entry = JSONArray(numbers)
    BY <1>1, <1>8
  <2>2. entry.form = "array"
    BY <2>1 DEF JSONArray
  <2>3. ItemsOrEmpty(entry) = entry
    BY <2>2 DEF ItemsOrEmpty
  <2> QED
    BY <1>3, <1>4, <1>8, <2>1, <2>3 DEF table
<1> QED
  BY <1>6, <1>7, <1>8

\* decodeLuaResult takes the collections that can be stored, and gives their text.
LEMMA DecodingIsFaithful ==
    ASSUME NEW value \in Returned, value.type = "table", "items" \in DOMAIN Heap[value.id].named
    PROVE  /\ decodeLuaResult(value) # Rejected <=> Storable(value)
           /\ Storable(value) => decodeLuaResult(value) = CollectionText(value)
<1> DEFINE payload == luaJSON[MaxDepth + 1][{}][value]
<1> DEFINE named == Heap[value.id].named
<1> DEFINE items == named["items"]
<1>1. /\ MaxDepth \in Nat /\ MaxDepth + 1 \in 0 .. MaxDepth + 1 /\ MaxDepth + 1 \in 1 .. MaxDepth + 1
      /\ (MaxDepth + 1) - 1 = MaxDepth /\ MaxDepth + 1 > 0 /\ MaxDepth \in 0 .. MaxDepth + 1
  BY CollectionAssumption
<1>2. value \in Value /\ items \in EntriesOf(Heap[value.id]) /\ items \in Value
  <2>1. value \in Value
    BY DEF Value
  <2>2. items \in EntriesOf(Heap[value.id])
    BY DEF EntriesOf
  <2> QED
    BY <2>1, <2>2, EntriesAreValues
<1>3. Good(MaxDepth + 1, {}, value) <=> IsRepresentable(value)
  BY <1>1 DEF Good, IsRepresentable
<1>4. /\ payload # Rejected <=> IsRepresentable(value)
      /\ IsRepresentable(value) => payload = Text[MaxDepth + 1][value]
  BY <1>1, <1>2, <1>3, LuaJSONIsFaithful DEF Faithful
<1> DEFINE entry == payload.fields["items"]
<1>5. decodeLuaResult(value) =
        IF items.type = "table" /\ payload.form = "object" /\ ItemsOrEmpty(entry).form = "array"
        THEN JSONObject([payload.fields EXCEPT !["items"] = ItemsOrEmpty(entry)])
        ELSE Rejected
  BY DEF decodeLuaResult, decodeCollection
<1> HIDE DEF payload
<1>6. CASE ~IsRepresentable(value)
  <2>1. payload.form # "object"
    BY <1>4, <1>6 DEF Rejected
  <2> QED
    BY <1>5, <1>6, <2>1 DEF Storable
<1>7. CASE IsRepresentable(value)
  <2>1. HasForm(value) /\ DOMAIN Heap[value.id].indexed = {}
    <3>1. value \in Below[0][value] /\ 0 \in 0 .. MaxDepth
      BY <1>1, <1>2, BelowUnfolds
    <3> QED
      BY <1>7, <3>1 DEF IsRepresentable, HasForm
  <2>2. MaxDepth # 0
    <3> SUFFICES ASSUME MaxDepth = 0 PROVE FALSE
      OBVIOUS
    <3>1. items \in Below[0][items]
      BY <1>2, BelowUnfolds
    <3>2. items \in Below[MaxDepth + 1][value]
      BY <1>1, <1>2, <3>1, BelowUnfolds
    <3> QED
      BY <1>7, <3>2 DEF IsRepresentable
  <2>3. HasForm(items)
    <3>1. 1 \in 1 .. MaxDepth + 1 /\ 1 - 1 = 0 /\ 1 \in 0 .. MaxDepth
      BY <1>1, <2>2
    <3>2. items \in Below[0][items]
      BY <1>2, BelowUnfolds
    <3>3. items \in Below[1][value]
      BY <1>2, <3>1, <3>2, BelowUnfolds
    <3> QED
      BY <1>7, <3>1, <3>3 DEF IsRepresentable
  <2>4. payload = JSONObject([k \in DOMAIN named |-> Text[MaxDepth][named[k]]])
    <3>1. Text[MaxDepth + 1][value] = Converted(Heap[value.id], Text[MaxDepth])
      BY <1>1, <1>2, TextUnfolds
    <3> QED
      BY <1>4, <1>7, <2>1, <3>1 DEF Converted
  <2>5. payload.form = "object" /\ payload.fields = [k \in DOMAIN named |-> Text[MaxDepth][named[k]]]
    BY <2>4 DEF JSONObject
  <2>6. entry = Text[MaxDepth][items]
    BY <2>5
  <2>7. CASE items.type # "table"
    BY <1>5, <2>7 DEF Storable
  <2>8. CASE items.type = "table"
    <3>1. MaxDepth \in 1 .. MaxDepth
      BY <1>1, <2>2
    <3>2. IF DOMAIN Heap[items.id].named = {} THEN ItemsOrEmpty(entry) = ListOf(items, MaxDepth - 1)
                                              ELSE ItemsOrEmpty(entry).form # "array"
      BY <1>2, <2>3, <2>6, <2>8, <3>1, ItemsAreListed
    <3>3. CollectionText(value) =
            JSONObject([k \in DOMAIN named |->
                IF k = "items" THEN ListOf(items, MaxDepth - 1) ELSE Text[MaxDepth][named[k]]])
      BY DEF CollectionText, ListOf
    <3> DEFINE list == ListOf(items, MaxDepth - 1)
    <3>4. list.form = "array"
      BY DEF ListOf, JSONArray
    <3>5. Storable(value) <=> DOMAIN Heap[items.id].named = {}
      BY <1>7, <2>8 DEF Storable
    <3> HIDE DEF list, items, entry
    <3>6. CASE DOMAIN Heap[items.id].named = {}
      <4>1. ItemsOrEmpty(entry) = list
        BY <3>2, <3>6 DEF list
      <4>2. decodeLuaResult(value) = JSONObject([payload.fields EXCEPT !["items"] = list])
        BY <1>5, <2>5, <2>8, <3>4, <4>1, Zenon
      <4>3. [payload.fields EXCEPT !["items"] = list] =
              [k \in DOMAIN named |-> IF k = "items" THEN list ELSE Text[MaxDepth][named[k]]]
        BY <2>5
      <4>4. decodeLuaResult(value) = CollectionText(value)
        BY <3>3, <4>2, <4>3, Zenon DEF list
      <4>5. decodeLuaResult(value) # Rejected
        BY <4>2, FormsDiffer
      <4> QED
        BY <3>5, <3>6, <4>4, <4>5
    <3>7. CASE DOMAIN Heap[items.id].named # {}
      <4>1. decodeLuaResult(value) = Rejected
        BY <1>5, <3>2, <3>7, Zenon
      <4> QED
        BY <3>5, <3>7, <4>1
    <3> QED
      BY <3>6, <3>7
  <2> QED
    BY <2>7, <2>8
<1> QED
  BY <1>6, <1>7

-----------------------------------------------------------------------------
(* What an attempt stores.                                                 *)

\* Executing a rule is a step of its selection.
THEOREM ExecutionSelectsRules == ExecutionSpec => SelectionSpec
<1>1. InitExecution => InitSelection
  BY DEF InitExecution
<1>2. [NextExecution]_executionVars => [NextSelection]_selectionVars
  <2>1. ASSUME NEW value \in Returned, RunRule(value)
        PROVE  \E accepted \in BOOLEAN : RuleReturns(accepted)
    BY <2>1, Zenon DEF RunRule
  <2> QED
    BY <2>1 DEF NextExecution, BeginAttempt, SelectRule, NextSelection, executionVars
<1> QED
  BY <1>1, <1>2, PTL DEF ExecutionSpec, SelectionSpec

\* The result is of the attempt that has just ended, and it is what decodeLuaResult makes of what
\* the rule returned.
ResultInv ==
    \/ result = NoResult
    \/ /\ result.returned \in Returned
       /\ result.payload = decodeLuaResult(result.returned)
       /\ attempt.pc = IF result.payload = Rejected THEN "failed" ELSE "stored"

\* Only the rule of the attempt makes a result, and the next attempt forgets it.
LEMMA StepsKeepResultInv == AttemptOK /\ ResultInv /\ [NextExecution]_executionVars => ResultInv'
<1> SUFFICES ASSUME AttemptOK, ResultInv, [NextExecution]_executionVars
             PROVE  ResultInv'
  OBVIOUS
<1> USE DEF ResultInv
<1>1. CASE BeginAttempt
  BY <1>1 DEF BeginAttempt
<1>2. CASE (RuleCache \/ EditRules \/ UNCHANGED executionVars) /\ UNCHANGED result
  BY <1>2 DEF RuleCache, EditRules, executionVars, selectionVars
<1>3. CASE SelectRule /\ UNCHANGED result
  <2>1. attempt.pc \in {"cached", "listed", "chosen"}
    BY <1>3 DEF SelectRule, ListRuleDefinitions, ReadScript, RuleFails
  <2> QED
    BY <1>3, <2>1
<1>4. CASE \E value \in Returned : RunRule(value)
  <2>1. PICK value \in Returned : RunRule(value)
    BY <1>4
  <2> DEFINE payload == decodeLuaResult(value)
  <2>2. /\ RuleReturns(payload # Rejected)
        /\ result' = [returned |-> value, payload |-> payload]
    BY <2>1 DEF RunRule
  <2> HIDE DEF payload
  <2>3. attempt' = [attempt EXCEPT !.pc = IF payload # Rejected THEN "stored" ELSE "failed"]
    BY <2>2 DEF RuleReturns, Goto
  <2>4. attempt'.pc = IF payload = Rejected THEN "failed" ELSE "stored"
    BY <2>3 DEF AttemptOK, Attempts
  <2>5. result'.returned = value /\ result'.payload = payload
    BY <2>2
  <2> QED
    BY <2>4, <2>5 DEF payload
<1> QED
  BY <1>1, <1>2, <1>3, <1>4 DEF NextExecution, executionVars

\* luaJSON and decodeCollection (collection_result.go:20-118) by themselves and ExecuteTask around
\* them: whatever tables a rule builds, shared, cyclic, sparse, mixed or too deep, its collection
\* is stored if and only if JSON can say what it is and its items are an array; and what is
\* stored says it.
THEOREM CollectionsAreStoredFaithfully == ExecutionSpec => []CollectionsAreFaithful
<1>1. ExecutionSpec => []AttemptOK
  BY ExecutionSelectsRules, SelectionKeepsTheCache, ContentCorrect, InitSatisfiesSelectionInv,
     StepsKeepAttempts, PTL DEF SelectionSpec
<1>2. InitExecution => ResultInv
  BY DEF InitExecution, ResultInv
<1>3. ResultInv => CollectionsAreFaithful
  <2> SUFFICES ASSUME ResultInv, result.returned.type = "table",
                      "items" \in DOMAIN Heap[result.returned.id].named
               PROVE  /\ Storable(result.returned) <=> attempt.pc = "stored"
                      /\ Storable(result.returned) => result.payload = CollectionText(result.returned)
    BY DEF CollectionsAreFaithful, Storable
  <2>1. result # NoResult
    BY DEF NoResult
  <2>2. result.returned \in Returned
    BY <2>1 DEF ResultInv
  <2>3. PICK value \in Returned : value = result.returned
    BY <2>2
  <2>4. /\ decodeLuaResult(value) # Rejected <=> Storable(value)
        /\ Storable(value) => decodeLuaResult(value) = CollectionText(value)
    BY <2>3, DecodingIsFaithful
  <2> QED
    <3>1. /\ result.payload = decodeLuaResult(value)
          /\ attempt.pc = IF result.payload = Rejected THEN "failed" ELSE "stored"
      BY <2>1, <2>3, Zenon DEF ResultInv
    <3>2. attempt.pc = "stored" <=> decodeLuaResult(value) # Rejected
      BY <3>1, Zenon
    <3> QED
      BY <2>3, <2>4, <3>1, <3>2, Zenon
<1> QED
  BY <1>1, <1>2, <1>3, StepsKeepResultInv, PTL DEF ExecutionSpec

=============================================================================
