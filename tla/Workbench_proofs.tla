-------------------------- MODULE Workbench_proofs --------------------------
(***************************************************************************)
(* The loads and the watches of the workbench, for any number of tasks,    *)
(* loads, failures and snapshots per load: a view is only replaced by a    *)
(* later one, what a watch announces is shown, and the labels of the rows  *)
(* and the health of a rule tell what its runs tell.                       *)
(***************************************************************************)
EXTENDS Workbench, FiniteSetTheorems, FunctionTheorems, SequenceTheorems,
        WellFoundedInduction, TLAPS

USE WorkbenchAssumption

Outcome == OldOutcomes \cup UNION {Outcomes[t] : t \in Task}

AnyTask == Task \cup {OldTasks[i] : i \in DOMAIN OldTasks}

\* What the server may have on record.
Snapshots == {Record(run[1], run[2]) : run \in AnyTask \X Outcome}

Loads ==
    [pc : {"none", "sent", "read", "failed", "done"}, records : Seq(Snapshots), seen : Nat]

TypesOK ==
    /\ history \in Seq(Snapshots)
    /\ request \in Nat
    /\ loads \in [Version -> Loads]
    /\ view.seen \in Nat

\* The versions that the page has not come to have not been asked for.
LaterLoadsAreNotSent == \A v \in Version : v > request => loads[v].pc = "none"

\* Ended tasks do not vanish, so what the server will say is never behind the view; nor is what
\* it has said to the newest load.
NewestIsAhead ==
    /\ view.seen <= Len(history)
    /\ \A v \in Version : loads[v].seen <= Len(history)
    /\ \A v \in Version : v = request /\ loads[v].pc = "read" => loads[v].seen >= view.seen

IInv == TypesOK /\ LaterLoadsAreNotSent /\ NewestIsAhead

-----------------------------------------------------------------------------
LEMMA VersionsAreNumbers == Version \subseteq Nat
BY DEF Version

LEMMA RecordsAreSnapshots ==
    /\ \A t \in Task : \A o \in Outcomes[t] : Record(t, o) \in Snapshots
    /\ \A i \in DOMAIN OldTasks : \A o \in OldOutcomes : Record(OldTasks[i], o) \in Snapshots
<1>1. OldOutcomes \subseteq Outcome /\ \A t \in Task : Outcomes[t] \subseteq Outcome
  BY DEF Outcome
<1>2. Task \subseteq AnyTask /\ \A i \in DOMAIN OldTasks : OldTasks[i] \in AnyTask
  BY DEF AnyTask
<1>3. \A t \in AnyTask, o \in Outcome : Record(t, o) \in Snapshots
  <2> SUFFICES ASSUME NEW t \in AnyTask, NEW o \in Outcome
               PROVE  Record(t, o) \in Snapshots
    OBVIOUS
  <2>1. <<t, o>> \in AnyTask \X Outcome /\ <<t, o>>[1] = t /\ <<t, o>>[2] = o
    OBVIOUS
  <2>2. \E run \in AnyTask \X Outcome : Record(t, o) = Record(run[1], run[2])
    BY <2>1
  <2> QED
    BY <2>2 DEF Snapshots
<1> QED
  BY <1>1, <1>2, <1>3

LEMMA Concatenation ==
    ASSUME NEW S, NEW a \in Seq(S), NEW x \in S, NEW b \in Seq(S), NEW c, c = a \o <<x>> \o b
    PROVE  /\ c \in Seq(S) /\ Len(c) = Len(a) + 1 + Len(b)
           /\ \A j \in 1 .. Len(a) : c[j] = a[j]
           /\ \A j \in 1 .. Len(b) : c[Len(a) + 1 + j] = b[j]
<1>1. a \o <<x>> \in Seq(S) /\ Len(a \o <<x>>) = Len(a) + 1
      /\ \A j \in 1 .. Len(a) : (a \o <<x>>)[j] = a[j]
  OBVIOUS
<1> DEFINE ax == a \o <<x>>
<1> HIDE DEF ax
<1>2. /\ ax \o b \in Seq(S) /\ Len(ax \o b) = Len(ax) + Len(b)
      /\ \A j \in 1 .. Len(ax) : (ax \o b)[j] = ax[j]
      /\ \A j \in 1 .. Len(b) : (ax \o b)[Len(ax) + j] = b[j]
  BY <1>1 DEF ax
<1> QED
  BY <1>1, <1>2 DEF ax

LEMMA InitSatisfiesInv == Init => IInv
<1> SUFFICES ASSUME Init
             PROVE  IInv
  OBVIOUS
<1>1. PICK o \in [DOMAIN OldTasks -> OldOutcomes] :
        history = [i \in DOMAIN OldTasks |-> Record(OldTasks[i], o[i])]
  BY DEF Init
<1>2. DOMAIN OldTasks = 1 .. Len(OldTasks) /\ Len(OldTasks) \in Nat
  OBVIOUS
<1>3. history \in Seq(Snapshots)
  <2>1. \A i \in 1 .. Len(OldTasks) : Record(OldTasks[i], o[i]) \in Snapshots
    BY <1>2, RecordsAreSnapshots
  <2> QED
    BY <1>1, <1>2, <2>1
<1>4. /\ request = 1 /\ view.seen = 0 /\ loads \in [Version -> Loads]
      /\ \A v \in Version : loads[v].seen = 0 /\ loads[v].pc = IF v = 1 THEN "sent" ELSE "none"
  <2>1. [NoLoad EXCEPT !.pc = "sent"] \in Loads /\ NoLoad \in Loads
    BY EmptySeq DEF NoLoad, Loads
  <2> QED
    BY <2>1 DEF Init, NoLoad
<1> QED
  BY <1>3, <1>4, VersionsAreNumbers DEF IInv, TypesOK, Loads, LaterLoadsAreNotSent, NewestIsAhead

\* A new load is asked for: nothing that is shown or was answered changes.
LEMMA StartKeepsInv == IInv /\ StartLoad /\ UNCHANGED <<history, view>> => IInv'
<1> SUFFICES ASSUME IInv, StartLoad, UNCHANGED <<history, view>>
             PROVE  IInv'
  OBVIOUS
<1>1. /\ request' = request + 1 /\ loads' \in [Version -> Loads]
      /\ \A v \in Version : loads'[v].seen = loads[v].seen
                            /\ loads'[v].pc = IF v = request + 1 THEN "sent" ELSE loads[v].pc
  BY DEF StartLoad, IInv, TypesOK, Loads
<1> QED
  BY <1>1, VersionsAreNumbers DEF IInv, TypesOK, Loads, LaterLoadsAreNotSent, NewestIsAhead

LEMMA SameKeepsInv == IInv /\ UNCHANGED <<history, request, loads, view>> => IInv'
BY DEF IInv, TypesOK, Loads, LaterLoadsAreNotSent, NewestIsAhead

\* A task more has ended, wherever it goes, and those that had ended are still there.
LEMMA CompleteInserts ==
    ASSUME TypesOK, NEW t \in Task, Complete(t)
    PROVE  history' \in Seq(Snapshots) /\ Len(history') = Len(history) + 1 /\ Ended \subseteq Ended'
<1>1. PICK o \in Outcomes[t], i \in 0 .. Len(history) :
        history' = SubSeq(history, 1, i) \o <<Record(t, o)>> \o SubSeq(history, i + 1, Len(history))
  BY DEF Complete
<1>2. history \in Seq(Snapshots) /\ Record(t, o) \in Snapshots /\ Len(history) \in Nat
  BY RecordsAreSnapshots DEF TypesOK
<1> DEFINE before == SubSeq(history, 1, i)
           behind == SubSeq(history, i + 1, Len(history))
           x      == Record(t, o)
<1>3. /\ before \in Seq(Snapshots) /\ Len(before) = i /\ \A j \in 1 .. i : before[j] = history[j]
      /\ behind \in Seq(Snapshots) /\ Len(behind) = Len(history) - i
      /\ \A j \in 1 .. Len(history) - i : behind[j] = history[i + j]
  BY <1>2
<1>4. x \in Snapshots /\ history' = before \o <<x>> \o behind
  BY <1>1, <1>2
<1> HIDE DEF before, behind, x
<1>5. /\ Len(history') = Len(history) + 1 /\ history' \in Seq(Snapshots)
      /\ \A j \in 1 .. i : history'[j] = before[j]
      /\ \A j \in 1 .. Len(history) - i : history'[i + 1 + j] = behind[j]
  BY <1>2, <1>3, <1>4, Concatenation
<1>6. ASSUME NEW j \in 1 .. Len(history)
      PROVE  \E k \in 1 .. Len(history') : history'[k] = history[j]
  <2>1. CASE j <= i
    <3>1. j \in 1 .. i /\ j \in 1 .. Len(history')
      BY <1>2, <1>5, <2>1
    <3>2. history'[j] = before[j] /\ before[j] = history[j]
      BY <1>3, <1>5, <3>1
    <3> QED
      BY <3>1, <3>2
  <2>2. CASE j > i
    <3>1. PICK k \in 1 .. Len(history) - i : i + k = j /\ i + 1 + k = j + 1
      <4>1. j - i \in 1 .. Len(history) - i /\ i + (j - i) = j /\ i + 1 + (j - i) = j + 1
        BY <1>2, <2>2
      <4> QED
        BY <4>1
    <3>2. history'[i + 1 + k] = behind[k] /\ behind[k] = history[i + k]
      BY <1>3, <1>5
    <3>3. j + 1 \in 1 .. Len(history')
      BY <1>2, <1>5
    <3> QED
      BY <3>1, <3>2, <3>3
  <2> QED
    BY <2>1, <2>2
<1>7. DOMAIN history = 1 .. Len(history) /\ DOMAIN history' = 1 .. Len(history')
  BY <1>2, <1>5
<1>8. Ended \subseteq Ended'
  BY <1>6, <1>7 DEF Ended
<1> QED
  BY <1>5, <1>8

LEMMA CompleteKeepsInv ==
    ASSUME IInv, NEW t \in Task, Complete(t)
    PROVE  IInv'
<1>1. history' \in Seq(Snapshots) /\ Len(history') = Len(history) + 1
  BY CompleteInserts DEF IInv
<1>2. UNCHANGED <<request, loads, view>> /\ Len(history) \in Nat
  BY DEF Complete, loadVars, IInv, TypesOK
<1> QED
  BY <1>1, <1>2 DEF IInv, TypesOK, Loads, LaterLoadsAreNotSent, NewestIsAhead

\* One load goes on, and the view follows the newest one only.
LEMMA OneLoadMoves ==
    ASSUME IInv, UNCHANGED <<history, request>>,
           NEW v \in Version, loads[v].pc # "none",
           NEW load \in Loads, loads' = [loads EXCEPT ![v] = load],
           load.pc \in {"read", "failed", "done"}, load.seen <= Len(history),
           view'.seen \in view.seen .. Len(history),
           view'.seen = view.seen \/ v = request,
           load.pc = "read" => load.seen >= view'.seen
    PROVE  IInv' /\ view'.seen >= view.seen
<1>1. history \in Seq(Snapshots) /\ Len(history) \in Nat /\ view.seen \in Nat /\ view'.seen \in Nat
  BY DEF IInv, TypesOK
<1>2. /\ loads' \in [Version -> Loads] /\ loads'[v] = load
      /\ \A w \in Version : w # v => loads'[w] = loads[w]
  BY DEF IInv, TypesOK
<1>3. TypesOK'
  BY <1>1, <1>2 DEF IInv, TypesOK
<1>4. LaterLoadsAreNotSent'
  BY <1>2 DEF IInv, LaterLoadsAreNotSent
<1>5. NewestIsAhead'
  BY <1>1, <1>2 DEF IInv, NewestIsAhead
<1> QED
  BY <1>1, <1>3, <1>4, <1>5 DEF IInv

LEMMA AnswersAreSnapshots ==
    ASSUME history \in Seq(Snapshots)
    PROVE  /\ ListEndedTaskSnapshots \in Seq(Snapshots)
           /\ Len(history) < Limit => ListEndedTaskSnapshots = history
           /\ ~(Len(history) < Limit) => Len(ListEndedTaskSnapshots) = Limit
<1> DEFINE last == IF Len(history) < Limit THEN Len(history) ELSE Limit
<1>1. Len(history) \in Nat /\ last \in Nat /\ last <= Len(history)
  OBVIOUS
<1>2. ListEndedTaskSnapshots = SubSeq(history, 1, last)
  BY DEF ListEndedTaskSnapshots
<1> HIDE DEF last
<1>3. /\ SubSeq(history, 1, last) \in Seq(Snapshots)
      /\ Len(SubSeq(history, 1, last)) = last
      /\ \A i \in 1 .. last : SubSeq(history, 1, last)[i] = history[i]
  BY <1>1
<1>4. last = Len(history) => SubSeq(history, 1, last) = history
  BY <1>3, SeqEqual
<1> QED
  BY <1>2, <1>3, <1>4 DEF last

LEMMA LoadKeepsInv ==
    ASSUME IInv, NEW v \in Version, LoadStep(v)
    PROVE  IInv' /\ view'.seen >= view.seen
<1>1. /\ history \in Seq(Snapshots) /\ Len(history) \in Nat /\ view.seen \in Nat
      /\ view.seen <= Len(history) /\ loads[v] \in Loads /\ loads[v].seen <= Len(history)
      /\ v = request /\ loads[v].pc = "read" => loads[v].seen >= view.seen
  BY DEF IInv, TypesOK, NewestIsAhead
<1>2. CASE Answer(v)
  <2> DEFINE load == [pc |-> "read", records |-> ListEndedTaskSnapshots, seen |-> Len(history)]
  <2>1. load \in Loads /\ load.pc = "read" /\ load.seen = Len(history)
    BY <1>1, AnswersAreSnapshots DEF Loads
  <2>2. /\ UNCHANGED <<history, request, view>> /\ loads[v].pc = "sent"
        /\ loads' = [loads EXCEPT ![v] = load]
    BY <1>2 DEF Answer
  <2> HIDE DEF load
  <2>3. /\ view'.seen \in view.seen .. Len(history) /\ view'.seen = view.seen
        /\ load.seen <= Len(history) /\ load.seen >= view'.seen
    BY <1>1, <2>1, <2>2
  <2> QED
    BY <2>1, <2>2, <2>3, OneLoadMoves
<1>3. CASE LoadFails(v)
  <2> DEFINE load == [loads[v] EXCEPT !.pc = "failed"]
  <2>1. load \in Loads /\ load.pc = "failed" /\ load.seen = loads[v].seen
    BY <1>1 DEF Loads
  <2>2. /\ UNCHANGED <<history, request, view>> /\ loads[v].pc = "sent"
        /\ loads' = [loads EXCEPT ![v] = load]
    BY <1>3 DEF LoadFails
  <2> HIDE DEF load
  <2>3. /\ view'.seen \in view.seen .. Len(history) /\ view'.seen = view.seen
        /\ load.seen <= Len(history)
    BY <1>1, <2>1, <2>2
  <2> QED
    BY <2>1, <2>2, <2>3, OneLoadMoves
<1> DEFINE done == [NoLoad EXCEPT !.pc = "done"]
<1>4. done \in Loads /\ done.pc = "done" /\ done.seen = 0
  BY EmptySeq DEF NoLoad, Loads
<1>5. CASE Apply(v)
  <2>1. /\ UNCHANGED <<history, request>> /\ loads[v].pc = "read"
        /\ loads' = [loads EXCEPT ![v] = done]
    BY <1>5 DEF Apply
  <2>2. view' = view \/ (v = request /\ view'.seen = loads[v].seen)
    BY <1>5 DEF Apply, IsNewest
  <2> HIDE DEF done
  <2>3. /\ view'.seen \in view.seen .. Len(history) /\ (view'.seen = view.seen \/ v = request)
        /\ done.seen <= Len(history)
    BY <1>1, <1>4, <2>1, <2>2 DEF Loads
  <2> QED
    BY <1>4, <2>1, <2>3, OneLoadMoves
<1>6. CASE ReportFailure(v)
  <2>1. /\ UNCHANGED <<history, request, view>> /\ loads[v].pc = "failed"
        /\ loads' = [loads EXCEPT ![v] = done]
    BY <1>6 DEF ReportFailure
  <2> HIDE DEF done
  <2>2. /\ view'.seen \in view.seen .. Len(history) /\ view'.seen = view.seen
        /\ done.seen <= Len(history)
    BY <1>1, <1>4, <2>1
  <2> QED
    BY <1>4, <2>1, <2>2, OneLoadMoves
<1> QED
  BY <1>2, <1>3, <1>5, <1>6 DEF LoadStep

LEMMA WatchKeepsInv ==
    ASSUME IInv, NEW t \in Mine, Collect(t) \/ WatchStep(t)
    PROVE  IInv' /\ view' = view
<1>1. CASE SeeEnd(t)
  BY <1>1, StartKeepsInv DEF SeeEnd, LoadResult
<1>2. CASE Collect(t) \/ FetchTask(t) \/ FetchFails(t) \/ GiveUp(t) \/ PollAgain(t)
  BY <1>2, SameKeepsInv DEF Collect, FetchTask, FetchFails, GiveUp, PollAgain, loadVars
<1> QED
  BY <1>1, <1>2 DEF WatchStep

LEMMA StepsKeepInv == IInv /\ [Next]_vars => IInv' /\ view'.seen >= view.seen
<1> SUFFICES ASSUME IInv, [Next]_vars
             PROVE  IInv' /\ view'.seen >= view.seen
  OBVIOUS
<1>1. view.seen \in Nat /\ (view' = view => view'.seen >= view.seen)
  BY DEF IInv, TypesOK
<1>2. CASE Refresh
  BY <1>1, <1>2, StartKeepsInv DEF Refresh
<1>3. ASSUME NEW v \in Version, LoadStep(v)
      PROVE  IInv' /\ view'.seen >= view.seen
  BY <1>3, LoadKeepsInv
<1>4. ASSUME NEW t \in Task, Complete(t)
      PROVE  IInv' /\ view'.seen >= view.seen
  BY <1>1, <1>4, CompleteKeepsInv DEF Complete, loadVars
<1>5. ASSUME NEW t \in Mine, Collect(t) \/ WatchStep(t)
      PROVE  IInv' /\ view'.seen >= view.seen
  BY <1>1, <1>5, WatchKeepsInv
<1>6. CASE UNCHANGED vars
  BY <1>1, <1>6, SameKeepsInv DEF vars, loadVars
<1> QED
  BY <1>2, <1>3, <1>4, <1>5, <1>6 DEF Next

\* However many loads overlap and in whatever order they are answered, the page never goes back
\* to what the server said before (state.request).
THEOREM ViewsMoveForward == Spec => ViewNeverGoesBack
<1>1. IInv /\ [Next]_vars => [view'.seen >= view.seen]_vars
  BY StepsKeepInv
<1> QED
  BY <1>1, InitSatisfiesInv, StepsKeepInv, PTL DEF Spec, ViewNeverGoesBack

-----------------------------------------------------------------------------
(* What a watch announces.                                                 *)

\* These snapshots tell how t has ended, or had no room for it.
Covers(records, t) ==
    (\E i \in DOMAIN records : records[i].task = t) \/ Len(records) >= Limit

WatchPcs == {"none", "ask", "open", "broken", "terminal", "seen", "gaveUp"}

WatchesOK == watch \in [Mine -> [pc : WatchPcs, attempt : Nat]]

Seen == {t \in Mine : watch[t].pc = "seen"}

\* Every load but the first is the user's, or that of a watch that has seen its task end, so
\* that the newest version always has a load.
LoadsAreCounted == userLoads \in 0 .. MaxLoads /\ request = 1 + userLoads + Cardinality(Seen)

\* A watch believes only what was so when it asked, and ended tasks stay ended.
AnnouncedHaveEnded == \A t \in Mine : watch[t].pc \in {"terminal", "seen"} => t \in Ended

\* What the server has said to the newest load, and what the page shows of it, covers every task
\* that a watch has seen end.
NewestCovers ==
    \A t \in Seen :
        /\ loads[request].pc = "read" => Covers(loads[request].records, t)
        /\ loads[request].pc = "done" => connection = "error" \/ Covers(view.snapshots, t)

ShownInv == IInv /\ WatchesOK /\ LoadsAreCounted /\ AnnouncedHaveEnded /\ NewestCovers

LEMMA SeenIsFinite ==
    /\ Cardinality(Mine) \in Nat /\ Cardinality(Seen) \in Nat
    /\ Cardinality(Seen) <= Cardinality(Mine)
<1>1. IsFiniteSet(Mine) /\ Seen \subseteq Mine
  BY DEF Seen
<1> QED
  BY <1>1, FS_Subset, FS_CardinalityType

\* A watch more that has seen its task end.
LEMMA OneMoreSeen ==
    ASSUME NEW t \in Mine, t \notin Seen, NEW later, later = Seen \cup {t}
    PROVE  Cardinality(later) = Cardinality(Seen) + 1 /\ Cardinality(later) <= Cardinality(Mine)
<1>1. IsFiniteSet(Mine) /\ Seen \subseteq Mine /\ later \subseteq Mine
  BY DEF Seen
<1>2. IsFiniteSet(Seen)
  BY <1>1, FS_Subset
<1>3. Cardinality(later) <= Cardinality(Mine)
  BY <1>1, FS_Subset
<1>4. Cardinality(later) = Cardinality(Seen) + 1
  BY <1>2, FS_AddElement
<1> QED
  BY <1>3, <1>4

\* The newest load has just been sent: there is nothing yet to cover.
LEMMA StartCovers ==
    ASSUME IInv, StartLoad, request + 1 \in Version
    PROVE  NewestCovers'
<1>1. request' = request + 1 /\ loads' = [loads EXCEPT ![request + 1].pc = "sent"]
  BY DEF StartLoad
<1>2. loads'[request'].pc = "sent"
  BY <1>1 DEF IInv, TypesOK, Loads
<1> QED
  BY <1>2 DEF NewestCovers

LEMMA InitIsShown == Init => ShownInv
<1> SUFFICES ASSUME Init
             PROVE  ShownInv
  OBVIOUS
<1>1. \A t \in Mine : watch[t] = [pc |-> "none", attempt |-> 0]
  BY DEF Init
<1>2. WatchesOK
  BY DEF Init, WatchesOK, WatchPcs
<1>3. Seen = {}
  BY <1>1 DEF Seen
<1>4. LoadsAreCounted
  BY <1>3, FS_EmptySet DEF Init, LoadsAreCounted
<1> QED
  BY <1>1, <1>2, <1>3, <1>4, InitSatisfiesInv DEF ShownInv, AnnouncedHaveEnded, NewestCovers

\* The user asks for a load.
LEMMA RefreshKeepsShown ==
    ASSUME ShownInv, Refresh
    PROVE  WatchesOK' /\ LoadsAreCounted' /\ AnnouncedHaveEnded' /\ NewestCovers'
<1>1. StartLoad /\ userLoads < MaxLoads /\ userLoads' = userLoads + 1 /\ UNCHANGED <<history, watch>>
  BY DEF Refresh
<1>2. WatchesOK' /\ AnnouncedHaveEnded' /\ Seen' = Seen
  BY <1>1 DEF ShownInv, WatchesOK, AnnouncedHaveEnded, Seen, Ended
<1>3. /\ userLoads \in 0 .. MaxLoads /\ request = 1 + userLoads + Cardinality(Seen)
      /\ request' = request + 1
  BY <1>1 DEF ShownInv, LoadsAreCounted, StartLoad
<1>4. LoadsAreCounted'
  BY <1>1, <1>2, <1>3, SeenIsFinite DEF LoadsAreCounted
<1>5. request + 1 \in Version
  BY <1>1, <1>3, SeenIsFinite DEF Version
<1> QED
  BY <1>1, <1>2, <1>4, <1>5, StartCovers DEF ShownInv

\* The page learns that a task it has submitted has ended, and loads.
LEMMA SeeEndKeepsShown ==
    ASSUME ShownInv, NEW t \in Mine, SeeEnd(t)
    PROVE  WatchesOK' /\ LoadsAreCounted' /\ AnnouncedHaveEnded' /\ NewestCovers'
<1>1. /\ StartLoad /\ UNCHANGED <<history, userLoads>>
      /\ watch[t].pc = "terminal" /\ watch' = [watch EXCEPT ![t].pc = "seen"]
  BY DEF SeeEnd, SetWatch, LoadResult
<1>2. /\ WatchesOK' /\ watch'[t].pc = "seen"
      /\ \A s \in Mine : s # t => watch'[s] = watch[s]
  BY <1>1 DEF ShownInv, WatchesOK, WatchPcs
<1>3. t \notin Seen /\ Seen' = Seen \cup {t}
  BY <1>1, <1>2 DEF Seen
<1>4. AnnouncedHaveEnded'
  BY <1>1, <1>2 DEF ShownInv, AnnouncedHaveEnded, Ended
<1>5. Cardinality(Seen') = Cardinality(Seen) + 1 /\ Cardinality(Seen') <= Cardinality(Mine)
  BY <1>3, OneMoreSeen
<1>6. /\ userLoads \in 0 .. MaxLoads /\ request = 1 + userLoads + Cardinality(Seen)
      /\ request' = request + 1
  BY <1>1 DEF ShownInv, LoadsAreCounted, StartLoad
<1>7. LoadsAreCounted'
  BY <1>1, <1>5, <1>6, SeenIsFinite DEF LoadsAreCounted
<1>8. request + 1 \in Version
  BY <1>5, <1>6, SeenIsFinite DEF Version
<1> QED
  BY <1>1, <1>2, <1>4, <1>7, <1>8, StartCovers DEF ShownInv

\* A watch goes on.
LEMMA WatchKeepsShown ==
    ASSUME ShownInv, NEW t \in Mine,
           Collect(t) \/ FetchTask(t) \/ FetchFails(t) \/ GiveUp(t) \/ PollAgain(t)
    PROVE  WatchesOK' /\ LoadsAreCounted' /\ AnnouncedHaveEnded' /\ NewestCovers'
<1>1. UNCHANGED <<history, request, loads, view, connection, userLoads>>
  BY DEF Collect, FetchTask, FetchFails, GiveUp, PollAgain, loadVars
<1>2. /\ watch[t].pc \notin {"terminal", "seen"}
      /\ \E entry \in [pc : {"ask", "open", "broken", "terminal", "gaveUp"}, attempt : Nat] :
            /\ watch' = [watch EXCEPT ![t] = entry]
            /\ entry.pc = "terminal" => t \in Ended
  <2>0. /\ watch \in [Mine -> [pc : WatchPcs, attempt : Nat]]
        /\ watch[t] \in [pc : WatchPcs, attempt : Nat] /\ watch[t].attempt \in Nat
    BY DEF ShownInv, WatchesOK
  <2>1. CASE PollAgain(t)
    <3> DEFINE entry == [pc |-> "ask", attempt |-> watch[t].attempt + 1]
    <3>1. entry \in [pc : {"ask", "open", "broken", "terminal", "gaveUp"}, attempt : Nat]
      BY <2>0
    <3> QED
      BY <2>1, <3>1 DEF PollAgain, NextAttempt
  <2>2. ASSUME NEW pc \in {"ask", "open", "broken", "terminal", "gaveUp"}, SetWatch(t, pc),
               pc = "terminal" => t \in Ended
        PROVE  \E entry \in [pc : {"ask", "open", "broken", "terminal", "gaveUp"}, attempt : Nat] :
                  /\ watch' = [watch EXCEPT ![t] = entry]
                  /\ entry.pc = "terminal" => t \in Ended
    <3> DEFINE entry == [pc |-> pc, attempt |-> watch[t].attempt]
    <3>1. /\ entry \in [pc : {"ask", "open", "broken", "terminal", "gaveUp"}, attempt : Nat]
          /\ entry.pc = pc
      BY <2>0
    <3>2. [watch[t] EXCEPT !.pc = pc] = entry
      BY <2>0
    <3>3. watch' = [watch EXCEPT ![t] = entry]
      BY <2>0, <2>2, <3>2 DEF SetWatch
    <3> QED
      BY <2>2, <3>1, <3>3
  <2>3. CASE Collect(t)
    BY <2>2, <2>3 DEF Collect
  <2>4. CASE FetchTask(t)
    BY <2>2, <2>4 DEF FetchTask
  <2>5. CASE FetchFails(t)
    BY <2>2, <2>5 DEF FetchFails
  <2>6. CASE GiveUp(t)
    BY <2>2, <2>6 DEF GiveUp
  <2> QED
    BY <2>1, <2>3, <2>4, <2>5, <2>6
<1>3. PICK entry \in [pc : {"ask", "open", "broken", "terminal", "gaveUp"}, attempt : Nat] :
         /\ watch' = [watch EXCEPT ![t] = entry]
         /\ entry.pc = "terminal" => t \in Ended
  BY <1>2
<1>4. /\ WatchesOK' /\ watch'[t] = entry
      /\ \A s \in Mine : s # t => watch'[s] = watch[s]
  BY <1>3 DEF ShownInv, WatchesOK, WatchPcs
<1>5. Seen' = Seen
  BY <1>2, <1>3, <1>4 DEF Seen
<1>6. AnnouncedHaveEnded'
  BY <1>1, <1>3, <1>4 DEF ShownInv, AnnouncedHaveEnded, Ended
<1> QED
  BY <1>1, <1>4, <1>5, <1>6 DEF ShownInv, LoadsAreCounted, NewestCovers, Covers

\* A worker completes a task.
LEMMA CompleteKeepsShown ==
    ASSUME ShownInv, NEW t \in Task, Complete(t)
    PROVE  WatchesOK' /\ LoadsAreCounted' /\ AnnouncedHaveEnded' /\ NewestCovers'
<1>1. UNCHANGED <<request, loads, view, connection, userLoads, watch>>
  BY DEF Complete, loadVars
<1>2. Ended \subseteq Ended'
  BY CompleteInserts DEF ShownInv, IInv
<1>3. WatchesOK' /\ Seen' = Seen /\ AnnouncedHaveEnded'
  BY <1>1, <1>2 DEF ShownInv, WatchesOK, Seen, AnnouncedHaveEnded
<1> QED
  BY <1>1, <1>3 DEF ShownInv, LoadsAreCounted, NewestCovers, Covers

\* What the server says of the ended tasks covers each of them.
LEMMA AnswersCover ==
    ASSUME TypesOK, NEW t, t \in Ended
    PROVE  Covers(ListEndedTaskSnapshots, t)
<1>1. CASE Len(history) < Limit
  <2>1. ListEndedTaskSnapshots = history
    BY <1>1, AnswersAreSnapshots DEF TypesOK
  <2> QED
    BY <2>1 DEF Covers, Ended
<1>2. CASE ~(Len(history) < Limit)
  <2>1. Len(ListEndedTaskSnapshots) = Limit
    BY <1>2, AnswersAreSnapshots DEF TypesOK
  <2> QED
    BY <2>1 DEF Covers
<1> QED
  BY <1>1, <1>2

\* The page shows what it was told, one snapshot for each.
LEMMA NormalizedCovers ==
    ASSUME NEW records \in Seq(Snapshots), NEW t, Covers(records, t)
    PROVE  Covers(Normalized(records), t)
<1>1. DOMAIN records = 1 .. Len(records) /\ Len(records) \in Nat
  OBVIOUS
<1>2. /\ DOMAIN Normalized(records) = DOMAIN records
      /\ \A i \in DOMAIN records : Normalized(records)[i].task = records[i].task
  BY DEF Normalized, normalizeSnapshot
<1>3. Len(Normalized(records)) = Len(records)
  BY <1>1 DEF Normalized
<1> QED
  BY <1>2, <1>3 DEF Covers

\* A load goes on.
LEMMA LoadKeepsShown ==
    ASSUME ShownInv, NEW v \in Version, LoadStep(v)
    PROVE  WatchesOK' /\ LoadsAreCounted' /\ AnnouncedHaveEnded' /\ NewestCovers'
<1>1. UNCHANGED <<history, request, userLoads, watch>>
  BY DEF LoadStep, Answer, LoadFails, Apply, ReportFailure
<1>2. WatchesOK' /\ LoadsAreCounted' /\ AnnouncedHaveEnded' /\ Seen' = Seen
  BY <1>1 DEF ShownInv, WatchesOK, LoadsAreCounted, AnnouncedHaveEnded, Seen, Ended
<1>3. request \in Version
  <2>1. /\ userLoads \in 0 .. MaxLoads /\ request = 1 + userLoads + Cardinality(Seen)
    BY DEF ShownInv, LoadsAreCounted
  <2> QED
    BY <2>1, SeenIsFinite DEF Version
<1>4. loads \in [Version -> Loads] /\ TypesOK
  BY DEF ShownInv, IInv, TypesOK
<1>5. ASSUME NEW t \in Seen
      PROVE  /\ loads'[request].pc = "read" => Covers(loads'[request].records, t)
             /\ loads'[request].pc = "done" => connection' = "error" \/ Covers(view'.snapshots, t)
  <2>1. /\ loads[request].pc = "read" => Covers(loads[request].records, t)
        /\ loads[request].pc = "done" => connection = "error" \/ Covers(view.snapshots, t)
    BY DEF ShownInv, NewestCovers
  <2>2. CASE v # request
    <3>1. loads'[request] = loads[request] /\ UNCHANGED <<view, connection>>
      BY <1>3, <1>4, <2>2 DEF LoadStep, Answer, LoadFails, Apply, ReportFailure, IsNewest
    <3> QED
      BY <2>1, <3>1
  <2>3. CASE v = request /\ Answer(v)
    <3>1. loads'[request].pc = "read" /\ loads'[request].records = ListEndedTaskSnapshots
      BY <1>3, <1>4, <2>3 DEF Answer
    <3>2. t \in Ended
      BY DEF ShownInv, AnnouncedHaveEnded, Seen
    <3> QED
      BY <1>4, <3>1, <3>2, AnswersCover
  <2>4. CASE v = request /\ LoadFails(v)
    <3>1. loads'[request].pc = "failed"
      BY <1>3, <1>4, <2>4 DEF LoadFails, Loads
    <3> QED
      BY <3>1
  <2>5. CASE v = request /\ Apply(v)
    <3>1. /\ loads[request].pc = "read" /\ loads'[request].pc = "done"
          /\ view'.snapshots = Normalized(loads[request].records)
      BY <1>3, <1>4, <2>5 DEF Apply, IsNewest, NoLoad
    <3>2. loads[request].records \in Seq(Snapshots)
      BY <1>3, <1>4 DEF Loads
    <3> QED
      BY <2>1, <3>1, <3>2, NormalizedCovers
  <2>6. CASE v = request /\ ReportFailure(v)
    <3>1. loads'[request].pc = "done" /\ connection' = "error"
      BY <1>3, <1>4, <2>6 DEF ReportFailure, NoLoad
    <3> QED
      BY <3>1
  <2> QED
    BY <2>2, <2>3, <2>4, <2>5, <2>6 DEF LoadStep
<1> QED
  BY <1>1, <1>2, <1>5 DEF NewestCovers

LEMMA StepsKeepShown == ShownInv /\ [Next]_vars => ShownInv'
<1> SUFFICES ASSUME ShownInv, [Next]_vars
             PROVE  WatchesOK' /\ LoadsAreCounted' /\ AnnouncedHaveEnded' /\ NewestCovers'
  BY StepsKeepInv DEF ShownInv
<1>1. CASE Refresh
  BY <1>1, RefreshKeepsShown
<1>2. ASSUME NEW v \in Version, LoadStep(v)
      PROVE  WatchesOK' /\ LoadsAreCounted' /\ AnnouncedHaveEnded' /\ NewestCovers'
  BY <1>2, LoadKeepsShown
<1>3. ASSUME NEW t \in Task, Complete(t)
      PROVE  WatchesOK' /\ LoadsAreCounted' /\ AnnouncedHaveEnded' /\ NewestCovers'
  BY <1>3, CompleteKeepsShown
<1>4. ASSUME NEW t \in Mine, Collect(t) \/ WatchStep(t)
      PROVE  WatchesOK' /\ LoadsAreCounted' /\ AnnouncedHaveEnded' /\ NewestCovers'
  BY <1>4, SeeEndKeepsShown, WatchKeepsShown DEF WatchStep
<1>5. CASE UNCHANGED vars
  BY <1>5 DEF vars, loadVars, ShownInv, WatchesOK, LoadsAreCounted, AnnouncedHaveEnded,
              NewestCovers, Covers, Seen, Ended
<1> QED
  BY <1>1, <1>2, <1>3, <1>4, <1>5 DEF Next

\* The page announces that the results are updated (app.js:1022) before they are.  For any number
\* of watches, loads and failures, a task whose end it has announced is in the view, or will be when
\* the newest load is answered, or the page says that reading failed.  A load that began before the
\* task ended cannot be the newest.
THEOREM WatchedResultsAreShown == Spec => []WatchedResultIsShown
<1>1. ShownInv => WatchedResultIsShown
  BY DEF ShownInv, NewestCovers, Covers, Seen, WatchedResultIsShown
<1> QED
  BY <1>1, InitIsShown, StepsKeepShown, PTL DEF Spec

-----------------------------------------------------------------------------
(* The newest runs of a rule.                                              *)

\* A set of positions has a first one.
LEMMA FirstIsFirst ==
    ASSUME NEW positions \in SUBSET Nat, positions # {}
    PROVE  First(positions) \in positions /\ \A j \in positions : First(positions) <= j
<1>1. IsWellFoundedOn(OpToRel(<, Nat), Nat)
  BY NatLessThanWellFounded
<1>2. PICK i \in positions : \A j \in positions : ~(<<j, i>> \in OpToRel(<, Nat))
  BY <1>1, WFMin
<1>3. \A j \in positions : ~(j < i)
  BY <1>2 DEF OpToRel
<1>4. \E k \in positions : \A j \in positions : k <= j
  BY <1>3
<1> QED
  BY <1>4 DEF First

LEMMA NewestFacts ==
    ASSUME NEW S, NEW snapshots \in Seq(S), NEW positions \in SUBSET (DOMAIN snapshots)
    PROVE  /\ positions = {} <=> Newest(snapshots, positions) = << >>
           /\ positions # {} =>
                 /\ Newest(snapshots, positions)[1] = snapshots[First(positions)]
                 /\ Newest(snapshots, positions)[1] \in S
                 /\ First(positions) \in positions
                 /\ \A j \in positions : First(positions) <= j
           /\ Len(Newest(snapshots, positions)) > 1 => Newest(snapshots, positions)[2] \in S
<1> DEFINE first == First(positions)
           rest  == positions \ {first}
<1>1. DOMAIN snapshots = 1 .. Len(snapshots) /\ Len(snapshots) \in Nat
  OBVIOUS
<1>2. positions \in SUBSET Nat /\ rest \in SUBSET Nat
  BY <1>1
<1>3. positions # {} => first \in positions /\ \A j \in positions : first <= j
  BY <1>2, FirstIsFirst
<1>4. rest # {} => First(rest) \in rest
  BY <1>2, FirstIsFirst
<1>5. \A i \in positions : snapshots[i] \in S
  BY <1>1, ElementOfSeq
<1> HIDE DEF first
<1>6. CASE positions = {}
  <2>1. Newest(snapshots, positions) = << >>
    BY <1>6 DEF Newest
  <2> QED
    BY <1>6, <2>1
<1>7. CASE positions # {} /\ rest = {}
  <2>1. Newest(snapshots, positions) = <<snapshots[first]>>
    BY <1>7 DEF Newest, first
  <2>2. first \in positions /\ snapshots[first] \in S
    BY <1>3, <1>5, <1>7
  <2> QED
    BY <1>3, <1>7, <2>1, <2>2 DEF first
<1>8. CASE positions # {} /\ rest # {}
  <2>1. Newest(snapshots, positions) = <<snapshots[first], snapshots[First(rest)]>>
    BY <1>8 DEF Newest, first
  <2>2. first \in positions /\ snapshots[first] \in S /\ snapshots[First(rest)] \in S
    BY <1>3, <1>4, <1>5, <1>8
  <2> QED
    BY <1>3, <1>8, <2>1, <2>2 DEF first
<1> QED
  BY <1>6, <1>7, <1>8

-----------------------------------------------------------------------------
(* Items and their keys.                                                   *)

\* The keys of items are no more than the items, and as many only if they are all different.
LEMMA KeysAreCounted ==
    ASSUME NEW S, NEW items \in Seq(S)
    PROVE  /\ IsFiniteSet(KeysOf(items)) /\ Cardinality(KeysOf(items)) <= Len(items)
           /\ missingKeys(items) \in Nat /\ Cardinality(KeysOf(items)) \in Nat /\ Len(items) \in Nat
           /\ missingKeys(items) = 0 <=> \A i \in DOMAIN items : items[i].key # NoKey
           /\ missingKeys(items) = 0 /\ Cardinality(KeysOf(items)) = Len(items) =>
                 \A i, j \in DOMAIN items : items[i].key = items[j].key => i = j
<1> DEFINE n    == Len(items)
           keys == {items[i].key : i \in DOMAIN items}
           f    == [i \in 1 .. n |-> items[i].key]
           none == {i \in DOMAIN items : items[i].key = NoKey}
<1>1. n \in Nat /\ DOMAIN items = 1 .. n
  OBVIOUS
<1>2. IsFiniteSet(1 .. n) /\ Cardinality(1 .. n) = n
  BY <1>1, FS_Interval
<1>3. f \in Surjection(1 .. n, keys)
  BY <1>1 DEF Surjection
<1>4. /\ IsFiniteSet(keys) /\ Cardinality(keys) <= n
      /\ Cardinality(keys) = n <=> f \in Injection(1 .. n, keys)
  BY <1>2, <1>3, FS_Surjection
<1>5. KeysOf(items) \subseteq keys
  BY DEF KeysOf
<1>6. /\ IsFiniteSet(KeysOf(items)) /\ Cardinality(KeysOf(items)) <= Cardinality(keys)
      /\ Cardinality(KeysOf(items)) \in Nat /\ Cardinality(keys) \in Nat
  BY <1>4, <1>5, FS_Subset, FS_CardinalityType
<1>7. none \subseteq 1 .. n /\ missingKeys(items) = Cardinality(none)
  BY <1>1 DEF missingKeys
<1>8. IsFiniteSet(none) /\ Cardinality(none) \in Nat /\ (Cardinality(none) = 0 <=> none = {})
  BY <1>2, <1>7, FS_Subset, FS_CardinalityType, FS_EmptySet
<1>9. missingKeys(items) = 0 <=> \A i \in DOMAIN items : items[i].key # NoKey
  BY <1>7, <1>8
<1>10. ASSUME missingKeys(items) = 0, Cardinality(KeysOf(items)) = n
       PROVE  \A i, j \in DOMAIN items : items[i].key = items[j].key => i = j
  <2>1. KeysOf(items) = keys
    BY <1>9, <1>10 DEF KeysOf
  <2>2. f \in Injection(1 .. n, keys)
    BY <1>4, <1>10, <2>1
  <2>3. \A i, j \in 1 .. n : f[i] = f[j] => i = j
    BY <2>2 DEF Injection, IsInjective
  <2> QED
    BY <1>1, <2>3
<1> HIDE DEF keys, none
<1>11. Cardinality(KeysOf(items)) <= n
  BY <1>1, <1>4, <1>6
<1> QED
  BY <1>1, <1>6, <1>7, <1>8, <1>9, <1>10, <1>11

\* Items without a missing and without a repeated key.
LEMMA NothingIsRepeated ==
    ASSUME NEW S, NEW items \in Seq(S), missingKeys(items) + duplicates(items) <= 0
    PROVE  Cardinality(KeysOf(items)) = Len(items)
BY KeysAreCounted DEF duplicates

\* Where keys are all different, a key has one item.
LEMMA ItemOfKey ==
    ASSUME NEW items, NEW i \in DOMAIN items,
           \A j \in DOMAIN items : items[j].key = items[i].key => j = i, DOMAIN items \subseteq Nat
    PROVE  ItemOf(items, items[i].key) = items[i]
<1> DEFINE P(j) == items[j].key = items[i].key
                   /\ \A k \in DOMAIN items : items[k].key = items[i].key => k <= j
<1>1. P(i)
  <2>1. i \in Nat /\ i <= i
    OBVIOUS
  <2> QED
    BY <2>1
<1>2. \A j \in DOMAIN items : P(j) => j = i
  OBVIOUS
<1> HIDE DEF P
<1>3. (CHOOSE j \in DOMAIN items : P(j)) = i
  BY <1>1, <1>2
<1> QED
  BY <1>3 DEF ItemOf, P

\* The labels of the rows against a comparison of the two runs.
Agree(h, items, c) ==
    LET labelled(change) == {items[i].key : i \in {j \in DOMAIN items : Change(h, items[j]) = change}}
    IN  /\ c.unkeyed = {}
        /\ labelled("added") = c.added
        /\ labelled("changed") = c.changed
        /\ labelled("stable") \cap (c.added \cup c.changed) = {}

\* Rows that are not marked as a baseline tell what the comparison of the two runs tells.
LEMMA LabelsAgree ==
    ASSUME NEW h, h # << >>, NEW items, items = h[1].items, NEW c, c = compareSnapshots(h[2], h[1]),
           IsSequence(items), items # << >>,
           \A i \in DOMAIN items : Change(h, items[i]) # "baseline"
    PROVE  Agree(h, items, c)
<1> DEFINE prior == KeysOf(h[2].items)
<1>0. items \in Seq({items[i] : i \in DOMAIN items})
  BY DEF IsSequence
<1>1. 1 \in DOMAIN items /\ DOMAIN items = 1 .. Len(items) /\ DOMAIN items \subseteq Nat
  <2>1. Len(items) \in Nat /\ DOMAIN items = 1 .. Len(items) /\ Len(items) # 0
    BY <1>0, EmptySeq, LenProperties
  <2> QED
    BY <2>1
<1>2. IsReliable(h) /\ ItemsOf(h) = items
  BY <1>1 DEF Change, ItemsOf
<1>3. missingKeys(items) = 0 /\ duplicates(items) = 0
  BY <1>2 DEF IsReliable
<1>4. Cardinality(KeysOf(items)) = Len(items)
  BY <1>0, <1>3, NothingIsRepeated
<1>5. /\ \A i \in DOMAIN items : items[i].key # NoKey
      /\ \A i, j \in DOMAIN items : items[i].key = items[j].key => i = j
  BY <1>0, <1>3, <1>4, KeysAreCounted
<1>6. \A i \in DOMAIN items : ItemOf(items, items[i].key) = items[i]
  BY <1>1, <1>5, ItemOfKey
<1>7. KeysOf(items) = {items[i].key : i \in DOMAIN items}
  BY <1>5 DEF KeysOf
<1>8. \A i \in DOMAIN items :
         Change(h, items[i]) =
            IF items[i].key \notin prior THEN "added"
            ELSE IF items[i] # ItemOf(h[2].items, items[i].key) THEN "changed" ELSE "stable"
  BY <1>2 DEF Change
<1>9. /\ c.unkeyed = {i \in DOMAIN items : items[i].key = NoKey}
      /\ c.added = KeysOf(items) \ prior
      /\ c.changed = {key \in prior \cap KeysOf(items) :
                         ItemOf(h[2].items, key) # ItemOf(items, key)}
  BY DEF compareSnapshots
<1> HIDE DEF prior
<1>10. c.unkeyed = {}
  BY <1>5, <1>9
<1>11. \A i \in DOMAIN items : Change(h, items[i]) = "added" <=> items[i].key \notin prior
  BY <1>8
<1>12. \A i \in DOMAIN items :
          Change(h, items[i]) = "changed" <=>
             items[i].key \in prior /\ ItemOf(h[2].items, items[i].key) # ItemOf(items, items[i].key)
  BY <1>6, <1>8
<1>13. c.added = {items[i].key : i \in {j \in DOMAIN items : Change(h, items[j]) = "added"}}
  BY <1>7, <1>9, <1>11
<1>14. c.changed = {items[i].key : i \in {j \in DOMAIN items : Change(h, items[j]) = "changed"}}
  BY <1>7, <1>9, <1>12
<1>15. ASSUME NEW i \in DOMAIN items, Change(h, items[i]) = "stable"
       PROVE  items[i].key \notin c.added \cup c.changed
  BY <1>9, <1>11, <1>12, <1>15
<1> QED
  BY <1>10, <1>13, <1>14, <1>15 DEF Agree

-----------------------------------------------------------------------------
(* What the page says of the view.                                         *)

\* What a load may bring, once it is normalized.
Shown == {normalizeSnapshot(record) : record \in Snapshots}

ViewOK == view.snapshots \in Seq(Shown)

LEMMA ItemsAreSequences ==
    ASSUME NEW s \in Shown
    PROVE  IsSequence(s.items)
<1>1. PICK record \in Snapshots : s = normalizeSnapshot(record)
  BY DEF Shown
<1>2. PICK run \in AnyTask \X Outcome : record = Record(run[1], run[2])
  BY DEF Snapshots
<1>3. run[2] \in Outcome /\ record.payload = run[2].payload
  BY <1>2 DEF Record
<1>4. IsSequence(record.payload.items)
  BY <1>3 DEF Outcome
<1>5. s.items = record.payload.items \/ s.items = << >>
  BY <1>1 DEF normalizeSnapshot
<1>6. IsSequence(<< >>)
  BY EmptySeq DEF IsSequence
<1> QED
  BY <1>4, <1>5, <1>6

LEMMA InitShowsNothing == Init => ViewOK
BY EmptySeq DEF Init, ViewOK

\* The view is replaced as a whole, by what a load has brought.
LEMMA StepsKeepView == IInv /\ ViewOK /\ [Next]_vars => ViewOK'
<1> SUFFICES ASSUME IInv, ViewOK, [Next]_vars
             PROVE  ViewOK'
  OBVIOUS
<1>1. view' = view \/ \E v \in Version : Apply(v) /\ IsNewest(v)
  BY DEF Next, Refresh, LoadStep, Answer, LoadFails, Apply, ReportFailure, Complete, Collect,
         WatchStep, FetchTask, FetchFails, SeeEnd, GiveUp, PollAgain, loadVars, vars
<1>2. ASSUME NEW v \in Version, Apply(v), IsNewest(v)
      PROVE  ViewOK'
  <2> DEFINE records == loads[v].records
  <2>1. records \in Seq(Snapshots)
    BY DEF IInv, TypesOK, Loads
  <2>2. view'.snapshots = Normalized(records)
    BY <1>2 DEF Apply
  <2> HIDE DEF records
  <2>3. DOMAIN records = 1 .. Len(records) /\ Len(records) \in Nat
    BY <2>1
  <2>4. \A i \in 1 .. Len(records) : normalizeSnapshot(records[i]) \in Shown
    BY <2>1, ElementOfSeq DEF Shown
  <2>5. Normalized(records) \in [1 .. Len(records) -> Shown]
    BY <2>3, <2>4 DEF Normalized
  <2> QED
    BY <2>2, <2>3, <2>5, SeqDef DEF ViewOK
<1> QED
  BY <1>1, <1>2 DEF ViewOK

\* The newest observation of a rule, if it has any.
LEMMA HistoryIsShown ==
    ASSUME ViewOK, NEW rule, History(view.snapshots, rule) # << >>
    PROVE  History(view.snapshots, rule)[1] \in Shown
<1> DEFINE positions ==
      {i \in PositionsOf(view.snapshots, rule) : IsObservation(view.snapshots[i])}
<1>1. positions \in SUBSET (DOMAIN view.snapshots) /\ view.snapshots \in Seq(Shown)
  BY DEF PositionsOf, ViewOK
<1>2. History(view.snapshots, rule) = Newest(view.snapshots, positions)
  BY DEF History
<1> HIDE DEF positions
<1> QED
  BY <1>1, <1>2, NewestFacts

LEMMA ViewIsLabelled == ViewOK => LabelsAgreeWithComparison
<1> SUFFICES ASSUME ViewOK, NEW rule \in Rules, NEW h, h = History(view.snapshots, rule),
                    h # << >>, ItemsOf(h) # << >>,
                    {item.key : item \in {ItemsOf(h)[i] :
                        i \in {j \in DOMAIN ItemsOf(h) : Change(h, ItemsOf(h)[j]) = "baseline"}}} = {}
             PROVE  LET c == compareSnapshots(h[2], h[1])
                        labelled(change) == {item.key : item \in
                            {ItemsOf(h)[i] : i \in {j \in DOMAIN ItemsOf(h) :
                                                       Change(h, ItemsOf(h)[j]) = change}}}
                    IN  /\ c.unkeyed = {}
                        /\ labelled("added") = c.added
                        /\ labelled("changed") = c.changed
                        /\ labelled("stable") \cap (c.added \cup c.changed) = {}
  BY DEF LabelsAgreeWithComparison
<1>0a. PICK items : items = h[1].items
  OBVIOUS
<1>0b. PICK c : c = compareSnapshots(h[2], h[1])
  OBVIOUS
<1>1. ItemsOf(h) = items
  BY <1>0a DEF ItemsOf
<1>2. IsSequence(items)
  BY <1>0a, HistoryIsShown, ItemsAreSequences
<1>3. \A i \in DOMAIN items : Change(h, items[i]) # "baseline"
  BY <1>1
<1>4. Agree(h, items, c)
  <2>1. items # << >>
    BY <1>1
  <2> QED
    BY <1>0a, <1>0b, <1>2, <1>3, <2>1, LabelsAgree
<1>5. \A change : {item.key : item \in {items[i] : i \in {j \in DOMAIN items : Change(h, items[j]) = change}}}
                     = {items[i].key : i \in {j \in DOMAIN items : Change(h, items[j]) = change}}
  OBVIOUS
<1> QED
  BY <1>0b, <1>1, <1>4, <1>5 DEF Agree

\* A rule that is called healthy is judged by the run whose items it shows.
LEMMA HealthyIsShown == ViewOK => HealthyShowsLatest
<1> SUFFICES ASSUME ViewOK, NEW rule \in Rules, NEW age \in Age,
                    Health(view.snapshots, rule, age) = "healthy",
                    NEW runs, runs = RunsOf(view.snapshots, rule),
                    NEW h, h = History(view.snapshots, rule)
             PROVE  /\ h # << >> /\ h[1].task = runs[1].task
                    /\ Cardinality(KeysOf(h[1].items)) = Len(h[1].items)
                    /\ Len(h[1].items) >= rule.minItems
  BY DEF HealthyShowsLatest
<1> DEFINE s    == view.snapshots
           all  == PositionsOf(s, rule)
           good == {i \in all : IsObservation(s[i])}
           ok   == {i \in all : s[i].status = "succeeded"}
<1>1. s \in Seq(Shown) /\ all \in SUBSET (DOMAIN s) /\ good \in SUBSET (DOMAIN s)
      /\ ok \in SUBSET (DOMAIN s)
  BY DEF ViewOK, PositionsOf
<1>2. /\ runs = Newest(s, all) /\ h = Newest(s, good)
      /\ Successes(s, rule) = Newest(s, ok)
  BY DEF RunsOf, History, Successes
<1>3. /\ evaluateRuleHealth(s, rule, age) = "healthy"
      /\ ~(missingKeys(ItemsOf(h)) + duplicates(ItemsOf(h)) > 0)
  BY DEF Health
<1>4. /\ runs # << >> /\ runs[1].status = "succeeded" /\ runs[1].parseError = "none"
      /\ ~(Len(Successes(s, rule)[1].items) < rule.minItems)
  BY <1>3 DEF evaluateRuleHealth, Judged
<1> DEFINE first == First(all)
<1> HIDE DEF s, all, good, ok, first
<1>5. first \in all /\ runs[1] = s[first] /\ \A j \in all : first <= j
  BY <1>1, <1>2, <1>4, NewestFacts DEF first
<1>6. first \in good /\ first \in ok
  BY <1>4, <1>5 DEF good, ok, IsObservation
<1>7. good \subseteq all /\ ok \subseteq all /\ all \subseteq Nat
  <2>1. DOMAIN s \subseteq Nat
    BY <1>1
  <2> QED
    BY <1>1, <2>1 DEF good, ok
<1>8. First(good) = first /\ First(ok) = first
  <2>1. First(good) \in good /\ First(good) <= first
    BY <1>6, <1>7, FirstIsFirst
  <2>2. First(ok) \in ok /\ First(ok) <= first
    BY <1>6, <1>7, FirstIsFirst
  <2>3. first <= First(good) /\ first <= First(ok)
    BY <1>5, <1>7, <2>1, <2>2
  <2>4. first \in Nat /\ First(good) \in Nat /\ First(ok) \in Nat
    BY <1>5, <1>7, <2>1, <2>2
  <2> QED
    BY <2>1, <2>2, <2>3, <2>4
<1>9. h # << >> /\ h[1] = s[first] /\ Successes(s, rule)[1] = s[first] /\ h[1] \in Shown
  BY <1>1, <1>2, <1>6, <1>8, NewestFacts
<1>10. ItemsOf(h) = h[1].items
  BY <1>9 DEF ItemsOf
<1> DEFINE items == h[1].items
<1>11. IsSequence(items)
  BY <1>9, ItemsAreSequences
<1>12. /\ ~(missingKeys(items) + duplicates(items) > 0)
       /\ ~(Len(items) < rule.minItems)
  BY <1>3, <1>4, <1>9, <1>10
<1> HIDE DEF items
<1>13. missingKeys(items) \in Nat /\ Cardinality(KeysOf(items)) \in Nat /\ Len(items) \in Nat
  BY <1>11, KeysAreCounted DEF IsSequence
<1>14. missingKeys(items) + duplicates(items) <= 0
  BY <1>12, <1>13 DEF duplicates
<1>15. Cardinality(KeysOf(items)) = Len(items)
  BY <1>11, <1>14, NothingIsRepeated DEF IsSequence
<1>16. Len(items) >= rule.minItems
  BY <1>12, <1>13
<1> QED
  BY <1>5, <1>9, <1>15, <1>16 DEF items

LEMMA ViewIsTyped == Spec => []ViewOK
BY InitSatisfiesInv, InitShowsNothing, StepsKeepInv, StepsKeepView, PTL DEF Spec

\* A row is labelled by its own rule and the comparison of two runs is computed by another
\* (workbench.js:121-128, analysis.js:124-174): whatever runs are loaded, with keys missing or
\* repeated in either of them, rows that are not left as a baseline tell what the comparison tells.
THEOREM LabelsTellTheComparison == Spec => []LabelsAgreeWithComparison
BY ViewIsTyped, ViewIsLabelled, PTL

\* The health of a rule is judged by its runs, its rows come from its observations: whatever runs
\* are loaded, those of a rule that is called healthy are of the newest run.
THEOREM HealthyRulesShowTheLatest == Spec => []HealthyShowsLatest
BY ViewIsTyped, HealthyIsShown, PTL

=============================================================================
