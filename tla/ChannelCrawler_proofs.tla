------------------------ MODULE ChannelCrawler_proofs ------------------------
(***************************************************************************)
(* Crawls that do not overlap, for any number of repositories, goroutines, *)
(* posts, rounds and restarts, and for every kind of result: what a reader *)
(* finds of a name is its latest crawl, and none is refused.               *)
(***************************************************************************)
EXTENDS ChannelCrawler, FiniteSetTheorems, SequenceTheorems, WellFoundedInduction, TLAPS

USE CrawlerAssumption DEF Name

-----------------------------------------------------------------------------
(* The inductive invariant.                                                *)

\* What FirstOrCreate found is a row of the table, crawls overlapping or not.
FoundIsThere == \A w \in Worker : work[w].found <= Len(rows)

\* As long as no two crawls overlapped, one is in hand at most ...
CrawlsApart == \A v, w \in Worker : workerPc[v] # "idle" /\ workerPc[w] # "idle" => v = w

\* ... and what FirstOrCreate found is what it would find again.
FoundIsCurrent == \A w \in Worker : workerPc[w] = "save" => work[w].found = FoundRow(NameOf(w))

\* The row of a crawl comes before the row of a discovery.
CrawledRowIsFirst ==
    \A i, j \in 1 .. Len(rows) :
        rows[i].name = rows[j].name /\ rows[i].source = "github" => i <= j

\* The empty name is a target only once it has a row, and that is the first of the table.
HoldsEmptyName(names) == \E i \in 1 .. Len(names) : names[i] = NoName

EmptyNameIsUsed ==
    \/ HoldsEmptyName(queue) \/ HoldsEmptyName(round)
    \/ \E w \in Worker : workerPc[w] # "idle" /\ work[w].target = NoName
    \/ RowsOf(NoName) # {}

EmptyNameIsFirst == EmptyNameIsUsed => rows # << >> /\ rows[1].name = NoName

\* The first row of a crawled name is there, and is of its latest crawl.
LatestIsFirst ==
    \A n \in Repo : latest[n] # 0 => RowsOf(n) # {} /\ rows[FirstRow(n)].crawl = latest[n]

\* What holds as long as crawls are apart.
WhileApart ==
    /\ CrawlsApart /\ FoundIsCurrent
    /\ CrawledRowIsFirst /\ EmptyNameIsFirst /\ LatestIsFirst
    /\ ~refused

IInv == TypeOK /\ FoundIsThere /\ (~overlap => WhileApart)

-----------------------------------------------------------------------------
(* The proofs.                                                             *)

-----------------------------------------------------------------------------
(* Types.                                                                  *)

LEMMA BecomeTyped ==
    ASSUME TypeOK, NEW w \in Worker, NEW pc \in {"idle", "run", "find", "save", "discover"},
           NEW facts \in Work, Become(w, pc, facts)
    PROVE  /\ workerPc' \in [Worker -> {"idle", "run", "find", "save", "discover"}]
           /\ work' \in [Worker -> Work]
           /\ workerPc'[w] = pc /\ work'[w] = facts
           /\ \A v \in Worker : v # w => workerPc'[v] = workerPc[v] /\ work'[v] = work[v]
BY DEF TypeOK, Become

LEMMA NoWorkTyped == NoWork \in Work
BY DEF NoWork, Work, ResultKinds

LEMMA OfferTyped ==
    ASSUME TypeOK, NEW n \in Name, Offer(n)
    PROVE  /\ queue' \in Seq(Name) /\ Len(queue') <= QueueSize
           /\ \A i \in 1 .. Len(queue') :
                 queue'[i] = n \/ \E j \in 1 .. Len(queue) : queue'[i] = queue[j]
<1>1. CASE Len(queue) < QueueSize
  <2>1. queue' = Append(queue, n) /\ queue \in Seq(Name) /\ QueueSize \in Nat
    BY <1>1 DEF TypeOK, Offer
  <2>2. queue' \in Seq(Name) /\ Len(queue') = Len(queue) + 1
    BY <2>1
  <2>3. \A i \in 1 .. Len(queue') :
           queue'[i] = n \/ (i \in 1 .. Len(queue) /\ queue'[i] = queue[i])
    BY <2>1
  <2> QED
    BY <1>1, <2>1, <2>2, <2>3
<1>2. CASE ~(Len(queue) < QueueSize)
  BY <1>2 DEF TypeOK, Offer
<1> QED
  BY <1>1, <1>2

\* A set of positions has a first one.
LEMMA FirstPosition ==
    ASSUME NEW S \in SUBSET Nat, S # {}
    PROVE  \E i \in S : \A j \in S : i <= j
<1>1. IsWellFoundedOn(OpToRel(<, Nat), Nat)
  BY NatLessThanWellFounded
<1>2. PICK i \in S : \A j \in S : ~(<<j, i>> \in OpToRel(<, Nat))
  BY <1>1, WFMin
<1>3. \A j \in S : ~(j < i)
  BY <1>2 DEF OpToRel
<1> QED
  BY <1>3

\* What ORDER BY id LIMIT 1 finds.
RowsAreFound ==
    \A n : \/ RowsOf(n) = {} /\ FirstRow(n) = 0
           \/ FirstRow(n) \in RowsOf(n) /\ \A j \in RowsOf(n) : FirstRow(n) <= j

TableTyped == rows \in Seq(GithubRow)

LEMMA FirstRowIsFound == TableTyped => RowsAreFound
<1> SUFFICES ASSUME TableTyped, NEW n, RowsOf(n) # {}
             PROVE  FirstRow(n) \in RowsOf(n) /\ \A j \in RowsOf(n) : FirstRow(n) <= j
  BY DEF RowsAreFound, FirstRow
<1>1. RowsOf(n) \in SUBSET Nat
  BY DEF RowsOf
<1>2. \E i \in RowsOf(n) : \A j \in RowsOf(n) : i <= j
  BY <1>1, FirstPosition
<1> QED
  BY <1>2 DEF FirstRow

\* What FirstOrCreate finds is a row of the table, or none.
LEMMA FoundIsRow ==
    ASSUME TableTyped, NEW n
    PROVE  FoundRow(n) \in 0 .. Len(rows)
<1>1. FirstRow(n) \in 0 .. Len(rows)
  BY FirstRowIsFound DEF RowsAreFound, RowsOf, TableTyped
<1>2. rows # << >> => 1 \in 0 .. Len(rows)
  BY DEF TableTyped
<1> QED
  BY <1>1, <1>2 DEF FoundRow

\* A function on 1 .. n is a sequence.
LEMMA FunctionIsSequence ==
    ASSUME NEW S, NEW n \in Nat, NEW f \in [1 .. n -> S]
    PROVE  f \in Seq(S) /\ Len(f) = n
<1>1. f \in Seq(S)
  BY SeqDef
<1>2. DOMAIN f = 1 .. Len(f) /\ Len(f) \in Nat /\ DOMAIN f = 1 .. n
  BY <1>1, LenProperties
<1>3. Len(f) = n
  BY <1>2
<1> QED
  BY <1>1, <1>3

LEMMA DiscoveredTyped ==
    ASSUME TypeOK, NEW links \in SUBSET Repo, NEW order \in Orders(NewLinks(links)),
           NEW table, table = Discovered(order)
    PROVE  /\ table \in Seq(GithubRow) /\ Len(table) >= Len(rows)
           /\ \A i \in 1 .. Len(rows) : i \in 1 .. Len(table) /\ table[i] = rows[i]
           /\ \A i \in 1 .. Len(table) :
                 \/ i \in 1 .. Len(rows)
                 \/ i > Len(rows) /\ table[i].source = "" /\ table[i].name \in Repo
<1> DEFINE new == NewLinks(links)
<1> DEFINE n == Cardinality(new)
<1>1. n \in Nat
  <2>1. new \in SUBSET Repo
    BY DEF NewLinks
  <2> QED
    BY <2>1, FS_Subset, FS_CardinalityType
<1>2. order \in [1 .. n -> Repo]
  BY DEF Orders, NewLinks
<1> HIDE DEF n
<1>3. order \in Seq(Repo) /\ Len(order) = n
  BY <1>1, <1>2, FunctionIsSequence
<1> DEFINE added == [i \in 1 .. Len(order) |-> [name |-> order[i], source |-> "", crawl |-> 0]]
<1>4. \A i \in 1 .. n : /\ added[i] \in GithubRow
                        /\ added[i].source = "" /\ added[i].name \in Repo
  BY <1>2, <1>3 DEF GithubRow
<1>5. added \in [1 .. n -> GithubRow]
  BY <1>3, <1>4
<1>6. table = rows \o added
  BY DEF Discovered
<1>7. rows \in Seq(GithubRow) /\ Len(rows) \in Nat
  BY DEF TypeOK
<1> HIDE DEF added
<1>8. added \in Seq(GithubRow) /\ Len(added) = n
  BY <1>1, <1>5, FunctionIsSequence
<1>9. /\ table \in Seq(GithubRow) /\ Len(table) = Len(rows) + n
      /\ \A i \in 1 .. Len(rows) + n :
            table[i] = IF i <= Len(rows) THEN rows[i] ELSE added[i - Len(rows)]
  BY <1>6, <1>7, <1>8, ConcatProperties
<1>10. \A i \in 1 .. Len(rows) : i \in 1 .. Len(table) /\ table[i] = rows[i]
  BY <1>1, <1>7, <1>9
<1>11. ASSUME NEW i \in 1 .. Len(table), i \notin 1 .. Len(rows)
       PROVE  i > Len(rows) /\ table[i].source = "" /\ table[i].name \in Repo
  <2>1. i > Len(rows) /\ i - Len(rows) \in 1 .. n /\ i \in 1 .. Len(rows) + n /\ ~(i <= Len(rows))
    BY <1>1, <1>7, <1>9, <1>11
  <2>2. table[i] = added[i - Len(rows)]
    BY <1>9, <2>1
  <2> QED
    BY <1>4, <2>1, <2>2
<1>12. Len(table) >= Len(rows)
  BY <1>1, <1>7, <1>9
<1> QED
  BY <1>9, <1>10, <1>11, <1>12

\* What Save makes of the table: a row more, or one row changed.
LEMMA SavedTyped ==
    ASSUME TypeOK, NEW w \in Worker, work[w].found <= Len(rows)
    PROVE  /\ SavedRows(w) \in Seq(GithubRow)
           /\ work[w].found = 0 =>
                 /\ Len(SavedRows(w)) = Len(rows) + 1
                 /\ \A i \in 1 .. Len(rows) : SavedRows(w)[i] = rows[i]
                 /\ SavedRows(w)[Len(rows) + 1] =
                       [name |-> NameOf(w), source |-> "github", crawl |-> work[w].crawl]
           /\ work[w].found # 0 =>
                 /\ Len(SavedRows(w)) = Len(rows)
                 /\ \A i \in 1 .. Len(rows) : i # work[w].found => SavedRows(w)[i] = rows[i]
                 /\ SavedRows(w)[work[w].found].name = rows[work[w].found].name
                 /\ SavedRows(w)[work[w].found].source = "github"
                 /\ SavedRows(w)[work[w].found].crawl =
                       IF Stored(w) THEN work[w].crawl ELSE rows[work[w].found].crawl
<1>0. /\ rows \in Seq(GithubRow) /\ Len(rows) \in Nat
      /\ work[w] \in Work /\ work[w].found \in Nat /\ NameOf(w) \in Name
  BY DEF TypeOK, Work, NameOf
<1>1. CASE work[w].found = 0
  <2> DEFINE row == [name |-> NameOf(w), source |-> "github", crawl |-> work[w].crawl]
  <2>1. row \in GithubRow
    BY <1>0 DEF GithubRow, Work
  <2>2. SavedRows(w) = Append(rows, row)
    BY <1>1 DEF SavedRows
  <2> HIDE DEF row
  <2>3. /\ Append(rows, row) \in Seq(GithubRow) /\ Len(Append(rows, row)) = Len(rows) + 1
        /\ \A i \in 1 .. Len(rows) : Append(rows, row)[i] = rows[i]
        /\ Append(rows, row)[Len(rows) + 1] = row
    BY <1>0, <2>1
  <2> QED
    BY <1>1, <2>2, <2>3 DEF row
<1>2. CASE work[w].found # 0
  <2> DEFINE k == work[w].found
  <2> DEFINE row == [rows[k] EXCEPT !.source = "github",
                                    !.crawl = IF Stored(w) THEN work[w].crawl ELSE @]
  <2>1. k \in 1 .. Len(rows) /\ rows[k] \in GithubRow
    BY <1>0, <1>2, ElementOfSeq
  <2>2. /\ row \in GithubRow /\ row.name = rows[k].name /\ row.source = "github"
        /\ row.crawl = IF Stored(w) THEN work[w].crawl ELSE rows[k].crawl
    BY <1>0, <2>1 DEF GithubRow, Work
  <2>3. SavedRows(w) = [rows EXCEPT ![k] = row]
    BY <1>0, <1>2, <2>1 DEF SavedRows, GithubRow
  <2> HIDE DEF row
  <2>4. /\ [rows EXCEPT ![k] = row] \in Seq(GithubRow)
        /\ Len([rows EXCEPT ![k] = row]) = Len(rows)
        /\ \A i \in 1 .. Len(rows) : [rows EXCEPT ![k] = row][i] = IF i = k THEN row ELSE rows[i]
    BY <1>0, <2>1, <2>2, ExceptSeq
  <2> QED
    BY <1>2, <2>1, <2>2, <2>3, <2>4
<1> QED
  BY <1>1, <1>2

\* Every step keeps the types, and the rows that were found.
LEMMA TypesKept ==
    ASSUME TypeOK, FoundIsThere, [Next]_vars
    PROVE  TypeOK' /\ FoundIsThere'
<1>0. /\ queue \in Seq(Name) /\ Len(queue) <= QueueSize /\ round \in Seq(Name)
      /\ rows \in Seq(GithubRow) /\ Len(rows) \in Nat
      /\ workerPc \in [Worker -> {"idle", "run", "find", "save", "discover"}]
      /\ work \in [Worker -> Work]
      /\ crawls \in Nat /\ latest \in [Name -> Nat] /\ {refused, overlap} \subseteq BOOLEAN
      /\ posts \in 0 .. MaxPosts /\ rounds \in 0 .. MaxRounds /\ restarts \in 0 .. MaxRestarts
      /\ \A w \in Worker : work[w] \in Work
  BY DEF TypeOK
<1> USE DEF FoundIsThere
<1>1. ASSUME NEW n \in Repo, CreateTask(n)
      PROVE  TypeOK' /\ FoundIsThere'
  <2>1. queue' \in Seq(Name) /\ Len(queue') <= QueueSize
    BY <1>1, OfferTyped DEF CreateTask
  <2> QED
    BY <1>0, <1>1, <2>1 DEF CreateTask, TypeOK, history
<1>2. CASE StartRound
  <2>0. \A i \in 1 .. Len(rows) : rows[i].name \in Name
    <3>1. \A i \in 1 .. Len(rows) : rows[i] \in GithubRow
      BY <1>0, ElementOfSeq
    <3> QED
      BY <3>1 DEF GithubRow
  <2>1. round' \in [1 .. Len(rows) -> Name]
    BY <1>2, <2>0 DEF StartRound
  <2>2. round' \in Seq(Name)
    BY <1>0, <2>1, FunctionIsSequence
  <2> QED
    BY <1>0, <1>2, <2>2 DEF StartRound, TypeOK, history
<1>3. CASE Dispatch
  <2>1. Head(round) \in Name /\ round' \in Seq(Name)
    BY <1>0, <1>3, HeadTailProperties DEF Dispatch
  <2>2. queue' \in Seq(Name) /\ Len(queue') <= QueueSize
    BY <1>3, <2>1, OfferTyped DEF Dispatch
  <2> QED
    BY <1>0, <1>3, <2>1, <2>2 DEF Dispatch, TypeOK, history, bounds
<1>4. ASSUME NEW w \in Worker, NEW facts \in Work,
             NEW pc \in {"idle", "run", "find", "save", "discover"}, Become(w, pc, facts),
             facts.found <= Len(rows'), rows' \in Seq(GithubRow), Len(rows) <= Len(rows'),
             queue' \in Seq(Name), Len(queue') <= QueueSize,
             crawls' \in Nat, latest' \in [Name -> Nat], refused' \in BOOLEAN, overlap' \in BOOLEAN,
             UNCHANGED <<round, bounds>>
      PROVE  TypeOK' /\ FoundIsThere'
  <2>1. /\ workerPc' \in [Worker -> {"idle", "run", "find", "save", "discover"}]
        /\ work' \in [Worker -> Work]
        /\ work'[w] = facts /\ \A v \in Worker : v # w => work'[v] = work[v]
    BY <1>4, BecomeTyped
  <2>2. TypeOK'
    BY <1>0, <1>4, <2>1 DEF TypeOK, bounds
  <2>3. ASSUME NEW v \in Worker
        PROVE  work'[v].found <= Len(rows')
    <3>1. CASE v = w
      BY <1>4, <2>1, <3>1
    <3>2. CASE v # w
      <4>1. work[v].found \in Nat /\ Len(rows') \in Nat
        BY <1>0, <1>4 DEF Work
      <4>2. work[v].found <= Len(rows) /\ Len(rows) <= Len(rows') /\ work'[v] = work[v]
        BY <1>4, <2>1, <3>2
      <4> QED
        BY <1>0, <4>1, <4>2
    <3> QED
      BY <3>1, <3>2
  <2> QED
    BY <2>2, <2>3
<1>5. ASSUME NEW w \in Worker, Take(w)
      PROVE  TypeOK' /\ FoundIsThere'
  <2> DEFINE facts == [NoWork EXCEPT !.target = Head(queue), !.crawl = crawls']
  <2>1. Head(queue) \in Name /\ queue' \in Seq(Name) /\ Len(queue') <= QueueSize /\ crawls' \in Nat
    BY <1>0, <1>5, HeadTailProperties DEF Take
  <2>2. facts \in Work /\ facts.found = 0
    BY <2>1, NoWorkTyped DEF NoWork, Work
  <2>3. overlap' \in BOOLEAN
    BY <1>0, <1>5 DEF Take
  <2>4. Become(w, "run", facts) /\ UNCHANGED <<round, rows, latest, refused, bounds>>
    BY <1>5 DEF Take
  <2> HIDE DEF facts
  <2>5. UNCHANGED rows /\ facts.found <= Len(rows') /\ Len(rows) <= Len(rows')
    BY <1>0, <2>2, <2>4
  <2>6. latest' \in [Name -> Nat] /\ refused' \in BOOLEAN
    BY <1>0, <2>4
  <2> QED
    BY <1>0, <1>4, <2>1, <2>2, <2>3, <2>4, <2>5, <2>6
<1>6. ASSUME NEW w \in Worker, RunFails(w)
      PROVE  TypeOK' /\ FoundIsThere'
  <2>1. Become(w, "idle", NoWork) /\ UNCHANGED <<queue, round, rows, history, bounds>>
    BY <1>6 DEF RunFails, Rest
  <2>2. NoWork.found = 0
    BY DEF NoWork
  <2> QED
    BY <1>0, <1>4, <2>1, <2>2, NoWorkTyped DEF history
<1>7. ASSUME NEW w \in Worker, NEW result \in Results, NEW links \in SUBSET Repo,
             RunReturns(w, result, links)
      PROVE  TypeOK' /\ FoundIsThere'
  <2> DEFINE facts == [work[w] EXCEPT !.result = result, !.links = links]
  <2>1. facts \in Work /\ facts.found = work[w].found
    BY <1>0 DEF Work
  <2>2. Become(w, "find", facts) /\ UNCHANGED <<queue, round, rows, history, bounds>>
    BY <1>7 DEF RunReturns
  <2> HIDE DEF facts
  <2> QED
    BY <1>0, <1>4, <2>1, <2>2 DEF history
<1>8. ASSUME NEW w \in Worker, Find(w)
      PROVE  TypeOK' /\ FoundIsThere'
  <2> DEFINE facts == [work[w] EXCEPT !.found = FoundRow(NameOf(w))]
  <2>1. FoundRow(NameOf(w)) \in 0 .. Len(rows)
    BY <1>0, FoundIsRow DEF TableTyped
  <2>2. facts \in Work /\ facts.found <= Len(rows)
    <3>1. FoundRow(NameOf(w)) \in Nat /\ work[w] \in Work
      BY <1>0, <2>1
    <3>2. facts \in Work /\ facts.found = FoundRow(NameOf(w))
      BY <3>1 DEF Work
    <3> QED
      BY <1>0, <2>1, <3>2
  <2>3. Become(w, "save", facts) /\ UNCHANGED <<queue, round, rows, history, bounds>>
    BY <1>8 DEF Find
  <2> HIDE DEF facts
  <2> QED
    BY <1>0, <1>4, <2>2, <2>3 DEF history
<1>9. ASSUME NEW w \in Worker, Save(w)
      PROVE  TypeOK' /\ FoundIsThere'
  <2>0. work[w].found <= Len(rows)
    OBVIOUS
  <2>1. SavedRows(w) \in Seq(GithubRow) /\ Len(SavedRows(w)) \in {Len(rows), Len(rows) + 1}
    BY <2>0, SavedTyped
  <2>2. latest' \in [Name -> Nat]
    BY <1>0, <1>9 DEF Save, Work
  <2>3. /\ Become(w, "discover", work[w]) /\ rows' = SavedRows(w)
        /\ UNCHANGED <<queue, round, crawls, refused, overlap, bounds>>
    BY <1>9 DEF Save
  <2>4. work[w].found <= Len(rows') /\ Len(rows) <= Len(rows')
    <3>1. work[w].found \in Nat
      BY <1>0 DEF Work
    <3> QED
      BY <1>0, <2>0, <2>1, <2>3, <3>1
  <2> QED
    BY <1>0, <1>4, <2>1, <2>2, <2>3, <2>4
<1>10. ASSUME NEW w \in Worker, SaveRefused(w)
       PROVE  TypeOK' /\ FoundIsThere'
  <2>1. /\ Become(w, "idle", NoWork) /\ refused' \in BOOLEAN
        /\ UNCHANGED <<queue, round, rows, crawls, latest, overlap, bounds>>
    BY <1>10 DEF SaveRefused, Rest
  <2>2. NoWork.found = 0
    BY DEF NoWork
  <2> QED
    BY <1>0, <1>4, <2>1, <2>2, NoWorkTyped
<1>11. ASSUME NEW w \in Worker, Discover(w)
       PROVE  TypeOK' /\ FoundIsThere'
  <2>1. PICK order \in Orders(NewLinks(work[w].links)) : rows' = Discovered(order)
    BY <1>11 DEF Discover
  <2>2. rows' \in Seq(GithubRow) /\ Len(rows) <= Len(rows')
    <3>1. work[w].links \in SUBSET Repo
      BY <1>0 DEF Work
    <3>2. rows' \in Seq(GithubRow) /\ Len(rows') >= Len(rows)
      BY <2>1, <3>1, DiscoveredTyped
    <3> QED
      BY <1>0, <3>2, LenProperties
  <2>3. Become(w, "idle", NoWork) /\ UNCHANGED <<queue, round, history, bounds>>
    BY <1>11 DEF Discover, Rest
  <2>4. NoWork.found = 0 /\ Len(rows) <= Len(rows')
    BY <1>0, <2>2 DEF NoWork
  <2> QED
    BY <1>0, <1>4, <2>2, <2>3, <2>4, NoWorkTyped DEF history
<1>12. CASE Restart
  BY <1>0, <1>12, NoWorkTyped DEF Restart, TypeOK, history, NoWork
<1>13. CASE UNCHANGED vars
  BY <1>0, <1>13 DEF vars, history, bounds, TypeOK
<1> QED
  BY <1>1, <1>2, <1>3, <1>5, <1>6, <1>7, <1>8, <1>9, <1>10, <1>11, <1>12, <1>13
     DEF Next, WorkerStep

-----------------------------------------------------------------------------
(* What FirstOrCreate finds, and what a reader finds.                      *)

\* Rows that are added leave the first row of a name where it is.
LEMMA FirstRowKept ==
    ASSUME TableTyped, TableTyped', NEW n, RowsOf(n) # {},
           RowsOf(n) \subseteq RowsOf(n)', \A i \in RowsOf(n)' \ RowsOf(n) : i > Len(rows)
    PROVE  RowsOf(n)' # {} /\ FirstRow(n)' = FirstRow(n) /\ FirstRow(n) \in RowsOf(n)
<1>1. RowsAreFound /\ RowsAreFound'
  <2>1. RowsAreFound'
    BY FirstRowIsFound, PTL
  <2> QED
    BY <2>1, FirstRowIsFound
<1>2. FirstRow(n) \in RowsOf(n) /\ \A j \in RowsOf(n) : FirstRow(n) <= j
  BY <1>1 DEF RowsAreFound
<1>3. FirstRow(n)' \in RowsOf(n)' /\ \A j \in RowsOf(n)' : FirstRow(n)' <= j
  BY <1>1, <1>2 DEF RowsAreFound
<1>4. /\ \A i \in RowsOf(n) : i \in Nat /\ i <= Len(rows)
      /\ \A i \in RowsOf(n)' : i \in Nat
      /\ Len(rows) \in Nat
  BY DEF RowsOf, TableTyped
<1>5. FirstRow(n)' \in RowsOf(n)
  BY <1>2, <1>3, <1>4
<1>6. FirstRow(n)' = FirstRow(n)
  BY <1>2, <1>3, <1>4, <1>5
<1> QED
  BY <1>2, <1>6

\* The row found for a name, and none before it has the name it has.
LEMMA FoundRowFacts ==
    ASSUME TableTyped, NEW n
    PROVE  /\ FoundRow(n) = 0 => RowsOf(n) = {} /\ (n = NoName => rows = << >>)
           /\ FoundRow(n) # 0 =>
                /\ FoundRow(n) \in 1 .. Len(rows)
                /\ \A j \in 1 .. Len(rows) :
                      rows[j].name = rows[FoundRow(n)].name => FoundRow(n) <= j
                /\ n # NoName => rows[FoundRow(n)].name = n /\ FoundRow(n) = FirstRow(n)
                /\ n = NoName => FoundRow(n) = 1
<1>1. CASE n # NoName
  <2>1. FoundRow(n) = FirstRow(n)
    BY <1>1 DEF FoundRow
  <2>2. \/ RowsOf(n) = {} /\ FirstRow(n) = 0
        \/ FirstRow(n) \in RowsOf(n) /\ \A j \in RowsOf(n) : FirstRow(n) <= j
    BY FirstRowIsFound DEF RowsAreFound
  <2> QED
    BY <1>1, <2>1, <2>2 DEF RowsOf, TableTyped
<1>2. CASE n = NoName /\ rows # << >>
  <2>1. FoundRow(n) = 1 /\ Len(rows) \in Nat \ {0}
    BY <1>2, EmptySeq DEF FoundRow, TableTyped
  <2> QED
    BY <1>2, <2>1
<1>3. CASE n = NoName /\ rows = << >>
  BY <1>3 DEF FoundRow, RowsOf
<1> QED
  BY <1>1, <1>2, <1>3

-----------------------------------------------------------------------------
(* Crawls that stay apart.                                                 *)

\* Steps that leave the table alone leave what is found in it alone.
LEMMA SameTable ==
    ASSUME WhileApart, UNCHANGED <<rows, latest, refused>>
    PROVE  /\ CrawledRowIsFirst' /\ LatestIsFirst' /\ ~refused'
           /\ \A n : RowsOf(n)' = RowsOf(n) /\ FoundRow(n)' = FoundRow(n)
<1>1. rows' = rows /\ latest' = latest /\ refused' = refused
  OBVIOUS
<1>2. CrawledRowIsFirst' /\ ~refused'
  BY <1>1 DEF WhileApart, CrawledRowIsFirst
<1>3. \A n : RowsOf(n)' = RowsOf(n)
  BY <1>1 DEF RowsOf
<1>4. \A n : FirstRow(n)' = FirstRow(n)
  BY <1>1 DEF FirstRow, RowsOf
<1>5. \A n : FoundRow(n)' = FoundRow(n)
  BY <1>1, <1>4 DEF FoundRow
<1>6. LatestIsFirst'
  BY <1>1, <1>3, <1>4 DEF WhileApart, LatestIsFirst
<1> QED
  BY <1>2, <1>3, <1>5, <1>6

\* The only worker at work moves on.
LEMMA OneMoves ==
    ASSUME TypeOK, CrawlsApart, NEW w \in Worker, workerPc[w] # "idle",
           NEW pc \in {"idle", "run", "find", "save", "discover"}, NEW facts \in Work,
           Become(w, pc, facts)
    PROVE  /\ CrawlsApart'
           /\ \A v \in Worker : workerPc'[v] # "idle" => v = w
           /\ workerPc'[w] = pc /\ work'[w] = facts
BY BecomeTyped DEF CrawlsApart

\* Nothing comes to name the empty name but its row.
LEMMA EmptyNameKept ==
    ASSUME EmptyNameIsFirst, UNCHANGED rows, EmptyNameIsUsed' => EmptyNameIsUsed
    PROVE  EmptyNameIsFirst'
BY DEF EmptyNameIsFirst

\* The posts and the cron job.
LEMMA FeedingKeepsApart ==
    ASSUME TypeOK, WhileApart, (\E n \in Repo : CreateTask(n)) \/ StartRound \/ Dispatch
    PROVE  WhileApart'
<1>0. /\ queue \in Seq(Name) /\ round \in Seq(Name) /\ rows \in Seq(GithubRow)
      /\ Repo \subseteq Name /\ NoName \notin Repo
  BY DEF TypeOK, NoName
<1>1. UNCHANGED <<rows, workerPc, work, latest, refused>>
  BY DEF CreateTask, StartRound, Dispatch, history
<1>2. /\ CrawledRowIsFirst' /\ LatestIsFirst' /\ ~refused' /\ CrawlsApart' /\ FoundIsCurrent'
      /\ RowsOf(NoName)' = RowsOf(NoName)
  BY <1>1, SameTable DEF WhileApart, CrawlsApart, FoundIsCurrent, NameOf
<1>3. ASSUME NEW n \in Repo, CreateTask(n)
      PROVE  HoldsEmptyName(queue') => HoldsEmptyName(queue)
  BY <1>0, <1>3, OfferTyped DEF CreateTask, HoldsEmptyName
<1>4. ASSUME StartRound
      PROVE  HoldsEmptyName(round') => RowsOf(NoName) # {}
  <2>1. round' = [i \in 1 .. Len(rows) |-> rows[i].name] /\ Len(rows) \in Nat
    BY <1>0, <1>4 DEF StartRound
  <2>2. DOMAIN round' = 1 .. Len(rows) /\ Len(round') = Len(rows)
    BY <2>1
  <2> QED
    BY <2>1, <2>2 DEF HoldsEmptyName, RowsOf
<1>5. ASSUME Dispatch
      PROVE  /\ HoldsEmptyName(queue') => HoldsEmptyName(queue) \/ HoldsEmptyName(round)
             /\ HoldsEmptyName(round') => HoldsEmptyName(round)
  <2>1. /\ round # << >> /\ Offer(Head(round)) /\ round' = Tail(round)
        /\ Head(round) \in Name /\ Len(round) \in Nat \ {0} /\ Head(round) = round[1]
        /\ Len(round') = Len(round) - 1
        /\ \A i \in 1 .. Len(round') : round'[i] = round[i + 1]
    BY <1>0, <1>5, HeadTailProperties, EmptySeq DEF Dispatch
  <2>2. \A i \in 1 .. Len(queue') :
            queue'[i] = round[1] \/ \E j \in 1 .. Len(queue) : queue'[i] = queue[j]
    BY <2>1, OfferTyped
  <2>3. HoldsEmptyName(round') => HoldsEmptyName(round)
    BY <2>1 DEF HoldsEmptyName
  <2>4. 1 \in 1 .. Len(round)
    BY <2>1
  <2> QED
    BY <2>2, <2>3, <2>4 DEF HoldsEmptyName
<1>6. EmptyNameIsUsed' => EmptyNameIsUsed
  <2>1. CASE \E n \in Repo : CreateTask(n)
    <3>1. UNCHANGED round
      BY <2>1 DEF CreateTask
    <3> QED
      BY <1>1, <1>2, <1>3, <2>1, <3>1 DEF EmptyNameIsUsed
  <2>2. CASE StartRound
    <3>1. UNCHANGED queue
      BY <2>2 DEF StartRound
    <3> QED
      BY <1>1, <1>2, <1>4, <2>2, <3>1 DEF EmptyNameIsUsed
  <2>3. CASE Dispatch
    BY <1>1, <1>2, <1>5, <2>3 DEF EmptyNameIsUsed
  <2> QED
    BY <2>1, <2>2, <2>3
<1> QED
  BY <1>1, <1>2, <1>6, EmptyNameKept DEF WhileApart

\* A worker that takes a target while no other is at work, or goes on with its own, and leaves
\* the table alone.
LEMMA QuietStepKeepsApart ==
    ASSUME TypeOK, WhileApart, ~overlap', NEW w \in Worker,
           \/ Take(w) \/ RunFails(w) \/ Find(w)
           \/ \E result \in Results, links \in SUBSET Repo : RunReturns(w, result, links)
    PROVE  WhileApart'
<1>0. /\ queue \in Seq(Name) /\ work[w] \in Work /\ work \in [Worker -> Work]
      /\ TableTyped /\ CrawlsApart
  BY DEF TypeOK, WhileApart, TableTyped
<1>1. UNCHANGED <<rows, latest, refused, round>>
  BY DEF Take, RunFails, Find, RunReturns, history
<1>2. /\ CrawledRowIsFirst' /\ LatestIsFirst' /\ ~refused'
      /\ \A n : RowsOf(n)' = RowsOf(n) /\ FoundRow(n)' = FoundRow(n)
  BY <1>1, SameTable
<1>3. CASE Take(w)
  <2> DEFINE facts == [NoWork EXCEPT !.target = Head(queue), !.crawl = crawls']
  <2>1. /\ \A v \in Worker : workerPc[v] = "idle"
        /\ Become(w, "run", facts) /\ queue # << >> /\ queue' = Tail(queue)
    BY <1>3 DEF Take
  <2>2. /\ Head(queue) \in Name /\ Head(queue) = queue[1] /\ Len(queue) \in Nat \ {0}
        /\ Len(queue') = Len(queue) - 1
        /\ \A i \in 1 .. Len(queue') : queue'[i] = queue[i + 1]
    BY <1>0, <2>1, HeadTailProperties, EmptySeq
  <2>3. facts \in Work /\ facts.target = queue[1]
    <3>1. crawls' \in Nat
      BY <1>3 DEF Take, TypeOK
    <3> QED
      BY <2>2, <3>1, NoWorkTyped DEF NoWork, Work
  <2> HIDE DEF facts
  <2>4. /\ workerPc'[w] = "run" /\ work'[w] = facts
        /\ \A v \in Worker : v # w => workerPc'[v] = "idle"
    BY <2>1, <2>3, BecomeTyped
  <2>5. CrawlsApart' /\ FoundIsCurrent'
    BY <2>4 DEF CrawlsApart, FoundIsCurrent
  <2>6. HoldsEmptyName(queue') => HoldsEmptyName(queue)
    BY <2>2 DEF HoldsEmptyName
  <2>7. queue[1] = NoName => HoldsEmptyName(queue)
    BY <2>2 DEF HoldsEmptyName
  <2>8. EmptyNameIsUsed' => EmptyNameIsUsed
    BY <1>1, <1>2, <2>3, <2>4, <2>6, <2>7 DEF EmptyNameIsUsed
  <2> QED
    BY <1>1, <1>2, <2>5, <2>8, EmptyNameKept DEF WhileApart
<1>4. ASSUME NEW pc \in {"idle", "run", "find", "save", "discover"}, NEW facts \in Work,
             Become(w, pc, facts), UNCHANGED queue, workerPc[w] # "idle",
             pc = "idle" \/ facts.target = work[w].target,
             pc # "save"
      PROVE  WhileApart'
  <2>1. /\ CrawlsApart' /\ \A v \in Worker : workerPc'[v] # "idle" => v = w
        /\ workerPc'[w] = pc /\ work'[w] = facts
    BY <1>0, <1>4, OneMoves
  <2>2. FoundIsCurrent'
    BY <1>4, <2>1 DEF FoundIsCurrent
  <2>3. EmptyNameIsUsed' => EmptyNameIsUsed
    BY <1>1, <1>2, <1>4, <2>1 DEF EmptyNameIsUsed
  <2> QED
    BY <1>1, <1>2, <2>1, <2>2, <2>3, EmptyNameKept DEF WhileApart
<1>5. CASE RunFails(w)
  <2>1. Become(w, "idle", NoWork) /\ UNCHANGED queue /\ workerPc[w] # "idle"
    BY <1>5 DEF RunFails, Rest
  <2> QED
    BY <1>4, <2>1, NoWorkTyped
<1>6. ASSUME NEW result \in Results, NEW links \in SUBSET Repo, RunReturns(w, result, links)
      PROVE  WhileApart'
  <2> DEFINE facts == [work[w] EXCEPT !.result = result, !.links = links]
  <2>1. facts \in Work /\ facts.target = work[w].target
    BY <1>0 DEF Work
  <2>2. Become(w, "find", facts) /\ UNCHANGED queue /\ workerPc[w] # "idle"
    BY <1>6 DEF RunReturns
  <2> HIDE DEF facts
  <2> QED
    BY <1>4, <2>1, <2>2
<1>7. CASE Find(w)
  <2> DEFINE facts == [work[w] EXCEPT !.found = FoundRow(NameOf(w))]
  <2>1. Become(w, "save", facts) /\ UNCHANGED queue /\ workerPc[w] # "idle"
    BY <1>7 DEF Find
  <2>2. FoundRow(NameOf(w)) \in Nat
    BY <1>0, FoundIsRow
  <2>3. /\ facts \in Work /\ facts.target = work[w].target /\ facts.result = work[w].result
        /\ facts.found = FoundRow(NameOf(w))
    BY <1>0, <2>2 DEF Work
  <2> HIDE DEF facts
  <2>4. /\ CrawlsApart' /\ \A v \in Worker : workerPc'[v] # "idle" => v = w
        /\ workerPc'[w] = "save" /\ work'[w] = facts
    BY <1>0, <2>1, <2>3, OneMoves
  <2>5. NameOf(w)' = NameOf(w)
    BY <2>3, <2>4 DEF NameOf
  <2>6. work'[w].found = FoundRow(NameOf(w))'
    BY <1>1, <2>3, <2>4, <2>5 DEF FoundRow, FirstRow, RowsOf
  <2>7. FoundIsCurrent'
    BY <2>4, <2>6 DEF FoundIsCurrent
  <2>8. EmptyNameIsUsed' => EmptyNameIsUsed
    BY <1>1, <1>2, <2>1, <2>3, <2>4 DEF EmptyNameIsUsed
  <2> QED
    BY <1>1, <1>2, <2>4, <2>7, <2>8, EmptyNameKept DEF WhileApart
<1> QED
  BY <1>3, <1>5, <1>6, <1>7

\* The names that are in use when a worker saves, or discovers, are those in use before.
LEMMA EmptyNameInHand ==
    ASSUME TypeOK, CrawlsApart, NEW w \in Worker, workerPc[w] # "idle",
           NEW pc \in {"idle", "run", "find", "save", "discover"}, NEW facts \in Work,
           Become(w, pc, facts), pc = "idle" \/ facts.target = work[w].target,
           UNCHANGED <<queue, round>>, EmptyNameIsUsed'
    PROVE  EmptyNameIsUsed \/ RowsOf(NoName)' # {}
<1>1. /\ \A v \in Worker : workerPc'[v] # "idle" => v = w
      /\ workerPc'[w] = pc /\ work'[w] = facts
  BY OneMoves
<1> QED
  BY <1>1 DEF EmptyNameIsUsed

\* The first row of a name, when all its rows are at one position.
LEMMA OnlyRow ==
    ASSUME TableTyped', NEW n, NEW i, RowsOf(n)' = {i}
    PROVE  FirstRow(n)' = i
<1>1. RowsAreFound'
  BY FirstRowIsFound, PTL
<1> QED
  BY <1>1 DEF RowsAreFound

\* The crawl of a name that has no row yet.
LEMMA CreateKeepsApart ==
    ASSUME TypeOK, WhileApart, NEW w \in Worker, Save(w), work[w].found = 0,
           NEW n \in Name, n = NameOf(w)
    PROVE  CrawledRowIsFirst' /\ EmptyNameIsFirst' /\ LatestIsFirst'
<1> DEFINE new == Len(rows) + 1
<1>0. /\ TableTyped /\ work[w] \in Work /\ CrawlsApart /\ workerPc[w] = "save"
      /\ Len(rows) \in Nat /\ latest \in [Name -> Nat]
  BY DEF TypeOK, WhileApart, TableTyped, Save
<1>1. FoundRow(n) = 0
  BY <1>0 DEF WhileApart, FoundIsCurrent
<1>2. RowsOf(n) = {} /\ (n = NoName => rows = << >>)
  BY <1>0, <1>1, FoundRowFacts
<1>3. /\ rows' \in Seq(GithubRow) /\ Len(rows') = new
      /\ \A i \in 1 .. Len(rows) : rows'[i] = rows[i]
      /\ rows'[new].name = n /\ rows'[new].source = "github" /\ rows'[new].crawl = work[w].crawl
  <2>1. work[w].found <= Len(rows)
    BY <1>0
  <2>2. /\ SavedRows(w) \in Seq(GithubRow) /\ Len(SavedRows(w)) = new
        /\ \A i \in 1 .. Len(rows) : SavedRows(w)[i] = rows[i]
        /\ SavedRows(w)[new] = [name |-> n, source |-> "github", crawl |-> work[w].crawl]
    BY <2>1, SavedTyped
  <2>3. rows' = SavedRows(w)
    BY DEF Save
  <2> QED
    BY <2>2, <2>3
<1>4. latest' = [latest EXCEPT ![n] = work[w].crawl]
  BY DEF Save, Stored
<1>5. \A j \in 1 .. Len(rows) : rows[j].name # n
  BY <1>2 DEF RowsOf
<1>6. CrawledRowIsFirst'
  <2> SUFFICES ASSUME NEW i \in 1 .. new, NEW j \in 1 .. new,
                      rows'[i].name = rows'[j].name, rows'[i].source = "github"
               PROVE  i <= j
    BY <1>3 DEF CrawledRowIsFirst
  <2>1. CASE j = new
    BY <1>0, <2>1
  <2>2. CASE j # new /\ i = new
    <3>1. j \in 1 .. Len(rows) /\ rows'[j] = rows[j] /\ rows'[i].name = n
      BY <1>0, <1>3, <2>2
    <3> QED
      BY <1>5, <3>1
  <2>3. CASE j # new /\ i # new
    <3>1. i \in 1 .. Len(rows) /\ j \in 1 .. Len(rows)
      BY <1>0, <2>3
    <3>2. rows'[i] = rows[i] /\ rows'[j] = rows[j]
      BY <1>3, <3>1
    <3> QED
      BY <3>1, <3>2 DEF WhileApart, CrawledRowIsFirst
  <2> QED
    BY <2>1, <2>2, <2>3
<1>7. RowsOf(n)' = {new}
  <2>1. \A i \in 1 .. new : rows'[i].name = n <=> i = new
    <3> TAKE i \in 1 .. new
    <3>1. CASE i = new
      BY <1>3, <3>1
    <3>2. CASE i # new
      <4>1. i \in 1 .. Len(rows)
        BY <1>0, <3>2
      <4> QED
        BY <1>3, <1>5, <3>2, <4>1
    <3> QED
      BY <3>1, <3>2
  <2>2. new \in 1 .. new
    BY <1>0
  <2> QED
    BY <1>3, <2>1, <2>2 DEF RowsOf
<1>8. \A m : m # n => RowsOf(m)' = RowsOf(m)
  <2> TAKE m
  <2> HAVE m # n
  <2>1. \A i \in 1 .. new : rows'[i].name = m <=> i \in 1 .. Len(rows) /\ rows[i].name = m
    <3> TAKE i \in 1 .. new
    <3>1. CASE i = new
      BY <1>0, <1>3, <3>1
    <3>2. CASE i # new
      <4>1. i \in 1 .. Len(rows)
        BY <1>0, <3>2
      <4> QED
        BY <1>3, <4>1
    <3> QED
      BY <3>1, <3>2
  <2>2. 1 .. Len(rows) \subseteq 1 .. new
    BY <1>0
  <2> QED
    BY <1>3, <2>1, <2>2 DEF RowsOf
<1>9. LatestIsFirst'
  <2>0. TableTyped'
    BY <1>3 DEF TableTyped
  <2> SUFFICES ASSUME NEW m \in Repo, latest'[m] # 0
               PROVE  RowsOf(m)' # {} /\ rows'[FirstRow(m)'].crawl = latest'[m]
    BY DEF LatestIsFirst
  <2>1. CASE m = n
    <3>1. FirstRow(m)' = new
      BY <1>7, <2>0, <2>1, OnlyRow
    <3>2. latest'[m] = work[w].crawl
      BY <1>0, <1>4, <2>1
    <3> QED
      BY <1>3, <1>7, <2>1, <3>1, <3>2
  <2>2. CASE m # n
    <3>1. latest'[m] = latest[m]
      BY <1>0, <1>4, <2>2
    <3>2. RowsOf(m) # {} /\ rows[FirstRow(m)].crawl = latest[m] /\ RowsOf(m)' = RowsOf(m)
      BY <1>8, <2>2, <3>1 DEF WhileApart, LatestIsFirst
    <3>3. FirstRow(m)' = FirstRow(m) /\ FirstRow(m) \in RowsOf(m)
      BY <1>0, <2>0, <3>2, FirstRowKept
    <3>4. FirstRow(m) \in 1 .. Len(rows)
      BY <3>3 DEF RowsOf
    <3> QED
      BY <1>3, <3>1, <3>2, <3>3, <3>4
  <2> QED
    BY <2>1, <2>2
<1>10. EmptyNameIsFirst'
  <2> SUFFICES ASSUME EmptyNameIsUsed'
               PROVE  rows' # << >> /\ rows'[1].name = NoName
    BY DEF EmptyNameIsFirst
  <2>1. EmptyNameIsUsed \/ RowsOf(NoName)' # {}
    <3>1. Become(w, "discover", work[w]) /\ UNCHANGED <<queue, round>>
      BY DEF Save
    <3> QED
      BY <1>0, <3>1, EmptyNameInHand
  <2>2. CASE n = NoName
    <3>1. new = 1
      BY <1>2, <2>2
    <3> QED
      BY <1>3, <2>2, <3>1
  <2>3. CASE n # NoName
    <3>1. EmptyNameIsUsed
      BY <1>8, <2>1, <2>3 DEF EmptyNameIsUsed
    <3>2. rows # << >> /\ rows[1].name = NoName
      BY <3>1 DEF WhileApart, EmptyNameIsFirst
    <3>3. 1 \in 1 .. Len(rows)
      BY <1>0, <3>2, EmptySeq DEF TableTyped
    <3> QED
      BY <1>0, <1>3, <3>2, <3>3
  <2> QED
    BY <2>2, <2>3
<1> QED
  BY <1>6, <1>9, <1>10

\* The crawl of a name that has a row.
LEMMA UpdateKeepsApart ==
    ASSUME TypeOK, FoundIsThere, WhileApart, NEW w \in Worker, Save(w), work[w].found # 0,
           NEW n \in Name, n = NameOf(w), NEW k, k = work[w].found
    PROVE  CrawledRowIsFirst' /\ EmptyNameIsFirst' /\ LatestIsFirst'
<1>0. /\ TableTyped /\ work[w] \in Work /\ CrawlsApart /\ workerPc[w] = "save"
      /\ Len(rows) \in Nat /\ latest \in [Name -> Nat] /\ k # 0
  BY DEF TypeOK, WhileApart, TableTyped, Save
<1>1. FoundRow(n) = k
  BY <1>0 DEF WhileApart, FoundIsCurrent
<1>2. /\ k \in 1 .. Len(rows)
      /\ \A j \in 1 .. Len(rows) : rows[j].name = rows[k].name => k <= j
      /\ n # NoName => rows[k].name = n /\ k = FirstRow(n)
      /\ n = NoName => k = 1
  BY <1>0, <1>1, FoundRowFacts
<1>3. /\ rows' \in Seq(GithubRow) /\ Len(rows') = Len(rows)
      /\ \A i \in 1 .. Len(rows) : i # k => rows'[i] = rows[i]
      /\ rows'[k].name = rows[k].name
      /\ rows'[k].crawl = IF Stored(w) THEN work[w].crawl ELSE rows[k].crawl
  <2>1. work[w].found <= Len(rows)
    BY DEF FoundIsThere
  <2>2. rows' = SavedRows(w)
    BY DEF Save
  <2> QED
    BY <1>0, <2>1, <2>2, SavedTyped
<1>4. latest' = [latest EXCEPT ![n] = IF Stored(w) THEN work[w].crawl ELSE @]
  BY DEF Save
<1>5. \A i \in 1 .. Len(rows) : rows'[i].name = rows[i].name
  BY <1>3
<1>6. \A m : RowsOf(m)' = RowsOf(m)
  BY <1>3, <1>5 DEF RowsOf
<1>7. CrawledRowIsFirst'
  <2> SUFFICES ASSUME NEW i \in 1 .. Len(rows), NEW j \in 1 .. Len(rows),
                      rows[i].name = rows[j].name, rows'[i].source = "github"
               PROVE  i <= j
    BY <1>3, <1>5 DEF CrawledRowIsFirst
  <2>1. CASE i = k
    BY <1>2, <2>1
  <2>2. CASE i # k
    BY <1>3, <2>2 DEF WhileApart, CrawledRowIsFirst
  <2> QED
    BY <2>1, <2>2
<1>8. EmptyNameIsFirst'
  <2> SUFFICES ASSUME EmptyNameIsUsed'
               PROVE  rows' # << >> /\ rows'[1].name = NoName
    BY DEF EmptyNameIsFirst
  <2>1. EmptyNameIsUsed \/ RowsOf(NoName)' # {}
    <3>1. Become(w, "discover", work[w]) /\ UNCHANGED <<queue, round>>
      BY DEF Save
    <3> QED
      BY <1>0, <3>1, EmptyNameInHand
  <2>2. rows[1].name = NoName /\ 1 \in 1 .. Len(rows)
    <3>1. EmptyNameIsUsed
      BY <1>6, <2>1 DEF EmptyNameIsUsed
    <3> QED
      BY <1>0, <1>2, <3>1 DEF WhileApart, EmptyNameIsFirst
  <2> QED
    BY <1>3, <1>5, <2>2
<1>9. LatestIsFirst'
  <2>0. TableTyped'
    BY <1>3 DEF TableTyped
  <2> SUFFICES ASSUME NEW m \in Repo, latest'[m] # 0
               PROVE  RowsOf(m)' # {} /\ rows'[FirstRow(m)'].crawl = latest'[m]
    BY DEF LatestIsFirst
  <2>1. CASE m = n
    <3>1. m # NoName /\ rows[k].name = m /\ k = FirstRow(m) /\ k \in RowsOf(m)
      BY <1>2, <2>1 DEF NoName, RowsOf
    <3>2. FirstRow(m)' = k
      BY <1>0, <1>6, <2>0, <3>1, FirstRowKept
    <3>3. CASE Stored(w)
      BY <1>0, <1>3, <1>4, <1>6, <2>1, <3>1, <3>2, <3>3
    <3>4. CASE ~Stored(w)
      <4>1. latest'[m] = latest[m] /\ rows'[k].crawl = rows[k].crawl
        BY <1>0, <1>3, <1>4, <2>1, <3>4
      <4>2. rows[FirstRow(m)].crawl = latest[m]
        BY <4>1 DEF WhileApart, LatestIsFirst
      <4> QED
        BY <1>6, <3>1, <3>2, <4>1, <4>2
    <3> QED
      BY <3>3, <3>4
  <2>2. CASE m # n
    <3>1. latest'[m] = latest[m]
      BY <1>0, <1>4, <2>2
    <3>2. RowsOf(m) # {} /\ rows[FirstRow(m)].crawl = latest[m] /\ RowsOf(m)' = RowsOf(m)
      BY <1>6, <3>1 DEF WhileApart, LatestIsFirst
    <3>3. FirstRow(m)' = FirstRow(m) /\ FirstRow(m) \in RowsOf(m)
      BY <1>0, <2>0, <3>2, FirstRowKept
    <3>4. FirstRow(m) \in 1 .. Len(rows) /\ rows[FirstRow(m)].name = m
      BY <3>3 DEF RowsOf
    <3>5. CASE FirstRow(m) # k
      BY <1>3, <3>1, <3>2, <3>3, <3>4, <3>5
    <3>6. CASE FirstRow(m) = k
      \* The collection that was found without a name: the first row has none itself.
      <4>1. n = NoName /\ k = 1 /\ rows[1].name = m
        BY <1>2, <2>2, <3>4, <3>6
      <4>2. ~Stored(w)
        <5>1. SUFFICES ASSUME Stored(w)
                       PROVE  FALSE
          OBVIOUS
        <5>2. work[w].target = NoName
          BY <1>0, <4>1, <5>1 DEF Stored, NameOf
        <5>3. EmptyNameIsUsed
          BY <1>0, <5>2 DEF EmptyNameIsUsed
        <5>4. rows[1].name = NoName
          BY <5>3 DEF WhileApart, EmptyNameIsFirst
        <5> QED
          BY <4>1, <5>4 DEF NoName
      <4>3. rows'[k].crawl = rows[k].crawl
        BY <1>3, <4>2
      <4> QED
        BY <3>1, <3>2, <3>3, <3>6, <4>3
    <3> QED
      BY <3>5, <3>6
  <2> QED
    BY <2>1, <2>2
<1> QED
  BY <1>7, <1>8, <1>9

LEMMA SaveKeepsApart ==
    ASSUME TypeOK, FoundIsThere, WhileApart, NEW w \in Worker, Save(w)
    PROVE  WhileApart'
<1>0. work[w] \in Work /\ NameOf(w) \in Name /\ CrawlsApart
  BY DEF TypeOK, WhileApart, Work, NameOf
<1>1. CrawledRowIsFirst' /\ EmptyNameIsFirst' /\ LatestIsFirst'
  <2> PICK n \in Name : n = NameOf(w)
    BY <1>0
  <2> PICK k : k = work[w].found
    OBVIOUS
  <2>1. CASE k = 0
    BY <2>1, CreateKeepsApart
  <2>2. CASE k # 0
    BY <2>2, UpdateKeepsApart
  <2> QED
    BY <2>1, <2>2
<1>2. /\ workerPc[w] = "save" /\ Become(w, "discover", work[w]) /\ UNCHANGED refused
  BY DEF Save
<1>3. CrawlsApart' /\ FoundIsCurrent'
  <2>1. /\ CrawlsApart' /\ \A v \in Worker : workerPc'[v] # "idle" => v = w
        /\ workerPc'[w] = "discover"
    BY <1>0, <1>2, OneMoves
  <2> QED
    BY <2>1 DEF FoundIsCurrent
<1> QED
  BY <1>1, <1>2, <1>3 DEF WhileApart

\* A crawl that is alone is never refused: the row it found is the first of its name, and so
\* the one that can have the source "github".
LEMMA SaveIsNotRefused ==
    ASSUME TypeOK, WhileApart, NEW w \in Worker
    PROVE  ~SaveRefused(w)
<1> SUFFICES ASSUME workerPc[w] = "save", Taken(SavedName(w), "github", work[w].found)
             PROVE  FALSE
  BY DEF SaveRefused
<1>0. TableTyped /\ work[w].found = FoundRow(NameOf(w))
  BY DEF TypeOK, TableTyped, WhileApart, FoundIsCurrent
<1>1. PICK i \in 1 .. Len(rows) :
         rows[i].name = SavedName(w) /\ i # work[w].found /\ rows[i].source = "github"
  BY DEF Taken, RowsOf
<1>2. CASE work[w].found = 0
  <2>1. RowsOf(NameOf(w)) = {} /\ SavedName(w) = NameOf(w)
    BY <1>0, <1>2, FoundRowFacts DEF SavedName
  <2> QED
    BY <1>1, <2>1 DEF RowsOf
<1>3. CASE work[w].found # 0
  <2> PICK k : k = work[w].found
    OBVIOUS
  <2>1. /\ k \in 1 .. Len(rows)
        /\ \A j \in 1 .. Len(rows) : rows[j].name = rows[k].name => k <= j
    BY <1>0, <1>3, FoundRowFacts
  <2>2. rows[i].name = rows[k].name /\ i # k
    BY <1>1, <1>3 DEF SavedName
  <2>3. k <= i /\ i <= k
    BY <1>1, <2>1, <2>2 DEF WhileApart, CrawledRowIsFirst
  <2> QED
    BY <1>1, <2>1, <2>2, <2>3
<1> QED
  BY <1>2, <1>3

\* The rows of the links come last, have no crawl and no name that is empty.
LEMMA DiscoverKeepsApart ==
    ASSUME TypeOK, WhileApart, NEW w \in Worker, Discover(w)
    PROVE  WhileApart'
<1>0. /\ TableTyped /\ work[w] \in Work /\ CrawlsApart /\ workerPc[w] # "idle"
      /\ Len(rows) \in Nat /\ work[w].links \in SUBSET Repo
  BY DEF TypeOK, WhileApart, TableTyped, Discover, Work
<1>1. PICK order \in Orders(NewLinks(work[w].links)) : rows' = Discovered(order)
  BY DEF Discover
<1>2. Become(w, "idle", NoWork) /\ UNCHANGED <<queue, round, latest, refused>>
  BY DEF Discover, Rest, history
<1>3. /\ rows' \in Seq(GithubRow) /\ Len(rows') \in Nat /\ Len(rows') >= Len(rows)
      /\ \A i \in 1 .. Len(rows) : i \in 1 .. Len(rows') /\ rows'[i] = rows[i]
      /\ \A i \in 1 .. Len(rows') :
            \/ i \in 1 .. Len(rows)
            \/ i > Len(rows) /\ rows'[i].source = "" /\ rows'[i].name \in Repo
  BY <1>0, <1>1, DiscoveredTyped, LenProperties
<1>5. CrawledRowIsFirst'
  <2> SUFFICES ASSUME NEW i \in 1 .. Len(rows'), NEW j \in 1 .. Len(rows'),
                      rows'[i].name = rows'[j].name, rows'[i].source = "github"
               PROVE  i <= j
    BY DEF CrawledRowIsFirst
  <2>1. i \in 1 .. Len(rows) /\ rows'[i] = rows[i]
    BY <1>3
  <2>2. CASE j \in 1 .. Len(rows) /\ rows'[j] = rows[j]
    BY <2>1, <2>2 DEF WhileApart, CrawledRowIsFirst
  <2>3. CASE j > Len(rows)
    <3>1. Len(rows) \in Nat /\ i \in 1 .. Len(rows) /\ j \in Nat
      BY <1>0, <2>1
    <3> QED
      BY <2>3, <3>1
  <2> QED
    BY <1>3, <2>2, <2>3
<1>6. \A m : /\ RowsOf(m) \subseteq RowsOf(m)'
             /\ \A i \in RowsOf(m)' \ RowsOf(m) : i > Len(rows) /\ m \in Repo
  <2> TAKE m
  <2>1. 1 .. Len(rows) \subseteq 1 .. Len(rows')
    BY <1>3
  <2> QED
    BY <1>3, <2>1 DEF RowsOf
<1>7. LatestIsFirst'
  <2>0. TableTyped'
    BY <1>3 DEF TableTyped
  <2> SUFFICES ASSUME NEW m \in Repo, latest[m] # 0
               PROVE  RowsOf(m)' # {} /\ rows'[FirstRow(m)'].crawl = latest[m]
    BY <1>2 DEF LatestIsFirst
  <2>1. RowsOf(m) # {} /\ rows[FirstRow(m)].crawl = latest[m]
    BY DEF WhileApart, LatestIsFirst
  <2>2. RowsOf(m)' # {} /\ FirstRow(m)' = FirstRow(m) /\ FirstRow(m) \in RowsOf(m)
    BY <1>0, <1>6, <2>0, <2>1, FirstRowKept
  <2>3. FirstRow(m) \in 1 .. Len(rows)
    BY <2>2 DEF RowsOf
  <2> QED
    BY <1>3, <2>1, <2>2, <2>3
<1>8. EmptyNameIsFirst'
  <2> SUFFICES ASSUME EmptyNameIsUsed'
               PROVE  rows' # << >> /\ rows'[1].name = NoName
    BY DEF EmptyNameIsFirst
  <2>1. RowsOf(NoName)' = RowsOf(NoName)
    BY <1>6 DEF NoName
  <2>2. EmptyNameIsUsed
    <3>1. EmptyNameIsUsed \/ RowsOf(NoName)' # {}
      BY <1>0, <1>2, NoWorkTyped, EmptyNameInHand
    <3> QED
      BY <2>1, <3>1 DEF EmptyNameIsUsed
  <2>3. rows # << >> /\ rows[1].name = NoName
    BY <2>2 DEF WhileApart, EmptyNameIsFirst
  <2>4. 1 \in 1 .. Len(rows)
    BY <1>0, <2>3, EmptySeq DEF TableTyped
  <2>5. 1 \in 1 .. Len(rows') /\ rows'[1] = rows[1]
    BY <1>3, <2>4
  <2>6. rows' # << >>
    BY <2>5, EmptySeq
  <2> QED
    BY <2>3, <2>5, <2>6
<1>9. CrawlsApart' /\ FoundIsCurrent' /\ ~refused'
  <2>1. /\ CrawlsApart' /\ \A v \in Worker : workerPc'[v] # "idle" => v = w
        /\ workerPc'[w] = "idle"
    BY <1>0, <1>2, OneMoves, NoWorkTyped
  <2> QED
    BY <1>2, <2>1 DEF FoundIsCurrent, WhileApart
<1> QED
  BY <1>5, <1>7, <1>8, <1>9 DEF WhileApart

\* After a restart nothing is in hand.
LEMMA RestartKeepsApart ==
    ASSUME WhileApart, Restart
    PROVE  WhileApart'
<1>1. /\ queue' = << >> /\ round' = << >> /\ UNCHANGED <<rows, latest, refused>>
      /\ \A w \in Worker : workerPc'[w] = "idle"
  BY DEF Restart, history
<1>2. /\ CrawledRowIsFirst' /\ LatestIsFirst' /\ ~refused'
      /\ RowsOf(NoName)' = RowsOf(NoName)
  BY <1>1, SameTable
<1>3. CrawlsApart' /\ FoundIsCurrent'
  BY <1>1 DEF CrawlsApart, FoundIsCurrent
<1>4. EmptyNameIsUsed' => EmptyNameIsUsed
  BY <1>1, <1>2 DEF EmptyNameIsUsed, HoldsEmptyName
<1> QED
  BY <1>1, <1>2, <1>3, <1>4, EmptyNameKept DEF WhileApart

LEMMA StutterKeepsApart ==
    ASSUME WhileApart, UNCHANGED vars
    PROVE  WhileApart'
<1>1. UNCHANGED <<queue, round, rows, workerPc, work, latest, refused>>
  BY DEF vars, history
<1>2. /\ CrawledRowIsFirst' /\ LatestIsFirst' /\ ~refused'
      /\ \A n : RowsOf(n)' = RowsOf(n) /\ FoundRow(n)' = FoundRow(n)
  BY <1>1, SameTable
<1>3. CrawlsApart' /\ EmptyNameIsUsed' = EmptyNameIsUsed
  BY <1>1, <1>2 DEF WhileApart, CrawlsApart, EmptyNameIsUsed
<1>4. FoundIsCurrent'
  <2>1. ASSUME NEW w \in Worker, workerPc'[w] = "save"
        PROVE  work'[w].found = FoundRow(NameOf(w))'
    <3>1. work[w].found = FoundRow(NameOf(w)) /\ NameOf(w)' = NameOf(w)
      BY <1>1, <2>1 DEF WhileApart, FoundIsCurrent, NameOf
    <3> QED
      BY <1>1, <3>1 DEF FoundRow, FirstRow, RowsOf
  <2> QED
    BY <2>1 DEF FoundIsCurrent
<1> QED
  BY <1>1, <1>2, <1>3, <1>4, EmptyNameKept DEF WhileApart

-----------------------------------------------------------------------------
(* The theorems.                                                           *)

LEMMA InitIsApart == Init => IInv
<1> SUFFICES ASSUME Init PROVE IInv
  OBVIOUS
<1>0. /\ queue = << >> /\ round = << >> /\ rows = << >>
      /\ \A w \in Worker : workerPc[w] = "idle" /\ work[w] = NoWork
      /\ latest = [n \in Name |-> 0] /\ refused = FALSE
  BY DEF Init
<1>1. TypeOK
  <2>1. queue \in Seq(Name) /\ round \in Seq(Name) /\ rows \in Seq(GithubRow) /\ Len(queue) = 0
    BY <1>0, EmptySeq
  <2>2. work \in [Worker -> Work] /\ latest \in [Name -> Nat]
    BY NoWorkTyped DEF Init
  <2>3. /\ workerPc \in [Worker -> {"idle", "run", "find", "save", "discover"}]
        /\ crawls \in Nat /\ {refused, overlap} \subseteq BOOLEAN
    BY DEF Init
  <2>4. posts \in 0 .. MaxPosts /\ rounds \in 0 .. MaxRounds /\ restarts \in 0 .. MaxRestarts
    BY DEF Init
  <2>5. Len(queue) <= QueueSize
    BY <2>1
  <2> QED
    BY <2>1, <2>2, <2>3, <2>4, <2>5 DEF TypeOK
<1>2. FoundIsThere
  BY <1>0 DEF FoundIsThere, NoWork
<1>3. CrawlsApart /\ FoundIsCurrent /\ CrawledRowIsFirst
  BY <1>0 DEF CrawlsApart, FoundIsCurrent, CrawledRowIsFirst
<1>4. EmptyNameIsFirst
  BY <1>0 DEF EmptyNameIsFirst, EmptyNameIsUsed, HoldsEmptyName, RowsOf
<1>5. LatestIsFirst
  BY <1>0 DEF LatestIsFirst
<1> QED
  BY <1>0, <1>1, <1>2, <1>3, <1>4, <1>5 DEF IInv, WhileApart

LEMMA StepKeepsApart ==
    ASSUME IInv, [Next]_vars
    PROVE  IInv'
<1>1. TypeOK' /\ FoundIsThere'
  BY TypesKept DEF IInv
<1>2. ~overlap' => ~overlap
  <2>1. UNCHANGED overlap \/ \E w \in Worker : Take(w)
    BY DEF Next, WorkerStep, CreateTask, StartRound, Dispatch, RunFails, RunReturns, Find, Save,
           SaveRefused, Discover, Restart, history, vars
  <2> QED
    BY <2>1 DEF Take
<1> SUFFICES ASSUME ~overlap' PROVE WhileApart'
  BY <1>1 DEF IInv
<1>3. TypeOK /\ FoundIsThere /\ WhileApart
  BY <1>2 DEF IInv
<1>4. CASE (\E n \in Repo : CreateTask(n)) \/ StartRound \/ Dispatch
  BY <1>3, <1>4, FeedingKeepsApart
<1>5. ASSUME NEW w \in Worker, WorkerStep(w)
      PROVE  WhileApart'
  <2>1. CASE \/ Take(w) \/ RunFails(w) \/ Find(w)
             \/ \E result \in Results, links \in SUBSET Repo : RunReturns(w, result, links)
    BY <1>3, <2>1, QuietStepKeepsApart
  <2>2. CASE Save(w)
    BY <1>3, <2>2, SaveKeepsApart
  <2>3. CASE SaveRefused(w)
    BY <1>3, <2>3, SaveIsNotRefused
  <2>4. CASE Discover(w)
    BY <1>3, <2>4, DiscoverKeepsApart
  <2> QED
    BY <1>5, <2>1, <2>2, <2>3, <2>4 DEF WorkerStep
<1>6. CASE Restart
  BY <1>3, <1>6, RestartKeepsApart
<1>7. CASE UNCHANGED vars
  BY <1>3, <1>7, StutterKeepsApart
<1> QED
  BY <1>4, <1>5, <1>6, <1>7 DEF Next

LEMMA ApartIsInvariant == Spec => []IInv
<1>1. IInv /\ [Next]_vars => IInv'
  BY StepKeepsApart
<1> QED
  BY InitIsApart, <1>1, PTL DEF Spec

\* The channel never holds more than its capacity, and the table, the workers and what they
\* know are what gorm and RunLuaScript can make of them.
THEOREM TypeCorrect == Spec => []TypeOK
<1>1. IInv => TypeOK
  BY DEF IInv
<1> QED
  BY ApartIsInvariant, <1>1, PTL

\* FirstOrCreate and GetTaskResult agree on the row of a name: as long as crawls are apart, the
\* row a reader gets is of the latest crawl whose data was stored, whatever the order of posts,
\* rounds of cron, discoveries and restarts.
THEOREM CrawlsApartStayReadable == Spec => []CrawlsApartAreReadable
<1>1. IInv => CrawlsApartAreReadable
  BY DEF IInv, WhileApart, LatestIsFirst, CrawlsApartAreReadable
<1> QED
  BY ApartIsInvariant, <1>1, PTL

\* The unique index on name and source refuses no crawl that is alone.
THEOREM CrawlsApartAreAllStored == Spec => []CrawlsApartAreStored
<1>1. IInv => CrawlsApartAreStored
  BY DEF IInv, WhileApart, CrawlsApartAreStored
<1> QED
  BY ApartIsInvariant, <1>1, PTL

=============================================================================
