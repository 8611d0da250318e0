--------------------------- MODULE ChannelCrawler ---------------------------
(***************************************************************************)
(* The in-memory crawler of cmd/server: POST /api/v1/task and the cron job *)
(* put targets into a bounded channel, WorkerCount goroutines take them,   *)
(* run the rule and store what it returns in github_repos.  Nothing of it  *)
(* survives a restart but the table.                                       *)
(*                                                                         *)
(* A repository has a row per source: "github" for one that was crawled,   *)
(* "" for one that was only discovered on the page of another.  The rows   *)
(* are in the order of their ids.  A target stands for the repository its  *)
(* page is about; NoName is the empty name.                                *)
(*                                                                         *)
(* Bounds: MaxPosts posts, MaxRounds rounds of cron, MaxRestarts restarts. *)
(***************************************************************************)
EXTENDS Naturals, Sequences, FiniteSets

CONSTANTS
    Repo,       \* repository names
    Worker,     \* the goroutines (engine.worker_count)
    QueueSize,  \* engine.task_queue_size
    Results,    \* what the rule in use may return
    MaxPosts, MaxRounds, MaxRestarts

NoName == 0

\* "full" is a repository with data, "bare" one without stars and without a description,
\* "items" a collection, which has no url.
ResultKinds == {"full", "bare", "items"}

ASSUME CrawlerAssumption ==
    /\ Repo \subseteq Nat \ {NoName} /\ IsFiniteSet(Repo)  \* names fit a varchar(500)
    /\ Results \subseteq ResultKinds
    /\ QueueSize \in Nat \ {0}  \* without a buffer, a message is handed to a waiting goroutine
    /\ MaxPosts \in Nat /\ MaxRounds \in Nat /\ MaxRestarts \in Nat

Name == Repo \cup {NoName}

VARIABLES
    queue,     \* TaskQuene
    round,     \* the names cron has still to dispatch
    rows,      \* github_repos
    workerPc,  \* "idle", "run", "find", "save" or "discover"
    work,      \* what a worker knows: target, result, links found, row found, number of the crawl
    crawls,    \* history: how many crawls were started
    latest,    \* history: the latest crawl of each name whose data was stored
    refused,   \* history: a crawl could not be stored
    overlap,   \* history: two crawls were in hand at a time
    posts, rounds, restarts

history == <<crawls, latest, refused, overlap>>
bounds == <<posts, rounds, restarts>>
vars == <<queue, round, rows, workerPc, work, history, bounds>>

GithubRow == [name : Name, source : {"", "github"}, crawl : Nat]

Work == [target : Name, result : ResultKinds, links : SUBSET Repo, found : Nat, crawl : Nat]

NoWork == [target |-> NoName, result |-> "full", links |-> {}, found |-> 0, crawl |-> 0]

TypeOK ==
    /\ queue \in Seq(Name) /\ Len(queue) <= QueueSize
    /\ round \in Seq(Name)
    /\ rows \in Seq(GithubRow)
    /\ workerPc \in [Worker -> {"idle", "run", "find", "save", "discover"}]
    /\ work \in [Worker -> Work]
    /\ crawls \in Nat /\ latest \in [Name -> Nat] /\ {refused, overlap} \subseteq BOOLEAN
    /\ posts \in 0 .. MaxPosts /\ rounds \in 0 .. MaxRounds /\ restarts \in 0 .. MaxRestarts

Init ==
    /\ queue = << >> /\ round = << >> /\ rows = << >>
    /\ workerPc = [w \in Worker |-> "idle"]
    /\ work = [w \in Worker |-> NoWork]
    /\ crawls = 0 /\ latest = [n \in Name |-> 0] /\ refused = FALSE /\ overlap = FALSE
    /\ posts = 0 /\ rounds = 0 /\ restarts = 0

-----------------------------------------------------------------------------
(* The table.                                                              *)

RowsOf(n) == {i \in 1 .. Len(rows) : rows[i].name = n}

\* Mutation: the newest row of the name.
FirstRow_Newest(n) ==
    IF RowsOf(n) = {} THEN 0 ELSE CHOOSE i \in RowsOf(n) : \A j \in RowsOf(n) : i >= j

\* WHERE name = ? ORDER BY id LIMIT 1; 0 for no row.
FirstRow(n) ==
    IF RowsOf(n) = {} THEN 0 ELSE CHOOSE i \in RowsOf(n) : \A j \in RowsOf(n) : i <= j

\* Where(GithubRepo{Name: name}): gorm leaves a condition with a zero value out, so the empty
\* name finds the first row of the table.
FoundRow(n) ==
    CASE n # NoName -> FirstRow(n)
      [] n = NoName /\ rows # << >> -> 1
      [] OTHER -> 0

\* uniqueIndex:idx_name_source: a row other than id has the name and the source.
Taken(n, source, id) == \E i \in RowsOf(n) \ {id} : rows[i].source = source

\* OnConflict DoNothing, for each of the links: those without a row of their own, in any order,
\* since that of a Lua table is arbitrary.
NewLinks(links) == {n \in links : ~Taken(n, "", 0)}

Orders(names) ==
    {o \in [1 .. Cardinality(names) -> names] : \A i, j \in DOMAIN o : o[i] = o[j] => i = j}

Discovered(order) ==
    rows \o [i \in 1 .. Len(order) |-> [name |-> order[i], source |-> "", crawl |-> 0]]

-----------------------------------------------------------------------------
(* Feeding the channel: neither a post nor the cron job ever waits.        *)

\* Mutation: the channel has no bound.
Offer_Unbounded(n) == queue' = Append(queue, n)

Offer(n) == queue' = IF Len(queue) < QueueSize THEN Append(queue, n) ELSE queue

\* handler.CreateTask: 200, or 429 when the channel is full.  What is refused before that, with
\* 400 or for the lack of a channel with 503, changes nothing.
CreateTask(n) ==
    /\ posts < MaxPosts
    /\ posts' = posts + 1
    /\ Offer(n)
    /\ UNCHANGED <<round, rows, workerPc, work, history, rounds, restarts>>

\* dispatchTasks, which never blocks and so is over before its next round, reads the table ...
StartRound ==
    /\ rounds < MaxRounds /\ round = << >> /\ rows # << >>
    /\ rounds' = rounds + 1
    /\ round' = [i \in 1 .. Len(rows) |-> rows[i].name]
    /\ UNCHANGED <<queue, rows, workerPc, work, history, posts, restarts>>

\* ... and offers the targets one by one; one that meets a full channel waits for another round.
Dispatch ==
    /\ round # << >>
    /\ Offer(Head(round))
    /\ round' = Tail(round)
    /\ UNCHANGED <<rows, workerPc, work, history, bounds>>

-----------------------------------------------------------------------------
(* A worker: RunLuaScript.                                                 *)

Become(w, pc, facts) ==
    /\ workerPc' = [workerPc EXCEPT ![w] = pc]
    /\ work' = [work EXCEPT ![w] = facts]

Rest(w) == Become(w, "idle", NoWork)

Take(w) ==
    /\ workerPc[w] = "idle" /\ queue # << >>
    /\ queue' = Tail(queue)
    /\ crawls' = crawls + 1
    /\ overlap' = (overlap \/ \E v \in Worker : workerPc[v] # "idle")
    /\ Become(w, "run", [NoWork EXCEPT !.target = Head(queue), !.crawl = crawls'])
    /\ UNCHANGED <<round, rows, latest, refused, bounds>>

\* There is no rule in memory, the rule fails or it runs out of time ...
RunFails(w) ==
    /\ workerPc[w] = "run"
    /\ Rest(w)
    /\ UNCHANGED <<queue, round, rows, history, bounds>>

\* ... or it returns a repository and the links it found, or a collection.
RunReturns(w, result, links) ==
    /\ workerPc[w] = "run"
    /\ result = "items" => links = {}
    /\ Become(w, "find", [work[w] EXCEPT !.result = result, !.links = links])
    /\ UNCHANGED <<queue, round, rows, history, bounds>>

\* repoName.
NameOf(w) == IF work[w].result = "items" THEN NoName ELSE work[w].target

\* FirstOrCreate, its SELECT.
Find(w) ==
    /\ workerPc[w] = "find"
    /\ Become(w, "save", [work[w] EXCEPT !.found = FoundRow(NameOf(w))])
    /\ UNCHANGED <<queue, round, rows, history, bounds>>

Stored(w) == work[w].found = 0 \/ work[w].result = "full"

\* Mutation: the record found is left as it is.
SavedRows_CreateOnly(w) ==
    IF work[w].found = 0
    THEN Append(rows, [name |-> NameOf(w), source |-> "github", crawl |-> work[w].crawl])
    ELSE rows

\* A new row, or Assign on the one that was found, which leaves zero values out.
SavedRows(w) ==
    IF work[w].found = 0
    THEN Append(rows, [name |-> NameOf(w), source |-> "github", crawl |-> work[w].crawl])
    ELSE [rows EXCEPT ![work[w].found].source = "github",
                      ![work[w].found].crawl  = IF Stored(w) THEN work[w].crawl ELSE @]

\* The row that Save writes gets this name and the source "github".
SavedName(w) == IF work[w].found = 0 THEN NameOf(w) ELSE rows[work[w].found].name

\* FirstOrCreate, its INSERT or its UPDATE.
Save(w) ==
    /\ workerPc[w] = "save"
    /\ ~Taken(SavedName(w), "github", work[w].found)
    /\ rows' = SavedRows(w)
    /\ latest' = [latest EXCEPT ![NameOf(w)] = IF Stored(w) THEN work[w].crawl ELSE @]
    /\ Become(w, "discover", work[w])
    /\ UNCHANGED <<queue, round, crawls, refused, overlap, bounds>>

\* The unique index refuses it: the crawl has failed, its links are dropped.
SaveRefused(w) ==
    /\ workerPc[w] = "save"
    /\ Taken(SavedName(w), "github", work[w].found)
    /\ refused' = TRUE
    /\ Rest(w)
    /\ UNCHANGED <<queue, round, rows, crawls, latest, overlap, bounds>>

\* The links, in one INSERT.
Discover(w) ==
    /\ workerPc[w] = "discover"
    /\ \E order \in Orders(NewLinks(work[w].links)) : rows' = Discovered(order)
    /\ Rest(w)
    /\ UNCHANGED <<queue, round, history, bounds>>

WorkerStep(w) ==
    \/ Take(w) \/ RunFails(w) \/ Find(w) \/ Save(w) \/ SaveRefused(w) \/ Discover(w)
    \/ \E result \in Results, links \in SUBSET Repo : RunReturns(w, result, links)

\* The process dies and is started again: the channel and the crawls in hand are lost.
Restart ==
    /\ restarts < MaxRestarts
    /\ restarts' = restarts + 1
    /\ queue' = << >> /\ round' = << >>
    /\ workerPc' = [w \in Worker |-> "idle"]
    /\ work' = [w \in Worker |-> NoWork]
    /\ UNCHANGED <<rows, history, posts, rounds>>

Next ==
    \/ \E n \in Repo : CreateTask(n)
    \/ StartRound \/ Dispatch
    \/ \E w \in Worker : WorkerStep(w)
    \/ Restart

Spec == Init /\ [][Next]_vars

-----------------------------------------------------------------------------
\* Crawling a repository again overwrites it with the latest data, for the reader too: what
\* GetTaskResult finds of a name (its first row) is the latest crawl that had data to store.
\* That holds as long as no two crawls are in hand at a time, restarts and discoveries included.
CrawlsApartAreReadable ==
    ~overlap => \A n \in Repo : latest[n] # 0 => rows[FirstRow(n)].crawl = latest[n]

\* Nor is a crawl refused by the unique index on name and source then.
CrawlsApartAreStored == ~overlap => ~refused

\* "Looked up by its name and then updated or created, so that crawling a repository again
\* overwrites it with the latest data rather than adding records": what a reader finds is the
\* latest crawl that had data to store, whatever else is in hand meanwhile.
LatestCrawlIsReadable == \A n \in Repo : latest[n] # 0 => rows[FirstRow(n)].crawl = latest[n]

=============================================================================
