# LuaSpider in TLA+

LuaSpider accepts crawl tasks over HTTP, moves them through a MySQL outbox and a Redis Stream to
workers, runs a Lua rule for each and keeps one result per task. Beside this durable pipeline the
server has an older in-memory crawler (a Go channel, goroutines, cron), and a browser workbench.

This directory models the parts where order, failure and time matter, checks them with TLC on
small instances, and proves with TLAPS what should hold for every instance. `PROJECT.json` lists
the runs, the source lines behind every definition, a mutation of the code that each property
catches, the hazards, the findings and the theorems.

## 1. The system

### 1.1 Parts, their state and how they meet

| Part (source) | State | Operations | Meets |
| --- | --- | --- | --- |
| Task API (`internal/handler/crawl_task.go`) | none of its own | create a task under a request key; read a task, a result | writes task and outbox row in one transaction |
| Task store (`internal/repository/task_*.go`, `internal/task`) | `crawl_tasks` (status, run token, lease, retries), `task_outboxes`, `crawl_results` | accept, list and mark outbox rows, claim, take over, complete | all processes share it; every conditional `UPDATE` is a compare-and-set |
| Outbox publisher (`cmd/publisher`, `internal/service/outbox_publisher.go`) | the batch in hand | list, XADD, mark | store and stream; several may run |
| Redis Stream (`internal/queue`) | messages, last delivered id, pending list with idle times | XADD, XREADGROUP, XAUTOCLAIM, XACK | publishers and workers |
| Worker (`internal/worker`, `cmd/worker`) | per service: one execution slot, a consumer, a reclaimer with a cursor | receive, load, claim, execute, complete, acknowledge; start, stop | store, stream, rule engine |
| Rule engine (`internal/engine`) | the cached rule, a route per process, a VM per task | load, watch, reload, select a rule, run it, decode what it returns | rule files, HTTP |
| Channel crawler (`cmd/server`, `internal/handler/task.go`, `internal/scheduler`) | a bounded channel, goroutines, table `github_repos` | post, cron round, crawl, store, discover, read | the cached rule, its own table |
| Task events (`internal/repository/task_events.go`) | `task_events` | best-effort insert of at most 500 ms, list | written beside every step, read by the workbench |
| Analysis API (`internal/handler/analysis.go`) | none | read snapshots and rule definitions | tables and the rules file |
| Workbench (`web/assets`) | loaded snapshots, collect dialog with its request key, watched tasks | load, filter, compare, collect, watch | the APIs |
| Configuration (`internal/config`) | a pointer to the last one read | load, watch, replace, get | everybody; the publisher reads it for every message |
| Logging, routing, pprof | none that others see | - | - |

A task travels: *API* inserts `queued` row and outbox row → *publisher* XADDs its id and marks the
row → *consumer* receives the message, loads the row, claims it (`queued` → `running`, new run
token, lease) → rule runs → status, result and the end of the lease in one transaction, on
condition of the token → XACK. A message that stays pending long enough is adopted by a
*reclaimer*, which may also replace the token of a `running` row whose lease has expired.

### 1.2 What is hard, and what makes each part correct

* **Store, publisher, stream, worker.** Any process may stop between any two calls, any call may
  fail, or be applied and lose its reply; messages are duplicated by design (publish before mark);
  rows are loaded first and compared later. Correct means: no accepted task is lost; a superseded
  owner cannot commit; a payload and its status move together; a message is not acknowledged
  before the terminal commit; every accepted task ends.
* **Lease budget.** Claim, events, execution and commit all consume one lease. Correct means: a
  rule never runs without the time of a commit left of its lease.
* **Task API and collect dialog.** Requests with one key are served at once, replies are lost, the
  browser gives up after 20 seconds, and the dialog can be edited, closed and opened while a
  request is in flight. Correct means: a key names one task for ever; retries of a form make one
  task; task and outbox row appear together or not at all.
* **Rule cache.** Editors write in several steps, or replace the file and end the watch. Correct
  means: what is cached follows the file, and never is a half-written rule.
* **Channel crawler.** A full channel, lost work at restarts, a find-then-save that is two
  statements, and rows that were only discovered. Correct means: a reader finds the latest crawl.
* **Worker lifecycle.** Every step of the start may fail, two loops of every service may fail at
  any moment and a signal may come at any other; loops work on connections that `main` closes.
  Correct means: a connection outlives its users; a failure is reported; the process ends.
* **Rule execution.** Which rule runs depends on two files that are edited meanwhile and on a rule
  in memory that may be old; what a rule returns may be nested, cyclic or full of holes. Correct
  means: a listed target runs its own rule, and what is stored says what was returned.
* **Workbench.** Loads overlap and are answered in any order; a watched task ends while another
  load is out; old runs failed, have repeated keys or another version. Correct means: the page
  never goes back; a result that is announced is shown; labels and health tell what the runs tell.
* **Configuration.** It is replaced while processes run. Correct means: what is published goes
  where the workers read.

`PROJECT.json` lists every hazard at its line with the properties that would catch it.

## 2. Modules

| Module | Models | Extends or instantiates |
| --- | --- | --- |
| `TaskStatus` | statuses and transitions (`status.go`) | |
| `TaskStore` | the tables and every statement that writes them | `TaskStatus` |
| `TaskStream` | the stream and its consumer group, as the code uses them | `TaskStatus` |
| `OutboxPublisher` | publisher processes | `TaskStore`, `TaskStream` |
| `WorkerProcessor` | consumers, reclaimers, the slot, `Processor.process` | `TaskStore`, `TaskStream` |
| `CrawlPipeline` | the composition, faults and time; its properties | the two above; instantiates `CrawlTaskLifecycle` |
| `CrawlTaskLifecycle` | the abstract promise to a client: accept, attempt, finish | |
| `CrawlPipeline_proofs` | the proofs | `CrawlPipeline`, `TLAPS` |
| `LeaseBudget`, `LeaseBudget_proofs` | the timing of one attempt | |
| `PipelineCounts_proofs` | the proofs that count: slot, messages, retries | `CrawlPipeline_proofs`, `FiniteSetTheorems` |
| `TaskAPI` | `POST /api/v1/tasks` | |
| `CollectDialog` | the browser's collect dialog and other clients | `TaskAPI`; instantiates `TaskStore` |
| `CollectDialog_proofs` | the proofs about both | `CollectDialog`, `TLAPS` |
| `WorkerLifecycle`, `WorkerLifecycle_proofs` | a worker process from start to exit, `Service.Run` | |
| `ScriptCache` | the cached rule against editors | |
| `RuleSelection` | `ExecuteTask`: which rule runs | `ScriptCache` |
| `CollectionResult` | `luaJSON`, `decodeCollection`, `decodeLuaResult` as operators | |
| `RuleExecution`, `RuleExecution_proofs` | `ExecuteTask` with what the rule returns and what is stored; the proofs about it, the rule that runs and the cached rule | `RuleSelection`, `CollectionResult` |
| `Dataset` | history, comparison, labels and health, as operators | |
| `Workbench`, `Workbench_proofs` | loads and watches of one page | `Dataset` |
| `HotConfig` | the configuration in memory against editors, and the publisher | |
| `ChannelCrawler`, `ChannelCrawler_proofs` | channel, goroutines, cron, `github_repos` | |
| `MCCrawlPipeline`, `MCChannelCrawler`, `MCRuleExecution`, `MCWorkbench` | symmetry sets, a heap of tables, runs of every kind, for TLC | |

Conventions: state variables and actions keep the names of the source where they have one. An
operator `X_Something` before `X`, commented "Mutation", is `X` with a plausible bug; it is used
by nothing but the mutation check.

### 2.1 The pipeline and the code

* A statement or transaction of MySQL, and a command of Redis, is one atomic step; two calls of
  one function are two steps, with every other process free to run in between. A `WHERE` clause is
  the enabling condition of its operator, and "no row selected" is the operator's negation
  (`ClaimConflict`, `CompleteConflict`, `MarkConflict`).
* `tasks[t]` is a row of `crawl_tasks`; `messageID[t] = 0` is `published_at IS NULL`; `results[t]`
  is the run token of the attempt whose payload is in `crawl_results`, which identifies the
  payload. Run tokens are numbered; in the code they are 16 random bytes, taken never to repeat.
* A lease is `live`, `expired` or `none` (NULL). `OrphanLeaseExpires` lets it expire when nobody is
  at work under its token; `OwnerOverruns` lets it expire under an owner that still is, which costs
  one of `MaxOverruns`. The clock of a worker that runs ahead of another's is such an overrun too.
* `idle` holds the pending entries that have reached `ClaimMinIdle`. That is independent of the
  lease, as in the code: a message may be adopted while its task's owner is at work.
* A loop is at `gate` once it has a message and waits for the slot, and then goes through `load`,
  `claim`, `execute`, `complete`, `ack`; every early return of `process` is a `Return`.
* Faults: a call that fails without effect (`CallFails`, `AbandonBatch`), a call that is applied
  and whose reply is lost (`ClaimReplyLost`, `CompleteReplyLost`, `PublishReplyLost`,
  `MarkReplyLost`), and the death of a worker process (`Crash`). An XACK whose reply is lost is an
  `Ack`, for nothing is done differently afterwards. A graceful shutdown leaves what a crash does:
  cancelled calls return errors and messages stay pending. Executing a rule has three outcomes for
  the pipeline: payload, failure, and no commit at all (`CallFails`).
* `CrawlTaskLifecycle` knows nothing of queues. `CrawlPipeline` maps to it: a task is open while
  its row is queued or running, the run token is the number of the attempt, `crawl_results` is the
  snapshot.

### 2.2 The lease budget and the code

Time passes in ticks of half a second, the shortest timeout of the code (500 ms for an event). A
call returns at any tick up to its limit. `Start`, `GrantLease`, `RecordClaimed`, `ClaimFails`, `Execute`,
`OutOfBudget`, `Stopped`, `RecordOutcome`, `CommitOutcome` follow `processor.go:64-104`; the deadline of the
execution is computed before the claim, the lease inside it. The claim, each event and the completion are one
transaction each (gorm makes one of a single statement, too). Its statements end with their context; its
`COMMIT` or `ROLLBACK` (`EndTransaction`) is only started while the context lasts, but takes none, as
`db.go:41-42` says, so that it may take the write and the read timeout of the transport: ten seconds each, unless
the DSN says otherwise (`ReadTimeout`, `WriteTimeout`). The driver is taken to need one write and one read for
it. Code between two calls takes no time: a stopped
virtual machine or a skewed clock is what the pipeline calls an overrun.

### 2.3 The API, the dialog and the code

A request is `insert` → `outbox` → `commit`, or `insert` → `lookup`. An insert waits while another
open transaction has inserted its key, as InnoDB's unique index makes it (`KeyIsLocked`). The two
best-effort events after the commit change nothing here and belong to the answer. A request may
fail at every statement, and may commit and then answer 500.
`submitKey` is `state.submitKey`; `keyForm` and `formOf` remember which filled-in form a key was
made for. `Unconfirmed` is both the error answer and the 20 second timeout, which leaves the
handler running. Keys of the browser are fresh; other clients use any keys of their own.
`CommitsAreAcceptances` instantiates `TaskStore` with the API's tables: what the pipeline takes as
one step, `Accept`, is what the handler does through failures, races and lost replies.

### 2.4 The rule cache, the channel crawler and the code

`ScriptCache`: a file is present or not, its content is a complete version or `Partial`.
`InitLuaEngine` loads the rule and `AddWatch` adds the watch: an edit between the two raises no
event (`lua_engine.go:44`, `53`), and `missed` remembers it until the file is loaded again. `ReadRule` and `Install` are the two halves of `reloadScript`, so that an edit may fall between
them. Events that wait are one flag: each causes a reload of whatever the file holds then, so that
only the last matters. Editors truncate and write, rename over the file, or move it away and
create it; the watch is on the file and ends with it.

`ChannelCrawler`: `rows` is `github_repos` in the order of ids; `FirstOrCreate` is `Find` and then
`Save`; the links are one insert that skips duplicates, in any order, for a rule lists them as it
likes. `SaveRefused` is the unique index on name
and source. A rule returns a repository with data, one with zero stars and no description
(`bare`), or a collection (`items`). That no rule is in memory is one of the reasons of `RunFails`.
What gorm does with zero values is external and follows from its documented semantics: a struct
condition or an `Assign` leaves them out. A request that is refused for its body (400), or because the server
has no channel (503), changes nothing and is no step. The channel has a buffer (`task_queue_size` is 1000 as
configured, and nothing checks it): one without would hand a message only to a goroutine that waits for it, which
is not modelled.

### 2.5 The worker process and the code

`phase` follows `run` in `cmd/worker/main.go`, down to the deferred closing of Redis and MySQL in
reverse order; `log.Fatalf` of the rule engine ends the process without them. `pc` is where each
of the two loops of a service is: waiting for a message, for the slot, or at work; what work is,
is `WorkerProcessor`. Only a failing read ends a loop with an error; a processing error is logged
(`consumer.go:62`). `taken` and `result` are `Service.Run`: it waits for the first loop, cancels
the other, waits for that one, and prefers an error to the end of the context. `select` may take
the slot although the context is done, and so does `TakeGate`. Everything that takes a context
fails once a signal has come.

### 2.6 Rule execution and the code

An attempt is `idle` → `cached` → `listed` or `chosen` → `stored` or `failed`: `ExecuteTask` reads
the rule in memory, then `rules.yaml`, then the own file of a listed target. `rulesFile` is whole
or broken: when it cannot be read, every target is taken for one that is not listed
(`task_execution.go:22`, as README.md:168 of the repository says). `ScriptCache` runs beside it.
`Heap` maps the id of a table to its string-keyed and its integer-keyed entries, and tells whether it
has a key of another kind: one that is no string and no number, or a number that is no integer.
`luaJSON` walks it with the tables on its path; where the code counts the depth up to 32, the
function counts the levels that are left, so that each of its values is made of those one level
below. A restart (`Restart`) forgets the attempt. `RuleExecution` adds to `RuleSelection` what the rule
returns, and nothing to what is chosen. The reference knows neither a path nor an order of failures:
`IsRepresentable` looks at the sets of values that are found by following n entries (`Below`), and
`CollectionText` is what must be stored. Strings, numbers and booleans are one kind of scalar; a
number that is not finite, which the code rejects, is a kind of its own.

### 2.7 The workbench and the code

`request` is `state.request`; a load is `sent`, then the server has `read` or it has `failed`, then
the page has applied or dropped it. `seen` counts the tasks that had ended when the server read,
which orders answers. `history` is ordered by `finished_at`, the clock of a worker before its commit, so a
task may appear behind others. A watch asks, and finds out later what it was told; `attempt`
counts its polls. `Dataset` is what `dataset()` in `workbench.js` and its helpers in `analysis.js` compute from
the snapshots, found by their positions, two of a kind at most, as nothing looks at a third. An item
is its key and a body for the fields that are compared; `compareSnapshots` flattens an item and the
labels compare its text, which differ on empty nested objects only, and those are left out. The age
of a run against its schedule is one of three. Payloads keep their form:
what a rule of the old kind returns is marshalled with capital keys (`collection_result.go:11-17`),
which `extractItems` does not know, so that such a run is an extraction error.

### 2.8 The configuration and the code

One field is kept, `redis.stream`. viper watches the directory, reads the file at each event and
calls back; the callback replaces the pointer under a lock. The publisher asks `Get` for the name
at each message, the workers have it from their start.

## 3. Runs

| Run | Module, instance | What it shows |
| --- | --- | --- |
| `pipeline_ownership` | `CrawlPipeline`: 1 task, 1 publisher, 2 hosts of one service (4 loops), 2 faults, 1 overrun | types; fencing of results; acknowledgements; takeovers; sole executor and owner; retries; refinement of the lifecycle |
| `pipeline_delivery` | 2 tasks, 2 publishers with batches of 2, 1 host, 1 fault | nothing is lost, marks name their messages, duplicates have a cause, the slot |
| `pipeline_liveness` | 2 tasks, a publisher with batches of 2, 1 host, 1 fault, 1 overrun, fairness | tasks are published, though a batch is cut short, and end; the pending list drains |
| `collect_dialog` | `CollectDialog`: 3 requests, a tab with 2 forms, another client, 2 payloads | keys, replays, conflicts, one task per form, every request answered, commits are acceptances |
| `collect_retry` | 2 requests, one tab | **violated**: `RetryKeepsKey` |
| `lease_budget` | `LeaseBudget`: execution timeouts of 1, 6.5 and 7 s, a transport of 1 s and 2 s | the reserve of the lease, when a claim fits the budget, the bound on overruns |
| `worker_lifecycle` | `WorkerLifecycle`: 2 services, 2 failing reads, a signal | connections outlive loops, quiet exits were asked for, a stop is completed |
| `rule_execution` | `RuleExecution`: 3 edits, 2 listed targets and one that is not, 19 kinds of result, depth limit 4 | a listed target runs its rule, collections are stored as returned, the rule in memory follows its file |
| `workbench` | `Workbench`: an old run of six kinds, 2 tasks of which 1 is watched, 3 loads, 1 failing request, 2 snapshots per load, 2 polls | the page never goes back, announced results are shown, labels and health agree with the runs, watches end |
| `config_reload` | `HotConfig`: 2 tasks, 1 edit | **violated**: `PublishedIsDelivered` |
| `channel_crawler` | `ChannelCrawler`: 2 repositories, 2 goroutines, a channel of 1, 2 posts, a round, a restart | types and the capacity of the channel; readers find the latest crawl, the index refuses none, while crawls do not overlap |
| `crawler_overlap` | 2 repositories, 2 goroutines, 2 posts | **violated**: `LatestCrawlIsReadable` |

**Bounds, and why they are enough.** *Pipeline:* ownership hazards are about one row and at most
two attempts competing for it, with a third that may follow: one task, four loops on two hosts, and
two faults (one may lose a reply and the next kill the process that acted on it) with an overrun
between them. More tasks add no interaction, as no statement writes two tasks' rows; what they do
share, batches and the order of the stream, is what `pipeline_delivery` looks at. Liveness needs a second
task, so that one can be starved by the other, and a batch of both, so that it can be abandoned with one left.
That two publishers end each other's batches is left to `pipeline_delivery`, which knows safety only: with
fairness it is too large. *Lease budget:* an
execution timeout at the bound of `BudgetOutlastsClaim`, one above it and one far below, over a transport that
is shorter than the default: both bounds are met with equality. *Dialog:* with three requests there is an original, a retry and a competitor. *Crawler:* two crawls
overlap, two repositories discover each other, and the channel of one is full with the second
target. *Rule cache and execution:* an edit during a reload, one before and one after; every kind
of table that `luaJSON` tells apart, at the top, nested, repeated and in a cycle, with the depth limit just
reached and just passed. *Worker:* a second service is the one that must be drained, and the second
failing read is that of the sibling, or of the other service, while the first is being dealt with.
*Workbench:* the first load, one by the user and one by the watch overlap; a limit of two snapshots
cuts one of three runs off; two runs of a rule are compared. Every bound is a named
constant. `CHECK_DEADLOCK FALSE` stands only where the system really may stop: clients, editors and
posts have run out. The pipeline and the worker check for deadlock: `Quiescent` is the state in which
all loops poll and find nothing, `Gone` that in which the process has exited.

**Fairness.** Publishers and reclaimers are driven by tickers, consumers by a blocking read, and
every call has a timeout: weak fairness of each loop's steps. The slot of a service is a Go channel,
whose waiting senders are queued: strong fairness of `GateStep`. Time passes: orphaned leases expire
and pending entries become idle. In `CollectDialog` the server's handlers keep running and none needs a fault to be served,
in `ScriptCache` and `RuleExecution` the watching goroutine. In `WorkerLifecycle` every goroutine runs
on, work ends because each of its calls has a deadline or a transport timeout, and a loop sees the
end of its context. In `Workbench` requests are answered or fail within 20 seconds and timers go off. Clients, users, editors, operators and faults owe nothing.
That finitely many faults happen is `MaxFaults`; under permanent faults no such program makes
progress.

## 4. What is proved

Every safety property that a passing run checks is a theorem. The
theorems hold for every value of the constants that satisfies the named assumptions
(`TaskAssumption`, `PublisherAssumption`, `WorkerAssumption`, `FaultAssumption`,
`BudgetAssumption`, `EditAssumption`, `TargetAssumption`, `RequestAssumption`, `DialogAssumption`,
`LifecycleAssumption`, `CrawlerAssumption`, `WorkbenchAssumption`, `CollectionAssumption`), so for any number of tasks,
publishers, hosts, services, requests, loads, repositories, faults and overruns. What the assumptions
ask beyond types: publishers, the names of repositories (they fit a `varchar(500)`) and the tasks a
page submits are finitely many, batches and services are not empty, the channel has a buffer, what payloads hold is a list,
the tables that values name are in the heap, and a rule's `min_items` is a number that is not negative, as `rule_definitions.go` demands.

**Pipeline** (`CrawlPipeline_proofs`). The invariants are not inductive on their own. `IInv` adds:
* `JobsAreDelivered`: a loop's message was delivered, so it names a task;
* `RowsAreConsistent`: status, token, lease and outbox row of a task agree (a token exactly from the
  first claim on, a lease exactly while running), and tokens are below the next one;
* `JobsAreSound`: what a loop knows at each step: its token was granted, it completes with an
  outcome, it acknowledges a task that has ended;
* `OwnersAreLive`: until an owner overruns, a loop at work is the owner on record with a live lease;
* `BatchesAreSound`: a batch holds outbox rows, and the id about to be recorded names the row's task.

`InductiveInvariant` proves `Spec => []IInv`: first that types are kept (one lemma per statement and
step), then that the tables move only by whole statements (`TablesMoveByStatements`) and keep ended
tasks ended, then one lemma per part of `IInv`. From it follow `TypeCorrect`, `ResultsAreFenced`,
`AcksFollowCommits`, `OwnersAreUnique`, `ExecutionIsExclusive`, `RunningTasksCanBeTakenOver`,
`MarksNameMessages`, `TasksAreNeverLost`, the action properties `StatusMovesAlongTable` and
`TakeoversWaitForLeases`, and the refinement `PipelineImplementsLifecycle`.

`ExecutionIsExclusive` needs `OwnersAreLive`: two loops at work on a task would both be the owner
on record, and tokens are unique (`SoleOwner`). `TasksAreNeverLost` needs `AckedOnlyAfterTerminal`
and `MarkNamesItsMessage`: the message that a published row names is undelivered, pending, or
acknowledged, and in the last case the task has ended.

**Lease budget** (`LeaseBudget_proofs`), for every execution timeout and all timeouts of the transport:
`BudgetIsKept` bounds the end of each call, and of the `COMMIT` it may be at, by the deadline of the execution, and
that by the lease; hence `ReserveIsKept`, `ClaimsFitTheBudget`, `OverrunIsBounded`. The reserve rests on the
deadline alone, however long the claim's `COMMIT` took. The other two count the `COMMIT`s: with the
default transport an attempt is sure to start its rule only if `lua_timeout` is above 40.5 seconds (it is
configured as 30), and a completion ends at most 40.5 seconds after its lease.

**Counts of the pipeline** (`PipelineCounts_proofs`). A count is led back to a set, and what a step
adds to the set is shown step by step.
* `SlotsAreExclusive`: `GateIsHeld` says that whoever is inside has taken the gate, alone, and that a
  taken gate has somebody inside; every step of a loop enters, leaves or stays put.
* `DuplicatesAreAccountedFor`: there are at most as many messages as pairs of an accepted task and a
  publisher, and one more per fault. `Spent` is the set of the pairs of a task and a publisher that has added a message and not
  yet marked it, or that can add none since the row is marked and out of its batch.
  `MessagesAreDue` is inductive: a message spends a new pair or costs a fault, and a pair is only
  given back by a fault.
* `RetriesAreTakeovers`: tokens are granted one by one, each to a first attempt or to a takeover that
  `retry_count` has counted, so that the attempts are as many as the tokens.

**Rules** (`RuleExecution_proofs`), for any number of edits and any targets, any heap and any depth.
* `StaleRulesAreNoticed` needs that a watched file is there, that nothing reloads before the watch, and
  that what a reload has read is either still the file or followed by another event.
  `SelectionKeepsTheCache` and `ExecutionSelectsRules`: tasks only look at the cache, and executing a
  rule is a step of its selection, so that each level keeps what is proved of the one below.
* `ListedTargetsRunTheirOwnRule`: a file that is there is partial or the newest version
  (`FileIsNewest`), so that what is read after the attempt began is partial, and fails, or is no
  older than its beginning (`SinceIsPast`, `ChosenIsOwn`).
* `CollectionsAreStoredFaithfully`: by induction over the levels (`Induction`, from the least number
  of a set, as the library's induction theorems are out of the provers' reach), what `luaJSON` does
  not reject is what is `Good`, and what it makes of it is its text (`LuaJSONIsFaithful`). `Good` speaks of the
  tables seen and `IsRepresentable` does not: the step needs that a value that ends above some depth is
  not below itself (`NoCycles`), or else the shortest depth at which it ends would not be
  (`BelowAdds`, `BelowEnds`). The recursive functions are first shown to be what their equations say
  (`FunctionsAreDefined`), and indices without a hole to be those that the code counts
  (`ListsAreArrays`). `ResultInv` says that a stored payload is what was made of the rule's result.

**Channel crawler** (`ChannelCrawler_proofs`), for any number of repositories, goroutines, posts and
restarts, any capacity of one or more, every kind of result and every order of links: `TypeCorrect`,
`CrawlsApartStayReadable`, `CrawlsApartAreAllStored`. `WhileApart` is the invariant of crawls that do not overlap.
That the first row of a name is its latest crawl needs that a crawled row comes before a discovered
one (`CrawledRowIsFirst`) and that what `SELECT` found is still what it would find
(`FoundIsCurrent`). That nothing is refused needs to know about the empty name, whose lookup has no
condition and finds the first row of the table, whoever's it is: `EmptyNameIsFirst` says that it is
only looked up once that row is its own.

**Request keys** (`CollectDialog_proofs`), for any number of requests, tabs, forms and other
clients: `KeysNameOneTask`, `AnsweredTasksAreCommitted`, `FormsBecomeOneTask`,
`DialogsAreNotRefused`, and the refinement `HandlerImplementsAcceptance`, by which the step `Accept`
that the pipeline starts from is what the handler does. The invariant has a half for the tables (`APIInv`:
committed keys are unique, and the key of an open transaction is in nobody else's hand) and one for the dialog
(`DialogInv`: a key was made for one form, one tab has it, and what it was sent with is what the
form still says).

**Worker process** (`WorkerLifecycle_proofs`), for any number of services and failing reads:
`TypeCorrect`, `LoopsHaveConnections`, `QuietExitsWereAsked`. `IInv` says in which phase loops can exist
(`LoopsAreSpawned`, `LoopsAreAwaited`), why they ended (`LoopsEndForAReason`), and that results stand for
both loops (`FirstResults`, `ServiceResults`, `MainResults`).

**Workbench** (`Workbench_proofs`), for any number of tasks, loads and failures and any snapshots.
* `ViewsMoveForward`: the view, and the answer to the newest load, are never ahead of the server nor
  behind each other (`NewestIsAhead`); versions that the page has not come to have not been asked for.
* `WatchedResultsAreShown`: every load but the first is the user's or of a watch that has seen its
  task end (`LoadsAreCounted`), such a task has ended (`AnnouncedHaveEnded`), and so the newest load
  was sent after each of these ends and its answer covers them (`NewestCovers`).
* `LabelsTellTheComparison`: rows that are not a baseline have keys that are all there and all
  different (`KeysAreCounted`), and then the last item of a key, which `compareSnapshots` takes, is
  the row's own (`ItemOfKey`, `LabelsAgree`).
* `HealthyRulesShowTheLatest`: a rule that is called healthy has a newest run that succeeded and was
  read, so that it is the first of its observations too (`HealthyIsShown`).

**Only model-checked.** Liveness (`EveryTaskEnds`, `EveryTaskIsPublished`, `PendingListDrains`,
`EveryRequestIsAnswered`, `StopIsCompleted`, `EveryWatchEnds`, `CacheCatchesUp`), for fairness is
defined by `ENABLED`, which the prover cannot handle. The three
properties of section 5 do not hold.

## 5. Findings

1. `collect_retry`: the message of an unconfirmed submission promises that a retry uses the same
   request number (`app.js:1146`). Close the dialog and open it again while the submission is in
   flight, and `openCollect` has thrown the key away (`app.js:998`) when the message appears. If the
   first request was committed, the invited retry creates a second task.
2. `config_reload`: "at-least-once delivery" (README.md:82 of the repository). viper reads `config.yaml`
   again at every write event. If an editor has truncated it, an empty configuration replaces the old
   one (`config.go:117-124`, against the comment at `config.go:113`), `PublishTask` adds to a stream with
   no name (`publish.go:17`), and the row is marked: nobody gets the message, and nothing sends it again.
3. `crawler_overlap`: "overwrites it with the latest data rather than adding records" (`lua_engine.go:275`).
   Another goroutine can discover a repository between the `SELECT` and the `INSERT` of `FirstOrCreate`
   (`lua_engine.go:276`): the discovered row, which has no data, is then the one that readers find, and every
   later crawl of the repository is refused by the unique index. While no two crawls are in hand at a
   time, the comment holds of what a reader finds (`CrawlsApartAreReadable`, proved).

Conditions under which other comments hold:

* With a rule that returns `items`, as the configured one does, the channel crawler stores a row under the
  empty name, drops the data and logs a success, and the reader answers "pending" for ever
  (`lua_engine.go:268`, `408-411`; comment at `handler/task.go:59`). The model does the same (`NameOf`, `FoundRow`).
* Even without overlap, zero values overwrite nothing (`lua_engine.go:275`): a repository that has lost its
  description keeps the old one. With overlap, a slow crawl can overwrite a later one, too.
* "Reserve ten seconds for completion inside the lease" (`processor.go:64`). Between the execution and the completion
  an event is written, for up to half a second and a `COMMIT` (`processor.go:96`, `98`), and the completion may take
  ten seconds (`processor.go:100`) and then its own `COMMIT`, which no context ends (`db.go:41-42`). So it may end
  after the lease, by half a second and twice the transport's timeouts at most (`CommitOverrunIsBounded`,
  proved). The token fences it all the same (`ResultIsFenced`).
* That an editor's intermediate state cannot clear the rule in use (`lua_engine.go:84-85`) holds of a
  file that cannot be read; reading a truncated one succeeds and clears it, until the next event.
* `CacheCatchesUp` holds while the watch lasts: the first editor that renames over the file ends it
  until a restart. Nor does it hold of an edit between the first load and the watch, until the next. Listed targets do not depend on it (`ListedTargetsRunTheirRule`), unless
  `rules.yaml` cannot be read at the time.
* The stream can be renamed by a complete edit too: from then on the publisher adds to the new one,
  and workers that were not restarted read the old one.
* A run of a rule of the old kind succeeds, and the workbench calls the rule failing, since it
  expects lower-case keys.

## 6. Not modelled, and why

* The loss of Redis data after publication, which the repository's README excludes, and messages
  that no publisher wrote.
* `HttpGet` and its choice of route, selectors on HTML, the libraries of the Lua sandbox,
  `validateTargetURL`: they work on data, or keep a preference that only changes how long a request
  takes. Deadlines they share with the rule are in `LeaseBudget`.
* Filters, paging, charts, export and rendering of the workbench, the dialog with the events of a
  task, and the parameters `from`, `to` and `rule_id` of the analysis API, which select among
  snapshots and keep no state.
* Events as data: they are written best effort and read by their own page alone; the time that
  writing one takes is modelled.
* Migration and the pool of MySQL: `OpenMySQL` is one step that succeeds or fails, and the timeouts of the
  transport are in `LeaseBudget`. Environment variables of the configuration, viper's end
  of the watch when the file is removed, logging, routing, pprof.
* `EnqueueCrawlTask`, `CreateCrawlTask` and the transitions of `TransitionCrawlTask` other than
  the first claim, which no process asks for.

The order in which the modules were written is that of importance: store, stream, publisher, worker,
pipeline and lifecycle; lease budget; API and dialog; rule cache and channel crawler; worker
process; workbench; rule execution; configuration. What is left above is data without order or failure, for
which tests serve better than a model checker.

## 7. Checking it

    tlc -workers 2 -config PipelineOwnership.cfg MCCrawlPipeline.tla   # likewise the other pairs of PROJECT.json
    tlapm CrawlPipeline_proofs.tla                                     # likewise every other *_proofs.tla
