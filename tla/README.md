# Verification of ReconForgeX

TLA+ models of ReconForgeX (`src/reconforgex/`), TLC configurations that check
them on small instances, and TLAPS proofs of the main theorems for all values of
the constants. Every definition is translated from the Python source;
`PROJECT.json` maps each one to the lines it stands for. Paths below are relative
to `src/reconforgex/`.

## 1. The system

ReconForgeX scans one domain: `reconforgex <domain>` builds a configuration, a
`PipelineManager` runs fourteen stages over it, and three report files come out.
Everything runs in one thread on an asyncio event loop, so interleaving happens
only at `await`; but stages of one wave, requests of one batch and tasks of one
pool are all interleaved there.

| Component | State it keeps | Operations | Hard behaviour | Correct when |
|---|---|---|---|---|
| Scheduler, `pipeline/scheduler.py` | `_stages`; the locals of Kahn's algorithm | `register`, `get_execution_order` | repeated, unknown and cyclic dependencies | waves respect and do not delay dependencies, each stage once, cycles reported exactly |
| Manager, `pipeline/manager.py` | `_data_store`, `_modules`, `_shared_client`, `stats`, files on disk | `run`, one runner per stage | stages of a wave interleave and fail; Ctrl-C; a kill between two files; a second `run()` | inputs are complete and final, every stage reported, reports in order, client closed, `run()` ends |
| HTTP client, `utils/http_client.py` | `_client`, `_cancelled`, counters | `batch_get`/`_request`, `cancel`, `close` | retries, timeouts, aborted tasks, a close or cancel during sleeps and awaits | no pool lost, counters add up, cancel is final, every batch ends |
| Rate limiter, `utils/rate_limiter.py` | global and per-host buckets, slowdown factors | `acquire`, `record_latency`, `reset_host` | tokens of the future, three competing waits, a factor that changes under promised waits | what is asked for a host is bounded by its bucket, callers are served in order |
| Worker pool, `pipeline/worker_pool.py` | `_semaphore`, `_cancelled`, telemetry, pending tasks | `map`, `cancel`, `_drain`, adaptive control | the semaphore is replaced while it is held and awaited; swallowed cancellations; concurrent `map`s | no slot lost, all tasks accounted, cancel final, everything ends |
| Risk scoring, `modules/risk_scoring.py`, on what `modules/csp_analyzer.py` finds | locals of one `run` | `run` over the results of four categories | caps, weights, rounding, boundaries of grades and dates | the factors explain the score; a harmless directive never costs |
| robots.txt parser, `modules/robots_parser.py` | the section under way, the rules | one line, end of file, collection | sections closed by the next one or the end of the file | every section is read alone, paths once and in order |
| Analyzer modules, `modules/*.py` | `stats`, `_results`, `_errors`, own client | `run`, `reset` | repeated runs, partial batches | a run starts clean, a failure is one result less |
| Configuration and CLI, `config.py`, `cli.py` | a configuration record | `from_dict`, `merged_with_cli`, `async_main`, `main` | precedence of sources, validation before use, exit paths | what the scan does with a setting that is read, it does with the value of flag, file or default, in this order |
| Statistics, `pipeline/statistics.py` | counters | percentiles | indices on short lists | percentiles are ranks of the times collected |
| Reports, `report/*.py` | none | three writers | layout only | see the manager for when files change |

How they interact: the manager registers stages with the scheduler once, then
calls `get_execution_order()` at each run and gathers the stages of each wave.
Runners get a module instance, inject the manager's HTTP client, read their inputs
from `_data_store` with a default, and store their results under fixed keys; the
manager never checks that a writer succeeded. A module sends `batch_get` calls to
the client; `_request` asks the rate limiter once, then sends and retries.
The worker pool is public API with no user inside the program.

`PROJECT.json` "components" lists every part, the ones left out with the reason,
and "hazards" lists what in this code is hard to test, at its line.

## 2. Modules

| Module | Role |
|---|---|
| `WaveOrder` | abstract: a plan is built layer by layer, each layer all the ready stages |
| `Scheduler` | the counting loop of `get_execution_order`, one step per queue item |
| `SchedulerProofs` | its theorems |
| `StageGraph` | abstract: stages of a dependency graph start once, after all they require has ended |
| `Pipeline` | `PipelineManager.run` and the stage runners; its `StartWave` takes the ready set of `WaveOrder` |
| `PipelineProofs` | its theorems |
| `RateLimiter` | `RateLimiter`: `acquire`, latencies and resets in exact integer units of time and tokens |
| `RateLimiterProofs` | its theorems |
| `HttpClient` | `AsyncHTTPClient`: batches of requests, retries, cancel, close |
| `HttpClientProofs` | its theorems |
| `WorkerPool` | `WorkerPool`: maps of tasks under replaceable semaphores |
| `WorkerPoolProofs` | its theorems |
| `DirectiveTable` | abstract: a table of what has been said of each agent, that only grows |
| `RobotsParser` | `_parse_robots`, one step per line, and the collection of its results |
| `CspPolicy` | operators: how a policy is parsed, and the score of its weaknesses and bypasses |
| `RiskScoring` | `RiskScoringEngine.run`, one step per result, with policies read by `CspPolicy` |
| `Scan` | one run of the program: settings, validation, output directories, requests, statistics, exit code |
| `StageModules` | `run()` of twelve of the module classes, one object used for run after run |
| `Sums` | the sum of a sequence, as Python's `sum` and `+=` make it |
| `FoldTheorems` | facts about sums and loops over sequences of any length |
| `ModuleProofs` | theorems about `StageModules` and `RobotsParser` |
| `ReportProofs` | theorems about `RiskScoring` and `Scan` |
| `MCx` | the instance of module `x` that TLC runs |

Composition: `Scheduler` implements `WaveOrder`; `Pipeline` uses `WaveOrder`'s
ready set for its waves and implements `StageGraph`. So the wave structure the
manager assumes is the one the scheduler is proved to deliver. `Pipeline`
abstracts a module's HTTP work to one suspension, and `HttpClient` abstracts the
rate limiter to a sleep of unknown length. `StageModules` is what happens inside that
suspension; it takes from `HttpClient` that a batch returns one response per URL, and
that none of them is an answer once the client is cancelled. `RobotsParser` implements `DirectiveTable`.
`RiskScoring` extends `CspPolicy`, so that what the analyzer says of a policy is what the score deducts.
`Scan` has the pipeline between `StartScan` and `Finish` as the stages it runs, the requests answered, whose times become its statistics, and the reports written.

### 2.1 Scheduler

`pc` is `register` while the caller registers stages, `visit` inside the loop of
lines 122-132, and `done` after the cycle check. `stage_names` and `depends_on` are
the dict in insertion order (registering a name again keeps its place); `in_degree`,
`queue`, `wave`, `next_queue`, `waves` and `unscheduled` are the locals. `BuildGraph` is
lines 109-120, `Visit` one iteration of the loop over `queue` with its inner loop over
the dependents, `EndWave` appends the wave and swaps the queues, `CheckCycle` is
lines 134-142. Dependency lists are sequences, so that a name listed twice is
counted twice and must be taken off twice.

### 2.2 Pipeline

One `Pipeline` action is what runs between two suspension points: `StartRun`,
`StartWave` (the gather), `Begin`/`FailToLoad`/`Fetch`/`Return` of a stage, `EndWave`,
the report steps, and `EndRun` (end time, statistics, close). `Cancel` is Ctrl-C
at the gather, `CancelClose` in the `close()` at the end; a `mkdir` that raises at the start of `run()` changes nothing and is no step. `Kill` stops the process anywhere, also between the three report
files; `NewProcess` starts it again over the same directory. A manager may run again after a run that returned or was cancelled (`StartRun`), which the program itself never does; entries of `stage_results` are counted by stage and run. `_data_store` is keyed
by the stage that writes (a stage writes its keys without suspending), and an entry
is the run that wrote it and whether its list is non-empty, which decides whether
`risk_scoring` fails. `inputs[s]` is a history variable: what `s` read when it began.

### 2.3 RateLimiter

The clock counts ticks of `1/global_rps` seconds, waits and promised times count instants, `SubTicks` to a tick. A host at
slowdown factor `f` gains `FullGain / f` units per tick, and `Ratio * FullGain` units are a token (`Ratio = global_rps / per_host_rps`).
With `FullGain = 2700` and `SubTicks = 194400` every factor that five latencies lead to, every refill and every wait of the
code is an exact integer. `acquire` has no suspension point, so it is one action. `record_latency` is called for an answered
request; its average is any that `_calculate_slowdown` tells apart, once there are three latencies. `reset_host` makes the
host's state new. Histories: `due` has of each caller when it asked and when it was told to send, `resets` and
`eased` count per host the resets and the falls of the factor, and a property says which of them may not lie between two callers.
The global balance is shared; asyncio's single thread makes no two calls of `acquire` overlap.

### 2.4 HttpClient

`request[r]` is `queued` (task created), `waiting` (sleep of the limiter or of a backoff),
`sending` (`await client.request`), `done` or `stopped` (left with `CancelledError`).
`Begin` and `Wake` run from one suspension to the next, so they contain the flag
check, the lazy creation of the httpx client and the counting. `Failed` is any of the five
except clauses (they differ in the message only) and the retry decision.
httpx clients are numbered; `live` are those not closed. httpx marks a client closed
before `aclose()` first suspends, so a request that meets it in that window fails at
once, as an error with a retry. `usable` says whether `httpx.AsyncClient` can be built at
all (with `http2=True` it cannot without the h2 package): it never changes.
`close()` has one caller at a time, as everywhere in the repository.

### 2.5 WorkerPool

Semaphores are numbered as `_adjust_concurrency` makes them; `sem[t]` is the one task
`t` waits for or holds, because `async with self._semaphore` reads the attribute once.
`Attempt` runs from the head of the retry loop to the first suspension: it refuses, takes a free slot, or queues.
`Stop` delivers a cancellation, `Swallow` is a coroutine that answers it with another exception and is then retried, and one that answers it with a result is a `Succeed`.
A task refused by a cancelled pool ends at once (`Refuse`), but the task group learns of it in a callback one turn of the event loop later (`Notice`), and only then cancels the others,
so that in between a sibling may start, be refused too, or end.
Which waiter gets a slot is left open (asyncio is FIFO; no property depends on it), and the average
latency and the passing of the adjust interval are nondeterministic.

### 2.6 StageModules

All module classes have the `run()` of one pattern. `Start` runs `reset()` and goes up to the first await (or, in a class
that sends nothing first, to its loop), `Gathered` is the return of the first batch, `Iterate` one iteration of the loop up to
its own await, `SubGathered` the return of that second batch (sitemaps of an index, scripts of a page, candidates of a
base URL) and the rest of the iteration, `Return` what follows the loop. `Caught` is the `except` clause with the
`finally` clause, `Abort` a `CancelledError`, which meets only the `finally` clause. What a class does with a response is one
operator per class, named after it, and gives a record: nothing (`Skip`), a result with so many
items (`Keep`), a second batch before the result (`More`) or an exception (`Raise`). A response is its code and what its body is to the class; a malformed body holds a URL that `urljoin` or
`urlparse` answers with a `ValueError`. The modules share one client, and a cancelled
client matters to a module when a batch begins, which `doomed` records. `RiskScoringEngine` has no batch: when it runs and what
it is given is part of `Pipeline`, how it scores is `RiskScoring`.

### 2.7 RobotsParser

A line is a keyword and the value its expression finds, or `NoValue` when the expression fails or the value is empty; which of the
paths match the list of interesting ones is a set. `UserAgent` saves the section under way (`Saved` drops those without
a path or a sitemap) and starts another; `EndOfFile` saves the last one and does what `run()` does with the
rules: joins their lists (`Joined`), keeps first occurrences and picks the interesting ones (`FindInteresting`). `content`, the lines read, is there for the properties,
which say from it alone what should have been found and where: `Starts` are the positions at which a section begins, `SaidIn(start, keyword)` the lines of
that section with a value for the keyword, and `Place(i, lines)` the index that line `i` has among them. The actions are `ParseNext` and the
specification `ParseSpec` (in `Scan`, likewise, `ScanNext` and `ScanSpec`), so that one module can speak of two specifications.

### 2.8 CspPolicy and RiskScoring

A policy is a function from directive names to lists of values; a value stands for the class of values that passes one of the tests of
`_evaluate_csp`. `RiskScoring` goes through the four loops of `run()`: in each category results come one at a time
(`HeaderResult`, `TlsResult`, `CspAbsent`/`CspHeader`, `SecretResult`), a policy is read part by part (`CspPart`) and evaluated (`CspResult`),
a dict in place of an object raises (`Raise`, which ends the run without a result), `EndCategory` caps and rounds, `Weigh` computes the
weighted score and its grade. Deductions are integers in hundredths of a point, and the overall score in 1/200; where floating point can
round either way (a tie at one decimal, a score exactly on a threshold) both outcomes are allowed.

### 2.9 Scan

`args` is the parsed command line, `file` what `load_config` finds. A setting's value names where it comes from, which is what precedence is
about; a domain has a name and whether it is `bare`, which `validate_domain` makes it by stripping and lowering (`Normalised`). `LoadSettings` is lines 206-242 of `cli.py`: `FromDict` of the file, `MergedWithCli`, which goes
through `FromDict` again, then `--no-html`, `--no-json` and `--no-markdown`. `StartScan` goes from the validated domain to the manager's `run()`.
What the settings bring about is state of its own, so that a property can compare it with what was asked for: `directories`, `log_level`, `ran` (each stage with its target and the
timeout and retries of the client it uses; the TLS inspector, which opens its own socket, has a timeout of its own), `written` and `heading`. `RunStage` runs the stages in any order,
for their order is `Pipeline`'s. A `Request` adds a response time to the shared client's
list, kept as how many there are of each; `Summarise` and `WriteReport` are what `report_builder` does with them, or raises in doing, `Finish` the end of `run()` and the
exit code. `main` turns exceptions and Ctrl-C into exit codes (`RefuseFile`, `StartScan`, `Interrupt`). `int(n * 0.95)` and `int(n * 0.99)` are
computed in floating point, whose product never falls short of an integer that the exact one reaches, so that
`(p * n) \div 100` is what it gives.

## 3. Runs

| Run | Instance | Shows |
|---|---|---|
| `scheduler` | 3 names, lists of up to 2 entries: every graph on three stages | `TypeOK`, `DependenciesInEarlierWaves`, `NoStageTwice`, `NoWaveTooLate`, `CycleReportedExactly`; `PlanTerminates`; refinement of `WaveOrder` |
| `pipeline` | 7 stages covering all four levels, 2 runs, on one manager or in two processes | `InputsFinal`, `InputsOfThisRun`, `ReportListsEveryStage`, `ReportsWrittenInOrder`, `ClientsClosed`, `RunEnds`; refinement of `StageGraph` |
| `rate_limiter` | 2 hosts, rates 1:4, burst 1, 5 calls in 3 ticks, 5 latencies, a reset per host | `TypeOK`, `HostRateBounded`, `FirstComeFirstServed` |
| `http_client` | 2 batches, 2 retries, 2 closes | `TypeOK`, `NoClientLost`, `FailuresAccounted`, `ConnectionsNotUnderstated`, `NothingSentAfterCancel`, `BatchesReturn` |
| `worker_pool` | maps of 2 and 1 tasks, 2 slots, 1 retry, 1 replacement | `TypeOK`, `SlotsConserved`, `EveryTaskAccounted`, `NothingRunsAfterCancel`, `PoolComesToRest` |
| `stage_modules` | 12 classes, 2 URLs, 2 sub-documents, 2 runs | `NothingLostSilently`, `ResultsInOrder`, `CountersMatchResults`, `RunReturns` |
| `robots_parser` | files of up to 5 lines, 2 agents, 2 paths | `SectionsReadAlone`, `PathsOnceInOrder`; refinement of `DirectiveTable` |
| `risk_scoring` | 3 results of every kind, policies of up to 4 directives | `FactorsExplainScore`, `CleanDirectiveNeverCosts` |
| `scan` | 8 command lines, 6 files, 2 modules, 102 requests of two response times | `SettingsInForce`, `PercentilesAreRanks` |
| `scan_options` | the same with one request | a violation, section 6 |
| `pipeline_risk_score`, `worker_pool_retry` | 6 stages; one map of 4 tasks | a violation each, section 6 |

Every property has a mutant in `PROJECT.json`: a plausible bug in the mapped code that
TLC finds with it.

### Bounds, and why they are enough

- Scheduler: 3 names give chains, forks, joins, self-loops, cycles of 2 and 3, a
  stage freed by two others, and two entries give duplicates. The proofs need no bound.
- Pipeline: the seven stages hold every kind of dependency and every level; stages left
  out are further first-wave stages that behave like `header_analyzer` or, as `csp_analyzer` may come back empty-handed, like `js_secret_detector`. Two runs or processes are enough for anything one
  leaves behind. The proofs hold for every registered set and every number of runs.
- RateLimiter: burst 1 and rate 1:4 let the global bucket, the host bucket and the spacing each be the longest wait
  within 5 calls, and 5 calls empty a bucket of 3 tokens and leave it in debt; 3 ticks refill part of a token; with 5 latencies the
  factor rises and falls again. `Uptime` is the monotonic clock at start, by which the first refill of a host fills its bucket.
  The theorems need no bound.
- HttpClient: two concurrent requests show each interference of one with another (shared counter,
  shared client); two retries tell the first, a middle and the last attempt apart; two closes let a closed client be used again.
- WorkerPool: three tasks on two slots (or on one, after a slow-down) make a waiter, and one replacement gives an old and a new semaphore; two maps
  give the reset of the cancelled flag. `MaxRetries = 1` has a first and a last attempt.
- StageModules: two URLs make a response before and one after the one that fails; two sub-documents let one of a
  second batch fail; the second run meets what the first one left, returned or aborted.
- RobotsParser: five lines hold two sections with a directive each and one before the first, an empty section between two others, and a
  directive or path repeated within and across sections.
- RiskScoring: the lists of findings reach beyond the cap of a category, the certificates stand on both sides of each boundary of their
  validity, the policies of four directives hold a repeated directive, each neutraliser of `unsafe-inline` and each kind of bypass.
- Scan: a percentile only compares response times, so two values are enough to show a wrong rank (any times can be
  cut at a threshold into short and long ones); 102 requests take the index of p99 past a multiple of 100 and that of p95
  past five multiples of 20. The command lines and files are chosen so that each setting comes from every source that it can come from, domains with and without capitals or blanks among them; two modules
  tell one that is asked for from one that is not.
- `CHECK_DEADLOCK FALSE` is set wherever the modelled program ends by returning.

### Fairness

Weak fairness only. The event loop runs every ready task (`Begin`, `Attempt`, wakes), sleeps end, and every
network await is bounded by the httpx timeouts or by `wait_for`; so each request, stage or task takes its
next step, and gather, the task group and the drain return when they can. In `StageModules` fairness is that a coroutine that can run is run and
that a batch returns, which is what `BatchesReturn` checks of `HttpClient`. Nothing is assumed of callers: starting a
batch or map, cancelling, closing, aborting, killing and restarting are never forced. httpx applies
its read timeout per chunk, so a server that sends for ever is excluded by this assumption. In `Pipeline` the blocking TLS
handshake is bounded by its socket timeout.

## 4. Theorems

All are proved for every value of the constants under the named assumptions.

`SchedulerProofs`, from `NamesAssumption` (finitely many names) and `MaxDepsAssumption`:
`TypeCorrect`, `DependenciesRespected`, `NoNeedlessDelay`, `EachStageOnce`, `CyclesReported`,
and `Implementation` (`Spec => Plan!Spec`). None of the properties is inductive: the code knows counters, the
properties speak of graphs. The invariant `IInv` connects them: during the loop
`in_degree[n]` is the number of entries of `n`'s list naming a stage not visited yet (`CountInv`);
therefore the wave with the rest of its queue is exactly the set of ready stages, and `next_queue` what
this wave makes ready (`ReadyInv`); no list repeats a name (`ListInv`, `NoRepeatInv`); and every stage of the current
wave has a dependency in the wave before (`LastWaveInv`). `CyclesReported` adds that a set of stages that wait for each other stays unplaced (`KnotInv`).
`PlanMakesProgress` is what termination rests on: `StepsLeft`, two steps for each stage not visited and two more, falls with every step of the loop, and no step can
lack a successor, since the one choice in `Visit` - an order of the freed stages - is never empty (`InDictOrderExists`).

`PipelineProofs`, from `StagesAssumption`, `MaxRunsAssumption`: `TypeCorrect`,
`StageInputsFinal`, `WavesImplementGraph`, `ReportFilesInOrder`. The invariant has `WaveBarrier` (outside the
current wave, stages wait or have ended) and `DependenciesEnded` (a stage that left `waiting` has only ended
dependencies); with "a stage reads only what its dependencies write" they give `InputsFinal`. That the loop ends only when no stage waits rests on
the dependency levels going down (`LevelsDescend`). The report theorem adds that `step` counts the prefix of files of this run, and `NewestFirst`, which a write keeps because no file is newer than the run that writes it.
`StageInputsOfThisRun` adds `CacheInv`: an entry of the store was written through a module, modules are made once and kept, so a stage that
fails to load never stored anything in an earlier run either. `AllClientsClosed` rests on `ClientInv`: an open client is that of some module, no module holds one newer than the run, and while one holds the client made in this run, that is
the shared one, which `EndRun` closes. `ReportsComplete` rests on `EntriesInv`: each stage that left its wave has exactly one entry of this run, there are none of runs to come, and `report_builder` is never in a wave with another.
Both hold however often a manager is used.
`RunNeverStuck`: in a wave there is always a stage that may take its step, or the wave ends. Its invariant `LoopInv` says that of the stages that never suspend at most one
is under way, so that whoever finds the event loop taken finds it taken by a stage that can go on.

`HttpClientProofs`, from `BatchesAssumption`, `RetriesAssumption`, `ClosesAssumption`: `TypeCorrect`, `NoPoolLost`, `CancelIsFinal`, `ErrorsAddUp`, `ConnectionsCovered`. `NoPoolLost` needs
`ClosingInv`: during a close the old httpx client is still referred to and no other is open, since a request that finds it closed fails instead of making one.
`ErrorsAddUp` needs `OutcomeInv` (only a request that is done has an outcome, so no attempt fails after
the outcome was counted) and `IdleInv`; its steps are the cardinality facts that each except clause adds one failure to exactly one side (`FailedAccounts`).
`CancelIsFinal` is an action property: the flag is read in the same step in which a request is handed to httpx.

`ConnectionsCovered` rests on `ConnectionInv`: until a close, the client referred to is open, so that no request fails before its connection was counted, except
where httpx cannot be built; and there nothing is ever in flight.
`RequestsAdvance` and `SendsBounded` bound the work: `Position`, made of state and attempt, grows with every step of a request up to `2 * MaxRetries + 4` and falls in no other
step; and each request handed to httpx is one of the `MaxRetries + 1` tries of a URL that was not used before (`SendsInv`).

`RateLimiterProofs`, from `RatesAssumption`, `GainsAssumption`, `UptimeAssumption`: `TypeCorrect` by `LimiterInv` (buckets capped, no stamp ahead of the clock, factors between
1 and 10), `InOrder` and `RateBounded`. `InOrder` rests on `PromiseGrows`: unless the factor falls or the host is reset, the time a caller of a host would be told
never gets earlier, because a tick shortens each of the three waits by at most a tick, an `acquire` shortens none, and a factor that rises lengthens the wait
for the bucket. `QueueInv` then says that everyone of the same epoch was told no later a time than the next caller will be.
`RateBounded` is a counting argument without windows: `BalanceInv` says of every moment `lo` that the balance and all tokens taken since `lo` are at most
a full bucket and what came in since; a new caller therefore waits long enough to pay for all who asked since `lo` (`LateEnough`), whatever the factor is.

`WorkerPoolProofs`, from `MapsAssumption`, `WorkersAssumption`, `BoundsAssumption`: `TypeCorrect`, `NoSlotLost`, `TelemetryAddsUp`, `CancelIsFinal`. The argument of `NoSlotLost` is
`SlotStep`: every action, whatever else it does, moves at most one task into or out of one semaphore and changes its free slots by the
opposite amount, or appends a semaphore that nobody is in (`AdjustExtends`); conservation is then cardinality. `TelemetryAddsUp` shows that each step that
ends a task books it once (`Bookkeeping`, `EndingIsBooked`). `CancelIsFinal` needs that whoever queues for a slot of a cancelled pool has a
cancellation coming (`QueueStopped`).
`TasksAdvance` is the same measure for tasks, with three positions to an attempt. `NobodyWaitsInVain` is absence of deadlock: a task that `MayStep` does not allow to step waits for the
holder of a slot of its own semaphore, which exists by conservation of slots, and that one may step.
`MayStep` spells out when a task has a step, because `ENABLED` is out of the prover's reach: the proof shows that every step needs it
(`StepsNeedMayStep`), and the theorem uses it as the guard it is.

`FoldTheorems` has what the next two need of lists of any length. The induction is done by the least counterexample: `<` is well founded on `Nat`, so that a set
of numbers that is not empty has a least member (`Least`), and a property of prefixes that holds of none and is kept by one more element holds of all (`UpTo`, `LoopKeeps`). From this
follow that a fold has a function of its intermediate values (`IterationExists`), and what the sum of a concatenation or of a longer list is (`TotalConcat`, `TotalAppend`).

`ModuleProofs`, on `StageModules` from `ClassesAssumption`, `LengthsAssumption` and `RunsAssumption`: `ModuleTypes`, `ModuleResultsInOrder`, `ModuleNothingLost`, `ModuleCounters`,
by one invariant `IInv`: results are of this run, of pages already passed and in their order (`ResultInv`); `items_found` is the sum of the items of the results at every step, although it is
counted apart from them (`CountInv`); a page passed with something in it has its result (`PassedInv`), where a page whose second batch is out counts as not passed; and a
run has sent one batch and at most one more for each page reached (`BatchInv`). The exception in `NothingLostSilently` is as wide as the code makes it: the page at which a module raised, and those after it.
`ModuleRunsEnd` gives the variant `Work`.

On `RobotsParser`, from `AgentsAssumption`: `ParserTypes`; `ParserImplementsTable` (`ParseSpec => ImplementsTable`: what the saved rules and the section under way
say, as a set, grows by exactly the directive read (`LineSays`), and closing a section loses none of it (`SavedSaid`));
`ParserSectionsReadAlone`, where `SectionInv` says that the lists under way are those of the last section so far, in their places, and that the rules are the earlier sections that name something;
and `ParserPathsOnce`, where `PathsInv` says that all lists joined, with the one under way behind them, are what the file names so far in its order. First occurrences and interesting paths
are folds, each shown to keep a loop invariant (`OnceStep`, `KeptStep`).

`ReportProofs`, on `Scan` from `ArgumentsAssumption` and `NumbersAssumption`: `SettingsPrecedence` by an invariant in two parts: before `LoadSettings` nothing has happened and after it the settings are those wanted, the domain normalised once the scan has begun;
and all that the scan has done so far - directories, logging level, targets and client of the stages, headings of the reports - was done with the settings of that moment, which no step of the scan changes. It speaks of the settings that the code reads;
those that nothing reads are the finding of `scan_options`, and section 6 has the others.
`PercentileIndexInList`, on the index for any number of response times; and `ReportedRanks`: the sorted list is described by how many times are within a value (`WithinCounts`), so that an entry of it is
a time that was measured, with the rank its index says among the requests that were answered (`PercentileIsRank`).
On `RiskScoring`: `CleanDirectives`, from `PartsAssumption`. One more directive without harmful values leaves no more weaknesses (`FewerWeaknesses`) and no new bypass (`NoNewBypass`),
which are finite sets, so neither the policy's score falls nor the deduction grows (`ScoreGrows`). `ScoreExplained`, from that, `FindingListsAssumption` and `CompliancesAssumption`, rests on `ScoreInv`: within a category 100 points less the sum of its factors,
and of every category that has ended the capped score (`Explained`); that all amounts are whole points (`Hundreds`) is why rounding to one decimal changes no category but the headers, of which the theorem states a bound.

Only model-checked: the five liveness properties `PlanTerminates`, `RunEnds`, `BatchesReturn`, `PoolComesToRest` and `RunReturns`, since fairness and `ENABLED` are out of the prover's reach.
What they rest on apart from fairness is proved for every size where there is a theorem for it: a variant for the scheduler, the module runs, the requests and the tasks
(`PlanMakesProgress`, `ModuleRunsEnd`, `RequestsAdvance`, `TasksAdvance`), and that nothing is stuck (`RunNeverStuck`, `NobodyWaitsInVain`). Every invariant, action property and refinement
that a passing run checks is a theorem.

## 5. Plan

Done, in this order: scheduler, pipeline, rate limiter, HTTP client, worker pool, stage modules, then robots.txt, policies and risk score, the
scan from the command line to the exit code, the slowdown of the rate limiter, the proofs about the worker pool, the data store, the reports and the host rate, and those
about the modules, the parser, the score, the percentiles and progress.
What is left: a variant for a whole run of the manager, and that a batch of `HttpClient` is never stuck, as `NobodyWaitsInVain` says of the pool; the round trip of the statistics (`to_dict`, `from_dict`), which has no caller inside the
program; and the matching tables of the analyzer modules, should one of them get state of its own.

## 6. What the checks found

Each of these is a run that ends in a counterexample, and a finding in `PROJECT.json`:

- `pipeline_risk_score`: as soon as the TLS, CSP or secret stage delivers a result, `risk_scoring` reads attributes of a dict,
  swallows the error and completes without a score.
- `worker_pool_retry`: a retry awaits a coroutine object already used up, and cannot succeed.
- `scan_options`: the three reports are written whatever `--no-html`, `--no-json` and `--no-markdown` say (`manager.py:717-720`), against "Skip HTML report generation" (`cli.py:120`),
  and every stage runs whatever `--modules` names (`manager.py:766-779`), against "Specific modules to run" (`cli.py:105`). The property is that one of the two promises is kept; the
  counterexample is a run that keeps neither. The settings `html_report`, `json_report`, `markdown_report` and `modules` of a file are as idle.

Seen while modelling and given no run of their own, though each follows from the lines named:

Scheduler and manager
- A dependency on an unregistered stage is dropped (`scheduler.py:115`).
- `_stage_results` is not cleared: the reports of a second `run()` on one manager list the stages twice, and the modules of the
  first are used again with its client, which nobody closes a second time (`manager.py:290-304`, `806`). This is why `ReportListsEveryStage` counts the entries of the run that reports, and `ClientsClosed` allows an older client that a module kept.
- Only a normal return of `run()` closes the client (`manager.py:804-806`); a cancelled or failing one leaves it open. `ClientsClosed` speaks of runs that return.
- Durations in the reports are zero: they are read (`manager.py:699`) before the end time is set (`781`); `docs/PROJECT.md:215-216` shows them.

Rate limiter, client and pool
- A token is spent at the call and the request sent after the longest of three waits, so neither bucket bounds what comes due in a window: more than
  `burst` requests fall due at one instant, and requests to a host that the global bucket held up come due closer together than the
  host's bucket allows (with the constants of `rate_limiter`, four in three ticks where three tokens and three quarters are had). `HostRateBounded` therefore counts from the moment of the call.
- Callers told a time under a high factor keep it when the factor falls, and later ones are told earlier times; without the epochs `FirstComeFirstServed` does not hold.
- The minimum spacing of `rate_limiter.py:173` does not hold for calls made at one moment, and `max_concurrency` (`http_client.py:92`) bounds nothing.
- An aborted request stays counted in `open_connections` (`http_client.py:286`); a response that raises when it is read takes its connection off twice (`318`), and a failing
  `_get_client` takes one off that was never counted (`281`). `ConnectionsNotUnderstated` exempts the first, and where the second happens nothing is ever in flight. Retries are sent without asking the rate limiter (`http_client.py:394`).
- Replacing the semaphore (`worker_pool.py:216`) lets more than `worker_count` tasks run while those of the old one are at work, against the module's own text (line 6).
- `map` un-cancels the pool (`worker_pool.py:324`), so that a task of an earlier call that swallowed its cancellation goes on to a retry. `NothingRunsAfterCancel` is about a pool
  that is cancelled and does not see it.
- `map` writes all successes to one position (`worker_pool.py:347`, `368`).

Modules and scoring
- A malformed URL in a sitemap or page makes the module drop the rest of its batch, which it reports as an error and still as `COMPLETED`.
- The TLS inspector's `CERT_NONE` (`modules/tls_inspector.py:91-96`) makes `getpeercert()` an empty dict.
- Of several `User-agent` lines in a row only the last agent keeps the rules; a section with a crawl delay only is dropped; a comment behind a value stays in it.
- A policy that is weak or only reports costs more than none at all; the last of two directives of one name counts, where browsers take the first;
  a report-only header that comes first hides the policy that is enforced (`csp_analyzer.py:267-276`).
- A certificate that expires today (`days` 0) costs nothing, and one expired certificate alone still leaves the grade "Secure".
- A score that is exactly a threshold may be graded below it in floating point, and 89.95 is shown as 90.0 with the grade below.
- Header findings given as dicts cost nothing, in silence.

Settings and reports
- `rate_limit` and the `logging_level` of a file are merged and read by nobody, as are those of `scan_options`; the worker count is shown in the reports and bounds nothing.
- The risk gauge of the HTML report shows "N/A" (`html_report.py:631-639`), its list of findings reads a key nobody sets, and `findings_count` counts the
  security headers twice (`manager.py:672-682`).

## 7. Not modelled

The report generators: they lay out text; when each file is opened, written and replaced is part of `Pipeline`. The languages of regular expressions and
the matching tables of the analyzer modules (which header or technology a value shows): data without state. Logging, and the validators that nothing
calls. What httpx, the operating system and servers do beyond answering, failing or timing out; byte and timing statistics apart from the response times of `Scan`;
the wording of factors, summaries and the banner. Benchmarks and tests are read as documentation.
