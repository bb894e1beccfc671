# PerfTester: TLA+ models and proofs

This directory specifies the program in `src/`: a service that load-tests machine
learning models on Kubernetes. It models the life of a test run across the service,
the database, the cluster and the executor pod, the search the executor performs, what
users are shown of it, both repositories, and the time budgets of a run. TLC checks the
models on small instances; TLAPS proves the safety properties and the refinements for
every instance.

Files: `*.tla` modules, `*.cfg` instances for TLC, `PROJECT.json` (components, runs,
the mutants that show each property can fail, the lines each definition models,
findings, hazards, theorems).

## 1. Inventory

| Component | State it keeps | Operations | Talks to |
|---|---|---|---|
| Run service `internal/app/service.go` | none of its own | StartTest, AcceptReport, FailRun, CancelRun, AcceptSearchSteps, TimeoutSweep, listings, DeleteRun (no route) | repository, orchestrator |
| loadtestd process `cmd/loadtestd/main.go` | goroutines, the sweep ticker | serve, sweep every SWEEP_EVERY, newID | all of the service |
| HTTP API `internal/adapters/httpapi` | none | start, cancel, report, search_steps, run_status, getRun, report page, Grafana variables | run service |
| Postgres repository | runs, metrics, search_steps | one statement or transaction per call | database |
| Memory repository | the same, in maps under one lock | the same | used when DATABASE_URL is not set |
| Orchestrator and k8s client `internal/adapters/k8s` | the cluster's objects | Submit (namespace, secret, runtime, inference service, wait, job), Cleanup (delete the namespace) | Kubernetes API |
| Executor `cmd/executor` | search bounds, step number | fixed mode, search mode, waitForModel, k6 runs, webhooks with retries | k6, loadtestd's webhooks |
| k6 script `internal/k6` | none | load, handleSummary posts the report | model, loadtestd |
| domain, config, telemetry, migrations, manifests, scripts | constants | none | |

How they interact. `tests:start` inserts a PENDING row, runs Submit (which waits up to
ten minutes for the model) and writes RUNNING, all in the goroutine of the request. The
executor pod calls back: `search_steps` after every probe, `report` from k6's
handleSummary (which makes the run SUCCESS), `run_status` when it fails (FAILED). An
operator may cancel. A ticker sweeps the runs that have outlived their timeout. Every
path to a verdict deletes the run's namespace, which kills the pod. There is no lock
and no transaction across these: each call to the database or the cluster interleaves
with those of every other goroutine, and each status update overwrites the row whatever
it holds.

What is hard, and what is correct:

* **Run service.** Status read before an orchestrator call and used after it; verdicts
  that overwrite one another; StartTest still at work when the run has its verdict;
  partial failure between three writes; restart. Correct if a status never contradicts
  the metrics, the job or the failure reason; if every run ends with a verdict; if
  namespaces are not forgotten; if the status changes only in ways a poller can rely on.
* **Webhooks.** Lost, late, duplicated; the report is not retried, the failure is.
  Correct if no loss or duplicate stores metrics twice or leaves a run without an end.
* **Sweep.** Works from a list read once, stops at the first error. Correct if every
  overdue run is failed in the end.
* **Executor.** Off-by-one at the bounds of the search, noise, timeouts in any step.
  Correct if the reported rate held, if the bracket really closes, if the program ends.
* **Repositories.** Two implementations of one interface; transactions of several
  inserts, deletion beside saves, a read in two critical sections. Correct if a handler
  cannot tell which one it uses, and sees every save as a whole.
* **Readers (getRun, report page).** Derive a maximum from steps that may be missing,
  with three queries at three moments. Correct if what is shown agrees with what the
  search found, and a SUCCESS with what was reported.
* **Time.** Budgets set in five places and compared nowhere. Correct if the sweep ends
  what is stuck, spares what is only slow, and pollers outlast both.

`PROJECT.json` lists the components and every hazard at its line.

## 2. Modules

| Module | Models | Uses |
|---|---|---|
| `RunStatus` | abstract: what a poller may rely on about a run's status | |
| `LoadPod` | abstract: what loadtestd relies on in an executor pod | |
| `RunService` | handlers, sweep, cluster, network, pods as loadtestd sees them | instances of `RunStatus`, `LoadPod` |
| `ExecutorSearch` | the executor program | instance of `LoadPod` |
| `SearchView` | search steps on their way to the database, and the sums over the stored ones | `ExecutorSearch` |
| `RunPages` | getRun and the report page, query by query, beside the webhooks and verdicts | `SearchView` |
| `RunStore` | abstract: what the handlers may rely on in a repository | |
| `PostgresRepo`, `MemoryRepo` | the two repositories | instance of `RunStore` each |
| `RunBudgets` | the timeouts of one run against the clock | |
| `MCRunService`, `MCRunPages`, `MCPostgresRepo`, `MCMemoryRepo` | symmetry, inputs and bounds for TLC | the module of that name |
| `RunServiceProofs`, `RunOwnershipProofs` | theorems about `RunService` | |
| `ExecutorSearchProofs`, `RunPagesProofs` | theorems about the search; about what is stored and shown of it | the second extends the first |
| `PostgresRepoProofs`, `MemoryRepoProofs`, `RunBudgetsProofs` | theorems about the repositories and the budgets | |
| `Iteration` | lemmas on the natural numbers: least elements, induction, functions defined by a loop | used by the proofs about the search, the pages and the memory repository |

In each module a section "seeded faults" holds variants of its definitions with one
plausible mistake. They are part of no specification; `PROJECT.json` ("mutants") says
which property each of them breaks.

### RunService

A step is one call that touches shared state. A goroutine (`Worker`) is idle or serves
one request; `task[w].pc` names the call it makes next:

| pc | next call | code |
|---|---|---|
| namespace, serving, job | the three parts of Submit | orchestrator.go:59-116, client.go:89-278 |
| running | UpdateRunStatus(RUNNING) | service.go:99 |
| metrics, success, release | SaveMetrics, UpdateRunStatus(SUCCESS), Cleanup | service.go:152-158 |
| cleanup, failed | Cleanup, UpdateRunStatus(FAILED) of FailRun and CancelRun | service.go:168-171, 239-242 |

`StartTest`, `CancelRun`, `AcceptReport` and `AcceptFailure` begin a task. The sweep is
one more goroutine (`sweepPc`, `sweepTodo`). Variables:

* `status`, `reason`, `createdAt`: the row in `runs`. `reason` keeps who wrote the
  failure reason, not its wording. `createdAt` is a rank: clock readings are taken to
  follow the order of insertion.
* `saved`: how many reports of the run have had their metrics stored.
* `ns`: the namespace, "gone" from the accepted delete on; a namespace being deleted
  takes no new objects but may still show its inference service Ready.
* `exec`, `tries`, `net`: the pod, its attempts at the failure webhook, and the requests
  under way. The network is a set: requests overtake each other.
* `overdue`: runs older than their timeout. A run may become overdue at any moment after
  its creation, so every race between the sweep and a healthy run is included; which of
  them the real budgets allow is the matter of `RunBudgets`.

Faults are of four kinds and at most `MaxFaults` in a behaviour: "db" (a repository call
fails or the request's context is cancelled), "k8s" (a Cleanup fails), "loss" (a request
or its answer is lost or late, a pod is evicted), "crash" (loadtestd restarts; 30-app.yaml
has one replica). Submit may fail in any behaviour, also after the call that failed took
effect. `Undeletable` holds runs whose namespace the API server refuses to delete for good.

Idealised: a database call that is reported as failed has not taken effect; identifiers
do not collide (64 random bits); every webhook names an existing run, since only pods
send them; a run whose request is refused by validateStart leaves no trace and is not a
step.

### ExecutorSearch

The executor as a sequential program with the outcomes of k6 chosen freely (`Noisy`) or
by a capacity up to which the model holds. `low`, `high`, `rps`, `halvings`,
`stepNumber` are the variables of runSearch (`low` is lastSuccess, then low and best);
`measured` is the steps given to saveStep; `report` is the rate of the report. `expired`
says SEARCH_TIMEOUT has passed: from then on a k6 run can only break. What stopped a
probe (latency, errors, throughput above 30 RPS) is one outcome, "stopped": the search
does not distinguish them. `K6Runs`: k6 refuses a run whose preAllocatedVUs, which
follow the rate, exceed maxVUs (main.go:308-309), so above 5000 RPS a probe can only fail.
Prepare stands for the setup in run, whose errors end the
program without the failure webhook.

### SearchView

Extends `ExecutorSearch`: whatever steps the executor records go to `posts`, unless the
post is lost or SEARCH_TIMEOUT has passed; `AcceptSearchSteps` stores one in `table`,
and keeps it in `posts` when its answer is lost and it is sent again. `Kill` is the
deletion of the namespace, which AcceptReport itself requests before the executor has
posted its final step. The network is looser than the code, which sends a step only once
it has the answer to the one before or has given up on it. `Latest`, `MaxStable` and
`StopRPS` are the report page, `MaxRPS` is what getRun takes from the steps. Rows are
listed as Postgres lists them.

### RunPages

Extends `SearchView` with what surrounds the search: the calls of AcceptReport one by
one (`accepting`), the verdicts of FailRun, CancelRun and the sweep (`Cleanup`,
`MarkFailed`: independent of one another, since FAILED is written also when the delete
failed, and the pod may outlive it), and one request at a time being answered (`reader`). getRun reads the run,
then the steps, then the metrics, each by a query of its own that may fail; the report
page takes the run from a list and reads the rest in the same way. `reader.shown` is the
number the answer is about: the rate called stable on the page, max_rps in getRun. `rate`
is k6's http_reqs.rate of the final run in tenths, because getRun cuts it to an integer
and ignores zero. PENDING and RUNNING are told apart by no reader.

One reader is enough: readers change nothing, and each answers from its own queries.

### RunStore, PostgresRepo, MemoryRepo

`RunStore` is the interface as the handlers use it: each call takes effect at one moment,
a save as a whole or not at all; listings are newest first with ties in any order. A
caller works on a run only after it has created, read or listed it (`seen`), except for
AcceptSearchSteps, which saves without looking (server.go:241-258).

`PostgresRepo` makes a call one statement, but for SaveMetrics and SaveSearchSteps: a
transaction that inserts row by row (`tx`), commits, is refused by a foreign key, rolled
back, or aborted by deadlock detection. What the database does is modelled as far as the
repository relies on it: uncommitted rows are invisible, an uncommitted key makes others
wait, a referenced run cannot be deleted meanwhile, deletion cascades. DeleteRun has no
route: the module shows that the repository would stand it (`NoOrphans`), and the program
itself meets only saves for identifiers that are not there.

`MemoryRepo` makes a call one section under the lock, and ListMetrics two. Three things
differ from Postgres in the code, and all three are in the model: it stores metrics and
steps without looking whether the run exists, its ties are ordered by identifier, and
its ListMetrics without a matching run returns the metrics of all runs. The refinement
shows that no handler can notice: what is stored for nobody is never listed, and
QueryMetrics follows a read of the run. The last holds only as long as runs with metrics
are not deleted, which no route does; `MCMemoryRepo` deletes only runs without data, and
the theorem assumes that nothing is deleted. `Puts` is the loop of SaveSearchSteps as a
recursive function of the number of its iterations.

### RunBudgets

One run from CreatedAt on, in units of 30 seconds. Each phase may end at any time and
lasts no longer than its own budget; `Vanishes` is whatever leaves a run without anyone
to report on it. `fixed` says that the request has a duration (Run.Duration is not nil,
which is what TimeoutSweep asks), `duration` how long it is: one of less than a second is
0 when Postgres returns it, and its run is swept after the buffer alone. `Searching` is
the executor's condition, so with the deployed default SLO every request is run as a
search, and with SLO 0 those with a duration are measured once.

### The abstractions

`RunStatus` is refined by `RunService` with `launching` mapped to the runs whose
StartTest may still write RUNNING. It allows SUCCESS and FAILED to replace one another,
because the code does (see Findings), but RUNNING only once and only from StartTest.

`LoadPod` ties the halves of the project together: `RunService` treats a pod as an
instance of it (`PodsRunOnce`), `ExecutorSearch` implements it (`RefinesLoadPod`). A pod
posts one report at most, ends well only after it, and never measures again.

`RunStore` is implemented by both repositories. `RunService` and `RunPages` use its
calls as atomic steps, which is what the refinements justify.

## 3. Runs

| Run | Instance | Checks | Shows |
|---|---|---|---|
| `service_races` | 1 run, 3 goroutines, 2 faults of any kind, 2 attempts | TypeOK, SuccessHasItsMetrics, RunningWasSubmitted, ReasonExplainsFailure, NotStranded, RefinesRunStatus, PodsRunOnce, PendingOwned | the row agrees with metrics, job and reason; rows and namespaces have somebody to see to them |
| `service_settles` | 1 run, 2 goroutines, 2 faults of any kind, fairness | Settles, NamespaceReclaimed | every run ends with a verdict for good, and without faults its namespace goes |
| `search_noisy` | bounds 16 and 3, any outcome, no default SLO | TypeOK, ReportedRateHeld, StepsAreNumbered, Ends, RefinesLoadPod | the search under noise, failures and timeouts |
| `search_deployed` | bounds 1e6, 20 and 5000 VUs, 17 capacities at and around the bounds | BracketCloses, BestIsCapacity, ProbesBounded | the program's constants find the capacity of every model below 4096 RPS, larger ones get no report; a search has 24 steps at most |
| `run_pages` | bounds 8 and 2, any outcome; posts lost, late, repeated; k6 measures 2.9 RPS or nothing | ViewTypeOK, PageIsConsistent, PageShowsReport, SummaryHeld, StepsKept, PagesTypeOK, AnswerShowsReport, SuccessPageHasMetrics, PageNotAboveReport | what is shown agrees with what was measured and reported |
| `postgres_repo` | 2 callers; 1 run with transactions of 2 inserts, or 3 runs listed | TypeOK, NoOrphans, RefinesRunStore, SavesEnd | saves are atomic, leave no orphan, end |
| `memory_repo` | 2 callers; steps, metrics of 2 runs, or listings of 3 | NumbersOnce, RefinesRunStore | the memory repository answers as RunStore and lists a step number once |
| `budgets` | the deployed budgets, durations 0, 1, 30, 75 and 95 minutes or none, default SLO 0 and 500 | TypeOK, SearchNotTimedOut, EndsInTime, PollerSeesVerdict, PromptRunSpared | which slow runs are spared, when stuck ones end, which runs outlive the scripts' poller |
| `cancel_race`, `finished_final`, `sweep_starved`, `fixed_mode_lost` | small | one property each | the findings below |

Bounds. One run is enough for the races on a row, since runs share nothing but the
sweep; two runs are used where the sweep's order matters (`sweep_starved`). Three
goroutines allow StartTest, a report or a failure, and a cancellation or a duplicate at
once; with the sweep that is four writers of one row. Two faults allow a lost answer
and its duplicate, or either with a restart. NotStranded and NamespaceReclaimed are
about behaviours without faults, which are among those of their runs.

The bounds 16 and 3, and 8 and 2, give a last bracket that the halvings just close (8 wide
and 3 of them, 4 wide and 2); those of the program have more to spare, as `search_deployed`
shows. `search_noisy` sets DefaultSLO to 0, which is not what the deployed program has, so
that the steps of the fixed branch are taken as well; with 500 nothing reaches them, which
is the finding `fixed_mode_lost`.

The durations of `budgets` lie on both sides of each number they are added to: 0 and 1
minute end below everything, 30 is where the buffer covers a whole search, 75 with the
buffer stays below the poller's 100 minutes, 95 is beyond it.

`MCRunPages` starts with a search only: with the default SLO a fixed request is the same
one. Three MC modules take a part of the state space with a named predicate `InFocus`:
`MCRunPages` reports, fails and reads searches of up to four steps while longer ones are
only stored (a repeated rate with two outcomes, an open bracket and a final step all fit
in four); `MCPostgresRepo` has either data of one run or several runs without data;
`MCMemoryRepo` has steps, or metrics, or several runs. What is left out are products of
the parts, which share no state but `seen` and `reply`. `MaxPoints` bounds the slice of
metrics in memory. The theorems below need none of these bounds.

`CHECK_DEADLOCK FALSE` is said because identifiers are finite: when every run of the
instance is over, the daemon idles, an executor that has ended takes no step, and the
clock of a run that is over stops.

Fairness. `ServiceFairness`: a goroutine with a call to make makes it, a request that
has arrived is served, the ticker fires, time passes. Nothing is assumed of operators,
of StartTest, of faults or (in `Settles`) of pods: the sweep alone must end the run.
`NamespaceReclaimed` also assumes that executors end and that deleted namespaces take
their pods with them (`ExecutorFairness`), since k6 runs, readiness probes and webhooks
have limits in the code. `FairSpec` of `ExecutorSearch` assumes that each k6 run ends,
for the same reason. In `PostgresRepo` each caller's next statement is strongly fair:
Postgres grants a lock in the order it was asked for and aborts one of those that wait
for one another, so a save is not kept waiting for ever by others that come and go.

## 4. Findings

* `cancel_race`: CancelRun writes FAILED on the strength of a status it read before
  Cleanup; a run that a failed Submit (the shortest trace), a report or a timeout ended in
  between is recorded as cancelled, against "only active runs can be cancelled"
  (service.go:14).
* `finished_final`: a sweep that has the run on its list goes on although the report was
  accepted meanwhile, and writes FAILED over SUCCESS (service.go:209), which a poller has
  seen and stopped at (scripts/lib.sh:29). The executor's own failure after its report does
  the same (service.go:171).
* `sweep_starved`: one namespace that cannot be deleted stops every sweep before the
  younger runs, so stuck runs stay stuck (service_test.go:111 names the promise).
* `fixed_mode_lost`: MAX_LATENCY_MS defaults to 500 in config.go:42 and Submit never
  sets it to 0, so a fixed request is executed as a search and reports another rate.

Met on the way, with no document that says otherwise, and so not findings:

* A run with a duration is swept as "stuck" Duration + 10 minutes after its creation
  (service.go:197, 204), although waiting for the inference service, for the model and
  searching may each take longer within their own budgets. `SearchNotTimedOut` says which
  searches are safe: those without a duration, and those whose duration is long enough
  (24.5 minutes, if a pod starts within four) that with the buffer it covers a slowest search. `PromptRunSpared` says the
  same of runs that are measured once: only a measurement that began within the buffer is
  safe. A duration of less than a second is kept as 0 and gets the buffer alone.
* k6 runs nothing above maxVUs = 5000 (main.go:308-309), so the search of a model that holds
  4096 RPS ends in FAILED at its probe of 8192, and maxSanityRPS = 1000000 is out of reach.
* StartTest writes RUNNING over whatever verdict the run already has (service.go:99); the
  caller has no identifier yet, and the sweep ends the run in the end (`Settles`).
* A run whose duration leaves no room for buffer and sweep below 100 minutes may be active
  when wait_test gives up, as may a stuck run without a duration (`PollerSeesVerdict`).
* ReadTimeout and WriteTimeout are 5 minutes (main.go:86-87) and `tests:start` answers
  after Submit, which may take 10: the caller of a slow start never learns the identifier
  of its run, and the end of its request's context may end Submit as well.
* As every request is run as a search, one with a duration of 20 minutes or more needs
  more than SEARCH_TIMEOUT for its final run and always fails.
* In memory, ListMetrics of a run that was deleted would return the metrics of all runs.
* A poller that sees SUCCESS while a query fails is given no max_rps, or the one of the
  doubling phase (server.go:156-188); the next answer may differ.

## 5. Proofs

### The run: RunServiceProofs and RunOwnershipProofs

For any finite set of runs, any set of goroutines, any number of attempts and faults
(`ConstantsAssumption`):

* `TypeCorrect`, `SuccessSafe`, `RunningSafe`, `ReasonSafe`: the invariants about a row.
* `Refinement`: Spec => RefinesRunStatus, every step being one of RunStatus or a stutter.
* `NoRevival`: once StartTest of a run is over, a verdict is never replaced by an active
  status. It is proved of RunStatus's step and carried over by the refinement.
* `PendingLookedAfter`, `PodsRunOnceSafe`: PendingOwned and PodsRunOnce.
* `NeverStranded`: NotStranded.

None of the invariants is inductive alone. SUCCESS is written by a goroutine that has
forgotten how it came there, so `IInv` adds where things come from: `RowsExist` (whatever
works on a run works on one that has a row), `StartedOnce` (one StartTest per run, whose
job does not exist before its last step of Submit and does after it; a goroutine on its
way to FAILED has a reason) and `ReportedOnce` (the only report of a run is unposted,
under way, being stored or stored, exclusively). The last needs the pod's state: it is
there that a retry of the report, or a restart of the pod, would break the proof.
`Inductive` has one lemma per action, on top of lemmas about the helpers
(`SetStatus`, `Begin`, `Goto`, `Return`).

NotStranded needs `Orderly`, which says of a behaviour without faults how a namespace is
handed on: from StartTest to the pod, from the pod to its one request, from the request
to the handler that deletes it. A retry would break the chain, and there is none while
nothing is lost: an executor waits for the answer to its first webhook, and by the time
FailRun answers, the namespace is gone (`AnswersLate`).

### The search and what is shown: ExecutorSearchProofs, RunPagesProofs

For all bounds, SLOs, rates, outcomes and measurements (`SearchAssumption`,
`RateAssumption`), whatever happens to the posts and whenever the pod is killed:

* `SearchTypeCorrect`, `SearchReportHeld`, `SearchStepsNumbered`: `SearchInv` says that
  every probe lies outside the open bracket, at or below `low` if it held and at or above
  `high` if not (`Bracketed`), that while there is no upper bound the next rate is above
  `low` (`Doubling`), that every recorded number is below stepNumber until the program
  ends (`Numbered`), and that a report is that of the final run (`Reported`).
* `SearchRefinesLoadPod`.
* `SearchIsExact` (BracketCloses) and `SearchIsShort` (ProbesBounded). The doubling loop
  has the rate 2^n at step n and stops at the first power of two that is not below
  maxSanityRPS, so the bracket it leaves is 2^(n-1) wide, and each iteration of the
  binary search halves it exactly: `Halved` keeps how many halvings are left. The doubling
  ends where `ScaleEnds`: at maxSanityRPS, or where k6 does not run the next rate. The
  halvings never run out if `StepsSuffice`, that is if it ends within maxBinarySteps + 1
  doublings; without that condition a search can end with an open bracket. Under it, a
  search has at most two steps for each doubling there can be. `DeployedBoundsSuffice`
  evaluates both for 1e6, 20 and 5000: the condition holds, the last doubling is 4096 RPS,
  the 12th, and a search has 24 steps at most, which is 6 minutes of the default
  SEARCH_TIMEOUT of 20.
* `SearchFindsCapacity` (BestIsCapacity): under StepsSuffice and without noise the model's
  capacity never leaves the bracket (`CapacityInside`), and a closed bracket has one rate. A
  model that holds the last doubling is reported only if that reaches maxSanityRPS, which
  in the program it does not.
* `PageNeverContradicts`, `PageTellsReport`, `SummaryTellsHeld`, `StepsNeverLost`,
  `ViewTypeSafe`: `ViewInv` adds that every measured step is `Sorted` (a probe held if and
  only if its rate is at most `low`; the final step has the rate `low` and the highest
  number) and that the first probe is that of the initial rate (`FirstProbe`). A stored
  rate that is called stable is then at most `low`, one that is called a limit is above it,
  or is `low` itself after a broken final run, which has replaced the stable one. Max and
  Min are CHOOSE in the library; that they exist for the sets met here follows from
  `LeastExists` and from a bound on the measured rates (`Bounded`).
* `PagesImplementView`: every step of RunPages is one of SearchView or leaves it alone, so
  the properties above hold there (`PagesNeverContradict`).
* `PollerToldReport`, `PageShowsMetrics`, `PageNeverAboveReport`, `PagesTypeSafe`:
  `PagesInv` says that the writer goes from the report to the metrics to the status, so
  that whoever has read SUCCESS finds the metrics (`Accepted`), and that a page under a
  SUCCESS has a rate not above the reported one (`ReadsBelow`), which rests on `low` not
  moving once there is a report.

### The Postgres repository: PostgresRepoProofs

For any runs, callers, reports and batches (`RepoAssumption`): `RepoTypeCorrect`,
`RepoNoOrphans` and `PostgresRefinesRunStore`. `RepoInv` adds
`TxKnown`: an open transaction is about a run its caller has seen, or that has been
there. The refinement maps every insert to a stutter and Commit to the whole save, which
is allowed to happen because a run with an uncommitted row cannot be deleted.

### The memory repository: MemoryRepoProofs

For any runs, callers, reports and batches (`MemoryAssumption`):

* `MemoryNumbersOnce`: a step number of a run is listed once, also when runs are deleted.
* `MemoryInductive`, `MemoryTypeCorrect`, `MemoryRefinesRunStore`, as long as no run is
  deleted (`Deletable = {}`; no route calls service.DeleteRun). With deletions the
  refinement is false: metrics saved after the run is gone would be accepted, and
  ListMetrics would then answer with those of all runs. `Lasting` says that what a caller
  has found stays, that every metric is of a run that is there, and that nothing is kept of
  a run before it is created; `RunFound` that the first section of ListMetrics has found
  the run asked for, which makes the second section the moment at which the call takes
  effect.

The step that is not a matter of cases is SaveSearchSteps. `PuttingExists` shows that the
loop defines a function (`IterationExists`), `PutsHolds` by induction on its iterations
that the list then holds the steps whose number the batch has not had and of each number
the batch has had its last step, and `HeldIsUpsert` that these are the rows RunStore
upserts at once, for which every number of a batch needs a last occurrence
(`LastOfNumber`).

### Induction: Iteration

The library's induction theorems take an operator as a parameter, which the provers cannot
instantiate. `LeastExists` (a nonempty set of naturals has a least element) follows from the
well-foundedness of <, `NoLeastMissing` (induction, with a set for the predicate) from that,
and `IterationExists` (a function defined by iteration exists) from induction. They are
what the proofs use for powers of two, for Max and Min and for the loop over a batch.

### The budgets: RunBudgetsProofs

For all settings (`BudgetAssumption`): `BudgetTypeOK`, `RunsEndInTime` and
`PromptMeasurementSpared`. `SlowSearchSpared` holds under `SearchFits` (Submit, pod start
and search together fit into RUN_TIMEOUT), `PollerOutlasts` under `PollFits` (and into the
time a script polls). Neither says anything of the durations that are asked for: those
that leave a run to the sweep, or let it outlive the poller, are in the conclusions. The
deployed settings satisfy both, which the run `budgets` confirms by checking their
conclusions; nothing in the code keeps other settings from violating them. `BudgetInv` ties clock and
countdown together (`SweepNear`) and each phase of a search to its place in the budget.

### Only model-checked

The liveness properties (Settles, NamespaceReclaimed, Ends, SavesEnd) are out of the
prover's reach. The refinement of `MemoryRepo` with deletions of runs without data is
checked by `memory_repo` and not proved. Every other property of a passing run is a
theorem, some of them under a condition on the settings named with it.

## 6. Not modelled

* The create-or-update of single cluster objects (client.go:114-186, 288-309). Every run
  has a namespace name of its own, and nothing repeats Submit: the branches for objects
  that exist already are not reached in a behaviour of the program, and what remains is a
  sequence of creations any of which may fail, as `RunService` has it in three steps.
* Handlers that only format what they read: metric sections and layout of the report
  page, the Grafana variables, the JSON of listings. Telemetry, configuration parsing,
  templates and manifests decide nothing about a run.
* Migrations: applied once before anything is served.
* A database commit whose answer is lost. It would add the case "RepoFails after the
  write took effect".
* What k6 measures.

## 7. Plan

The order was the importance of what can go wrong: the verdict of a run (`RunStatus`,
`RunService`), the number it reports (`ExecutorSearch`), how the number is stored and
shown (`SearchView`, `RunPages`), the repositories below (`RunStore`), the clock
(`RunBudgets`); each with its proofs. All of it is done. Worth adding, should the code
change: the single objects of client.go if Submit is ever retried, and the deletion of
runs with data if DeleteRun is ever given a route.
