# Trading platform: TLA+ specifications

This directory specifies the asynchronous backtest preview of the platform, from
the browser's form through `POST /strategies/preview`, the job queue and the
workers to the answer on screen; the compiler, the backtest engine and the metrics that
compute the answer; the parser that turns a description into a strategy and the
import of the bars it is tested on; and the library of strategies it is saved to.
The modules are translated from the code; names of operators are the names of the
functions they model wherever there is one.

## 1. The system

| Part | Code | State it keeps | Operations |
|---|---|---|---|
| job store | `backend/app/services/job_store.py`, `models/preview_job.py` | table `preview_jobs`; a session-level advisory lock per job | create, claim, update_progress, complete, fail, operational failure transition, candidate query, delete expired, try lock, unlock |
| preview queue | `backend/app/queue/preview_queue.py` and RQ | queue list, intermediate list, started and scheduled registries, `retries_left` of every entry | enqueue with a retry budget, bounded scan of the active identifiers |
| submission | `services/preview_job_service.py: submit_preview_job` | none of its own | lock, create, enqueue, mark failed, unlock |
| execution | `workers/preview_worker.py`, `preview_job_service.py: run_preview_job` | the lock, the claimed row | bounded wait for the lock, claim, one commit per stage, complete, reject, failure handlers, failure callback |
| reconciliation | `services/preview_reconciliation.py` | local variables of a pass | scan, list, examine, lock, refresh, scan again, fail or re-enqueue |
| worker entrypoint | `workers/run_preview_worker.py` | process | start, reconcile, listen, stop |
| cleanup | `scripts/cleanup_preview_jobs.py` | none | delete expired rows |
| database sessions | `db/session.py` | pool of connections, each of which may carry locks | checkout, recycle, invalidate |
| dashboard polling | `frontend/app/dashboard/use-preview-job.ts` | job, preview, error; generation, timer, request | submit, poll, reset, unmount |
| strategy workspace | `strategy-workspace.tsx`, `strategy-create-form.tsx`, `strategy-review.tsx` | draft, pending draft, confirmation, save in flight | edit, preview, retry, cancel, confirm, save |
| strategy library | `api/routes/strategies.py`, `strategy-workspace.tsx` | table `strategies`; the list on screen | save, edit, delete, reload |
| backtest engine | `backtesting/engine.py` | cash, position, trades, equity | one bar at a time: exits, entries, mark |
| strategy compiler | `backtesting/strategy_compiler.py`, `sma_crossover.py` | averages so far | indicators, conditions, signals |
| strategy preview, metrics | `services/strategy_preview.py`, `backtesting/metrics.py` | bars, curves | load, execute, measure, pair the curves |
| parser, semantics | `services/strategy_parser.py`, `strategy_semantics.py`, `schemas/strategy_spec.py` | none | check the text, ask the provider, infer and default, validate; validate again at the save |
| market data import | `scripts/import_market_csv.py`, `models/market_data.py` | table `market_data` | parse a file, upsert it in batches in one transaction, summarise |
| authentication, health, settings | `services/supabase_auth.py`, `api/routes/health.py`, `core/` | none | verification, checks |

Requests, workers and the cron job never call each other.  They interact through
the table (one transaction at a time), through Redis (one command at a time) and
through the advisory locks.  That makes these behaviours the hard ones:

* every step of one process interleaves with every step of the others, and the
  row, the RQ entry and the lock are changed by three different systems;
* RQ retries after an exception, decrements `retries_left` after it has run the
  failure callback, and retries without the callback when a work horse is killed;
* processes die between any two steps, acknowledgements are lost, Redis loses its
  last second of writes;
* reconciliation decides on rows and registries it read earlier;
* the lock belongs to a connection, and the connection to a pool that all threads
  of a process share;
* in the browser, answers arrive in any order after the user has gone on to
  something else;
* the engine's steps of one bar (gap exit, pending signals, exit within the bar,
  mark) depend on each other's order, and its numbers must agree at the end;
* a file is imported in many statements, each of which may wait for another import,
  fail, or be the last one before the connection is lost;
* the parser fills in what the provider left open, and everything it fills in must
  reach the review and survive the checks of the save.

What makes each part correct: one execution of a job at a time and one entry for
it; attempts within budget; terminal rows final; every submission answered; locks
that last as long as their owner and no longer; a screen that shows the last
submission and saves what was parsed and confirmed; a list that matches the table;
accounts that balance and risk levels that are honoured; market data that changes by
whole files; a review that says what was inferred.

`PROJECT.json` lists each such hazard at its line, with the properties aimed at it.

## 2. Modules

    JobStore            rows, advisory locks, clock; one operator per function
       |
    PreviewQueue        RQ entries; enqueue and the bounded scan
       |
    PreviewPipeline     requests, workers, reconciliation, cleanup, faults
       |        \
    MCPipeline   PreviewPipelineProofs      PreviewLifecycle  (abstract)
    (TLC)        (TLAPS)                     implemented by PreviewPipeline

    AdvisoryLockPool    threads, sessions and connections of one API process
       |
    LockPoolProofs

    BacktestEngine      one pass over the bars
       |        \
    MCBacktest   BacktestProofs

    StrategyCompiler    indicators, conditions and signals
       |        \
       |         StrategyParser     text and draft to specification, and its save
       |            |        \
       |         MCParser     ParserProofs     extends PreviewProofs
    StrategyPreview     load, execute (an instance of BacktestEngine), measure
       |        \
    MCPreview    PreviewProofs      uses BacktestProofs through an instance

    MarketImport        import_market_csv over PostgreSQL transactions
       |        \
    MCImport     ImportProofs       MarketTable  (abstract)
                                    implemented by MarketImport

    PreviewPolling      the hook, with the API and the worker as it sees them
       |
    StrategyWorkspace   form, review and saving around the hook
       |
    WorkspaceProofs     (for both)

    StrategyLibrary     the saved list over the strategy routes
       |
    LibraryProofs

**JobStore.**  `jobs` maps a job to its row: `status`, `stage`, `attempts`,
`started`, `finished`, `result`, `error`, `expires`.  A row keeps only whether it
has a result or an error, not which.  `lock` maps a job to the owner of its
advisory lock, `now` is a clock of `MaxTime` ticks, one tick standing for the
staleness or the expiry interval.  `expires` orders the rows as `created_at` does.
Two jobs never share a lock key (the code hashes 63 bits of the identifier).

**PreviewQueue.**  `rq` maps an entry to the place it is in (`queue`,
`intermediate`, `started`, `scheduled`, or `gone`), its job and its
`retries_left`; `NoRetry` is an entry enqueued without a `Retry` object.  RQ is
outside the repository: `RqMove`, `RqRemove`, `RqHandleFailure` and the places are
what the code relies on, and are marked external in the map.  The order of the
queue is left out (a set, any entry may be next), which allows more behaviours than
RQ has.  `QueueFull` (no free entry identifier) stands for Redis at its memory
limit, where `enqueue` raises.

**PreviewPipeline.**  `sub` is where the request that submits a job is, `pc`,
`cur`, `job` and `rec` are the program counter, RQ entry, preview job and
reconciliation locals of each worker.  One action is one database transaction, one
Redis command or one move of RQ; between two of them every other process may run.
The stages of `run_preview_job` are program counters, since each commits.

| Code | Actions |
|---|---|
| `submit_preview_job` | `SubmitLock`, `SubmitCreate`, `SubmitEnqueue`, `SubmitFail`, `SubmitRelease` |
| `process_preview_job` | `AcquireLock`, `LockTimeout`, `LockError`, `UnexpectedError`, `PersistUnexpected`, `Release` |
| `run_preview_job` | `Claim`, `Ineligible`, `Progress`, `Complete`, `Reject`, `RowVanished`, `TransientError` |
| `handle_preview_job_failure` | `FailureCallback` |
| `active_preview_job_ids` | `ScanRegistry`, one step per registry |
| `reconcile_preview_jobs` | `ListCandidates`, `SkipCandidate`, `LockCandidate`, `RefreshCandidate`, `LeaveCandidate`, `FailCandidate`, `RecoverCandidate`, `EnqueueCandidate`, `ReleaseCandidate`, `AbortReconciliation`, `ReconciliationError` |
| `run_preview_worker.run` | `StartWorker`, `FinishReconciliation`, `Shutdown` |
| RQ | `Dequeue`, `StartExecution`, `AdoptAbandoned`, `Succeed`, `Requeue`, `Promote` |
| `cleanup_preview_jobs` | `CleanupPreviewJobs` |
| environment | `SubmitCrash`, `CloseApiConnection`, `Kill`, `Crash`, `RecycleConnection`, `LoseEntry`, `TimePasses` |

What the environment may do wrong is a *fault*.  `FaultKinds` says which kinds a
run contains and `MaxFaults` how many a behaviour may have; the kinds are described
at their definition.  Faults are ordinary steps: no fairness makes one happen.

Two kinds of fault bring what `AdvisoryLockPool` shows about pooled connections into
the pipeline.  `api_close`: the API's pool closes the connection that carries the lock
of a submission between `create_job`'s commit (`job_store.py:40`) and the end of the
request (`CloseApiConnection`); the request runs on without its lock.  `leak`: another
request has that connection when the finally block unlocks (`preview_job_service.py:123`),
so the unlock has no effect and the lock stays (`sub[j] = "leaked"`) until its connection
is closed, which may then happen at any time and is no fault.  A worker that waits for
such a lock times out (`LockTimeout`), and every pass skips the job.  `exposed` is a
history variable: the jobs whose submission has lost its lock.  No action reads it; the
properties do, to say that what the code then does wrong (section 5) is confined to that
job.

After `FailCandidate`'s commit the rollback of the finally block has no transaction to
end and `expire_on_commit=False` keeps the listed objects (`db/session.py:67`), hence the
two forms of `ReleaseCandidate`.

A work horse and its parent are one worker.  A worker counts as abandoning its
entry only when its process is gone: a live worker whose heartbeat expires is not
modelled.

**PreviewLifecycle** is the promise `GET /api/jobs/{id}` makes to a client: a job
appears queued, runs through the stages in order, may go back to queued only to be
attempted again, ends completed or failed for good, uses at most `MaxRetries + 1`
attempts, and disappears only by expiring.  It knows no lock, no queue, no worker.

**AdvisoryLockPool** looks below the lock of `JobStore`: `conn` is the connection a
thread's session has checked out, `idle` the pool's stack (`pool_use_lifo`), `held`
the locks of each PostgreSQL session.  A statement checks a connection out
(`StatementOn`), a commit, rollback or close gives it back (`GiveBack`); a
connection beyond `PoolSize` is closed and loses its locks, one that is too old is
replaced.  The actions are the statements of `submit_preview_job` in order, one
query for any other request, and the pool timeout.  Each submission locks a fresh
identifier, so the wait for the lock never fails here.

**BacktestEngine** is `execute_long_only_signals`: `NextBar` is the loop header,
`OpeningRiskExit` / `NoOpeningRiskExit`, `ExecuteBuy` / `IgnoreBuy` / `NoBuy`,
`ExecuteSell` / `IgnoreSell` / `NoSell`, `IntradayRiskExit` / `NoIntradayRiskExit`
and `MarkToClose` are the body, `Finish` what follows the loop.  Bars and signals
are chosen as the loop goes on, so one behaviour is one backtest.  The six local
variables of an open position are one record `entry` (they are set and cleared
together), a timestamp is a bar's index, an amount an integer in a unit in which
percentages of an opening price are whole; the rounding of `Decimal` at 28 digits is
not modelled.

**StrategyCompiler** runs the loops of the indicator functions side by side, one bar a
step: `total`, `sma` and `ema` are what they have computed for the closes so far.
Conditions, signals and eligibility are functions of that state, and the invariants
compare them with their definitions in every state, that is for every series.
`sma_specification` and `RunsSmaBacktest` are the strategy the script
`run_sma_backtest.py` builds and the guards it runs it under.

**StrategyParser** is a description on its way to a saved strategy.  A text is a record
of what the patterns of `strategy_semantics.py` find in it (a shorthand, the percentages
of a control, unsupported words), a draft what the provider made of it, with `None` for
what it left open.  `RejectText`, `ProviderAnswers`, `ProviderTimesOut` and
`ProviderFails` are the outcomes of `parse`; `normalize_strategy_draft` and the operators
it uses are the functions of those names; `save_confirmed_strategy` applies the checks of
the endpoint to the review.  `Backtest` feeds bars to the compiler, on which the parsed
rules are evaluated.  The fields with a single legal value (symbol, interval, direction,
size, execution) are kept only as given or not.

**MarketImport** is `import_market_csv` run by several processes.  A row of a file is a
record of converted fields, a price an integer in quarters of the last stored decimal, so
that `Rounded` does what `Numeric(18, 8)` does.  `written[i]` are the rows a transaction
has written and not committed, which are also the rows it has locked.  `Start` parses,
`SelectExisting` counts a batch, `UpsertRow` writes a row or waits for its holder,
`Commit` installs the rows, and three queries complete the summary; `DeadlockDetected` is
PostgreSQL's, and `ConnectionLost` may hit a commit before or after it took effect.  The
locks of a statement are taken row by row, in the order of the file.  The branch for a
session that is already in a transaction (`begin_nested`) is used by tests only and left
out.  **MarketTable** is the promise to readers: the table changes by whole files, and a
bar is replaced but never removed.

**StrategyPreview** composes the compiler and the engine: bars are loaded
(`LoadBar`), the strategy is rejected for lack of data or executed
(`MarketDataUnavailable`, `Execute`), and `ExecuteBar`, `Mark` and `FinishExecution`
are the steps of an instance of `BacktestEngine` on the loaded bars and the compiled
signals.  The metrics and the two curves of the chart are functions of the final state;
a percentage is kept as the fraction it is computed from.

**PreviewPolling** is `usePreviewJob`.  A generation has at most one submission, so
it also names that submission's job and result.  `request[g]` is the request of
generation `g` that is in flight, with its answer once the server has given it;
delivery is a step of its own (`submitted`, `polledFinal`, `polledActive`,
`pollFailed`, `submissionFailed`, `abandoned`), in any order.  A `setState` counts
as rendered at once.  `loseJob` is a row that expires, or a result that no longer
validates, while the hook polls it.

**StrategyWorkspace** extends the hook with the form.  `parsed[g]` and `confirmedOn`
are history: the draft the server got for a generation, the preview on screen when
the box was ticked.  `Saved` includes the `resetPreview()` that follows a save.

**StrategyLibrary** numbers the reloads of the list.  `loads[n]` is a reload with the
handler that waits for it, `db` the user's rows, a version number each.  A request that
fails while the server has it stays in `late`, and the server may still apply it
(`ApplyLate`: a synchronous route runs on when its client is gone); `lost` remembers that a
change was applied although its request failed, after which the list is rightly out of
date until the next reload.

## 3. Runs

| Run | Expect | Properties | What it shows |
|---|---|---|---|
| `single_worker` | pass | `TypeOK`, `MutualExclusion`, `NoDuplicateEntry`, `AttemptBudget`, `RowCoherent`, `TerminalIsFinal`, `ImplementsLifecycle` | One worker, the deployed configuration, under up to three faults of every kind but a crash in the middle of a dequeue, with submissions that lose their lock or leave it behind: locks exclude, entries are not duplicated, attempts stay in budget, rows are coherent, terminal rows stay terminal, and the table implements the lifecycle the client sees, all of it up to the moment at which the submission of the job loses its lock. |
| `settles` | pass | `NothingForgotten`, `JobSettles`, `StartupCompletes` | Under transient errors, lost acknowledgements, unexpected exceptions, worker crashes and submissions that lose their lock, every nonterminal job keeps an RQ entry and is eventually answered, unless its submission left its lock behind; and a worker that is down comes back to listening. |
| `recovery` | pass | `StrandedIsRecovered` | Two jobs, a Redis that holds one entry and a reconciliation batch of one, with each fault that strands a job (lost enqueue, API crash, killed work horse, failed callback, lock wait timeout, crash in the middle of a dequeue, a lock left behind): startup reconciliation recovers it if workers are restarted and Redis is not full for ever, a job whose lock was left behind as soon as the connection that has the lock is closed. |
| `recycled_lock` | violation | `NoConcurrentExecution` | A connection that reaches pool_recycle in the middle of an execution drops the advisory lock, and two workers execute one job. |
| `lock_pool` | pass | `LockCoversSubmission`, `EveryRequestEnds` | Four threads on two connections, with overflow and recycling: a submission's advisory lock survives every change of connection until the finally block unless the pool closes the connection that carries it, and every request ends even if no wait for a connection times out. |
| `lock_leak` | violation | `NoLockLeaks` | Another thread takes the connection that carries the lock between two statements of a submission; the unlock runs on another connection and the lock stays. |
| `backtest` | pass | `BooksBalance`, `NeverOverdrawn`, `RiskHonoured`, `TradesAreCoherent`, `SignalsAccountedFor`, `FinalValueIsOnTheCurve`, `FilledWithinTheBar` | Every series of up to five bars of seven kinds with every combination of signals: the accounts, the risk exits, the trades and the ignored signals of the result are consistent. |
| `workspace` | pass | `ShowsLatestSubmission`, `OneThingInProgress`, `SavedPairMatches`, `SavedWasConfirmed`, `ReviewMatchesForm`, `PreviewAnswered` | The polling hook with the form, the review and saving around it, a failed request, a retried job or a job that is lost: answers delivered in any order never put an abandoned preview on screen, a preview in progress is followed to its answer unless its job is gone, and what is saved is the draft that was parsed and was confirmed while on screen. |
| `library` | pass | `LastReloadIsRight` | Overlapping saves, edits, deletions and refreshes with failures: once every answer has arrived, the list of the last reload is the table's. |
| `preview` | pass | `AveragesAreExact`, `EligibleFromTheIndex`, `CompiledAsCrossover`, `TradesFollowTheStrategy`, `DrawdownIsDeepestFall`, `BenchmarkIsHolding`, `ChartAgreesWithSummary` | Every series of up to four bars under three strategies, from the indicators through the execution to the chart: the averages are what they stand for, conditions are evaluated exactly from their first eligible bar, no trade looks ahead, and drawdown, benchmark and curves of the result agree with each other. |
| `import` | pass | `SummaryIsHonest`, `ImportsWholeFiles`, `EveryImportEnds` | Two imports of overlapping files of every kind of row, in either order and in batches of two, run again after a failure, with a connection lost anywhere: readers see whole files only, the printed counts are right or, if another import committed meanwhile, never too small, and no import waits for ever. |
| `parser` | pass | `DisclosesWhatItInfers`, `PreviewedCanBeSaved`, `InferredRuleUndoes` | Texts with and without shorthands and risk controls, and every kind of draft the provider may make of them, on every series of up to four bars: the review discloses exactly what was inferred, what was previewed can be saved, and an inferred rule undoes the one it was inferred from. |

### Bounds

One job and two RQ entries, the fewest that can be duplicates, except in
`recovery`, where two jobs meet a Redis that holds one entry and a reconciliation batch
of one.  Passing runs have one worker, the deployed
configuration (`k8s/`), so that three faults fit; what two workers do to each other is
`Exclusion`, proved for any number, and `recycled_lock`.  `MaxRetries` is 2
in `single_worker`, so that an entry has a first, a middle and a last retry, and 1
elsewhere.  Three ticks of the clock let a row become stale and, later, expire,
during one pass or one execution.  The numbers of faults are the largest that keep
a run within a few minutes: three in `single_worker`, enough for a lost lock, an enqueue
that raises although it was applied, and one more; two in `settles`, one in `recovery`.
`settles` has a scan limit of two, since a submission that loses its lock can have two
entries and above the limit no worker starts.  That a lost lock does not hurt another job
is proved for any number of jobs; the runs with one job show the job itself.

`lock_pool` has fewer connections than threads and a pool of one, so that waiting,
overflow and recycling all happen; `lock_leak` has none of these.  `backtest` has a
stop and a take-profit at half and one and a half times an entry, and for each level
a bar that touches it, one that crosses it and one that gaps through it; five bars are
enough for two complete trades.  `preview` has periods of one, two and three
and one more bar than the longest, so that closes leave every window; its prices are
multiples of 900, which keeps all averages of such a series and one percent of a price
whole.  Its strategies compare and cross, signal twice on one bar, and differ in which
of entry and exit becomes eligible first.  Four generations in `workspace` leave room for a
save across two previews and a cancellation.  `library` has one strategy to edit and
delete and one to save, and four reloads, of which three can be in flight.

`import` has three timestamps and batches of two, so that a file of three rows has a full
and a partial batch and two imports can deadlock within a statement and across batches;
one import has short files of every kind of row (acceptable, skipped, duplicate, rounded
to zero, too large), the other good files in either order.  Three runs of the script let
one be run again while the other is under way.  `parser` has texts with no, one and
several shorthands, and controls with no, one, two and illegal percentages; drafts have
every kind of operand, complete or not, in either rule.  Periods stop at two (and three
is the one that is too large), four bars are enough for a crossing, averages that touch,
and the crossing back.

`MCPipeline` adds only the symmetry of workers and of
entry identifiers, for `recycled_lock`.

### Fairness

`FairSpec` assumes what the processes do on their own.  A request that holds its
lock runs on (`WF SubmitStep`): it is a thread of the API server.  A worker takes
its next step and, when it has ended, Kubernetes starts it again
(`WF WorkerStep`, `StartWorker` included: a `Deployment` restarts its containers).  A worker that
listens between restarts gets to the queue (`SF RqStep`) and its scheduler gets to
promote retries (`SF Promote`): without it a worker stopped each time just before it
looks at the queue would be a counterexample that says nothing about the code.
The wait for a lock that was left behind ends (`WF` of `LockTimeout` where it is no
fault): it is bounded by `preview_job_lock_wait_seconds`.
Nobody has to submit, stop a worker, close a connection, or let the clock tick.

`AdvisoryLockPool`'s `FairSpec` lets every thread take its next step
(`WF Step`), waiting for a connection included: weak fairness suffices since, with
nobody left to take one, a returned connection stays available.  The timeout is not
fair, so `EveryRequestEnds` does not rest on it.  `PollingFairness` assumes that the browser delivers answers
and fires timers, that the API answers, and that the worker settles a job, which is
what `JobSettles` shows of the pipeline; failures are bounded by `MaxErrors`, and
nobody has to submit or cancel.  `MarketImport`'s `FairSpec` lets every process that runs
take its next step, and PostgreSQL detect a deadlock, which it does after
`deadlock_timeout`; nobody has to start an import or run one again.
`StrandedIsRecovered` has what it needs beyond fairness as its premise: workers keep
being restarted, and Redis has room again and again.

## 4. Proofs

Every theorem holds for all values of the constants its module's assumptions admit:
any sets of jobs, workers, entries, threads, strategies or bars, any bounds and any number
of faults.  Each is proved from an inductive invariant that TLC checked first.

### The pipeline

`PreviewPipelineProofs`:

* `TypeCorrect`: `Spec => []TypeOK`.  `TypeOK` is not inductive: `Dequeue` and its
  successors index `rq` by `cur[w]` and `jobs` by `job[w]`, which `TypeOK` allows to
  be `None`.  The inductive invariant `TypeInv` adds `WorkerLocals`: a worker past
  `Dequeue` has an entry and a job, one past `LockCandidate` has a job, a pass has a
  candidate whenever it examines one, and the job of every live entry is a job.
* `Exclusion`: if connections of workers are not recycled (`"recycle" \notin FaultKinds`),
  `Spec => []MutualExclusion`.  The inductive invariant `LockInv` says who owns each
  lock: a worker in the critical section of a job owns its lock, and so does a
  request between `SubmitLock` and `SubmitRelease` whose job is not exposed.  Mutual exclusion follows since
  `lock` is a function.  The assumption is needed: `recycled_lock` shows what
  happens without it.

Its second part, about entries, scans and attempts, builds three layers on these.

* `Ownership` and `Births` need no hypothesis on the faults.  `OwnInv`: the entry a worker has taken is
  its own, and is about the job it works on, until it settles it.  `BirthInv`: a request
  keeps its lock until it is done, its process dies or its job becomes exposed, so no
  worker is in the critical section of a job before that; before the enqueue of a job that
  is not exposed nobody has an entry of it, and nobody has one of any job before its row
  is created; a row that was deleted stays deleted.
  All that follows, `NothingIsForgotten` apart, includes the fault `api_close`, and is
  about the jobs that are not exposed: the proofs show that a submission without its lock
  disturbs its own job only.
* `OneEntryEach`: `[]NoDuplicateEntry` for one worker.  Whoever enqueues must know that
  there is no entry: a request knows it from `BirthInv`, a pass from its second scan.  The
  invariant `ScanInv` says that the scan is still true when it is used: a registry that
  has been read holds nothing the scan has not seen, because with one worker nothing moves
  backwards through the registries during a pass, and `FetchedByOwner` keeps entries out
  of the intermediate list, which no scan reads.
* `OneWorkerBudget` and `SharedBudget`: `[]AttemptBudget`.  `BudgetInv` counts what each
  live entry may still do (its retries, and one execution that is not claimed yet) on
  top of the attempts of its row, and says that a pass decides on the `attempts` it has
  refreshed under the lock.

Its third part is about rows, the refinement and what is not forgotten:

* `OneWorkerRows`, `OneWorkerTerminal`, `SharedRows`, `SharedTerminal`: `RowCoherent` and
  `TerminalIsFinal`.  `ExecInv` says that the row of a job that is executed is `running`
  in the stage its worker is at; it is kept because nobody else writes to the row then
  (`ExecutesAlone`).
* `OneWorkerRefinement` and `SharedRefinement`: `Spec => ImplementsLifecycle`.  Init maps
  to Init, and every action maps to one step of `PreviewLifecycle` or to a stutter; the
  cases are a creation, a claim, a stage, an end, a return to the queue and an expiry.  An
  exposed job is shown as deleted from the moment it is exposed, since nothing is promised
  of it any more.
* `NothingIsForgotten`: `[]NothingForgotten` while Redis has room, from `KeptInv`: every
  open job has an entry, and whatever a worker is about to drop belongs to a row that is
  finished or about to be enqueued again.  `NothingForgottenWithRoom` discharges the
  premise: since no job has two entries, more entry identifiers than jobs suffice.

Hypotheses, and why the code justifies them.  `OneWorker` is the deployed configuration
(`k8s/README.md:14` 'one replica initially', one `worker` service in `docker-compose.yml`);
section 5 says what two workers can do.  The `Shared` theorems are for any number of
workers and reduce everything to `[]NoDuplicateEntry` and unrecycled connections of
workers: nothing else can break the budget, a row or the lifecycle of a job that is not
exposed.  `"limbo"` (a worker dies between the
two Redis commands of a dequeue) is excluded because the duplicate it leads to is real.
`Forgivable` includes the unlock without effect, whose job `NothingForgotten` excepts.  It
leaves out the faults that can leave an open job without an entry until a
later pass: a request that dies or loses its acknowledgement before it enqueues, an
enqueue that Redis refuses, an entry it loses, a failure that cannot be written, a work
horse killed on its last retry, a wait that times out on the lock of the submitting
request.  That they are repaired is the liveness property `StrandedIsRecovered`.  It also
leaves out `api_close`, under which `NothingForgotten` is only model-checked (`settles`).

### The pool

`LockPoolProofs`: `LockCovers` (`LockCoversSubmission`) for every pool, and
`ConnectionsHaveOneUser`.  `KeptPoolKeepsLocks` says which pool keeps its locks
(`KeepsConnections`: no recycling, and room for every connection it may open; the proof
counts connections).  The defaults in `core/config.py:47-50`, an overflow of five and
recycling after 300 seconds, are not of this kind, which is why the pipeline has the faults
`recycle` and `api_close`.  Without recycling and overflow no job is exposed, and the
exceptions of the one-worker theorems disappear.

### The engine

`BacktestProofs` proves, for any set of bars that the table's constraints admit, any
starting cash, any stop and take-profit between 1% and 50% and any number of bars, every
property that the run `backtest` checks:

* `TypeCorrect`.  `TypeInv` adds `Shape` (there is a current bar wherever one is
  used, and an entry exactly when the quantity is positive) and `Levels` (the levels
  of an entry are those of its price).
* `BooksAlwaysBalance`, `AccountNeverOverdrawn` and `FinalValue`, from the invariant
  `Accounts`: the books balance, cash is not negative (a stop level is at least half
  a positive price, and `cash \div price` shares cost at most the cash), and between
  two bars the equity is the cash and the position at the close.
* `RiskAlwaysHonoured`, from `RiskInv`, which states it from the mark on: a position
  that is open there came through the intraday check of this bar, because `Shape`
  says that a position closed at the open is flat for the rest of the bar.
* `TradesAlwaysCoherent`, from `TradesInv`, which places the trades before the open
  position and the open position before the current bar.
* `EverySignalAccountedFor`, from `SignalsInv`: a signal is executed or ignored from the
  moment its turn in the body of the next bar is over (`Handled`), and not before.
* `AlwaysFilledWithinTheBar`: a level inside the bar is a price of the bar only because
  the opening check has been passed (`OpeningInv`).
* `TradesHaveSources`: entries and strategy exits answer signals.

### The preview

`PreviewProofs` is about the compiler, the metrics and their composition with the engine.

* `EligibleIndexIsExact` and `CompilerAgreesWithCrossover`, from `CompilerInv`: an average
  of period `p` is known from the `p`th close on.
* `PreviewRunsTheEngine`: `PreviewSpec` implies the specification of `BacktestEngine`, so
  the invariants of `BacktestProofs` are available through an instance of that module
  (`EngineInvariant`).
* `TradesAlwaysFollow`, from `SignalsHold` and `SourcesInv`.
* `ChartAlwaysAgrees`, from `FlatInv`: until the entry becomes eligible the equity is the
  starting cash.  `BenchmarkIsFair`, from `HoldInv`: as long as nothing is sold the curve
  is that of the shares bought at the first opening.
* `DrawdownIsExact`: the fold over the curve keeps the peak and the least ratio of a point
  to an earlier one, whatever the length of the curve.
* `RollingTotalsHold` and `AveragesExact`: a total from which the leaving close is taken
  stays the sum of its window, and the exponential recurrence has the closed form of
  `IsExponentialAverage`.  `EmaInv` carries that closed form together with
  `LeavesFactors`: after bar `i` the average is still divisible by `(p + 1)^(MaxBars - i)`,
  so that the divisions still to come are exact; the closed form alone is not inductive.

  Hypotheses: `FineUnit` (every close is a multiple of every period) and `ExponentialUnit`
  (of `p * (p + 1)^(MaxBars - p)` for the periods from 2 on).  They say that the unit of
  the model is fine enough for `\div` to be the division of `Decimal`; any finite
  set of prices has such a unit.  That of `preview`, 900, is one: with the periods 1, 2
  and 3 over four bars, closes have to be multiples of 6, and of 18 and 12 for the
  exponential averages of periods 2 and 3.  What the code adds to the exact value is the
  rounding of `Decimal` to 28 digits, which is not modelled.

Drawdowns and averages need induction over sequences and over finite sets.  The induction
theorems of the library take an operator, which the provers cannot instantiate; here induction is
stated with a set instead of an operator (`NatSet`: a set of numbers that holds 0 and
successors holds all; `FoldExists` and `FoldInduction`: a fold is well defined, and what
each turn preserves holds at the end), and each use names the set it is about.  That the
sum over a set does not depend on the order it is taken in (`SumUnique`) is proved the
same way.

### The parser

`ParserProofs` is for all texts, all drafts that the provider's schema admits and every
series of closes.  The inductive invariant `ParserInv` only says that what is shown is
`normalize_strategy_draft` of the provider's draft and the text; the work is in
`Reviewed`, which says what that function returns.

* `PreviewedAlwaysSaved` (`PreviewedCanBeSaved`): the two sides compute the same
  checks, from different data.
* `ReviewsDisclose` (`DisclosesWhatItInfers`): both directions, for each field.
* `InferredRulesUndo` (`InferredRuleUndoes`): the first bar after a crossing on which
  the operands are strictly the other way round follows one on which they are not, so the
  inferred rule crosses there.  Both operands are known on all of these bars by
  `ConditionKnown`, a lemma of `PreviewProofs` about the warm-up.

`DraftAssumption` is what the proofs take from outside: the types that the provider's
schema enforces (`schemas/strategy_spec.py:84`), and that a text that gives a percentage
for a control also mentions the control, as each of `STOP_LOSS_PATTERNS` and
`TAKE_PROFIT_PATTERNS` (`strategy_semantics.py:58`) contains the phrase searched for at
line 140 and 146.  `ParserAssumption` adds that `Periods` holds every period the
schema admits.

### The import

`ImportProofs` is for any number of concurrent imports, any files, any batch size, and
any number of runs and lost connections.

* `ParseKeepsFirstRows`: what `parse_market_csv` returns, by induction over the rows of a
  file: the first acceptable row of each timestamp, no other, and all rows counted.
* `ImportsRefineTable`: `Spec => ImportsWholeFiles`, the refinement of `MarketTable`.
  `TransactionInv` says that an open transaction has written the first `sent` rows of
  the file it parsed, and is at its commit exactly when these are all of them; that one
  outside a transaction has written nothing is what makes a failed or repeated import
  harmless.  With `ParseKeepsFirstRows` a commit is then one step of `MarketTable`.
* `SummariesAreHonest` (`SummaryIsHonest`).  `SummaryInv` counts by batches: the counts
  run ahead of the rows by the rest of the current batch (`Counted`); the insertions
  counted are never fewer than the timestamps that are not stored yet, and equal to them
  while the import is alone.  A commit of another import can only store more of
  them, so the inequality survives it and the equality is given up.

`FileAssumption` types the constant `Files`: a file is a sequence of raw rows, whose
fields are a number or missing, or cannot be read.

### The browser

`WorkspaceProofs` proves, for any number of submissions and any drafts:

* `LatestSubmissionShown` and `AlwaysOneThing` of the hook.  `PollingInv` says what
  belongs to the current generation: only it can have a timer, a request that is not
  aborted, a job on screen; and what a request's kind says about `isSubmitting`.
* `SavedPairsMatch`, `SavesWereConfirmed`, `ReviewsMatchTheForm` of the workspace,
  from an invariant that ties `pending`, `draft` and `parsed[generation]` together
  while a preview is in progress or on screen, and the tick to the preview it was
  given to.

`LibraryProofs`: `LastReloadAlwaysRight`, from `LibraryInv`: the newest reload, once
answered, has read what the table holds unless a change is still to be followed by its own
reload; and each handler has at most one reload under way.

### Only model-checked

* Liveness (`JobSettles`, `StartupCompletes`, `StrandedIsRecovered`, `EveryRequestEnds`,
  `PreviewAnswered`, `EveryImportEnds`), which is beyond the prover.
* Nothing else: every invariant, action property and refinement that a passing run
  checks is also a theorem, under the hypotheses given above.  Of `AttemptBudget`,
  `RowCoherent`, `TerminalIsFinal` and `ImplementsLifecycle` with several workers only the
  reduction to `NoDuplicateEntry` is proved, which two workers can break (section 5).

## 5. Where the code and its documentation part

* `recycled_lock` (`NoConcurrentExecution`, src/backend/app/db/session.py:53): The advisory lock belongs to a pooled connection, and every session.commit() returns that connection to the pool; once it is older than pool_recycle (300 s) the next checkout closes it and the lock is gone in the middle of the execution. With a duplicated entry a second worker then executes the same job at the same time. src/k8s/README.md:15 says 'per-job PostgreSQL advisory locks prevent concurrent execution', and the docstring of try_acquire_preview_job_lock 'Prevent two workers from executing the same preview concurrently.' (src/backend/app/services/job_store.py:197).
* `lock_leak` (`NoLockLeaks`, src/backend/app/services/preview_job_service.py:123): The docstring says 'Release a preview advisory lock acquired by this database session.' (src/backend/app/services/job_store.py:223). The commit of create_job gives the connection that took the lock back to the pool; if another thread of the API process has it when the submission needs a connection again, pg_advisory_unlock runs on a different PostgreSQL session, returns false, which nobody looks at, and the job stays locked until that connection is closed.

More follow from the models without a run of their own:

* Two workers can duplicate an entry: the pass reads three registries one after the
  other and never RQ's intermediate list (`preview_queue.py:82`), so an entry another
  worker is moving can be missed twice.  `NoDuplicateEntry` is checked and proved
  (`OneEntryEach`) for one worker without a crash in the middle of a dequeue (fault kind
  `limbo`); `recovery` has that crash, but with a single entry identifier not the
  duplicate it can lead to.
* A submission that loses its lock with its connection (`db/session.py:52`, fault kind
  `api_close`) is overtaken by a pass although there is one worker: the pass finds a queued
  row, a free lock and no entry, and enqueues the job beside the request, although
  `reconcile_preview_jobs` is to recover 'without duplicating active RQ jobs'
  (`preview_reconciliation.py:50`).  If the request's enqueue raises although Redis applied
  it, its `fail_job` then writes by primary key (`job_store.py:117`) over a row that is
  being executed, and the execution's next write makes the row incoherent or revives it.
  Without their exception for exposed jobs TLC refutes `MutualExclusion`,
  `NoDuplicateEntry`, `AttemptBudget`, `RowCoherent`, `TerminalIsFinal` and
  `ImplementsLifecycle`, with one worker, one job and the fault kinds `api_close` and
  `redis`.
* A worker whose wait for the lock times out logs a duplicate execution and consumes
  the entry although only the submitting request may hold the lock
  (`preview_worker.py:51`).  If the request was merely slow (fault kind `slow`), the pass of
  a restarted worker repairs it, as `recovery` shows.  If the lock was left behind
  (`lock_leak`, fault kind `leak`), a restart alone does not: every pass finds the lock
  held and skips the job, which stays queued until the connection that has the lock is
  closed and a worker restarted after that, or until it expires.  `NothingForgotten`,
  `JobSettles` and `StrandedIsRecovered` have exceptions for such a job.
* A save that completes after another preview was started resets that preview
  (`strategy-workspace.tsx:153`): action `Saved`.
* A backlog above the scan limit makes `active_preview_job_ids` raise
  (`preview_queue.py:80`), and every worker exits before it listens (action
  `AbortReconciliation`), although `k8s/README.md:105` says that a worker reconciles
  and then consumes: the backlog is never drained.  `StartupCompletes` is checked with
  a limit that the entries do not exceed.
* The review says that strategy and benchmark 'both start with the same capital at the
  strategy's first eligible bar' (`strategy-review.tsx:83`).  That bar is the later one
  of entry and exit; a strategy whose entry is eligible earlier may hold a position
  there.  `ChartAgreesWithSummary` states what holds.
* If the first eligible bar is the last one, the chart's only benchmark point is the
  starting cash while the benchmark's return is computed from that bar's close
  (`strategy_preview.py:91`): the exception in `ChartAgreesWithSummary`.
* The list is set from whichever reload is answered last (`strategy-workspace.tsx:63`), so
  a deleted strategy can come back until the next refresh although the handler reloads
  'so the UI matches the DB' (line 203).  `LastReloadIsRight` is about the reload issued
  last, and does not forbid it.
* A change whose request failed for the client may still be applied by the route, after
  the reload that followed: the exception `lost` in `LastReloadIsRight`.
* A job whose row is gone is polled for ever (`use-preview-job.ts:108`), although the API
  says 'Run the preview again.': the exception in `PreviewAnswered`.
* If Redis is full, a pass that recovers a job ends in an error and takes the worker with
  it (`preview_reconciliation.py:134`), at every restart, until Redis has room: the
  premise of `StrandedIsRecovered`.
* A row that the parser accepts and the table does not (a price that rounds to zero, a
  volume too large) stops the whole import, although invalid rows are to be skipped
  'rather than stopping a potentially large import' (`import_market_csv.py:89`): the
  failing branch of `UpsertRow`.
* A commit whose acknowledgement is lost is reported as 'Import failed' although the file
  is stored; running the script again does no harm and reports every row as updated.
* `N/M crossover` is taken as short and long period whatever their order
  (`strategy_semantics.py:234`), so `200/50 crossover` buys when the slow average rises
  above the fast one; and fields of a draft's operand that do not belong to its type, such
  as the value of an indicator, are dropped without a word.
* A work horse inherits the pool, and with it the sockets, of its parent
  (`db/session.py:67`).  The model frees the lock of a killed work horse at once, which
  PostgreSQL does only if the parent holds no copy of the socket.

## 6. Not modelled

* preview queue (partly): enqueue and the registry scan; RQ's moves are external; the repetition of commands by the Redis client is not modelled
* authentication (not modelled): token verification is delegated to Supabase; no state of its own
* health, logging, settings (not modelled): stateless checks and configuration; the numeric settings are CONSTANTS
* strategy library (partly): list, edit, delete and confirmed save of one browser tab; the open panel, the plain create route and the pair of text and specification are not modelled
* backtest metrics and benchmark (partly): benchmark, drawdown and final values; the win rate and the annual growth rate, a fractional power, are not modelled

## 7. Plan

The order followed: the pipeline first, since everything a user sees depends on it, then
the lock below it, the engine it runs, and the browser on top of it; then the compiler and
the preview, the parser, and the import; then the proofs of section 4, in the same order.
All of that is done.  What could be added, none of it modelled so far:

1. the pair of text and specification of a saved strategy that is edited
   (`api/routes/strategies.py:198`);
2. commands the Redis client repeats (`queue/connection.py:22`), which put one RQ
   identifier into two places, and the socket a work horse shares with its parent;
3. the annual growth rate, and the 28 digits of `Decimal`.

