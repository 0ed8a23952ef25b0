# A formal model of open-mamba

open-mamba is a Rust server that keeps a durable queue of agent tasks in one
DuckDB file ("the lake"), dispatches them to agents (openfang), to an inference
service (nemotron) or to an HTTP endpoint, meters them, chains them into
coder -> reviewer workflows, and fires them from webhooks and cron schedules.
This directory holds TLA+ modules of its core, the TLC configurations that check
them, and proofs that TLAPS checks.

## Inventory

| Part | State | Operations | Hard because |
|---|---|---|---|
| Lake (`mamba-lake`) | DuckDB tables behind one `Arc<Mutex<Connection>>` | one function per statement or two, autocommit, no transactions | every call blocks on one non-reentrant mutex; rows are replaced by DELETE + INSERT |
| Queue worker (`worker.rs`, `dispatch.rs`) | in-flight counter, spawned futures | poll every 2 s, dispatch, reap every 2 min | futures interleave with polls at every await; 15 min stuck timeout, 20 min hard timeout |
| Retries (`routes.rs`, `store.rs`) | `retry_count`, `not_before` | automatic retry of transient errors, operator retry | an operator races a dispatch in the air |
| Startup purge (`store.rs`) | the table itself | delete bad rows, rebuild the table | compares times as strings; a crash in the middle |
| Workflow launch (`routes.rs`, `workflows.rs`) | `workflows`, `workflow_runs` | ingest of coding agents, run, create, delete | run and task are inserted by separate calls, in two different orders |
| Workflow advancer (`workflow_runner.rs`) | its snapshot of the runs | read a finished task, judge a review, submit the next step, store the run | crash between submit and store; definitions change under a run; a panic ends it |
| Cron scheduler (`scheduler.rs`, `cron_util.rs`) | `schedules`, the list of due rows | fire, advance, disable | works on stale copies; crash between fire and advance; downtime |
| Webhooks (`triggers.rs`) | `webhooks` | create, delete (soft), fire | get, submit and count are three calls |
| Billing (`billing_worker.rs`) | `billing_records` | one record per finished agent turn | a third lake call after completion |
| Solver loop (`store.rs`, `solver_skip_rules_weekly.py`) | `solver_outcomes`, `solver_skip_rules`, the analyzers that run | post outcomes, analyse a page, publish a rule set | replacement is several statements without a transaction; a request outlives the client that gave up on it |
| Routing, nemotron client | none | pick the path and model of a task, classify an error | substring rules, first match wins; a debug line that may panic |
| Bounty scripts (`loop_runner.py`, `orchestrator.py`, `brain_bridge.py`) | files of their own: events seen, verdicts, live state | open bounties, dispatch reviewers, write what a console reads | nothing is shared with the server: they do not submit to the queue |
| Analytics, console, auth, encryption, chain anchor, packaging, sites | none, or read-only | | left out, see below |

The parts meet in the lake: handlers, scheduler and advancer insert tasks
(`Bus::submit`), the worker picks them up, and the advancer watches their status.
Nothing else is shared but the in-flight counter.

What makes each part correct: the queue keeps its concurrency bound, gives back
every slot, loses no row but to a crash or a failing statement, never runs a task twice at once, honours backoff and
retry budget, bills what it finished, and settles every task. A workflow run has
one step in the air, consumes each finished step once, stays within its fixup
budget, never calls a rejected piece of work done, and ends. A schedule fires
each match once (once more per crash or failed write), passes one over only for
a call that failed, stops after it is disabled, and counts its firings. A
disabled hook fires nothing new. The active rules of a protocol are those of one
publication, and an analysis that was done when another began does not overwrite
it (the late request of one that died may).

## Modules

| Module | What it is |
|---|---|
| `TaskQueue` | the queue: table, mutex, poll loop, dispatches, reaper, retries, billing, crash and purge, time |
| `Routing` | pure operators: path and adapter of a model string, what errors say, which are transient; extended by `TaskQueue` |
| `TaskLifecycle` | the abstract life of a task: submit, begin, end of turn or put back |
| `TaskService` | what the queue is to those who poll it: submit, report, retry, outage |
| `MCTaskQueue`, `MCQueue*.cfg` | instances of the queue |
| `TaskQueueProofs` | the invariants of the queue, its theorems, and that it implements `TaskService` |
| `QueueUndisturbedProofs` | the time of turns and the mutex, the undisturbed queue, and that it implements `TaskLifecycle` |
| `WorkflowRun` | launch handlers, callers, advancer, over an instance of `TaskService` |
| `ReviewLoop` | the abstract run: every consumed step leaves a verdict, every verdict has its consequence |
| `MCWorkflowRun`, `MCWorkflow*.cfg` | instances of the workflow runs |
| `WorkflowRunProofs` | the inductive invariant of the runs, their theorems, and that they implement `ReviewLoop` |
| `WorkflowBudgetProofs` | how many tasks a run may have and how often its coder starts |
| `WorkflowVerdictProofs` | that a run that is done was not refused, and that the runs keep to `TaskService` |
| `Scheduler` | cron schedules: callers, the worker's tick, downtime |
| `MCScheduler`, `MCScheduler.cfg` | an instance of the scheduler |
| `SchedulerProofs` | the inductive invariant of the scheduler and its theorems |
| `Webhooks` | webhook triggers: callers, and requests that read, submit and count in three calls |
| `MCWebhooks`, `MCWebhooks.cfg` | an instance of the webhooks |
| `WebhookProofs` | the inductive invariant of the webhooks and its theorems |
| `SolverLoop` | outcomes, analyzers, operators, requests in flight, the replacement of rules |
| `MCSolverLoop`, `MCSolver*.cfg` | instances of the solver loop |
| `SolverLoopProofs` | the inductive invariant of the solver loop and its theorems |

The queue and the workflow runs are composed through `TaskService`: `TaskQueue`
is checked and proved to implement it, and `WorkflowRun` uses its operators for
every change of a task, so the queue's late second reports, retries that delete
a reply, and rows lost by a crash or a failing INSERT all meet the advancer.

Definitions named `X_Something` and introduced by "Faulty variant" are plausible
bugs of the definition that follows them. No specification uses them; putting
one in the place of `X` makes the property that guards it fail.

### TaskQueue

A lake call holds the mutex for its whole body, so it is one action guarded by
`LakeFree`. A dispatch is a future with a program counter: `starting` (spawned,
nothing written), `turn` (the row says running, the client waits), `saved`
(response stored), `completed` (row done, billing to come). The openfang path
awaits an agent lookup in `starting`; the other two write `running` without an
await before it. An agent that openfang does not know is `ResolveFails`: the
error leaves the dispatch before anything is recorded, and the task is picked up
again for ever. `PromptSpawn` states whether a spawned future gets to that
first await before the next poll, two seconds later; only the runs that say so
assume it.

The path of a task follows from its model string by `Routing`: a string is known
by the adapter slugs that occur in it and by whether it starts with
`http-forward:`. The code looks for a slug first and anywhere (dispatch.rs:72), so
a forward whose URL names an adapter goes to nemotron, although dispatch.rs:4 and
docs/ARCHITECTURE.md:37 keep nemotron for models of its own prefix. An error text is the set of transient
and permanent signals in it; `ErrorTexts` says which sets a path can produce.
A task in `Panicky` has a prompt whose byte 80 is inside a character: with
debug logging on, the nemotron client slices it and the dispatch panics, the
`fetch_sub` after it is skipped and the slot is lost (`SlotsLeakOnlyByPanic`).

Time is relative and saturating: a row carries the age of its turn and the rest
of its backoff, a dispatch its own age. A tick stands for about five minutes, so
the stuck timeout (15 min), the hard timeout (20 min) and the purge's two hours
keep their order; the openfang client's limit exceeds the hard timeout, those of
nemotron (128 s) and http-forward (30 s) are below the stuck timeout, which is
`ClientAssumption`. `Tick` does not overtake
a timer that is due while the lake is free; once it is locked, time goes on.

`ReapStuckTasks` and `RetryPending` set `lock` for good: the functions they
model lock the mutex again while they hold it. `Restart` is the purge of the
next start: a row goes when the date of its `dispatched_at` is not after the
date of a cutoff two hours ago, because the two are compared as strings of
different formats (the session time zone is taken to be UTC). `CrashInReplace`
and `CrashInPurge` are crashes between two autocommitted statements.

A statement may fail while the process lives, at most `MaxFaults` times, and
`dropped` remembers what it did not write. `SaveFails` and `BillingFails` are the
errors that a dispatch discards (dispatch.rs:142, 144, 188, 196): the task is done
without response or bill. `StartFails` and `CompletionFails` leave by the `?` of
the call; after the second the row says running and nobody is behind it.
`FailureFails` is `record_dispatch_failure`, whose callers take an error for "not
rescheduled": the outcome is not written, or the row is deleted and not inserted
again, or a retry count that cannot be read is taken for zero (store.rs:573).
`RetryFails` loses the row between the two statements of a retry, `PickUpFails`
is a read that the loop skips, `PurgeFails` stops the purge of a start.

`ServiceSpec` is the refinement of `TaskService`: `running` reads as pending, a
settled row with a dispatch still in the air is `late`, the response is the text.
`LifecycleSpec` is that of `TaskLifecycle`, a safety specification: a task whose
outcome or row a failing statement lost is `lost` there, and a count taken for
zero is forgotten. That tasks settle is `TasksSettle`, apart from it.

### WorkflowRun

The advancer is the only writer of an inserted run, so a set of ids stands for
its snapshot (`todo`), the `ListLimit` newest runs. `get_task` is one action
(`NotSettled`, `TaskFailed`, `TaskDone`), `get_response` with the decision and
the submit another, `update_run` a third (`StoreRun`, with the run to be stored
in `hold`): callers, late reports and crashes come between them. Where no submit
precedes it, `update_run` is part of the decision, since nobody reads a run in
between. Any of these calls may fail (`TurnFails`), its error logged or discarded
(workflow_runner.rs:56, 66): the run stays as it was and the next tick does the
same again. When it is the `update_run` after a submit (workflow_runner.rs:224,
289), the task submitted is in the queue and the tick submits another. A draft is what a handler has built and not yet written: ingest inserts
the run and then the task, the run endpoint the other way round.

The queue is an instance of `TaskService`. `Settle` is a task's first outcome,
`ReportLate` that of a second dispatch of a settled task, which may put it back
to pending and take its reply away; `RetryTask` is an operator; a crash may lose
the rows `TaskQueue` shows it can lose (`Losses`), and so does a replacement
whose INSERT fails (`LoseTask`; `CreateFails` is the same of a workflow). Ingest and
run launch stop after each of their calls that fails (`IngestFails`,
`IngestSubmitFails`, `InsertRunFails`). `Hangs` is the advancer at a lake that the
reaper or a retry-pending has locked for good. A step carries whether its
u8 priority fits the queue's TINYINT column: the review of an ingest is one less
urgent than the task, so at 127 it cannot be submitted, and the advancer tries
again in every tick (`SubmitFails`). A reply is the set of verdict words that
occur in it; `cut` says that its byte 200 lies inside a character, where the
slice of the error text panics. A reply that is missing counts as approval.

### Scheduler

`now` counts minutes. The worker copies the due rows (`snap`), and for each
submits and then advances from the copy, in two actions. It ticks every 30
seconds, so while the process is up no minute passes without a tick that handles
or fails on every due row; but a row left by a failed call waits for the next tick
(`waiting`), and the minute may pass before it, and with it the row's next match.
While the process is down time passes freely. An expression is the set of minutes it matches; no match is
left after the horizon, which is where `DisableBroken` is reached. The
listing may fail (`ListFails`), a submit (`SubmitFails`: the row stays due) and the
write after it (`AdvanceFails`: the row stays due and its match is fired again).
`DisableBroken` writes the listed row back as it was: the firing it has just
submitted is not counted (scheduler.rs:75 to 78), and what a caller wrote since the
listing is undone. `FireCountFollows` says how far the count may be off: never
above the submissions (`total`), and below those since a caller last wrote the row
(`since`) by one for a row that is off. `fired`, `total`, `since`, `afterOff`,
`owed` and `unsaved` are history. The next time is computed from the clock, so
matches that have passed by then are skipped: `MatchesFireWhileUp` says that, while
the process is up, only a failed call can cost one, and a schedule one at most for
each. A tick that waits for a lake locked for good by the queue's reaper never
ends; the scheduler alone cannot tell, and `DueIsHandled` is about a lake that
answers.

### Webhooks

A request goes through `read` (the hook was found enabled) and `submitted` (the
task exists, its count does not). `CreateWebhook` is DELETE then INSERT under
one lock: nobody sees the row missing unless the INSERT fails (`CreateFails`) or
the process crashes in between (`CrashInUpsert`). `NoteFails` is the count whose
error the handler drops. The history variables say what a count ought to be:
`sent` since the hook was last registered, `carried` over from the hook before
it, `uncounted` because the write failed; `admitted` and `late` belong to the
last moment the hook was deleted or replaced.

### SolverLoop

An analyzer reads the newest `OUTCOME_PAGE` outcomes, then handles the protocols
on the page one by one: it asks nemotron (or not, with too few samples), posts a
set of at most `RuleCap` rules and waits for the answer. A request stays in
`requests` until the server takes it, whether or not its client is still there;
analyzers may overlap, operators publish what they like, and a server may be
started with other keys. `Replace` is replace_skip_rules as far as its k-th
INSERT: `PublishFails` and `Crash` stop it in the middle. `ProposeRules` looks
for the answer under the names the script uses, which are not those the server
sends, so every set an analyzer posts is empty (`solver_answers`): that its cap holds and
that its rules arrive in full is not put to the test, and no property says so of
analyzers. What operators post has rules, and `ActiveIsLastServed` follows those
through statements that fail and crashes. A rule is known by its publisher and its
place in the set; `heard`, `served` and `before` are history.

## Runs

| Run | Bounds | Shows |
|---|---|---|
| `queue_safety` | 2 tasks (openfang, nemotron with a prompt that panics), 3 futures, 2 dispatches, 1 retry without backoff; up to two of an operator's call, two crashes and a failing statement (`TwoTroubles`) | bound on dispatches, owners of running rows, causes of a lockout, of a leaked slot and of an unbilled turn, implements `TaskService` |
| `queue_direct` | 3 tasks (two forwards that nemotron takes, one that stays a forward), 2 futures, 1 retry with a backoff, 1 failing statement, no operator, no crash | implements `TaskLifecycle`, single dispatch, backoff, response, billing; every task settles that the failing statement did not lose, directly or by a lake the reaper locks on a lost outcome |
| `workflow_safety` | 1 run, 1 fixup round, 6 tasks, chains of 2 steps and 1; up to two of a call, a late report, a crash and a failing lake call (`TwoTroubles`) | implements `ReviewLoop`, each step consumed once, budgets, no rejected work is done, fails for a cause, ends but for five named reasons |
| `workflow_fair` | 2 ingested runs of which the advancer lists 1, 1 fixup round, 10 tasks, a call or a failing lake call (`OneTrouble`) | a run whose task settles ends unless a newer one hides it or another named reason holds |
| `scheduler` | 2 schedules, 2 expressions, 3 minutes, 1 call, 1 crash, 1 failed lake call | each match fires once more per crash or failed write at most, one fire after a delete, counts, a match lost while up only for a failed call, due rows are handled |
| `webhooks` | 2 hooks, 3 requests at a time, 4 in all, 3 calls, 1 crash, any number of failed lake calls | a disabled hook produces only the tasks of requests it had admitted; `fire_count` lacks and has exactly what interrupted or carried requests explain |
| `solver_loop` | 2 protocols, 2 analyzers, 1 operator, page of 2 among 3 outcomes, sets of up to 2 rules, 1 failing statement or crash | whose rules are active, what a finished analysis has superseded, an analysis begun after another was done stays |

Three futures are enough for two concurrent dispatches, since a third would be
the violation; two tasks of different kinds meet in the poll order and at the
bound. In `workflow_safety` six tasks are a chain of two steps, one round of
fixup, and one for each of the two troubles that may lose a submitted step (the
crash and the failing `update_run`); with five, TLC shows a run that waits for a
free id. One fixup round has a review before it, one after it and the spent
budget. `RunsEnd` is checked on both workflow runs because late reports and
crashes make one run as large as fits, and `ListLimit` needs two runs. Three
minutes hold two matches of the sparser expression and three of the denser. One
crash (two in the queue, so that the purge itself can be cut off), one failing
statement and one caller's operation can hit any step. Where the three together
would not fit, a state constraint named in the table admits any two of them (in
`queue_safety` an operator's call and a failing statement meet where a row is
lost to the latter); the proofs have no such bound. Three requests are one in
each place between the calls of `fire_webhook`, or three in the same; three
callers' operations are a registration, a replacement and a deletion. Two
analyses and an operator are the smallest overlap in which an older publication
could win, and a page of two among three outcomes leaves one protocol off the
page.

Five more runs check a statement of the documentation or of a comment that the
code does not keep; each gives a counterexample:

| Run | Statement | What happens |
|---|---|---|
| `queue_reaper` | stuck tasks are failed after 15 minutes (worker.rs:36) | the reaper locks the mutex twice and the lake stops |
| `queue_reentry` | a task in flight is never re-entered (worker.rs:19) | it is picked up again during the agent lookup |
| `queue_purge` | only rows running for over two hours are purged (store.rs:190) | any running row of the same date is |
| `workflow_blocked` | BLOCKED fails the run (workflow_runner.rs:11) | the advancer can panic instead, and no run advances again |
| `solver_answers` | the analyzer posts the rules nemotron proposes (scripts/README.md:108) | it reads the answer under names the server never sends and posts none |

Two more such statements are false in the model and have no run of their own.
`agent not found` is permanent (dispatch.rs:235), but the lookup's error is never
recorded and the task loops (`ResolveFails`). Deleting a workflow spares its
runs (docs/API.md:162), but they fail at their next step (`FlowDeleted`, the
third cause of `RunsFailForCause`).

### Fairness

The poll loop, the advancer, the scheduler and the reaper are endless loops of
one process (weak fairness on their actions). A spawned future is polled until it
ends and every client has a timeout, so its steps and its outcome are weakly
fair; time passes; a supervisor restarts the process. Callers, operators and
crashes have no fairness. Failing statements have
none either. Of the queue `WorkflowRun` assumes no fairness, since the queue does not
settle every task: a lookup may fail for ever, and a lake locked by the reaper or a
retry-pending settles nothing. `RunsEnd` says in its own premise that the run's task
does not stay pending for ever, and names an advancer that panicked or hangs. `SolverLoop` has no fairness: its properties are safety.

Deadlock is checked for the queue. A workflow instance stops when its runs have
ended and the bounds are used up, a scheduler instance at the horizon, a webhook
instance when its requests are served, a solver instance when its clients are
done, so those configurations switch the check off.

## Proofs

Each proof module takes only the named assumptions of the module it is about, so
its theorems hold for all values of the constants. Where a theorem of the queue is
about some of its behaviours only, that is a condition in its statement.

`TaskQueueProofs` proves, from `QueueAssumption`:

- `TypeCorrect` (`TypeOK`), `ConcurrencyBounded` (`ConcurrencyBound`) and
  `SlotsAreGivenBack` (`SlotsLeakOnlyByPanic`). `ConcurrencyBound` is not
  inductive: the poll reads the counter, and what it will spawn is in `batch`
  until the loop gets to it. `QueueInv` adds that the counter is at least the
  number of busy futures and is more only after a panic (`Counted`), and that
  counter and batch together fit the bound (`Room`). Each action has one step in
  `QueueInvNext`; lemmas give the type of updated rows and the effect of an
  action on the counter.
- `RunningRowsAreOwned` and `UnbilledIsExplained`, which are inductive once the
  types are known: `DispatchEffect` says what a step of a future does to its row,
  failing statements (`Slip`) included.
- `QueueIsService`: every step maps to a step of `TaskService` or a stutter. The
  invariant behind it (`ServiceInv`) says that nothing is in the air while the
  process is down and that what is not in the table has no response.

`QueueUndisturbedProofs` goes on with the same invariants and takes
`ClientAssumption` as well:

- `LockedOutForCause` (`StuckHasCause`), on any queue, and `LakeIsNeverLockedOut`
  (`LakeStaysUsable`), on one without agent lookups, panics, operators and
  crashes, as long as the outcome of every turn is written. Whether a row is stuck is read off the row's own clock, so the
  invariant `ClockInv` ties it to the future's: while the lake is free, a running
  row is no older than any dispatch of its task that is in its turn
  (`RowsFollow`), and no dispatch outlives the limit of its client (`InTime`,
  which is what `Tick` waits for). Neither holds once the mutex is locked for
  good, and then the stuck row that explains it is kept instead.
- The queue that no operator touches (`Undisturbed`: no retry call so far, and
  spawned futures get to their first await before the next poll).
  `DirectIsNotReentered` says of every task that is not openfang's, among any
  others and through failures, retries and crashes, that it has one dispatch at
  most; `DirectIsAnsweredAndMetered` and `DirectServesItsBackoff` say the same of
  response, bill and backoff. openfang's are left out because they await the
  lookup before their row says running, and `queue_reentry` shows what comes of
  it. Where all tasks are such (`Direct`, as in `queue_direct`) the checked
  properties follow: `TasksAreNotReentered` (`NeverReentered`), `ResponsesAreSaved`
  (`DoneHasResponse`), `TasksAreBilledOnce` (`BilledOnceWhenDone`, before the first
  crash) and `BackoffIsServed` (`BackoffHonoured`). The invariant is `QuietInv`: the
  row of a task is where its dispatch is (`InStep`), what the poll listed is still
  pending and has no backoff left (`Listed`), no task is dispatched twice
  (`OneEach`). Each of them needs the others: a second dispatch would come from a
  listed task whose row moved on.
- `QueueIsLifecycle`: until a crash, that queue implements `TaskLifecycle`. A row
  that is put back has its retry count raised by one and had some left (`LifeInv`),
  but for a count that could not be read; every other write of a dispatch is a
  begin, an end, a loss by a failing statement, or invisible.

`WorkflowRunProofs` proves, from `WorkflowAssumption`, `RunTypeCorrect`
(`TypeOK`), `TasksConsumedOnce` (`StepsConsumedOnce`), `FailuresHaveCause`
(`RunsFailForCause`) and `RunsAreReviewLoop` (`LoopSpec`). The advancer decides
in one action and stores in another, so the invariant `RunInv` speaks of both the
row and the run in `hold`: the tasks a row names were made for that run, no two
outputs share a task, and none is the current one (`RunFits`, for rows and for
`hold`); `hold` is the row with its task logged, moved to another round within
the budget or one step further (`HoldFits`, `Follows`). A task is logged only
when it is replaced by a fresh one or by none, which is why none is consumed
twice. `RowSteps` then says that a step changes at most one row of the table, in
one of six ways; the cause of a failure and the step of `ReviewLoop` follow from
it case by case.

`WorkflowBudgetProofs` counts: `CoderBudget` (`FixupBudget`) and `OneTaskPerRun`
(`OneStepAtATime`). Neither bound is inductive, since a submit adds a task before
the row that answers for it is stored. `CountInv` counts with the row the
advancer knows (`Known`: `hold` while there is one): the tasks of step 0 are at
most one, plus the rounds logged in that row (`Rounds`), plus the crashes and
failing statements (`Troubles`). A crash or an `update_run` that fails forgets
`hold`: it takes one round away and adds one to `Troubles`. The tasks that are
pending or may be again (`Owed`) are at most the troubles, calls and late reports so
far plus one for the current task (`Places`), which gives up its place while its
reply is judged; a report that ends a task but leaves another dispatch of it in the
air is paid for by `redone`. `Launches` and `Judged` say that a run that was not
launched has no task, and that a task that is judged was submitted.

`WorkflowVerdictProofs` proves `DoneWasAccepted` (`DoneIsNotRejected`). Between the
verdict and the end of the behaviour the reply may not change: while nothing was
retried or dispatched twice no settled task is dispatched any more, so a task that
was submitted and is not pending (`Lasting`) stays so and can only lose its reply
(`QueueKeeps`). `VerdictInv` says that of the task that is being judged
(`Reading`) and of the last one of each finished run (`Accepted`).
`RunsUseTaskService`, in the same module, closes the composition from the other
side than `QueueIsService`: every step of handlers, callers, advancer and crashes
changes the queue as `TaskService` allows, so nothing proved of the runs rests on
an outcome the queue cannot have. Its invariant is that a reply is one a
reviewer may give, or none (`Heard`).

`SchedulerProofs` proves, from `SchedulerAssumption` and `NoOneAssumption`,
`SchedulerTypeCorrect` (`TypeOK`), `MatchesFireOnce` (`FiredOncePerMatch`),
`DisabledFiresOnceMore` (`OneFireAfterDelete`), `CountsFollowFirings`
(`FireCountFollows`) and `NoMatchIsSkipped` (`MatchesFireWhileUp`). That a match was fired at most
`1 + crashes + unsaved` times is not inductive: `Fire` needs that the match it
fires was fired at most `crashes + unsaved` times. `SchedulerInv` says so of each place the worker
may take a match from: the copy it listed (`ListedIsFresh`) and the enabled rows
it may list next (`RowIsFresh`, which leaves out the row in hand between submit
and advance). A time written by `Advance` or `CreateSchedule` was never fired,
since it lies after now (`NextAfterIsLater`) and nothing ahead of the clock was
(`FiredWasDue`, kept because what is listed is due, `ListedIsDue`). A crash
between submit and advance puts the fired match back in an enabled row and adds
one to `crashes`, a failed advance does so and adds one to `unsaved`, which is
where the bound comes from. `DisabledLast` does the
same for the firings of a disabled schedule.

The last two rest on `SchedulerInv` and on an invariant each. `AccountInv` counts
the firing in hand (`InHand`), which `total` and `since` have and the row has not,
and the one that a disabled row never gets (`Off`); it says the same of the copy,
which `DisableBroken` may write over a newer row, and that a listed row still exists
(`ListedExists`). `TimelyInv` speaks of the time before the first crash and the
first replacement: the worker's copy is the table (`Copied`), what it submitted was
fired (`InHandFired`), the time of an enabled row passes over no match to come
(`Punctual`), and a row that was disabled was fired for its last match (`OffFired`).
`Charged` is the account: the matches that a row is past or will be with its next
task (`Skipped`), and one more for a row that waits for the next tick (`Credit`),
are at most the calls that failed. A failed call adds one to both sides, the minute
that passes turns the credit of a waiting row into a skipped match at most, and for
any other row the match of the new minute is the one its time already names.

`WebhookProofs` proves, from `WebhookAssumption`, `WebhookTypeCorrect`
(`TypeOK`), `OnlyAdmittedFire` (`OnlyAdmittedFireLate`) and `FireCountIsRight`
(`FireCountFollows`), for any number of requests in the air. The first property
is not inductive: `Admission` adds to the tasks that came late the requests that
may still submit one, and that nothing is late while the hook is enabled.
`Counting` is `FireCountFollows` in terms of `Many`, the number of requests of
a hook at a place; `ManyAfterMove` says how one request's step changes that
number, and is cited by every step of a request.

`SolverLoopProofs` proves, from `SolverAssumption`, `SolverTypeCorrect`
(`TypeOK`), `PageIsReplaced` (`DoneReplacedItsPage`), `NewerAnalysisStays`
(`NewerAnalysisWins`) and `RulesAreLastServed` (`ActiveIsLastServed`), for any
number of analyzers and operators. `LoopInv` says that who has a request in
flight has one only and waits for it or is dead, so that a finished analysis has
none that could still overwrite a newer one (`InFlightWaits`, `OneRequestEach`);
that each protocol of an analysis is still to be handled, in flight, or replaced
(`PageHandled`); and that what was done before an analysis began stays done.

Model-checked only: liveness (`RunsEnd`, `TasksSettle`, `DoneIsBilled`,
`DueIsHandled`), which is out of the prover's reach. Every other property of a passing run is stated by a
theorem. The statements the five violated runs refute are not theorems, of course.

## Not modelled

The bounty scripts (loop runner, orchestrator, brain bridge) keep files of their own
and call a chain, reviewers and a webhook; they do not submit to the queue and share
no state with the server. The operator script is a shell front end. Of the nemotron client,
the health report and the body of the request are left out. So are the payload
and the priority of a webhook's task (a priority above 127 is cast to a negative
number and clamped to the most urgent one, triggers.rs:71). Analytics, the
read-only endpoints, the console, sites and packaging keep no state of their own.
Encryption is not behaviour over time; of authentication only the key check of a
publication is modelled (`Admitted`). The chain anchor returns without doing
anything, so `chain_tx` is never set on the paths through an agent. The schedules
migration at startup is left out, and so are reads of the poll and the reaper that
fail, which only put them off to the next turn. That http-forward completes a task on any
answer of the target is in the model, and nothing is claimed about it.

## Plan

1. The overseer loop of the operator script against the retry endpoints.
2. The schedules migration at startup.
