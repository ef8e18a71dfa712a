# Sentropic in TLA+

This directory is a verification development of the server side of Sentropic
(`src/`, a TypeScript monorepo: an API process on Postgres, libraries under
`packages/`, a Svelte client). It models the parts of the system whose
correctness depends on interleaving, failure and recovery, checks them with TLC
on small instances, and proves the most important facts about them with TLAPS
for every size of the system.

| module | what it is |
| --- | --- |
| `JobQueue` | the Postgres job queue and everything that touches its rows |
| `JobLife` | what the queue promises for a job without retries (abstract) |
| `JobQueueProofs`, `JobQueueOwnership`, `JobQueueLoopProofs`, `JobQueueBudget` | its theorems |
| `Outbox` | the transactional outbox and its dispatcher |
| `EventLog` | what the outbox promises (abstract) |
| `OutboxProofs` | its theorems |
| `GenerationWorkflow` | a seeded workflow definition: tasks and transitions |
| `WorkflowRun` | dispatch, joins, retries and failures of a run of such a definition |
| `WorkflowRunProofs` | its theorems |
| `LlmPricing` | the price of a call, and what is reserved for it |
| `LlmBudget` | budget buckets, holds, ledger, settlement and reaper |
| `Reservation` | what metering promises for each request (abstract) |
| `LlmBudgetProofs` | theorems on both, with the refinement |
| `ObjectLock` | the edition lock of an object |
| `ObjectLockProofs` | its theorems |
| `MC*`, `*.cfg` | the instances TLC checks |

`PROJECT.json` names, for every definition, the lines of the source it stands
for, and lists the runs, the mutants, the findings, the hazards and the theorems.

## 1. Inventory

The API is one Node process per replica. All concurrency inside it is
cooperative: an async function runs without interruption between two `await`s,
and anything may happen at an `await`. Several replicas, and the timers of one,
meet in Postgres, where a single statement is atomic.

### Modelled

**Job queue** (`packages/flow/src/{job-queue,processing-loop,job-runner,job-queue-controls}.ts`,
`api/src/services/flow/postgres-job-queue.ts`, `api/src/services/queue-reaper*.ts`,
the scheduling half of `api/src/services/queue-manager.ts`,
`api/src/routes/namespaces/workflows-queue.ts`).
State: the `job_queue` rows (status, attempts, retry counter, start time), and in
memory the flags `isProcessing`, `paused`, `cancelAllInProgress`, the map of
abort controllers, the hooks installed on the shared Postgres adapter.
Operations: `addJob`; the processing loop; `runJob`; cancel one, cancel all,
pause, resume, delete, purge, purge-mine; the periodic and boot sweeps of the
reaper; a workflow start, which replaces the hooks.
Hard: every UPDATE of a runner or a cancel is keyed by id alone; a cancel, a
purge, a sweep or a crash can fall between any two awaits of a runner; two kicks
can start two loops; the live ids of a sweep are read before its statements.
Correct if: a job is never executed twice at once, nor more often than its
budget; what ended or was deleted does not come back; the class limits hold; no
row is stranded; an admin action leaves the queue open.

**Transactional outbox** (`api/src/services/outbox/`).
State: the rows of `control.event_outbox`, the advisory locks of the writers'
transactions, the progress of each sweep.
Operations: `append` inside a caller's transaction; the sweep: fail and reclaim
stale claims, read the blocked aggregates, claim a batch, publish and mark row
after row; the `NOTIFY` binding of the bus.
Hard: sweeps overlap (timer, notification, replicas); a claim outlives its
lease; a failed publish reorders; every UPDATE after the claim is by id alone.
Correct if: numbering is dense; the number of publishes is bounded; a failed
event stops its aggregate; every event settles.

**Workflow dispatch and run state** (`packages/flow/src/dispatch.ts`, `seeds/workflows.ts`,
`postgres-run-store.ts`, the dispatch half of `queue-manager.ts`).
State: the run row (status, state, version), one result row per task instance,
the jobs that execute them.
Operations: dispatch of transitions, fan-outs and joins, start, completion,
retry and failure of a task.
Hard: optimistic merges that give up after five lost races; joins evaluated by
every task that completes; a crash between the reservation of a task and its
enqueue; redelivery of a task that had completed.
Correct if: a join waits, is dispatched once, and sees the patches it waited
for; no patch is lost; the run ends.

**LLM metering** (`api/src/services/llm-metering/`, its callers in
`packages/llm-gateway` and `packages/llm-mesh/src/decision`).
State: per bucket the spend, the reserve and the reset date; one hold per
request; one ledger row per idempotency key.
Operations: admission (with the monthly reset), dispatch mark, release,
settlement, observer rows, the reaper; the same for decision calls.
Hard: the reaper races with settlement and release; an answer of the database is
lost after the commit; a provider is slow beyond the deadline; a process dies
between the mark and the settlement; a month ends in between.
Correct if: what the buckets hold is the sum of the open holds and of the
ledger; caps hold; no call is free; every charge is corrected at most once;
every hold closes.

**Object locks** (`api/src/services/lock-service.ts`).
State: one row per locked object, in memory the number of open streams per user.
Operations: acquire and refresh, release, request, accept and force unlock, the
clear when a user's last stream closes, the sweep of expired rows, the purge at
startup.
Hard: every handler reads the row, decides, and writes by row id later.
Correct if: a live lock is lost only to one entitled to take it, is handed over
only to who asked, and nobody is told to own a lock that he never had.

### How they interact

A workflow task is executed by a job of the queue: `dispatch.ts` enqueues it with
`addJob`, and `runJob` calls back `completeWorkflowTask`, `failWorkflowTask` or the
retry. `WorkflowRun` has its own reduced queue (rows, slots, claim, redelivery,
crash) so that a run with its joins stays within TLC's reach; what it assumes of
the queue (a job is claimed by one worker at a time, and no more often than its
retries and redeliveries allow) is what `JobQueue` checks and proves. A workflow
start also replaces the hooks of the queue, which `JobQueue` models
(`DispatchEntryHooks`, the finding `JobQueueAdmission`). The outbox is called in the
caller's transaction and knows nothing else of it. Model calls of executors go
through admission and settlement of metering: one request there is one call here.
Locks guard the routes that edit objects.

### Left out

The job executors (one step of `JobQueue`); the chat and todo services (long
sequential orchestrations); stream events (numbering under an advisory lock as in
`Outbox`); workflow definitions, approval gates, identity and tenancy, comments,
skills and business objects (single-row rules); authentication (cryptography and
wire formats); provider protocols; MCP connectors; the cluster mesh and artifacts
(libraries of contracts); canvas editing (the CRDT of a library); clients;
deployment and tooling. `PROJECT.json` gives one entry and one reason for each,
and section 9 says what this means for coverage.

## 2. Plan

Each module is written so that it can be checked and proved about: parameters
are constants with named assumptions, one action per statement or per stretch
between two awaits, no recursive operator where a theorem reaches. In order of
importance, each with its abstract promise, its runs and its theorems:

1. `JobQueue`, refining `JobLife`: checked and proved (section 3).
2. `Outbox`, refining `EventLog`: checked and proved (section 4).
3. `LlmBudget` over `LlmPricing`, refining `Reservation`: checked and proved, the
   sums over requests included (section 5).
4. `ObjectLock`: checked and proved (section 6).
5. `WorkflowRun` over `GenerationWorkflow`: checked and proved (section 7).

What would come next: the other seeded workflow; the checkpoint protocol of the chat service; the
leases of the cluster mesh once it has a runtime of several instances.

## 3. JobQueue

### Correspondence

One variable per piece of state: `status`, `attempts`, `retried`
(`data._retry.attempt`) and `stale` (processing, and started longer ago than the
reaper's threshold) are the row; `isProcessing`, `paused`, `cancelAll`,
`controllers`, `hooks` are the fields of `QueueManager` and of the adapter it
shares; `adding`, `loop`, `run`, `cancelling`, `admin`, `reaper` are the program
counters of the async activations under way. `starts`, `overlapped` and `blind`
are history, read by properties only.

An action is the code between two awaits. `Admit`, `Insert`, `Kick` are the three
stretches of `addJob`; `Enter`, `CountProcessing`, `Claim`, `Launch`,
`AskPending`, `Leave`, `Wake` those of `runProcessingLoop`; `ReadStatus`,
`Register`, `ExecReturns` or `ExecThrows`, `Complete`, `Requeue`, `Stop`, `Fail`,
`Finish` those of `runJob`. `CountFails`, `LoopDies`, `TryFails`, `CatchFails`,
`KickLost`, `CancelFails` are the same awaits when the database call throws, and
go where the code's catch and finally blocks go. `SweepStart` reads the live ids,
`SweepCeiling`, `SweepChat`, `SweepRequeue` are the three statements of the
reaper. `Crash` keeps the rows and forgets the memory; `Boot` is the boot sweep,
which runs with no live ids before requests are served.

`CancelAllStart` and `CancelAllEnd` are the two ends of a cancel-all. A purge pauses
(`PurgeStart`), imports a module, cancels all (`PurgeCancels`), and after the drain
either reads the rows of its filter and deletes them one by one (`PurgeRead`,
`PurgeRow`), or for "all" fails the rows that wait or run and deletes the lot
(`PurgeFail`, `PurgeAll`); `PurgeFails` is any of these statements throwing, `PurgeEnd`
the finally block. `Targets` are the rows of every workspace (purge-global) and of one
(purge); the single DELETE of purge-global with a filter is the read and the deletes
with nothing between them. `MineSelect`, `MineUpdate`, `MineAbort` are the cancel of
purge-mine, `MineFail` and `MineDelete` its own statements; it has no finally block,
and a statement of it that throws leaves the rows as they are.

What is abstracted:

- the executor of a job is one step from `exec` to its result; its error is one
  of "transient", "aborted", "fatal", which is what the catch block distinguishes;
- job types: one per queue class;
- the claim takes any set of rows of the class of the right size (the code takes
  the oldest; no property depends on it). `NoStarvation` is therefore checked
  for every order;
- a row becomes stale only while its executor runs or when nothing holds it, and
  not in the middle of a sweep: the other steps are single database round trips,
  the threshold is half an hour. Without that assumption a launched but not yet
  registered runner could be reaped;
- the retry route of a failed job is an `addJob` of another job;
- the rejection that escapes `runProcessingLoop` when a runner rejects and the
  loop is not waiting on it ends the process (no handler is installed): that is a
  `Crash`;
- `processJobsForWorkspace` has no caller and is not modelled;
- the two reads of the flag around the dynamic import in `processJobs` are two
  steps (`ProcessJobs`, `Enter`): in a bundled build the import resolves in a few
  microtasks, in a development run it is a real wait. Two loops need two kicks
  within it.

### Runs

| run | instance | shows |
| --- | --- | --- |
| `JobQueueCrash` | chat and generation job, 1 loop, 2 runners, 1 request, 1 crash | `ExclusiveExecution`, `ExecutionBudget`, `NoResurrection`, `Lifecycle`, `OwnershipInv`, types |
| `JobQueueLoops` | 2 jobs, 2 loops, fault, request | `LimitKept`, `ProcessingFlag` |
| `JobQueueAdmin` | a job without and a job with a retry in one class, 2 runners, cancel-all, purge with every filter and target, purge-mine | `ExecutionBudget`, `NoResurrection` |
| `JobQueueRecovery` | fairness, two jobs for one slot, a fault, a crash | `StrandedRecovered`, `NoStarvation` |
| `JobQueueAdmission` | a cancel-all and a workflow start | violates `AdmissionRestored` |

Two jobs are enough for a slot to be contended, and to tell a keyed update from
a bulk one; two loops and two runners are the least that overlap. One crash, one
fault and one request each reach every path out of every handler, and the
requests of an instance are any of pause, resume, cancel, delete and workflow
start. Bounds on requests, faults and crashes are the constants `MaxRequests`,
`MaxFaults`, `MaxCrashes`. `JobQueueRecovery` has no redeliveries, so there the
reaper fails what it finds: with one redelivery the liveness check passes but
takes more than five minutes. The requeueing reaper runs in `JobQueueCrash`. Deadlock is not checked: with no job left the server
is idle, and the model stops. Each property of each module is broken by a mutant
of the code listed in `PROJECT.json` (a reaper that ignores the live ids, a
finally block that forgets the controller, ...).

`JobLife` is what a reader of a job's row may rely on, for a job without
executor-level retries: it is executed one at a time and within its budget; its
row ends "completed" only if an execution of it has begun, or if it is a chat, which
a cancel completes; from an end it can only go to another end or be deleted, and
from deleted nowhere. `Lifecycle` instantiates it: pending and processing are both
"open", the executions are the runners inside their executor and the history
`starts`. One statement may record the outcomes of several jobs (the sweeps, the
purges), and a crash ends every execution at once. Neither cancel nor delete ends
an execution, so that `Begin` and `Record` are independent in `JobLife` as well: an
executor can start after the row was failed, and its "completed" is recorded over
that. A job with retries does go back from "failed" to "open" (a requeue decided
before a cancel), and is left out.

`JobQueueAdmission`: a workflow start replaces the hooks under a draining
cancel-all, whose `setCancelAllInProgress?.(false)` then does nothing; `addJob`
refuses every job until the next restart or cancel-all, although a comment says
that an admin action never leaves the queue paused.

The properties that hold are worded around more behaviours of the code, which
the model has:

- a retried job is claimed again before the finally block of its first runner
  deletes the controller by job id (`queue-manager.ts:1026`); the second runner is
  then not in the live ids, and a sweep can requeue a job that is executing.
  `ExclusiveExecution` therefore speaks of a job until its first executor-level
  retry;
- nothing starts a loop for rows that are pending after a restart, nor for a job
  inserted while the loop was leaving, until the next `addJob` or resume.
  `NoStarvation` therefore speaks of the time while a loop is alive;
- a runner overwrites the "failed" of a cancel with "completed", and a cancel the
  "completed" of a runner, so `NoResurrection` speaks of leaving the two end
  states, not of changing between them;
- a failed count query answers 0 and lets a class be filled beyond its limit
  (`blind` in `LimitKept`);
- a cancel-all does not abort a runner that has not registered its controller.

### Fairness

`Fairness` is what the event loop, the timers and Postgres owe: an await returns
(weak fairness of each activation), an executor ends, the periodic sweep runs
(an interval timer), a process that died is started again, and time passes
(`Age`, strongly fair because a sweep under way disables it again and again).
Requests, faults and crashes owe nothing.

### Proofs

`JobQueueProofs` proves `TypeCorrect`: `Spec => []TypeOK`, one lemma per action.

`JobQueueOwnership` proves `OwnershipCorrect`: `Spec => []OwnershipInv`, and from
it `ExclusiveCorrect` and `NoResurrectionCorrect`. `ExclusiveExecution` is not
inductive: it says nothing of a runner that has read "processing" and not yet
registered, of a row claimed and not yet launched, of a sweep whose list of live
ids is old. `OwnershipInv` adds, for each job not yet retried (`Once`): it belongs to at most one loop's `todo` or one runner (`OneOwner`); a
pending, absent or unclaimed row has no owner (`UnclaimedIsFree`); the registered
controller of a job is its runner, and an executing runner is registered
(`ControllerOwned`, `ExecutorRegistered`); a stale row is an orphan, or has a
registered runner that is in the live ids of a sweep under way (`StaleIsLive`,
`StaleIsProcessing`); a runner that skips has seen an end state (`SkipIsEnded`);
only a job with retries is requeued (`RequeuerMayRetry`); and a dead process holds
nothing (`DownIsEmpty`). The proof separates the calm steps, which leave rows,
loops and owners alone, from claim, launch, register, finish, the sweeps, crash
and boot, each with a lemma.

They hold for any finite set of jobs, any loops, runners and admin requests, any
limits and budgets; the assumptions are the named ones of `JobQueue` (chat jobs
have no executor-level retries: only workflow dispatch asks for them).

`JobQueueLoopProofs` proves `ProcessingFlagCorrect` and `LimitKeptCorrect`. The first
rests on `FlagInv`: until two loops overlap at most one is active, and the flag
says so. The second adds `ConcurrencyLimit` itself and `SlotsFit`: the slots a loop
has computed still fit, because only a claim makes a row "processing" and until an
overlap no other loop claims. Both count rows of a class, hence cardinalities of
finite sets.

`JobQueueBudget` proves `ExecutionBudgetCorrect` from `BudgetInv`. `Spent` bounds the
starts of a job by what it has used up: `attempts`, which the sweeps raise, and
`retried`, which a requeue raises; `RedeliveriesKept` and `RetriesKept` bound these
two. An execution is paid for before the next begins (`Paid`) because a job with
at most one retry has at most one *open claim*, a place in a loop's `todo` or a
runner before its executor (`OneClaim`), and none while its row is pending or
stale; `OwnershipInv` gives this before the first retry, and after it the last
retry has been used. With two retries or more this argument fails, and so
does the property: the sweep can requeue a job whose retried runner it cannot see.

It also proves `LifecycleCorrect`, the refinement of `JobLife`, from `OwnershipInv`,
`ExecutionBudget` and one more invariant, `Ran`: a runner on its way to write
"completed" has begun an execution. `RunKinds` sorts the steps: a runner registers
(`RegisterLives`: an execution begins, alone by `OneOwner`, of a row that exists by
`UnclaimedIsFree`, within the budget), leaves its executor (`LeavesLives`), all of them
die with a crash, or the executors stay as they are. In the last case only rows
change: `StatusMoves` lists how the row of a job without retries moves,
`CompletedBy` who writes "completed", and `OutcomeMoves` puts the two together.

Only model-checked: liveness.

## 4. Outbox

### Correspondence

`status`, `seq`, `attempts`, `stale` are the columns (a row is invisible, "absent",
until its transaction commits); `writer` and `lock` the transactions that append
and the advisory lock of each aggregate; `pc`, `blocked`, `claimed`, `current` the
local state of each sweep: the attempts of a claimed row are those the claim
returned, and are compared with the ceiling even when the column has changed
since. `tries` is history.

Each statement of the sweep is an action: `FailSpent` and `Reclaim` (stale
claims), `ReadBlocked`, `Claim`, then per row `Release`, `GiveUp`, or a publish
(`Publish`, also when the NOTIFY fails and the bus swallows it; `PublishThrows`
when the connection does) followed by `MarkDispatched` or by the catch block
(`Caught`). `SweepDies` is a crash of the replica or an error outside the try
block. Rows are handled in any order, as `RETURNING` promises none. `Age` lets a
claim grow older than `staleMinutes`, also while its sweep lives: a publish waits
for a pooled connection without a timeout.

Left out: `start` and `stop` (the LISTEN client and the timer handle; the model
starts a sweep whenever one is free, which covers notification, timer and boot),
the hash of the advisory lock (a collision only serializes more), envelopes.

### Runs

| run | instance | shows |
| --- | --- | --- |
| `OutboxOverlap` | 2 events of an aggregate, 2 sweeps, 2 attempts, 2 faults, a death, fairness | `SeqsAreDense`, `DeliveryBudget`, `BoundedDelivery`, `FailureBlocks`, `EventsSettle`, types |

Two sweeps can hold a claim of the same row, which is what the budget is about;
two attempts let a row be retried before the ceiling; a second fault lets a
publish fail at the ceiling. `MaxAttempts` is 3 and the batch 50 in production. A
second aggregate meets the first only in the room of a batch (below), and is left
out; with it the instance is beyond TLC. Deadlock is checked: the timer starts
sweeps for ever.

With overlapping sweeps the code does let an event be published behind a failed one
of its aggregate, since a sweep reads the set of blocked aggregates before it
claims, and another may fail a row in between or later. `FailureBlocks` says that this
is the only way: the history `late` keeps, for each failed row, the sweeps that
had read before it failed (but for the one that failed it, which adds the aggregate
to its own set), and nobody else publishes behind it.

`DeliveryBudget` is worth its run because `attempts` is not a count of publishes:
a reclaim adds one, a release subtracts one by id alone from whatever the column
holds by then, and the ceiling is tested on the value a claim returned.

`EventLog` is the promise to a reader: the events of an aggregate form a log that
only grows at its end, only an event of the log is delivered, at most
`MaxDeliveries` times, and none is recorded as sent before it was delivered.
`BoundedDelivery` instantiates it: the log of an aggregate is its committed rows in
the order of `seq`, a delivery is a call of the bus, and "pending" and "processing"
are both open. It allows what is recorded to be taken back, since a sweep whose
claim has gone stale does that (below).

Behaviours of the code that its comments describe otherwise, and that the model
has as the code does: the bus swallows the error of a NOTIFY and the row is marked
dispatched (`event-bus.ts:47`), so "dispatched" means handed to the bus; no
advisory lock is taken on a row, so an event can be published twice and a
dispatched row can return to pending by the hand of a sweep whose claim had gone
stale; a processing row does not hold back the later ones of its aggregate; and
pending rows of blocked aggregates fill the batch (`outbox-dispatcher.ts:216`): when
there are more of them than a batch holds, the other aggregates are not served. No
property promises otherwise, and `EventsSettle` is checked where a batch has room
for every row. The header of `event-bus.ts` (lines 11-12) speaks of a NOTIFY after the row
is marked; the dispatcher publishes first and marks behind it.

Fairness: the timer starts sweeps, statements return, time passes.

### Proofs

`OutboxProofs`, for any finite sets of events and sweeps, any aggregates and
bounds. Neither property is inductive:

- `SeqsAreDenseCorrect` rests on `WriterInv`: between its read of `MAX(seq)` and its
  commit a transaction holds the lock of its aggregate, so that the number it read
  is still the number of committed rows;
- `DeliveryBudgetCorrect` rests on `BudgetInv`. Call a claim *out* when its sweep
  holds it and has not published it. Then the publishes of an event and its claims
  out never exceed its `attempts` column, and the publishes and those claims out
  that are not over the ceiling never exceed `MaxAttempts`. The second needs the
  first: a new claim is numbered `attempts + 1`, so it is within the ceiling only
  when there was room. A release subtracts one attempt and takes one claim away;
- `TypeCorrect` is more than types here: the release leaves `attempts >= 0` because
  the claim it gives back is out;
- `FailureBlocksCorrect`, for any number of sweeps: from its read on, the blocked set
  of a sweep names the aggregate of every failed row for which it is not late; a row
  that fails makes late all that have read by then, but for the sweep that fails it,
  which adds the aggregate to its own set; and a sweep that reads is late no more.

`EventsSettle` is only model-checked (liveness).

## 5. LlmBudget

### Correspondence

`spent`, `reserved`, `resetDue` are `control.budgets`; `hold`, `marked`, `expired` the row
of `control.budget_holds` (status, `dispatch_started_at`, `deadline_at` past); `row` the
ledger row under the request's idempotency key; `disabled` the evaluator state of
decision calls. `pc`, `used`, `bill`, `sent`, `unsure` are the request in its process.
`called`, `exceeded`, `epoch`, `chargedIn`, `correctedIn` are history.

A transaction of the code locks the hold and the buckets it touches
(`FOR UPDATE`) and is one action: `Admit` or `Refuse` (with the reset of due
buckets), `Mark`, `Release`, `SettleRoute`, `SettleDecision`, `ReapRelease`,
`ReapCharge`, and for decisions `DecisionMark`, `DecisionRelease`. Between them, the
flow of a routed request: attempts in turn (`SkipAttempt`, `Mark`, `Answer`), then
`Conclude` to a settlement or a release. A fault either rolls a transaction back or
loses its answer after the commit: `Mark` can be written and still be reported as
refused. `Crash` ends any set of requests; their holds stay for the reaper.

`LlmPricing` is the arithmetic: rounding up per million tokens, the dearer of
output and reasoning rate, the margin on an estimated input, the minimum charge,
the maximum over the candidates, times the attempts.

Abstracted: prices of images, tools and native units (more terms of the same
sum); the deadline and the clock (`expired` may become true at any time);
the ledger state "estimated" is merged with "none"; `reconciled` is only set by
the settlement behind the reaper's row. Left out: admission's configuration
refusals (no strategy, no pricing, no bucket), output-priced and call-rate
decisions, uncapped buckets (they refuse nothing), a foreign row under the same
key, the limit of 100 holds of a reaper sweep and `SKIP LOCKED` (they delay a hold),
alerts and reports.

### Runs

| run | instance | shows |
| --- | --- | --- |
| `LlmBudgetRaces` | a routed request of 2 attempts and a decision call, 2 buckets of which one is shared, fault, crash, month end, observer row | `ReservedIsOpen`, `SpentIsLedger`, `CapKept`, `WithinReserve`, `NoFreeCall`, `CorrectedOnce`, `HoldsClose`, `Reservations`, types |
| `LlmBudgetMonth` | three routed requests, a cap of one liability, a month end | violates `MonthlyCapKept` |
| `LlmBudgetCap` | the same instance | `MonthlyCapBound` |

The shared bucket has room for one request and not for both, so that admission is
contended; prices are such that every rounding and the minimum charge bite; a
provider reports usage within the allowance, above it, or none. `CapKept` says a cap
can only be exceeded by what providers reported above their allowance;
`SpentIsLedger` is stated until the first reset of a bucket.

`LlmBudgetMonth`: the correction of a conservative charge (`route-settlement.ts:249`)
moves the difference in the current spend, whichever month the charge was made in.
A refund of the old month lowers the spend of the new one, and admission then lets
the new month over its cap. `MonthlyCapBound` says how far: by no more
than those refunds (and what requests cost above their reserve). It takes three
requests to use up a refund: one to be charged in the old month and corrected in
the new, one that is charged in the new month, and one that is admitted on the
refund. That is the instance of both runs: `LlmBudgetMonth` shows that the excess
happens, `LlmBudgetCap` that it stays within the bound, which is reached there.

The branch of `settleIn` for a reconciled hold that would charge
`total - liability` is never reached: its guard asks for a pending row, and the
reaper leaves one.

Fairness: the reaper sweeps at boot and on an interval (`Reap`), deadlines pass
(`Expire`). Nothing is owed by the requests, which may stop at any step;
`HoldsClose` rests on the reaper alone. Deadlock is not checked: requests end.

### Proofs

`Reservation` is the promise for one request: reserved once; freed only if not
called; otherwise charged once, or estimated at no less than the reserve and
corrected once. `Reservations` instantiates it (account of a hold, what it has
committed, whether it was called).

`LlmBudgetProofs`, for any requests, buckets, caps, quotes, usage reports and bounds:

- `IndCorrect`, `TypeCorrect`: `RequestOK(r)` relates the step of a request, its hold and
  its row, request by request; a step of one request changes nothing of the
  others (`Others`);
- `NoFreeCallCorrect` follows from it: a call is made only behind a mark, a marked hold
  is not freeable, and the reaper charges the whole liability;
- `CorrectedOnceCorrect` and `ReservationsCorrect` (the refinement) from a lemma that
  lists the possible moves of a hold and its row (`StepMoves`): none, reserve, mark,
  observe, free, settle, estimate, correct; each is mapped to a step of
  `Reservation` or a stutter;
- `AllowanceCovered`: for every price and usage within the allowance, the cost of an
  attempt is at most its liability (monotonicity of products, of rounding up, and
  of the maximum). With the invariant `BillOK` (what is billed is at most the
  liability of the dearest candidate for each attempt that was answered) it gives
  `WithinReserveCorrect`. That a dearest candidate exists is shown by a least
  counterexample over the naturals, as induction over sets is not available.

The other four theorems are about sums over the requests of a bucket. The library's
induction over finite sets cannot be used, so the few facts about
`SumFunctionOnSet` that are needed are shown by a least counterexample: of the
subsets on which a claim fails, one of least cardinality (`SmallestSet`). `SumExists`
and `SumUnique` give the recursion that defines the sum, and from it `SumTakes` (one
element more), `SumGrows` (pointwise larger), `SumChanges` (one value replaced),
`SumCovers` (no less than each of its terms).

- `MoneyCorrect`: `MoneyInv` is `ReservedIsOpen`, `SpentIsLedger` and `Capped`. A step
  either pays the buckets of one request the change of its amounts (`Pays`: a
  release, a charge, a correction), or resets due buckets and perhaps admits a
  request that fits (`Resets`), or leaves the money alone. `Pays` never raises
  reserve plus charges but by the excess of a charge over its liability. That the
  reserve is an exact sum shows that the clamp at zero never hides an error of
  it; the spend is exact until a reset, after which a correction may be clamped,
  and `Capped` needs `reserved <= Cap` of its own for that case.
  `ReservedIsOpenCorrect`, `SpentIsLedgerCorrect`, and, with `WithinReserve`,
  `CapKeptCorrect` follow.
- `MonthlyCapBoundCorrect` adds `Booked`: what was charged since the last reset of a
  bucket is in its spend, up to the refunds of earlier months. A charge adds to
  both sides; a correction within the month changes both by the same amount; one
  of an earlier month adds a refund; a reset ends the month of every charge,
  because no charge has been made in a later one.

Only model-checked: `HoldsClose` (liveness).

## 6. ObjectLock

### Correspondence

`row` is the row of one object in `object_locks` (objects do not interact), with its
id, owner, expiry and unlock request; `rows` the last id given; `streams` the in-memory
count of open event streams per user; `op` the handlers under way; `owned` and `asked`
are history: who has owned this row, and who has asked for it.

`acquireLock` is `Acquire`, then `Purge` (the transaction: delete of an expired row,
and the insert that follows it before anybody else can write), or `LookAcquire` and
one of `Refresh`, `Insert`, a conflict; then `Reply`, which reads the lock again and
answers with whatever lock is there. `releaseLock`, `requestUnlock`,
`acceptUnlock` and `forceUnlock` are a read with the decision (`Look`) and a write by
row id (`Remove`, `Request`, `Accept`); a decision that writes nothing leaves no
trace. The time to live of an acquisition or a refresh is the caller's (`ttlMs`, one of
`Ttls` for its user), that of an acceptance the default (`Ttl`). `Disconnect` of the last stream
starts `LookClear` and `Clear`, which ask for the owner, not the row; the read is over
every object that he holds, so that `Clear` may follow although this row was
not the user's when it was read. `Sweep` deletes an expired row, `Restart` ends every handler
and purges the locks, or fails to. Clock comparisons are the code's: an expired
row is deleted when `expires < now` and seen when `expires > now`, so that a row
that expires at this instant is neither.

Left out: notifications (best effort), the presence map (display only), several
API instances and their clock skew, and the mutations the lock guards:
`requireLockOwnershipForMutation` checks the lock and the caller writes later, which
the model says nothing about.

### Run

`ObjectLock`: two editors, an admin, two handlers, locks of one tick (of two for one of the editors), a clock
of two ticks, two rows. Two handlers are the least that interleave, and with two rows one of them can
hold the id of a row that was replaced; a second tick lets a lock expire and its
successor too. `NoTheft`, `TransferToRequester`, `AcquiredIsMine`, types. Deadlock is
not checked: only a restart is possible for ever. There is no liveness to check:
every wait of a user is for another user, or for the clock.

What the code does and the properties allow: the clear after the last stream
deletes the lock of a user who has connected again meanwhile
(`lock-service.ts:349`); an unlock request written between the read and the write of
an accept is lost with the hand-over; a refresh that was read earlier can shorten
an expiry; a former owner of the row, or the one whose acceptance was decided
before, can still release it by its id, hence "one who has owned this very row" in
`NoTheft`; and a caller whose own lock was handed over while it refreshed is
answered with the lock of the new owner, hence the exception in `AcquiredIsMine`.

### Proofs

`ObjectLockProofs`, for any users, admins, handlers, time to live and bounds. The
properties follow from `IInv`: ids are given once, so that a handler that holds the
id of the present row has seen this row (`HandlerOK`): who decided a release or an
accept has owned it or is an admin, the heir of an accept has asked for it, and who
refreshes has owned it. `TypeCorrect`, `AcquiredCorrect`, `NoTheftCorrect`,
`TransferCorrect`. Nothing of this module is left to TLC alone.

## 7. WorkflowRun

### Correspondence

`GenerationWorkflow` is the seeded definition of use-case generation, its tasks, its
transitions in the order of the seed with their conditions as sets of inputs, and
which executor writes which array of the state. `WorkflowRun` takes any such
definition as constants. `result` is the status of each task instance, `run` the
status, state and version of the run, `jobs` the queue rows.

The state of a run is abstracted to the set of instances whose patch it contains,
and the payload of an instance to the state it was resolved from: what the
properties tell apart is whether a patch is there. A worker is the execution of
one job (worker 0 the caller that starts the run); `agenda` is what its loop over
transitions and joins has left to do. Each statement is an action: `MergeRead`,
`MergeWrite`, `MergeConflict` (versioned merge, five attempts in the code), `Join`,
`Joined` (readiness, then the state of the run), `Check`, `Reserve`, `PutNoop`,
`PutJob`, `Enqueue` (`dispatchWorkflowTask`), `Start`, `Publish`, `TakeSnapshot`, `Finish`,
`RetryRow`, `Requeue`, `FailTask`, `FailJob` (`runJob` and its callbacks). `Fails` is an
executor or a statement that throws, and goes where the code's catch goes;
`EnqueueFails` is an `addJob` that throws before its insert or, by its `NOTIFY`,
after it, in which case the row is there and its task marked failed all the same;
`Crash` and `Reap` the death of the process and the reaper.

Left out: cancel-all during a dispatch, `execution_runs.status` (written, never read
by a dispatch), an executor that ends the run itself, the evaluation of
conditions and input bindings, classes of the claim (in `JobQueue`), and the other
seeded workflow, which uses the same kinds of transitions.

### Runs

| run | instance | shows |
| --- | --- | --- |
| `WorkflowBarrier` | the workflow without its organizations and their join; with a matrix: barrier, fan-out of two, two jobs at once; without: fan-out of one and a failure, crash or redelivery anywhere | `CompletedIsMerged`, `JoinSeesAll`, `OneJob`, `RunEnds`, types |
| `WorkflowEarlyJoin` | the whole workflow with automatic organizations | violates `JoinWaits` |

Two parallel tasks are the least that race for a version and for a join; the
barrier over list and matrix and the join over the fan-out are the two kinds of
joins. The instance is smaller than the seed in one more respect: the join over the
organizations has no condition and allows an empty array (`workflows.ts:353-365`), so
that the code evaluates and fires it in runs without automatic organizations as
well; with it, and the tasks behind it, the instance is beyond TLC. The theorems
do not depend on the instance, and hold of the whole seed. Two attempts at a merge let it be lost. `RunEnds` speaks of runs in which
nothing goes wrong (`calm`): it says that of the tasks that complete in parallel,
one finds the join ready, however their merges, publications and snapshots
interleave.

`WorkflowEarlyJoin`: every completion evaluates every join of the definition. The
join over the organizations has no condition, allows an empty array, and reads an
array that is empty until `create_organizations` has run: it is ready as soon as
`usecase_list` completes, and `organization_join` runs before any organization is
created. The specification of the runtime says a join waits for all expected
instances.

Behaviours of the code the model has, and that no property excludes:

- a sibling that starts after a task has failed sets the run back to
  `in_progress` (`dispatch.ts:588-594`), and a worker whose merge comes after the end
  of the run does the same to "completed";
- a crash between the reservation and the enqueue leaves a pending instance
  without a job, which no sweep looks for: the run hangs. `OneJob` and
  `CompletedIsMerged` are checked through such a crash, `RunEnds` is not promised;
- the row of a *failed* instance is not reserved again: two completers that both
  see it enqueue two jobs (hence `broken` in `OneJob`);
- an enqueue that fails marks the new instance failed (or leaves it pending, when
  that write fails too), and the error fails the task that had just completed; an
  enqueue that fails behind its insert leaves a job of an instance marked failed.

Fairness: some worker goes on or the next row is claimed (`Work`), which is what
the event loop owes to the processing loop. Deadlock is not checked: runs end.

### Proofs (`WorkflowRunProofs`)

The four safety invariants are proved for any workflow that meets
`DefinitionAssumption` (targets exist, joins wait for job tasks, a join over an
array has its fan-out), any number of rows, slots, failures and crashes.
`IInv` is the inductive invariant; its parts build on each other:

- `Types` and `Actor`: what the next step of a worker relies on, its row or the
  head of its agenda. An agenda is the result of `FlattenSeq`; that its entries
  are typed is shown by the least counterexample among the prefixes (`CountUp`),
  since no theorem with an operator parameter can be used. Nothing is proved
  about the order of an agenda, and nothing depends on it.
- `MergedInv`: a version that was read and is still current stands for the state
  read with it, hence a merge only adds; whoever is about to publish has its
  patch in. This gives `CompletedIsMerged`.
- `UniqueInv`: an instance that has not failed is either nobody's, or held by the
  one worker that reserved it, or has its one row. This gives `OneJob`.
- `CalmInv`: until something goes wrong, a worker before its merge, and a pending
  row, have a task whose patch is not in the state (by `UniqueInv`), so that each
  merge adds one patch: the version counts them. Needed for the version clause of
  `TypeOK`; the clause on slots follows from how rows move (`RowMoves`).
- `SeenInv` carries what a join waited for (the history `awaited` of its entry in
  the agenda) from the check of its readiness to the dispatch of its target. This
  gives `JoinSeesAll`, for every workflow: the patches a join waited for are in the
  state it dispatches, and that state tells of no other task to wait for, since the
  patches of an array's writers were in the state of the caller. The exception is
  in the property itself: a join that passed on an empty array waited for nothing,
  and may find in the run state an array that its caller did not see. That is what
  `WorkflowEarlyJoin` shows of the join over the organizations.

## 8. What the tools show

TLC explores every interleaving of the instances above. The theorems hold for
every value of the constants under the named assumptions of each module, which TLC
evaluates on its instances. Out of reach of the prover, and left to TLC:
liveness under fairness (`StrandedRecovered`, `NoStarvation`, `EventsSettle`,
`HoldsClose`, `RunEnds`). Every safety property a passing run checks is a theorem.

Three runs find a violation, each of a sentence of the repository that
`PROJECT.json` quotes: `JobQueueAdmission`, `LlmBudgetMonth`, `WorkflowEarlyJoin`.

## 9. Not modelled

The map covers a small share of the repository, and a share of a third is out of
reach of any faithful model: of some 350,000 lines of implementation most are
components of the client, document layout, prompts and tool schemas, adapters of
provider protocols, route handlers over one row, seeds and generated contracts.
They have no state machine for a model checker to explore, or one that a line
of SQL states. What is modelled is where the program's concurrency is: the queue,
the outbox, the run state, the budget and the locks, statement by statement.

Of what remains, these have interleavings of their own:

- the chat service's checkpoints and steering messages: one generation at a time
  per session, resumed from a checkpoint after a restart. Its protocol is spread
  over a 5,000-line orchestration of model calls; only together with these does it
  say something;
- the presence map and the fan-out of events to clients: in memory, display only;
- the session and fence protocol of `packages/cluster-mesh`: contracts whose runtime
  has one instance;
- canvas editing: the merge is the CRDT of a library.
