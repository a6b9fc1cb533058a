# Verification of stripe-mcp

stripe-mcp is an MCP server that lets agents call Stripe. Every mutating tool
goes through one middleware, `executeStripeOperation`
(`src/src/middleware/execute.ts`). It asks a human for approval where the
policy wants it, claims an idempotency key in a SQLite table, calls Stripe,
stores the outcome and writes an audit entry; what the reconciler settles gets none. A reconciler in every server
process later settles executions whose outcome nobody knows. Server processes
may follow one another on the two database files, and overlap as far as the lock
on `approvals.db` lets them (section 6). This directory models that
protocol in TLA+, and the tools around it, checks them with TLC, and proves with
TLAPS, for any number of calls, keys and processes, that the pipeline keeps its
promise and the invariants of every part: pipeline, stores, database worker,
pruning, migrations, purge, tools and risk engine.

Paths below are relative to `src/src/` unless they start with `src/`.

1. [The system](#1-the-system)
2. [The modules](#2-the-modules)
3. [The runs](#3-the-runs)
4. [Time, fairness and failures](#4-time-fairness-and-failures)
5. [The proofs](#5-the-proofs)
6. [What the checks say about the code](#6-what-the-checks-say-about-the-code)
7. [What is not modelled](#7-what-is-not-modelled)
8. [Plan](#8-plan)

## 1. The system

| Component | State it keeps | Operations | Talks to | Hard because | Correct when |
|---|---|---|---|---|---|
| Middleware pipeline (`middleware/execute.ts`) | one call: its step, the token it may use | the steps of a mutating call | both stores, risk engine, Stripe, audit log | many awaits, each a place where other calls, humans, the clock, a crash or a database failure come in | nothing gated happens without its own human decision; a key is executed by one call; an answer is true |
| Approval store (`approval/store.worker.ts`) | table `approvals` of approvals.db | create, get, approve, reject, consume, expire | HTTP server, pipeline, execution store | tokens expire between being checked and being consumed | a token is spent once, on exactly the request it was granted for |
| Execution store (`execution/store.worker.ts`) | table `executions` of approvals.db | begin, update status, record attempt, sweep, find | pipeline, reconciler | the lookup of a key is outside the transaction that inserts it | one row per key; token and row commit together; rows are never reopened |
| Reconciler (`reconciliation/*.ts`) | the cycle's list of rows | sweep, find, cancel, retry, replay, settle | execution store, Stripe | acts on rows read earlier, races the slow call and reconcilers of other processes | only claims are replayed; a completion is real; unknown outcomes end |
| Approval HTTP server (`approval/server.ts`) | its listener | show, approve, reject | approval store | humans act at any time | a decision reaches only a pending, unexpired token |
| Risk engine (`risk/engine.ts`) | two LRU caches | score a call | audit log, Stripe | stale caches, unlocked velocity counts, failing lookups | fails closed; facts are recent; velocity limits hold for calls that do not overlap |
| Audit log (`audit/log*.ts`) | table `audit_log` of audit.db, fallback file | append, query | pipeline, risk engine | an entry may be lost, and the reconciler writes none | what is logged as a success is one |
| Pruning (`audit/prune.worker.ts`, `audit/scheduler.ts`) | the statement of the cycle | export and delete old audit entries, approvals and executions | all three tables | export and delete are separate steps, processes overlap | nothing live is deleted, nothing is deleted unarchived |
| Database worker (`worker/db/*.ts`) | pending requests, one worker thread | send, cancel, time out, restart, shut down | every store | the caller's timeout does not undo the operation | operations apply in order, at most once; an answer of success is true, an error means no later effect |
| Migrations (`utils/db.ts`) | `PRAGMA user_version`, the schemas | create, steps 1 to 8 | all of approvals.db | some steps are not transactional, processes start together, a server keeps the file locked until it exits | who comes up has the current schema; tokens keep their meaning |
| Tool handlers (`tools/*.ts`, schemas of `types.ts`, `utils/stripe-amounts.ts`) | none | resolve an amount, call the middleware with a capability and a Stripe request | pipeline, Stripe | the amount decides about approval before the request goes out; the reconciler builds the request a second time in other code | what passes without a human is small; a token is accepted and binds what happens; the replay is the request |
| Purge (`purge_expired_customers` in `tools/customers.ts`, `utils/stripe-throttle.ts`, `utils/idempotency.ts`) | the list of its search, the shared index, what it deleted and what failed | search, delete one by one | pipeline, Stripe | several workers, lost answers, customers deleted or restored by others meanwhile, crashes | every customer found is handled once; the report is exact; it returns |
| Request hash (`utils/hash.ts`) | none | canonicalise and hash parameters | approval and execution store | arrays are sorted, depth limit | a token opens nothing that moves another amount |
| Errors (`utils/errors.ts`) | none | classify Stripe errors | pipeline, reconciler | which errors prove that nothing happened | the split decides control in `Pipeline` |
| Bootstrap, configuration, Stripe client, logging | start-up only | wiring, parsing | all | - | not modelled |

How they interact: the pipeline and the reconciler reach both tables only
through the database worker (messages to one thread per process, with a
timer); the tables are shared by all processes, so in the models steps of different
processes interleave between any two transactions (more than the lock of SQLite
lets them); humans act on the approvals table
through HTTP; Stripe keeps one result per idempotency key.

The hazards of this code, each at its line and with the properties that would
notice it going wrong, are listed in `PROJECT.json`.

## 2. The modules

```
ApprovalStore  <-  ExecutionStore  <-  Pipeline  - - refines - ->  OnceOnly
                        ^    \             |          PipelineProofs
                 StoreProofs  StoreSpec <--+  (the pipeline uses the store
                                               as its general client may)
DbWorker   - - refines - ->  DbCalls          DbWorkerProofs
Pruning                                       PruningProofs
Migrations                                    MigrationsProofs
Purge                                         PurgeProofs
Tools                                         ToolsProofs
RiskEngine                                    RiskProofs
MCPipeline, MCRiskEngine, MCTools             (symmetry and constants for TLC)
```

| Module | Code | Its state and actions in the code |
|---|---|---|
| `ApprovalStore` | `approval/store.worker.ts` | `approvals[t]` is the row of the token that call `t` minted. `CreateApproval`, `GetApproval`, `ExpireStaleApprovals`, `ApproveToken`, `RejectToken` are the operations; `ConsumeResult`, `RefusedRows` and `ConsumedRows` are `consumeApprovalInTransaction`: verdict, and the rows of a refusal and of a consumption. |
| `ExecutionStore` | `execution/store.worker.ts` | `executions[c]` is the row that call `c` inserted; `begun[c]` is a call between the SELECT and the transaction of `beginExecution`. `BeginLookup` is the SELECT; `BeginRefused`, `BeginDuplicate`, `BeginCommit`, `BeginAborted` are the four ends of the transaction; then `UpdateExecutionStatus`, `RecordReconcileAttempt`, `SweepStaleExecutions`, `FindUnknownOutcomes`. `StoreSpec` lets any client call anything at any time. |
| `Pipeline` | `middleware/execute.ts`, `reconciliation/worker.ts`, `replay.ts`, `scheduler.ts`, `approval/server.ts`, the terminal errors of `utils/errors.ts` | `pc[c]` names the await at which call `c` is; each action runs from one await to the next. `rec[r]` is the cycle of reconciler `r` with the rows it read. `mode` is the mode of the server to which a call or a reconciler belongs, fixed when that starts, and live, dry-run and read-only ones meet on one database. `stripe[k]` is what took effect at Stripe under key `k`, `sent[k]` what was sent. |
| `OnceOnly` | - | The abstract promise: offers (tokens), claims (rows), effects (Stripe). A key is claimed once; a gated request is claimed by spending an offer granted for it; Stripe performs only claims, each once. |
| `DbWorker` | `worker/db/db.client.ts`, `db.worker.ts` | `pending` is `pendingRequests`, `outcome` what each promise came to, `inbox` and `replies` the two message channels, `cancelled` the worker's `cancelledOps`, `shutdown` the stage of `shutdownDbWorker`. |
| `DbCalls` | - | What stores may rely on: operations take effect in the order of their calls, each at most once; resolved means applied; rejected means that it will not be applied any more, and never was if the operation is one statement or transaction (`Atomic`; approve and reject are not, they write and then read); lost means anything. |
| `Pruning` | `audit/prune.worker.ts`, `audit/scheduler.ts` | `cycle[p]` is the statement at which process `p` is and the ids it selected; `status` and `mark` of a row are what the SELECT looks at; `archived` is the set of rows in the archive. Tables up to `sound` no longer fail; `Mend` raises it, or never does. |
| `Migrations` | `utils/db.ts` | `db` is user_version, tables, added columns and the two indexes; `opener[p]` is the statement that process `p` has reached; `lock` is the process that has the file locked, from `Open` to its end (`Fail`, `Crash`, `Exit`): a connection in WAL mode stays locked, shared at least, after it goes back to `locking_mode = NORMAL`, and the next one asks for the exclusive lock. Once `calm`, processes do not die in migrations. |
| `RiskEngine` | `risk/engine.ts`, `audit/log.worker.ts` (`countRecentOperations`) | `calls[c]` is one score with what it has gathered, `cache` the two LRU caches, least recently used first. |
| `Purge` | `purgeExpiredCustomers`, `forEachStripeWrite`, `deriveIdempotencyKey` | `purge[p]` is the local state of one call: what its search has not seen yet, `found` (`expiredIds`), `index`, and per customer how often it is in `deleted` and `errors`; `worker[p]` are the loops of `forEachStripeWrite`. `tomb[c]` is the key under which a customer was deleted at Stripe. `Take` is `const current = index++`, `Request` one DELETE with the repeats of the Stripe client. |
| `Tools` | the mutating tools, their schemas, `utils/stripe-amounts.ts`, `utils/hash.ts`, `dispatchReplay` | One action per tool: it picks parameters that pass the schema and an object that the lookup may find, resolves the amount and calls `Execute` (the gate of the middleware) with its capability and the Stripe request. `approval` is the row of the token the client holds, `sent` what went out under the key, `effect` what Stripe did and on which object, `config` the three thresholds. |

`Pipeline` and `Tools` cut the same calls in two directions. `Pipeline` has all
the steps, processes, crashes and races of one call, and of the tool only
whether its body is gated; `Tools` has every field and amount of every tool,
and of the middleware only the decisions that look at them. In `Tools` a
refusal changes nothing and is therefore no step, and the rejection and the
expiry of tokens, which only take possibilities away, are left to `Pipeline`.

Naming rows by the call that makes them stands for the random UUIDs of the
code. A request hash is the record of what it is computed from (key, and a body
that stands for tool, operation and canonical parameters), so it is assumed
injective and nothing else is. What the canonical form itself merges (arrays in
another order) is in `Tools`.

### Why a database failure in Pipeline is one step

In the code an operation may be applied after its caller has seen a timeout:
the worker thread reads it from its queue later. `Pipeline` lets the caller see
the failure in the same step in which the operation is, or is not, applied.
Nothing is lost by this: a process sends its operations through one queue in
order (`DbCalls`, which `DbWorker` is proved to implement), so everything the
process itself does to the database after the failure comes after the late
operation; and the other processes only see the tables, to which an operation
that lands late and a failure that is reported late look the same. What the
process does outside the database in between, it does after an exception has
left the middleware (answer `thrown`) or to record the outcome of a request
that was already made.

## 3. The runs

| Run | Question | Result |
|---|---|---|
| `gate` | Does anything gated happen without a decision for exactly that request; do two calls execute one key; does one token buy two rows, or none; is it good for longer or shorter than its life; does a call to a server that is not live leave anything behind, next to live ones? | No. |
| `promise` | Does the whole of it, with a failure anywhere, do only what `OnceOnly` and the store's general client allow, is every reported success real, and is a claim never given back? | Yes. |
| `live` | Do unknown outcomes and stale executions end, with two reconcilers and for purges? | Yes. |
| `worker` | Does the database worker keep `DbCalls`; does a shutdown lose an answer? | It does; no. |
| `prune` | Can pruning delete what is live or not archived; how far does it get when statements fail? | No; to every table that works in the end and has none before it that does not. |
| `migrations` | From every version, with crashes at any statement in any number: can a server come up on a wrong schema, can a token change its meaning, does a server come up in the end, and again after each has exited? | No; no; yes, unless the database is stranded. |
| `risk` | May a score rest on old facts, let a failed lookup through, or miss a velocity limit? | No; no; only for calls that overlap. |
| `purge` | Does a purge leave a customer out or take one twice; is its report exact; does it return whatever its requests come to? | No; yes; yes. |
| `tools` | Can anything large happen without a human; can a call with a token be sent for another; does a token open anything that moves another amount; does the reconciler send another request? | Not unless the object changes after the lookup; only at a threshold of 0; no; only for `archive_customer`. |
| `audited` | "Every executed operation is durably logged" (`src/README.md:25`) | Violated: section 6. |
| `replay_original` | "re-issuing the original Stripe mutation" (`reconciliation/replay.ts:4`) | Violated: section 6. |
| `inert` | "MODE: DRY-RUN (Mutations simulated, no API calls)", "MODE: READ-ONLY (Mutations completely blocked)" (`index.ts:463`, `465`) | Violated: section 6. |

### Bounds

* **gate**: three calls on one key, each to a server of any mode, two bodies of
  one tool of which one is always gated, no reconciler. Three calls are what it takes for
  one to mint a token, one to spend it and one to race or reuse it; two bodies
  of one tool are what it takes for a token to pass the tool check of
  `getApproval` and be for other parameters. One key is enough because nothing
  but the spending of a token relates two keys, and a token of another request
  is already there with the other body. The invariants of the tables (`UniqueKey`,
  `RowTokenConsumed`, `ConsumedTokenBoughtOneRow`) are checked here, on what the
  pipeline does, and proved in `StoreProofs` for what any client may do. The
  invariants of the pipeline itself are proved for any number of calls, keys,
  bodies, reconcilers and faults (`PipelineProofs`).
* **promise** and **live** split what is too large together: two calls with one
  reconciler (races between calls, sweep, replay and approval), and one call
  with two reconcilers (whose lists of rows grow old), each with one fault
  (`MaxFaults`: a database failure, a lost audit entry or a dead reconciler)
  anywhere; a crash of a call is not counted as a fault. The maximum age is one
  tick, the stale time 0, which means "past at the second look": between them a
  call that is still waiting for Stripe is swept and replayed. In `live` the retry
  interval is one tick too, and one body is a purge, which only the maximum age
  can end. That several reconcilers keep the promise is not in a run, but proved,
  for any number and all values of these constants; that a claim is never given
  back follows for them from the store's theorem.
* **inert**: one call, one reconciler, all modes.
* **worker**: four operations, two of them atomic, and one death of the thread: enough for one
  operation running, one queued, one sent after a timeout and one after a
  restart; the theorems hold for any number.
* **prune**: two audit rows with a chunk of one, a token and an execution, two
  processes, one tick, and retentions of 0, so that what was written before the
  tick is old after it. Failures and crashes are not bounded. The margin between
  a late status write and the retention (`CallTicks <= ExecutionRetention`) is
  here 0 to 0, its tightest; the theorems hold for any.
* **migrations**: two processes, one token, two executions over two keys; crashes,
  failures and exits are not bounded. Tokens do not interact; two executions are
  what a clash takes; two processes, one to hit what the other left half done.
* **risk**: two calls, two customers, caches of one entry (so that one customer
  evicts the other), windows of one and two ticks with limits of one, a time to
  live and a latency of one tick, four ticks. Thresholds are the defaults (70,
  40) and `BasePoints` are 0 and 45, between which the velocity factors, the
  facts and the failure points make the difference. The theorems of `RiskProofs`
  hold for any number of calls and customers, any capacity, window and limit.
* **purge**: three customers, one purge with two workers and one repeat of a
  request, while anyone may delete, restore or archive any customer at any time.
  Three customers are what it takes for one worker to take a second one while
  the other is at work. A second purge differs from `DeleteElsewhere` only in its
  key; the theorems hold for any number of purges, workers, customers and
  repeats.
* **tools**: one key, two prices (a cheap one and a metered one), two
  subscription items, item lists of up to two out of eight changes (with and
  without id, quantity, `deleted`), amounts 0 to 3 under two configurations, with
  thresholds of 2, 2 and 3 (below, at and above each threshold) and of 0, 1 and 0. Every tool, with every combination of
  the optional fields that a property tells apart, on every object there may be.
  Calls end with the first that executes, since what follows under the same key
  is refused (`Pipeline`).

Ages and idle times saturate one tick after the last value that any code
compares them with, so time itself is unbounded in `Pipeline` and
`ExecutionStore`. Symmetry is used in runs without liveness properties only,
over calls (and customers).

`CHECK_DEADLOCK FALSE` is set in all configurations because all these systems
may stop: calls are finite in number, and then nothing is left to do.

## 4. Time, fairness and failures

* The **clock** ticks fairly in the `live` run (`WF_vars(Tick)`).
* The **reconciliation timer** of each process is re-armed in a `finally` after
  every cycle (`reconciliation/scheduler.ts`), so `RecWork(r)` is weakly fair.
  Weak fairness of the disjunction suffices: one cycle is a sequence, and
  nobody else disables its next step.
* The **prune timer** is likewise re-armed after every cycle, failed or not
  (`audit/scheduler.ts`), and a cycle that has begun goes on or is given up. In a
  table whose failures have ended (`sound`) it goes on; that failures end is
  assumed of none, so `OldIsPruned` speaks of the tables up to the first that
  fails for ever.
* A server that fails to **start** is started again by whoever supervises it:
  weak fairness of `Start(p)` in `Migrations`. Crashes may end (`CalmDown`) or
  not, and a server that is up may stay up for ever, so what is promised is that
  somebody is up again and again, not that everybody is.
* The **requests of a purge** time out and its pauses are timers, and a search
  has finitely many pages: weak fairness of the steps of the search, of each
  worker and of the return in `Purge`. A crash ends the obligation.
* Nothing is assumed of agents, humans, Stripe or the processes that run calls:
  any of them may stop for ever at any point. Safety properties use no fairness.

Failures: a call's process may die between any two awaits; any database
operation may fail for its caller, applied or not; Stripe may perform a request
and its answer be lost, answer late, or answer with an error that says nothing;
a reconciler may die in its cycle; the answer to a single deletion of a purge
may be lost with or without its effect; a database thread may die inside an
operation; a pruning or migrating process may die at any statement, and an
append to the archive may be cut short.

`Pruning` needs one assumption about the world, part of `PruningAssumption`:
a call that is late with its last status write is so by at most
`CallTicks <= ExecutionRetention`. Calls last seconds to minutes, the retention
is counted in days.

## 5. The proofs

All theorems hold for every value of the constants under the named assumptions
(`ApprovalAssumption`, `ExecutionAssumption`, `DbWorkerAssumption`,
`PruningAssumption`, `MigrationsAssumption`, `PurgeAssumption`,
`ToolsAssumption`, `PipelineAssumption`, `RiskAssumption`); TLC evaluates these
in the runs.

| Module | Theorems | Argument |
|---|---|---|
| `StoreProofs` | `StoreTypeCorrect`, `StoreInvariant`, `KeysAreUnique`, `RowsArePaidFor`, `TokensBuyOnce`, `TokensLiveUntilExpiry`, `ClaimsArePermanent` | `StoreInv` is inductive. That keys are unique needs `BegunHasNoRow` (a call between lookup and transaction has no row); that a row's token is consumed needs `ApprovedWasDecided`; that a consumed token bought exactly one row needs `RowTokenConsumed` in the other direction, so that consuming an approved token cannot hit one that a row already carries. |
| `PipelineProofs` | `PipelineInvariant`, `PipelineTypeCorrect`, `PipelineUsesStore`, `StoreHolds`, `GatedEffectsAreApproved`, `ExecutorsAreAlone`, `ClaimedBeforeSent`, `CompletionsTookEffect`, `SuccessesAreReal`, `RefusalsLeaveNoTrace`, `OnlyLiveServersAct`, `PipelineKeepsPromise` | `PipelineInv` says for each place of `executeStripeOperation` what a call there holds in approvals.db and at Stripe (`BeginInv`, `RowInv`, `AnswerInv`), and for a reconciler what the row it acts on still is (`RecInv`). Every step either leaves the tables alone or is one step of the store's client (`StepUsesStore`). The refinement follows the effects of a step: a commit of `beginExecution` is a claim, a request that reaches Stripe, from a call or a replay, a performance of it or nothing, and everything else moves an offer or stutters. |
| `DbWorkerProofs` | `WorkerInvariant`, `ShutdownDrainsAlways`, `CancellationsAreVain`, `WorkerKeepsContract` | `WorkerInv` says that numbers are given out in order (`Numbered`), that the queue holds operations in their order behind all that ran (`QueueInOrder`), that an answer of success is of an operation that was applied, and an error of an atomic one of an operation that was not (`RepliesTell`), that a cancellation is behind its operation (`CancelledIsPast`), and that whoever waits is queued or answered, or lost it with the thread, and then nothing later was answered before (`WaitingAccounted`, `AnsweredInOrder`). The last two are what a drained shutdown rests on. The refinement maps timeouts and crashes to "lost". |
| `PruningProofs` | `PruningInvariant`, `NoRecordIsLost`, `LiveRowsSurvive` | `TakenIsFinal`: what a cycle selected stays final because its mark is past the last moment a late status write can come; for that `CutoffHolds` carries the cutoff of the second table to the third, which reuses it. |
| `MigrationsProofs` | `MigrationsInvariant`, `OpenedDatabasesAreCurrent`, `TokensMeanTheSame` | `VersionTells` is what a version number promises of schema and rows, `StatementTells` what each statement of an unfinished step may rely on, among it that nobody else holds the lock, which a process that is up keeps (`OpenedIsLeftAlone`). `MigratedTokenMeans` is the lemma about the status mappings of steps 1 to 5. |
| `PurgeProofs` | `PurgeTypeCorrect`, `IndexHandsOutOnce`, `ReportsAreExact` | `PurgeInv` is stated for one purge at a time (`RowOK`), so that a step of one needs no argument about the others (`OneSteps`). The report is exact because every item below the index is held by one worker or counted once (`CountsOK`), because a team is off only when the index is past the end (`StageOK`), and because derived keys tell whose deletion it was (`GravesOK`): a repeat under the same key is answered with the first result, and another call has another key. |
| `ToolsProofs` | `ToolsInvariant`, `WithoutHumansSmall`, `TokensBind`, `ReplaysRepeat`, `TokensAreAccepted` | Every tool makes a `Sound` call: its amount `Covers` what Stripe moves on the object it has seen, the reconciler repeats its request, and a token can bind its parameters. For subscriptions the cover is an invariant of the loop of `updateSubscription` (`Along`): after k items the projection is worth what is left of the old items plus what has come, provided that no item is named twice, and a list that names one twice is none that Stripe takes (`ProjectionIsWorth`). A token binds amounts because lists with the same bag are the same but for a bijection, and a sum does not change under one (`SameBagSameItems`, `SumRenamed`, `SameHashSameEffect`). Each tool picks the fields it sends, each replay omits the fields that name the object. The two agree because the schemas let no third kind of field pass (`SchemasKnow`, `PickIsOmit`). A tool that cannot be granted approval moves no money, so it is asked for it at a threshold of 0 only (`ConsistentAsksAtZero`). |
| `RiskProofs` | `RiskTypeCorrect`, `FactsStayRecent`, `FailuresStayClosed`, `RiskInvariant`, `VelocityIsLimited` | What a call has gathered is as recent as the caches allow, and the caches hold a customer once, stay within their size and keep no entry past its time after it was read (`GoodCall`, `GoodCache`), through a hit that moves an entry, an eviction and a sweep. The velocity limit needs the order of the calls (`OrderInv`): whoever started after another ended has counted it (`PassedQuietly`, `Predecessors`). |

How they fit together: `StoreProofs` is about `StoreSpec`, a client that does
anything in any order. `PipelineUsesStore` proves that the pipeline, the
reconcilers and the approval server together are such a client, so what
`StoreProofs` says of the tables holds of the whole (`StoreHolds`), and the
proofs about the pipeline start from `StoreInv` instead of proving it again.

`PipelineInv` is more than the conjunction of the properties because these are
not inductive: that a success is real needs what a call at the await before its
answer has seen (`AnswerInv`); that a completion is real needs what a reconciler
holds between Stripe's answer and its write, when the row may have been changed
by the slow call or by another reconciler (`RecInv`); that an effect was approved
needs that the row by which it was claimed carries the token of the call
(`RowInv`, `Gated`), and that this row is the only one of its key. A call that is
not live is known by where it may be (`InertCalls`). Every
strengthening was model-checked before it was proved, `PipelineInv` on the
instances of `gate`, `promise` and `live`, and on two calls of two bodies, one
always gated and one replayed differently, in all modes and with two faults;
`RiskInv` on the instance of `risk` and on three calls of one customer. Adding
either to the INVARIANTS of those configurations repeats this.

`VelocityHolds` speaks of how many calls came before a score, so it is about
cardinalities: of the calls that passed without approval and followed one another,
one (`OneIsLast`) began after all the others had logged theirs, and therefore
counted them. That a finite set has such a last member is proved from the
well-founded order of strict inclusion on finite sets, whose minimal elements
the library gives as a fact about a relation. Induction theorems that take an
operator are no use to the installed provers; this way needs none.

The sums of `Tools` are treated the same way. `SumFunction` and `FoldLeft` of the
community modules choose a recursive function on the subsets of a domain; that
there is one (`RecursiveExists`, `SumsExist`, `StagesExist`), that any term may be
taken out of a sum first (`SumRules`), and that the loop over the items keeps its
invariant up to the end are all proved by taking a smallest counterexample. What
`Tools` is proved to compute therefore holds of lists of any length, although
no induction theorem is used. For this `Tools` writes its sums with `SumFunction`,
and `ToolsAssumption` says that amounts and quantities are whole and not negative
(`types.ts`: `int().positive()`, `int().nonnegative()`) and that a subscription has
finitely many items.

Only model-checked: all liveness (`UnknownIsResolved`, `StaleIsSwept`, `OldIsPruned`,
`OpenedUnlessStranded`, `PurgeReturns`). Liveness under fairness and ENABLED are
out of this prover's reach. Every safety property and every refinement of a passing
run has a theorem, but for the two safety conjuncts of `OpenedUnlessStranded`.

## 6. What the checks say about the code

### Statements of the repository that the code does not keep

* **`audited`** - a row is completed before its audit entry is written
  (`middleware/execute.ts:244-256`), and what the reconciler completes gets no
  entry, so an operation may be executed, and known to be, without an audit
  entry.
* **`replay_original`** - the replay of an archive builds its metadata anew
  (`reconciliation/replay.ts:101`), so the same key carries two payloads.
* **`inert`** - the reconciliation loop is started in every mode
  (`index.ts:196`). A dry-run or read-only server that opens a database in which
  a live one left executing or unknown rows sweeps them and replays them to
  Stripe. Calls to such a server are inert (`OnlyLiveCallsAct`), also next to live
  ones and with an approved token.

### Observations that no run checks

* `execution/store.worker.ts:258-259` says that purges must never be flipped to
  `unknown_outcome`. The sweep keeps to it; the catch block of
  `middleware/execute.ts:278` does not: a purge whose operation throws anything
  but a terminal Stripe error is stored as `unknown_outcome`. The reconciler
  then records attempts without replaying, until the maximum age cancels the row.
* A database operation that timed out is applied later all the same
  (`worker/db/db.client.ts:91-95`): the cancellation is queued behind it.
  `CancelledIsPast` proves that this is always so, which means that
  `cancelledOps` never prevents a write, and an entry may stay in the set.
* Rows of purges that die while `executing` have no way out: the sweep excludes
  them (`execution/store.worker.ts:270-272`), so their key stays in flight.
* `updateExecutionStatus` has no condition on what it overwrites (220-227): a
  late call may turn `completed` into `unknown_outcome` or `failed_terminal`.
  `ClaimIsPermanent` promises only that nothing returns to `executing`.
* A retry under a key that failed or was cancelled is answered
  `already_completed` (139-140).
* An authentication error on a replay is taken as terminal
  (`utils/errors.ts:126-133`) though an earlier attempt may have taken effect;
  `failed_terminal` therefore does not imply that nothing happened, and
  `CompletedTookEffect` is an implication in one direction only.
* The comment at `risk/engine.ts:240` says that lookup errors are swallowed and
  never block scoring; the code (258-269) fails closed, which `FailClosed`
  checks.
* Concurrent calls of a customer read the velocity counts before any of them is
  logged; `VelocityHolds` is therefore about calls that do not overlap, and
  nothing bounds how many overlap.
* Keys are unique while their rows are retained; after
  `EXECUTION_RETENTION_DAYS` a key is free again.
* `completed_at` is stamped by the sweep although the row is not final, and the
  retention counts from then.
* Four shapes of database (`Stranded`) make every start fail, for good: a crash
  of the first creation after it made `executions` and before it set the version
  (the next start takes the database for version 1); a crash between the ALTER TABLE statements of step
  7; two executing rows of one key at step 6; two rows of one key at step 8.

* `audit/prune.worker.ts:117-118` says that "a crash between export and delete
  can't duplicate rows on retry". What was exported is not recorded, so a cycle
  that ends between append and DELETE exports the same rows again.
* A failure that recurs in the first table that is pruned ends every cycle before
  the other two, which then grow without bound (`audit/prune.worker.ts:264`); so
  `OldIsPruned` excepts tables behind one that fails for ever.
* `approveToken` and `rejectToken` write, and then read the row back
  (`approval/store.worker.ts:116-128`, `135-147`): when the read throws, the human
  is shown an error although the decision stands.
* While one server is up a second one cannot open the same database: it asks for
  an exclusive lock (`utils/db.ts:117-127`) that the first, in WAL mode, keeps from
  it, and its start gives up after the 15 seconds of `db.client.ts:91-95`, half of
  the busy timeout. The comment at `utils/db.ts:115` calls this locking
  multi-process safe; it is, as far as one server at a time goes.
* Stripe forgets an idempotency key after a day or more, and
  `RECONCILIATION_MAX_AGE_HOURS` has no maximum (`config.ts:180`). With more than
  that time a late replay may be performed a second time. `Pipeline` lets Stripe
  keep its keys, which is right for the default of 24 hours.
* `VelocityHolds` and `FactsAreRecent` say less than one may wish: overlapping
  calls are exempt from the first, and the second is about what the cache holds.

These came up while modelling the tools.

* The configuration allows a threshold of 0 (`config.ts:142-150`). Then a tool
  whose capability takes no tokens (`create_customer`, `update_customer`, a
  product without a price), and whose amount is 0 or undefined, asks for
  approval, and for another one on every retry, although the comment at
  `middleware/execute.ts:335-338` says that such calls skip. `OnlyZeroAsksTwice`
  shows that nothing else asks twice.
* The amount is resolved before the middleware starts
  (`tools/subscriptions.ts:256`, `tools/refunds.ts`, `tools/invoices.ts`), and
  a token binds parameters, not amounts: an object that changes in between moves
  another amount than the one that was judged. `UngatedIsSmall` says that
  nothing else can.
* `update_subscription` with `cancel_at_period_end: true` sends Stripe the same
  request as `cancel_subscription` at period end, and is gated as an update of
  amount 0.
* A subscription with a metered item cannot be cancelled through the tools, and
  its items change only if the metered ones go: the amount lookup fails closed
  on them (`utils/stripe-amounts.ts:69-99`).
* Amounts of all currencies are compared with one threshold in minor units.
* `scripts/test-hash.ts:18-20` calls it a success when two orders of an array
  have different hashes; `tests/approval.test.ts:222-232` expects the same hash,
  and the code sorts arrays. `TokenBindsEffect` shows that the order moves no
  money.
* Archiving a customer that is deleted throws an ordinary error
  (`tools/customers.ts:261`), so the row becomes `unknown_outcome`, and the
  replay completes it. Where both reach Stripe with different metadata, Stripe
  refuses the second under the same key.
* A purge deletes what its search found, also if the customer is restored
  before its turn comes; and a customer listed under `errors` may be deleted
  all the same, when the answer was lost to the end. A purge that dies leaves
  no report.

## 7. What is not modelled

* The reading tools (retrieve, list, balance, audit query), which change
  nothing. In `Tools`: fields that no property tells apart are all absent or all
  present; customer ids and currencies, which feed the risk engine and the
  audit log only; limits of Zod on lengths and formats; the risk score is any
  that the capability lets be computed. In `Purge`: the pages of the search, the
  pause between requests. In `Pipeline` a purge is one request.
* Routing, authentication and the bind lifecycle of the approval server; the
  format of audit entries, of the fallback file and of the archive; queries for
  people; messages of errors; logging; configuration parsing.
  Thresholds and flags are CONSTANTS.
* The stop and restart of the reconciliation scheduler, and the second signal
  during a shutdown of the database worker.
* In `Migrations`: how long SQLite waits for the lock (a waiter that gives up
  has changed nothing and is started again, which is to go on waiting); deployments of mixed versions
  (nobody uses a database before it is opened); audit.db, whose only step is
  idempotent; columns that carry no property. The schema of version 1 is not in
  the repository; its statuses are those that step 1 can copy.
* That one server at a time has approvals.db open, in `Pipeline` and `Pruning`:
  there several may be at work at once, which allows more than the code does, so
  safety holds of the code all the more. The liveness of `live` and `prune` is
  that of each reconciler and of each pruning process by itself.
* The crash and failure of the search of a purge are steps of `Purge`, but
  `PurgeReturns` begins where the search is done.
* In `ExecutionStore`: last_error, worker identity, Stripe object ids.
* In `RiskEngine`: the factors without state (amount, hour, refund parameters,
  account age) are a number chosen per call; audit entries that only reach the
  fallback file are not counted, as in the code.

## 8. Plan

Order of work, the most important behaviour first. Done so far: all but 13.

1. `ApprovalStore`, `ExecutionStore` with their general client (`StoreSpec`),
   `StoreProofs`.
2. `Pipeline` with reconciler, humans, clock, crashes and failures; runs `gate`,
   `promise`, `live` and the three statements that do not hold.
3. `OnceOnly`, the promise, as the abstraction of `Pipeline`.
4. `DbWorker` and `DbCalls`, `DbWorkerProofs`: what entitles `Pipeline` to its
   treatment of failures.
5. `Pruning`, `PruningProofs`.
6. `Migrations`, `MigrationsProofs`.
7. `RiskEngine`.
8. `Purge`, `PurgeProofs`: the purge, its workers and derived keys.
9. `Tools`: every mutating tool from its schema to its replay; amounts and the
   canonical form of parameters.
10. `ToolsProofs`.
11. `PipelineProofs`: the invariants of the pipeline, that it is a client of the
    store, and that it refines `OnceOnly`.
12. `RiskProofs`: the caches, failing closed, and the velocity limits.
13. The life of the timers and listeners of a server (reconciliation and prune
    schedulers, approval server): start, stop while a cycle runs, restart.
14. The sums of `Tools` for lists of any length: `UngatedIsSmall` and
    `TokenBindsEffect`.
