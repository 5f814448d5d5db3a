# A TLA+ development of lotus-performance

lotus-performance computes portfolio performance (returns, contribution,
attribution, money-weighted return, workspace summaries, composites). The
arithmetic is sequential; what is hard is the durable machinery around it. A
request is accepted, queued, leased by a worker that may die or outlive its
lease, published, and its lineage (the evidence behind a number) materialized by
another worker. Clients retry, callers cancel, operators prune. This directory
models that machinery, checks it with TLC on small instances, and proves the
properties that matter most with TLAPS. `PROJECT.json` maps every definition to
the lines it models.

## Inventory

Three long-running processes share one PostgreSQL database; `docker-compose.yml`
starts one replica of each, and nothing in the code enforces that number.

| Component | State | Operations | Hard behaviour |
|---|---|---|---|
| submission fencing (`submission_fencing_service`, `stateful_execution_policy_service`) | none of its own | register execution, start stage, register job, roll back, replay, promote | four transactions per request; retries and duplicates race |
| execution registry (`execution_registry`) | execution row, stage rows | register, replay or conflict, stage transitions, complete, fail, delete | unique keys decide races; terminal failure is a fence |
| compute job store (`compute_job_store`) | job row: status, attempts, owner, lease | register, lease, acquire, renew, complete, fail, retry, cancel, reconcile | owner check on an unlocked row, column-wise write at commit |
| compute executor (`compute_executor_worker`) | batch, current job, acquisition id | one poll: reconcile, follow up, lease, execute, publish | crash between any two transactions; leases of a batch run out |
| async results (`async_result_store`, `async_result_service`) | one result per calculation | record success, record failure, resolve | a late failure after a success; result and job are two records |
| lineage queue (`lineage_metadata_store`, `lineage_service`, `lineage_worker`) | record, payload, artifact files | capture, lease, materialize, retry, fail, inline materialization | files, record, execution and payload are four separate writes |
| source corrections (`source_correction_service`, `source_correction_store`) | one row per correction: state, window, impacts | submit, coalesce, schedule, reconcile, cancel | rows are read, acted upon and overwritten by separate transactions while jobs start |
| operator-action lease (`operator_action_lease_service`) | lock files | create, reclaim if stale, release | read, compare and unlink are three file-system calls |
| runtime retention (`runtime_retention_*`) | evidence files | collect, protect, announce, delete in five phases | deletes beside running workers; phases fail one by one; scheduled and manual cleanups overlap |
| composite facts (`composite_metadata_store`, `composite_materialization`) | materialization ledger, facts, publications | materialize, publish, clear, read | attempts outlive their lease; a read is several statements |
| returns-series source custody | custody columns, archive files | retain, materialize, release | fenced by attempt counts |
| HTTP resilience | none | retry, back off, give up at a deadline | budget arithmetic |
| calculation engine, analytics services, API surface, status projections | none durable | compute, map, report | numeric |

Calls between them: the API registers an execution and then a job; the executor
reads jobs, writes results and execution states and captures lineage (an
execution stays `running` until its lineage is complete); the lineage worker
completes or fails the execution; a workspace summary's lineage is materialized
inline by the executor, which then competes with the lineage worker for the
payload; a client polls results first and the job second. A source correction
registers executions and jobs of its own and cancels them while they are pending;
a composite materialization is a job whose attempts write facts that other
requests read; retention deletes from all of these stores what corrections,
custody and legal holds do not protect.

What makes the parts correct: an accepted calculation is answered exactly once
and the answer stays; a complete job has its result; no success is lost to a
later failure; retries stay within their budget; work is never lost with the
process that held it; one idempotency key is one calculation; a complete
execution has its evidence; a cancelled one is never completed; a correction is
not called recalculated before it is, and loses no affected calculation; what is
published of a composite is whole and stays; what is protected is not pruned.
`PROJECT.json`
lists the hazards at the lines where they bite.

## Modules

| Module | Models |
|---|---|
| `ComputeJobStore` | the job row and what each store operation does to one row |
| `ComputeExecutor` | executors, API, lineage worker and clock over job, result and execution stores |
| `AsyncResultContract` | the abstract specification: what a polling client may see |
| `ExecutorLeases` | the executor with a history of outlived leases, and what it promises of results |
| `MCComputeExecutor` | symmetry for TLC |
| `ComputeExecutorProofs` | type correctness, finality of success and result before completion within a lease, an owner for every active row |
| `SingleExecutorProofs` | for one executor: the retry budget, lineage before a summary's result, the refinement of `AsyncResultContract` |
| `SubmissionFencing`, `MCSubmissionFencing` | concurrent submissions, asynchronous or promoted, with errors, cuts and retries |
| `SubmissionFencingProofs` | what the fencing guarantees, for any number of clients |
| `LineageQueue` | capture, lease, materialization, retry and cancellation of lineage |
| `LineageQueueProofs` | evidence, finality of a cancellation and retry budget of lineage |
| `SourceCorrection`, `MCSourceCorrection` | corrections of one scope beside the executor that runs their recalculations |
| `SourceCorrectionProofs` | what a correction's row says about its recalculations; the chain of revisions |
| `OperatorActionLease` | the lock file of a governed operator action, one file-system call at a time |
| `OperatorActionLeaseProofs` | exclusion and compare-and-delete while no lease is stale |
| `RuntimeRetention` | cleanups of the scheduled worker and of operators, their guards, phases and evidence |
| `RuntimeRetentionProofs` | what cleanups keep, delete and announce, for any number of them |
| `CompositeFacts`, `MCCompositeFacts` | materialization attempts, facts and publications, maintenance and readers |
| `CompositeFactsProofs` | what is published of a composite and what readers get of it, for any number of materializations, workers and windows |

### Abstractions shared by the modules

*Transactions.* A transaction is a step. Where the code takes a row lock or runs
one `UPDATE ... WHERE`, the step reads and writes the current row. Where it loads
with `session.get`, checks and writes at commit, it is two steps, the load and the
flush, and the flush writes only the columns whose value changed (SQLAlchemy's
unit of work): `FlushRow` in `ComputeJobStore`, `FlushPayload` in `LineageQueue`.
`session.get` followed by `session.merge` in `record_failure` is two steps as well,
`RecordFailure` and `MergeFailure`. Where the lineage store takes `SELECT ... FOR
UPDATE` on the record before a load and a flush (`mark_pending`, the capture), the two
steps stand and `RecordLocked` keeps the other writers of the record out between them.
The rows of source corrections are an exception: `update` and `cancel_impacts` read,
change and write in one short transaction without a lock and are one step each.
Writes to the execution registry are unconditional updates of single rows or
guarded by the statement itself, so one step stands for each.

*Time.* A lease is `none`, `live` or `expired`: the code only compares
`lease_expires_at_utc` with now. Any live lease may expire at any step.

*Data.* Requests, results and payloads are model values or a status. Calculators
are reduced to their effect on execution and lineage.

### ComputeExecutor

`pc` is the point in `_process_pending_jobs` where a worker is; `batch`, `recon`,
`cur` and `acq` are its local variables; `txn` is the row it loaded and intends
to write. `Reconcile`, `HandleReconciled`, `RecoverFromResult`, `Lease`,
`Acquire`, `ExecuteSucceeds`/`ExecuteFails`, `CheckOwner`, `RecordSuccess`,
`MarkComplete`, `MarkFailure`, `RecordFailure` and `FailExecution` follow the
functions of the same purpose. Workspace summaries (`SummaryCalc`) renew the
lease, materialize lineage inline and renew again before they publish; composite
jobs (`CompositeCalc`) publish under the lock of their claim, capture their lineage
in later transactions (`CaptureComposite`) and write no failure result. `CancelPending`, `CancelExecution` and `ApiStops` are the cancellation of
a source correction and the API process that does not finish it. The lineage of
a calculation is one status here; `LineageQueue` has its detail.

`ExecutorLeases` adds the variable `outlived`: the jobs whose lease ran out while a
worker had them in its batch or in hand. The properties about the result store are
stated there, for the lease is what keeps the store's writers apart.

### SubmissionFencing

Submitters walk through `register_async_submission_or_raise`: register the
execution (created, replay or conflict), start the stage, register the job,
complete the stage; a replay looks its job up and registers a missing one. A
store operation may raise, before or after it committed (`AnswerLost`); a
submission may be cut off between any two transactions; a client may retry, under
its idempotency key with a new calculation id. A rollback whose delete raises is
a cut at the rollback. A stateful request without a key (`StatefulRequest`) takes
the other lane of the contribution workflow: look for a promoted execution,
register a synchronous one, resolve, and answer in place or promote, where the
job is registered before the execution becomes asynchronous; an exception on the
way fails the execution. The other stateful workflows use the same functions in
the same order.

### LineageQueue

`capture` and `cancel` are the API or executor side
(`complete_execution_with_lineage`, `record_execution_cancellation`), `pc` the
worker side. The poller leases a batch; an inline materializer leases the one
payload of its summary under its own id. `disk` tells artifacts without manifest
from the whole set. `LeaseOverrun` is a lease that expires under a worker still
at work, bounded by `MaxOverruns`; `MaxFaults` bounds crashes and registry errors
that the worker logs and swallows. The custody lane of returns-series sources is
not part of it.

### SourceCorrection

A calculation is the sequence of its retained original and the corrections it was
recalculated for, which is what the uuid5 of a replacement is derived from, so
recalculations of recalculations are in the model. `pc` and `local` are an API
request in `submit_source_correction`, `get_source_correction` or
`cancel_source_correction`; each call of a store is a step, so a row is read in one and
overwritten in a later one. Within `update` and `cancel_impacts` the read and the write
are one step; the `CONFLICT` answers of `register_execution` and `register_job` are left
out, since a correction and an original always give the same payload. `due`
(the affected calculations at admission) and `saw` (the revisions a job found
upstream when it started) are history the properties compare with. The executor
is reduced to starting, completing, failing and requeueing jobs and to ending
executions; its detail is `ComputeExecutor`.

### OperatorActionLease

`lock` is the file at the path, identified by the token its creator will write;
an empty file between `O_EXCL` creation and the write is a lock whose payload
nobody can read. `_release_lock_if_owned` is two steps, the comparison and the
unlink, both for the release and for the reclaim of a stale lock.

### RuntimeRetention

`cpc` and `clean` are a cleanup's progress and locals: cutoff and holds, the four
lists, custody, corrections, then plan or start evidence, the five deletions and
the closing evidence. Each deletion is a transaction (a directory at a time for
artifacts). `composite` are the calculations whose result is a composite original,
which the result phase never selects (`COMPOSITE_PROTECTED_RESULT_TYPES`). The leased
payloads that `source_retention_protection` protects may be any of the source
calculations. Evidence has the ids of its targets; for jobs and results the code stores
their number only, so what is shown of those ids is shown of the lists behind the
numbers. A failing phase writes failure evidence and ends the worker's loop;
a crash writes nothing. The lease of manual cleanups is left out: it does not hold
the scheduled worker back, so cleanups overlap anyway.

### CompositeFacts

A transaction of the store on PostgreSQL is a step, or two where another session
can come between its checks and its commit; which advisory and table locks a
transaction holds follows from its control state. An attempt walks through
`run_materialization_attempt`; the fence before a write is taken with the step
before it, so an attempt that loses its lease right after the fence goes on
writing. The seeding script clears and seeds under the same locks. The reader is
`list_member_return_facts`, statement by statement under Read Committed; with neither
a fact nor a covering publication it answers empty (sequence 0) before it looks at the
ledger. One
composite, view and currency; commands without currency or model-fee bindings.

## Runs

| Run | Instance | What it shows |
|---|---|---|
| `executor_pair` | 2 executors, 2 jobs (one unreadable, one cancellable), 2 attempts, 1 crash | with overlapping workers and unlocked writes an active row names its owner; a completed job has a result, and it is a success that stays unless its lease was outlived by the worker that had it |
| `executor_solo` | 1 executor, a summary and a composite job, batches of 2, 2 attempts, 1 crash | the retry budget, the refinement of `AsyncResultContract`, lineage before a summary's result, and that every accepted job is answered |
| `executor_stale_write` | 2 executors, 1 job | **violated**: a stale worker's commit changes a row that another worker has reclaimed |
| `submission` | 2 submitters, 1 plain and 2 keyed ids, 2 requests and a stateful one, 4 submissions, 1 error, 1 cut | what the fencing guarantees to keyed, plain and promoted clients |
| `submission_orphan` | the same, errors before the commit only | **violated**: a rollback deletes an execution that another request replayed |
| `lineage_poll` | the poller, a cancellable and an unreadable payload, 2 overruns, 2 faults | a cancellation is final for the execution, retries are bounded, queued lineage settles |
| `lineage_inline` | the poller and an inline materializer on one summary captured up to twice | what a complete record and a complete execution say about the files |
| `lineage_fence` | the poller and one cancellable calculation, no faults | **violated**: the record of a cancelled calculation is reopened |
| `corrections` | 2 clients, 3 corrections of 2 originals, 3 requests, 1 fault, one generation of recalculations of recalculations | a completed impact was recalculated after its correction, no affected calculation is lost to coalescing, crash or replay, a cancellation is whole and final, revisions do not fork |
| `operator_lease` | 2 processes, 3 tokens, 1 stale lease | **violated**: a stale owner unlinks the lock of its replacement |
| `retention` | the worker and an operator, 1 calculation, 2 ticks, 1 hold or reference, 1 fault | protected records stay, source records go together, deletions are announced and, but for composite originals, thorough, artifacts are never orphaned |
| `composite` | 1 materialization, 2 workers, 2 members, 2 possible contents, 2 claims, the script, a reader | publications are exact and immutable, the ledger agrees with the facts, latest reads are published and fresh |

*Why the bounds are enough.* Two attempts give a job a first, a last and a
would-be extra one. Two workers are what a race on one row needs, two jobs what a
batch whose later lease runs out needs. Acquisition ids come back into use once no
row or worker refers to them, so two stand for an unbounded supply of uuids per
state. Two submitters with four submissions give a race followed by a retry of
each. One crash separates any two transactions; the following poll is the
recovery. Of the three corrections two overlap and can share recalculations, each
with an original of its own, and the third competes with the second for the same
predecessor revision.
One calculation is enough for retention, whose lists, protections and deletions
treat calculations independently; two ticks give a record on either side of the
cutoff. Two claims are an attempt that has lost its lease and its successor; two
members make a publication that can be incomplete, two contents one that can be
inconsistent; reads and runs of the script are unbounded.

*Properties that are restricted, and why.*
`SuccessResultPreserved` and `CompletedJobHasResult` exempt a job whose lease was
outlived by the worker that had it (`outlived`): the late failure of that worker is
checked before the success of the next holder and merged after it (see Findings).
`CutsKeepRecordsTogether` speaks of histories without store errors, because the
rollback after an error breaks it (`submission_orphan`). `StageSettled` excludes
cuts too: a submission that dies leaves its stage open by design.
`AcceptedRequestIsQueued` holds under errors because neither a keyed nor a
promoted submission is rolled back. `ShieldedStays` and `CleanupIsThorough` speak
of what was protected when the cleanup began: a hold or a correction placed
between collection and deletion is not seen. `LatestReadIsPublished` and
`LatestReadIsFresh` speak of latest reads: a read of an explicit sequence checks
the ledger first and may return part of a materialization registered after that. A latest
read that finds no sequence answers empty over open materializations, so of that answer
they say that it has no facts and that nothing covering was released when it began.
`CleanupIsThorough` leaves out the results of composites, which are kept on purpose.
`CancelledMeansWholeBatch` rests on the row operations of corrections being one step:
a cancellation and a late scheduling of the same correction whose transactions overlap
could combine their columns into a cancelled row that lists a pending job.
`NoImpactLost` exempts superseded corrections and those whose scheduling has not
ended.
`CompleteMeansEvidence` and `PayloadAttemptBudget` speak of payloads with one holder
(`SoleHolder`, `OneHolder`): if a payload
is captured twice or a lease is outlived while two workers compete, the failure
path of the generic lane, which checks no lease, may reopen or fail what the
other worker completed. The budget asks that of every payload, since a worker that
loses one payload of its batch to another drops the whole batch, and the attempts
on the rest of it with that.
`ActiveRowHasOwner` speaks of two executors, or of rows whose success is not stored
yet: recovery from a stored success completes a row without a check of ownership, and
of three executors two may recover the same job while the third acquires it. `LineageSettles` exempts an execution after a fault: a
worker that dies between the completion of the record and that of the execution
leaves the execution running, and nothing repairs it.
`AttemptBudget` and `AnsweredOnce` are checked with one executor; with two, the
stale write of `executor_stale_write` breaks both.

*Fairness.* Executor: weak fairness of each worker's steps (it loops for ever and
is restarted), of lease expiry (time passes) and of the lineage worker; strong
fairness of `Acquire`, since the oldest leased job is acquired immediately after
its lease commits, so a lease cannot lapse unused every time. Lineage: weak
fairness of the poller and of lapsing leases and of the flush or failure of a capture and of an inline reset, since a
transaction that holds the lock of a record ends; overruns are bounded, which says
that materialization is not slower than its lease for ever. Submissions,
captures, cancellations, crashes and inline calls are never forced.

*Deadlock.* Executors poll for ever, so deadlock is checked there, and in
`SubmissionFencing` a `Finished` stutter marks the legitimate end. The lineage
runs switch it off: an empty queue is the normal end. So do the runs of
corrections, leases, retention and composites, whose requests are bounded.

*Symmetry* (workers, acquisition ids, submitters, requests, keyed ids, clients,
contents) is used only where no liveness is checked.

## Findings

1. `executor_stale_write`: `docs/technical/runtime_topology.md` says stale workers
   cannot mutate jobs after another worker reclaims the lease. The ownership check
   and the write are separated by an unlocked load; a reclaim in between is
   overwritten. It takes two executor replicas.
2. `submission_orphan`: `docs/technical/architecture.md` says there is no executor
   work without durable execution metadata. When the creator's `register_job`
   raises it deletes the execution, although a concurrent identical request has
   replayed it and goes on to register the job.
3. `lineage_fence`: the docstring of `record_execution_cancellation` says that it
   durably fences queued lineage. `mark_pending` ignores status and owner, so a
   worker whose write fails after the cancellation reopens the record. The
   execution itself stays failed (`CancelledStaysFailed`).
4. `operator_lease`: `docs/technical/runtime_topology.md` says the release of an
   operator-action lock is compare-and-delete. The payload is read and compared,
   then the path is unlinked; if the lock went stale and was reclaimed and
   re-created in between, the replacement's lock is removed while the replacement
   runs, and the next attempt enters too.

One more disagreement was met and has no run of its own: the same document says that
late failure writes do not overwrite a successful async result. With two executors they
can. `w1`, its lease run out and its job taken by `w2`, has found no result
in `record_failure`; `w2` stores its success and completes the job; the merge of `w1`
writes the failure over it, and the job is complete with a failed result. Without the
exemption of outlived leases TLC reports this against `SuccessResultPreserved` and
`CompletedJobHasResult` on the instance of `executor_pair`.

Reachable in the models and contradicted by no doc, hence no findings: a slow
reconciliation or replay of a correction overwrites the state of a row that was
cancelled meanwhile (`store.update` compares nothing); a cancellation that dies
after `cancel_pending_jobs` leaves executions pending, and a second cancellation
is then refused; a lock file whose creator died before writing it is never
reclaimed; a failed cleanup ends the retention worker's loop; a promotion that
dies after `register_job` refuses the retry of its client although the job runs; a
composite execution whose worker dies between the result and the capture of its lineage
stays open, since the recovery completes the job only;
with three executors a row whose success is stored can end up running without an
owner, which no reconciliation finds (the client has its answer, the row stays).

## Proofs

The theorems hold for any finite or infinite sets of processes, calculations and
requests and for any values of the bounds, from the named `ASSUME`s of the component
modules, which say only that identifiers of different kinds differ, that subsets are
subsets, and that bounds are natural numbers. Four are worth a look:
`MaxAttemptsAssumption` and its like ask for at least one attempt, `BatchSize` for at
least one job, `RetentionAssumption` for a positive retention window, which
`app/core/config.py` enforces, and the assumptions of `CompositeFacts` for windows of at
least one day. Each module proves one inductive invariant; the
listed theorems follow from it.

*Executor, any number of executors* (`ComputeExecutorProofs`).

- `TypeCorrect` (`Spec => []TypeOK`). Inductive form `TypeInv`: `TypeOK`, and a
  worker at a point of the code that uses its current job has one.
- `SuccessIsFinal` (`LeaseSpec => SuccessResultPreserved`) and `CompletionHasResult`
  (`LeaseSpec => []CompletedJobHasResult`), in `ExecutorLeases`. Neither is inductive:
  `record_failure` writes what it decided a step before, and a worker that loaded its
  row completes it whatever the row has become. `LeaseInv` says of every job whose
  lease was not outlived (`Answered`): without a success nobody completes it, a worker
  that has it in hand owns its lease, a row between load and flush is still the one
  that was loaded, and a failure is recorded for a failed job only; with a success
  nobody is about to merge a failure. Ownership is told by the acquisition id, which no
  two workers share (`DistinctAcquisitions`). The lease carries the argument: as long
  as it holds, no reconciliation hands the job to another worker.
  `LeasesImplement` gives every theorem of `Spec` to `LeaseSpec`.
- `ActiveRowsAreOwned` (`Spec => []ActiveRowHasOwner`). The danger is a flush, which
  writes only the columns that changed since its load: it may take owner and lease
  from a row that became active in between. `OwnerInv` says of every unit of work
  between load and flush which of its columns it will write, and tells those whose
  ownership was checked from the recoveries, which check none: with two executors
  nobody is left to acquire a row that both are past. The proof attempt showed that a
  third executor breaks that, hence the restriction of the property.

*Executor, one process* (`SingleExecutorProofs`, from `Worker = {w}`).

- `RetryBudget` (`[]AttemptBudget`). `BudgetInv`
  bounds each stored row and each intended one (`RowOK`) and says that between
  load and flush attempts and owner of the row do not change (`SlotOK`). Only a
  second executor could change them, which is why the theorem needs the single
  process, and why it stops there.
- `SummaryHasLineage` (`SummaryPublishedAfterLineage`) and `ContractIsKept`
  (`AnsweredOnce`, the refinement of `AsyncResultContract`). `AnswerInv` adds to
  `BudgetInv` that the two stores agree: a failed result goes with a failed job, a job
  under work has not been answered, and a summary past its inline materialization has
  its lineage. With it every step either leaves the client's
  view alone or is the contract's acceptance, delivery or failure.

*Operator lease* (`OperatorActionLeaseProofs`).

- `ExclusiveUntilStaleHolds` and `CompareAndDeleteUntilStale`.
  Exclusion is not inductive: what excludes a
  second creator is the file. `LeaseInv` says that a process from its creation of
  the file to its unlink has the lock at the path under its own token, that tokens
  are distinct and not reused, and that without a stale token nobody is past the
  staleness check of a reclaim. Together they show that both the violation of
  `operator_lease` and a double entry need a lease that has outlived its age.

*Submissions* (`SubmissionFencingProofs`): `SubmissionTypeCorrect`,
`KeyFencesCalculation`, `AcceptedIsQueued`, `CutsAreHarmless`, `StageIsSettled`.
`FencingInv` is about who may delete a row: only the request that created it and has
not been accepted yet (`Owners`), and never a row under a key (`KeyedRows`), so that
what a request replays or holds (`HoldsOwnRequest`, `HoldsItsKey`) stays, and a job
registered for it is for its own request. A promoted execution had its job before
(`JobFirst`). The last two theorems need `CleanInv` on top, whose parts are conditional
on the absence of errors: then nobody is in a rollback, and a stage that is due and
open has a request on its way to settle it (`StageWork`).

*Lineage* (`LineageQueueProofs`): `LineageTypeCorrect`, `CompletionHasEvidence`,
`CancellationHolds`, `LineageRetryBudget`. Every part of `LineageInv` speaks of one
calculation, and a step touches one (`Frame`), so each action is proved for the
calculation it works on and carried over to the rest. `HandInv` says what a worker at
each point of the code knows of its calculation; that at most one worker has a payload
in hand follows from `OneHolder`. For the budget, attempts beyond the limit are
accounted for by crashes, swallowed errors and overruns, one each
(`BudgetPaid`, `MovedBudget`).

*Corrections* (`SourceCorrectionProofs`): `CorrectionTypeCorrect`, `CorrectionIsSeen`,
`ImpactsAreKept`, `CompleteIsRecalculated`, `CancelledAsAWhole`, `SubmittedIsQueued`,
`CancellationIsFinal`. A request holds a copy of a row read earlier and writes it back as
a whole. `Evolves` lists what no step undoes (an execution that read its sources after a
correction did so for ever, a complete or cancelled job stays so); `CorrectionInv` then
says the same of the stored rows and of the copies in hand: every impact is genuine
(`Genuine`) and every due one is listed (`CoversDue`), and both survive `Evolves`.
`RevisionsDoNotFork` (`[]SingleSuccessor`) has a hypothesis of its own, `Chronological`:
a correction is observed after the revision that it supersedes, which is what
superseding means but nothing the code checks. Without it, a revision that comes
back, or a correction that supersedes a revision stated only later, lets two
corrections extend the same one, and the code does not refuse that. `ChainInv` says that
the order of creation counts the rows and that there is always a latest one, so that a
correction in order extends exactly that one.

*Retention* (`RuntimeRetentionProofs`): `RetentionTypeCorrect`, `ArtifactsStayReachable`,
`AppliedEvidenceIsTrue`, `CleanupsAreThorough`, `ShieldedRecordsStay`,
`CustodyGroupsGoTogether`, `DeletionsHaveEvidence`. A record is open, then settled at the
current time, which lies above every cutoff a cleanup already holds, then gone. That
monotonicity (`Evolves`) keeps what a cleanup collected true of the later phases, which
select by age again; `Removal` says what a step may delete.

*Composites* (`CompositeFactsProofs`): `CompositeTypeCorrect`, `PublicationsAreExact`,
`LedgerAgreesWithFacts`, `LatestReadsArePublished`, `LatestReadsAreFresh`,
`PublicationsAreImmutable`. An attempt works with a row that its ledger row has been
(`Known`); a row that is being published has its outcomes for good, so an attempt that has
lost its lease publishes what its successor does. What it no longer has to write is stored
(`Writing`), and a completion has its sequence to itself (`Apart`), so that what it checked
under its lock holds when it commits; with one fact per family and sequence, equal
families make the stored facts the manifest, content and all. A latest read holds
`facts` locked from its first statement on, which keeps maintenance away (`Blocking`), and
is anchored in a fact or publication (`Reading`) that its later statements meet again,
because what is published and what is complete only grows.

Only model-checked: the two liveness properties, `EveryJobAnswered` and
`LineageSettles`, since fairness is outside the prover, and the four violations. Every
safety property of a passing run is stated by a theorem.

## Not modelled

- The calculation engine and the analytics services: decimal and dataframe
  arithmetic, sequential and without shared state, which is most of the
  repository's code; a finite model would say nothing of its numbers.
- Upstream retrieval, API mapping, authorization and audit, inspection queries,
  metrics, status projections and lease snapshots: no durable state that another
  operation depends on.
- Schema creation, upgrades and verification, the SQLite variants of the database
  guards, and the currency, component-cost and model-fee bindings of composites.
- The custody lane of returns-series sources, HTTP retry budgets, the length and
  age limits of evidence histories, and the recovery drill's guards.

## Plan

1. The custody lane of returns-series sources in `LineageQueue`.
2. Currency and model-fee pinning in `CompositeFacts`.
