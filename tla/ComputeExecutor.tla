--------------------------- MODULE ComputeExecutor ---------------------------
(***************************************************************************)
(* The compute executor (app/workers/compute_executor_worker) at work on   *)
(* the durable queue, the async result store and the execution registry.   *)
(*                                                                         *)
(* A worker loops: reconcile stale jobs, follow each of them up, lease a   *)
(* batch, then acquire, execute and publish the jobs of the batch one by   *)
(* one.  Every database transaction is a step of its own, so other workers,*)
(* the API and the clock run between any two of them; a job-store          *)
(* operation that loads its row without a lock is two steps, the load with *)
(* its checks and the flush (see ComputeJobStore).  record_failure of the  *)
(* result store is two as well, the get and the merge.  A worker may crash *)
(* at any point and restarts with an empty memory.                         *)
(***************************************************************************)
EXTENDS ComputeJobStore, FiniteSets

CONSTANTS
    Calc,            \* calculation ids, the primary key of all three stores
    NoCalc,          \* a worker that handles no job
    CompositeCalc,   \* composite attribution and pooled MWR jobs
    SummaryCalc,     \* workspace-summary jobs
    CorruptCalc,     \* rows whose request_json cannot be read back
    CorrectionCalc,  \* source-correction recalculations, which may be cancelled
    BatchSize,       \* COMPUTE_EXECUTOR_BATCH_SIZE
    MaxCrashes       \* bound on the number of worker crashes

ASSUME CalcAssumption ==
    /\ NoCalc \notin Calc
    /\ CompositeCalc \subseteq Calc
    /\ SummaryCalc \subseteq Calc \ CompositeCalc
    /\ CorruptCalc \subseteq Calc
    /\ CorrectionCalc \subseteq Calc
ASSUME BoundAssumption == BatchSize \in Nat \ {0} /\ MaxCrashes \in Nat

VARIABLES
    job,        \* analytics_compute_job, one row per calculation
    result,     \* async result status: "none", "complete" or "failed"
    exec,       \* status of the execution record
    lineage,    \* lineage of the calculation: record and execution stage together
    cancelling, \* cancelled jobs whose execution the API has not failed yet
    pc,         \* control state of each worker
    batch,      \* leased jobs a worker has not processed yet
    recon,      \* reconciled jobs a worker has not followed up yet
    cur,        \* the job a worker handles
    acq,        \* the acquisition id under which it executes
    txn,        \* the row a worker loaded, the row it intends, where it goes on
    crashes

durable == <<job, result, exec, lineage, cancelling>>
local == <<pc, batch, recon, cur, acq, txn>>
vars == <<durable, local, crashes>>

ResultStatus == {"none", "complete", "failed"}
ExecStatus == {"pending", "running", "complete", "failed"}
LineageStatus == {"none", "queued", "complete", "failed"}
Control == {"reconcile", "handle", "recover", "lease", "process", "execute",
            "renew", "inline_lineage", "renew_again", "check", "publish", "capture",
            "complete", "fail_retry", "fail_final", "fail_result", "merge_failure",
            "fail_exec", "flush"}

\* Where a worker goes on after the commit of an unlocked operation.
Continuation == {"reconcile", "handle", "process", "execute", "inline_lineage", "check",
                 "fail_result", "fail_exec"}

NoTxn == [loaded |-> AbsentRow, intended |-> AbsentRow, then |-> "reconcile"]
Txn == [loaded : JobRow, intended : JobRow, then : Continuation]

TypeOK ==
    /\ job \in [Calc -> JobRow]
    /\ result \in [Calc -> ResultStatus]
    /\ exec \in [Calc -> ExecStatus]
    /\ lineage \in [Calc -> LineageStatus]
    /\ cancelling \in SUBSET Calc
    /\ pc \in [Worker -> Control]
    /\ batch \in [Worker -> SUBSET Calc]
    /\ recon \in [Worker -> SUBSET (Calc \X {"pending", "failed"})]
    /\ cur \in [Worker -> Calc \cup {NoCalc}]
    /\ acq \in [Worker -> Acquisition \cup {NoOwner}]
    /\ txn \in [Worker -> Txn]
    /\ crashes \in 0..MaxCrashes

Init ==
    /\ job = [c \in Calc |-> AbsentRow]
    /\ result = [c \in Calc |-> "none"]
    /\ exec = [c \in Calc |-> "pending"]
    /\ lineage = [c \in Calc |-> "none"]
    /\ cancelling = {}
    /\ pc = [w \in Worker |-> "reconcile"]
    /\ batch = [w \in Worker |-> {}]
    /\ recon = [w \in Worker |-> {}]
    /\ cur = [w \in Worker |-> NoCalc]
    /\ acq = [w \in Worker |-> NoOwner]
    /\ txn = [w \in Worker |-> NoTxn]
    /\ crashes = 0

-----------------------------------------------------------------------------
(* Helpers.                                                                *)

Goto(w, l) == pc' = [pc EXCEPT ![w] = l]

\* A job is left: the reconciliation loop or the batch loop goes on.
LeaveJob(w) ==
    /\ Goto(w, IF acq[w] = NoOwner THEN "handle" ELSE "process")
    /\ cur' = [cur EXCEPT ![w] = NoCalc]
    /\ acq' = [acq EXCEPT ![w] = NoOwner]

\* _get_model and the change the operation intends for its row.
Load(w, c, intended, then) ==
    /\ txn' = [txn EXCEPT ![w] = [loaded |-> job[c], intended |-> intended, then |-> then]]
    /\ Goto(w, "flush")

\* uuid4 of _compute_job_acquisition_worker_id: no row and no worker holds it.
Fresh(a) ==
    /\ \A c \in Calc : job[c].owner # a
    /\ \A w \in Worker : acq[w] # a /\ txn[w].loaded.owner # a /\ txn[w].intended.owner # a

-----------------------------------------------------------------------------
(* The API process, the lineage worker and the clock.                      *)

\* register_job, for an execution that was registered before.
Submit(c) ==
    /\ job[c].status = "absent"
    /\ job' = [job EXCEPT ![c] = Registered]
    /\ UNCHANGED <<result, exec, lineage, cancelling, local, crashes>>

\* cancel_source_correction: the jobs are cancelled in one statement ...
CancelPending(S) ==
    /\ S # {}
    /\ \A c \in S : job[c].status = "pending"
    /\ job' = [c \in Calc |-> IF c \in S THEN Cancelled(job[c]) ELSE job[c]]
    /\ cancelling' = cancelling \cup S
    /\ UNCHANGED <<result, exec, lineage, local, crashes>>

\* ... and their executions are failed one by one in later transactions,
CancelExecution(c) ==
    /\ c \in cancelling
    /\ cancelling' = cancelling \ {c}
    /\ exec' = [exec EXCEPT ![c] = "failed"]
    /\ UNCHANGED <<job, result, lineage, local, crashes>>

\* which the API may not live to do.
ApiStops ==
    /\ cancelling # {}
    /\ cancelling' = {}
    /\ UNCHANGED <<job, result, exec, lineage, local, crashes>>

\* complete_stage_and_execution after a materialized payload: a failed
\* execution is a fence that a late lineage worker does not cross.
LineageOutcome(c) == IF exec[c] = "failed" THEN "failed" ELSE "complete"

LineageCompletes(c) ==
    /\ lineage[c] = "queued"
    /\ lineage' = [lineage EXCEPT ![c] = LineageOutcome(c)]
    /\ exec' = [exec EXCEPT ![c] = LineageOutcome(c)]
    /\ UNCHANGED <<job, result, cancelling, local, crashes>>

\* fail_stage_and_execution after the lineage attempts are spent.
LineageFails(c) ==
    /\ lineage[c] = "queued"
    /\ lineage' = [lineage EXCEPT ![c] = "failed"]
    /\ exec' = [exec EXCEPT ![c] = "failed"]
    /\ UNCHANGED <<job, result, cancelling, local, crashes>>

\* now passes lease_expires_at_utc.
LeaseExpires(c) ==
    /\ job[c].lease = "live"
    /\ job' = [job EXCEPT ![c].lease = "expired"]
    /\ UNCHANGED <<result, exec, lineage, cancelling, local, crashes>>

-----------------------------------------------------------------------------
(* One poll of _process_pending_jobs: reconciliation.                      *)

\* reconcile_stale_jobs.  Another worker may hold the lock of some stale
\* rows, which SKIP LOCKED passes over.
Reconcile(w) ==
    LET stale == {c \in Calc : IsStale(job[c])}
    IN  /\ pc[w] = "reconcile"
        /\ \E S \in SUBSET stale :
              /\ S = {} => stale = {}
              /\ job' = [c \in Calc |-> IF c \in S THEN Reconciled(job[c]) ELSE job[c]]
              /\ recon' = [recon EXCEPT ![w] = {<<c, StaleOutcome(job[c])>> : c \in S}]
        /\ Goto(w, "handle")
        /\ UNCHANGED <<result, exec, lineage, cancelling, batch, cur, acq, txn, crashes>>

\* _handle_reconciled_stale_job up to the first write it makes: get_result
\* finds a success, or the job was failed, or it was requeued.
HandleReconciled(w) ==
    /\ pc[w] = "handle"
    /\ \E r \in recon[w] :
          /\ recon' = [recon EXCEPT ![w] = @ \ {r}]
          /\ \/ /\ result[r[1]] = "complete"
                /\ cur' = [cur EXCEPT ![w] = r[1]]
                /\ Goto(w, "recover")
             \/ /\ result[r[1]] # "complete" /\ r[2] = "failed"
                /\ cur' = [cur EXCEPT ![w] = r[1]]
                /\ Goto(w, IF r[1] \in CompositeCalc THEN "fail_exec" ELSE "fail_result")
             \/ /\ result[r[1]] # "complete" /\ r[2] = "pending"
                /\ UNCHANGED <<cur, pc>>
    /\ UNCHANGED <<durable, batch, acq, txn, crashes>>

HandledAll(w) ==
    /\ pc[w] = "handle" /\ recon[w] = {}
    /\ Goto(w, "lease")
    /\ UNCHANGED <<durable, batch, recon, cur, acq, txn, crashes>>

\* _recover_reconciled_job_from_success_result: mark_complete without a
\* worker_id, hence without an ownership check.
RecoverFromResult(w) ==
    /\ pc[w] = "recover"
    /\ Load(w, cur[w], Completed(job[cur[w]]), "handle")
    /\ UNCHANGED <<durable, batch, recon, cur, acq, crashes>>

\* lease_pending_jobs, at most BatchSize rows; SKIP LOCKED and the order of
\* creation decide which.
Lease(w) ==
    LET leasable == {c \in Calc : IsLeasable(job[c])}
    IN  /\ pc[w] = "lease"
        /\ \E S \in SUBSET leasable :
              /\ Cardinality(S) <= BatchSize
              /\ S = {} => leasable = {}
              /\ job' = [c \in Calc |->
                            IF c \in S
                            THEN IF c \in CorruptCalc THEN Rejected(job[c]) ELSE Leased(job[c], w)
                            ELSE job[c]]
              /\ batch' = [batch EXCEPT ![w] = S \ CorruptCalc]
        /\ Goto(w, "process")
        /\ UNCHANGED <<result, exec, lineage, cancelling, recon, cur, acq, txn, crashes>>

-----------------------------------------------------------------------------
(* _process_leased_compute_job.                                            *)

\* mark_running_acquired passes its ownership check.
Acquire(w, c) ==
    /\ pc[w] = "process" /\ c \in batch[w]
    /\ OwnsActiveLease(job[c], w)
    /\ batch' = [batch EXCEPT ![w] = @ \ {c}]
    /\ cur' = [cur EXCEPT ![w] = c]
    /\ \E a \in Acquisition :
          /\ Fresh(a)
          /\ acq' = [acq EXCEPT ![w] = a]
          /\ Load(w, c, Acquired(job[c], a), "execute")
    /\ UNCHANGED <<durable, recon, crashes>>

\* mark_running_acquired raises ComputeJobLeaseOwnershipError.
SkipAcquisition(w, c) ==
    /\ pc[w] = "process" /\ c \in batch[w]
    /\ ~OwnsActiveLease(job[c], w)
    /\ batch' = [batch EXCEPT ![w] = @ \ {c}]
    /\ UNCHANGED <<durable, pc, recon, cur, acq, txn, crashes>>

NextPoll(w) ==
    /\ pc[w] = "process" /\ batch[w] = {}
    /\ Goto(w, "reconcile")
    /\ UNCHANGED <<durable, batch, recon, cur, acq, txn, crashes>>

\* The calculator returns a response.  The composite lanes have only marked
\* their execution running; the returns-series lane has completed it; the
\* others have left it running and queued a lineage payload.
ExecuteSucceeds(w) ==
    /\ pc[w] = "execute"
    /\ \/ /\ cur[w] \in CompositeCalc
          /\ exec' = [exec EXCEPT ![cur[w]] = "running"]
          /\ UNCHANGED lineage
       \/ /\ cur[w] \notin CompositeCalc \cup SummaryCalc
          /\ exec' = [exec EXCEPT ![cur[w]] = "complete"]
          /\ UNCHANGED lineage
       \/ /\ cur[w] \notin CompositeCalc
          /\ exec' = [exec EXCEPT ![cur[w]] = "running"]
          /\ lineage' = [lineage EXCEPT ![cur[w]] = "queued"]
    /\ Goto(w, IF cur[w] \in SummaryCalc THEN "renew" ELSE "check")
    /\ UNCHANGED <<job, result, cancelling, batch, recon, cur, acq, txn, crashes>>

\* The calculator raises: before it touched the execution, after it marked
\* it running, or after it recorded the failure itself.
ExecuteFails(w) ==
    /\ pc[w] = "execute"
    /\ \E s \in {exec[cur[w]], "running", "failed"} : exec' = [exec EXCEPT ![cur[w]] = s]
    /\ \E l \in {"fail_retry", "fail_final"} : Goto(w, l)
    /\ UNCHANGED <<job, result, lineage, cancelling, batch, recon, cur, acq, txn, crashes>>

\* _renew_workspace_summary_compute_lease, before and after the inline
\* lineage materialization.  A lost lease is an error of the job.
RenewLease(w) ==
    /\ pc[w] \in {"renew", "renew_again"}
    /\ IF OwnsActiveLease(job[cur[w]], acq[w])
       THEN Load(w, cur[w], Renewed(job[cur[w]]),
                 IF pc[w] = "renew" THEN "inline_lineage" ELSE "check")
       ELSE /\ Goto(w, "fail_final")
            /\ UNCHANGED txn
    /\ UNCHANGED <<durable, batch, recon, cur, acq, crashes>>

\* Mutant: the answer of the materializer is not looked at.
InlineLineageUnchecked(w) ==
    /\ pc[w] = "inline_lineage"
    /\ Goto(w, "renew_again")
    /\ UNCHANGED <<durable, batch, recon, cur, acq, txn, crashes>>

\* workspace_summary_lineage_materializer: the lineage is complete, by this
\* worker or by the lineage worker, or the job fails.
InlineLineage(w) ==
    /\ pc[w] = "inline_lineage"
    /\ \/ /\ lineage[cur[w]] = "queued" /\ exec[cur[w]] # "failed"
          /\ lineage' = [lineage EXCEPT ![cur[w]] = "complete"]
          /\ exec' = [exec EXCEPT ![cur[w]] = "complete"]
          /\ Goto(w, "renew_again")
       \/ /\ lineage[cur[w]] = "complete"
          /\ Goto(w, "renew_again")
          /\ UNCHANGED <<exec, lineage>>
       \/ /\ Goto(w, "fail_retry")
          /\ UNCHANGED <<exec, lineage>>
    /\ UNCHANGED <<job, result, cancelling, batch, recon, cur, acq, txn, crashes>>

-----------------------------------------------------------------------------
(* _publish_compute_job_success.                                           *)

\* ensure_active_lease_owner, a transaction of its own.
CheckOwner(w) ==
    /\ pc[w] = "check"
    /\ IF OwnsActiveLease(job[cur[w]], acq[w])
       THEN Goto(w, "publish") /\ UNCHANGED <<cur, acq>>
       ELSE LeaveJob(w)
    /\ UNCHANGED <<durable, batch, recon, txn, crashes>>

\* record_success: an unconditional merge.  What it loads decides whether it
\* writes a status at all, so it takes effect at its load or at its commit.
RecordSuccess(w) ==
    /\ pc[w] = "publish" /\ cur[w] \notin CompositeCalc
    /\ result' = [result EXCEPT ![cur[w]] = "complete"]
    /\ Goto(w, "complete")
    /\ UNCHANGED <<job, exec, lineage, cancelling, batch, recon, cur, acq, txn, crashes>>

\* publish_attribution_result, publish_pooled_mwr_result: the result is
\* inserted while the row of the claim is locked.
RecordCompositeSuccess(w) ==
    /\ pc[w] = "publish" /\ cur[w] \in CompositeCalc
    /\ job[cur[w]].status = "running" /\ OwnsActiveLease(job[cur[w]], acq[w])
    /\ result' = [result EXCEPT ![cur[w]] = "complete"]
    /\ Goto(w, "capture")
    /\ UNCHANGED <<job, exec, lineage, cancelling, batch, recon, cur, acq, txn, crashes>>

\* complete_execution_with_lineage of a composite result: the execution is
\* handed to the lineage worker, or some transaction of it raises.
CaptureComposite(w) ==
    /\ pc[w] = "capture"
    /\ \/ /\ exec' = [exec EXCEPT ![cur[w]] = "running"]
          /\ lineage' = [lineage EXCEPT ![cur[w]] = "queued"]
          /\ Goto(w, "complete")
       \/ /\ \E s \in {exec[cur[w]], "running", "failed"} : exec' = [exec EXCEPT ![cur[w]] = s]
          /\ \E l \in {"fail_retry", "fail_final"} : Goto(w, l)
          /\ UNCHANGED lineage
    /\ UNCHANGED <<job, result, cancelling, batch, recon, cur, acq, txn, crashes>>

\* Mutant: the exception is logged and the job goes on to its completion.
PublicationFailsQuietly(w) ==
    /\ pc[w] = "publish"
    /\ Goto(w, "complete")
    /\ UNCHANGED <<durable, batch, recon, cur, acq, txn, crashes>>

\* The publication raises: a lost claim in the composite lanes, a tenant
\* mismatch, a database error.
PublicationFails(w) ==
    /\ pc[w] = "publish"
    /\ \E l \in {"fail_retry", "fail_final"} : Goto(w, l)
    /\ UNCHANGED <<durable, batch, recon, cur, acq, txn, crashes>>

\* mark_complete.  Any exception, a lost lease or a database error, is
\* logged and the job is left as it is.
MarkComplete(w) ==
    /\ pc[w] = "complete"
    /\ \/ /\ OwnsActiveLease(job[cur[w]], acq[w])
          /\ Load(w, cur[w], Completed(job[cur[w]]), "process")
          /\ UNCHANGED <<cur, acq>>
       \/ LeaveJob(w) /\ UNCHANGED txn
    /\ UNCHANGED <<durable, batch, recon, crashes>>

-----------------------------------------------------------------------------
(* _handle_compute_job_failure and _record_terminal_failure.               *)

\* Mutant: the return after a requeue is missing.
AfterFailureNoReturn(w, row) == IF cur[w] \in CompositeCalc THEN "fail_exec" ELSE "fail_result"

AfterFailure(w, row) ==
    IF row.status = "pending" THEN "process"
    ELSE IF cur[w] \in CompositeCalc THEN "fail_exec" ELSE "fail_result"

\* mark_retryable_failure, mark_failed: a stale owner skips the finalization.
MarkFailure(w) ==
    LET row == job[cur[w]]
        intended == IF pc[w] = "fail_retry" THEN RetryableFailure(row) ELSE Failed(row)
    IN  /\ pc[w] \in {"fail_retry", "fail_final"}
        /\ IF OwnsActiveLease(row, acq[w])
           THEN /\ Load(w, cur[w], intended, AfterFailure(w, intended))
                /\ UNCHANGED <<cur, acq>>
           ELSE LeaveJob(w) /\ UNCHANGED txn
        /\ UNCHANGED <<durable, batch, recon, crashes>>

\* Mutant: the failure is merged over whatever is there.
RecordFailureUnchecked(w) ==
    /\ pc[w] = "fail_result"
    /\ Goto(w, "merge_failure")
    /\ UNCHANGED <<durable, batch, recon, cur, acq, txn, crashes>>

\* record_failure gets the row without a lock.  A success is left alone, and
\* over a failure the merge has no status to write ...
RecordFailure(w) ==
    /\ pc[w] = "fail_result"
    /\ Goto(w, IF result[cur[w]] = "none" THEN "merge_failure" ELSE "fail_exec")
    /\ UNCHANGED <<durable, batch, recon, cur, acq, txn, crashes>>

\* ... but where there was no row the merge selects again, and inserts the
\* failure or writes it over whatever was inserted meanwhile.  The insert of
\* a row that another process has just inserted raises, which is a Crash.
MergeFailure(w) ==
    /\ pc[w] = "merge_failure"
    /\ result' = [result EXCEPT ![cur[w]] = "failed"]
    /\ Goto(w, "fail_exec")
    /\ UNCHANGED <<job, exec, lineage, cancelling, batch, recon, cur, acq, txn, crashes>>

\* fail_in_progress_stages and mark_failed of the execution registry.
FailExecution(w) ==
    /\ pc[w] = "fail_exec"
    /\ exec' = [exec EXCEPT ![cur[w]] = "failed"]
    /\ LeaveJob(w)
    /\ UNCHANGED <<job, result, lineage, cancelling, batch, recon, txn, crashes>>

-----------------------------------------------------------------------------

\* The commit of a store operation that loaded its row without a lock.
Flush(w) ==
    /\ pc[w] = "flush"
    /\ job' = [job EXCEPT ![cur[w]] = FlushRow(@, txn[w].loaded, txn[w].intended)]
    /\ txn' = [txn EXCEPT ![w] = NoTxn]
    /\ Goto(w, txn[w].then)
    /\ IF txn[w].then \in {"handle", "process"}
       THEN /\ cur' = [cur EXCEPT ![w] = NoCalc]
            /\ acq' = [acq EXCEPT ![w] = NoOwner]
       ELSE UNCHANGED <<cur, acq>>
    /\ UNCHANGED <<result, exec, lineage, cancelling, batch, recon, crashes>>

\* The process dies, by a kill or by an exception that escapes run_forever,
\* and is started again.
Crash(w) ==
    /\ crashes < MaxCrashes
    /\ crashes' = crashes + 1
    /\ Goto(w, "reconcile")
    /\ batch' = [batch EXCEPT ![w] = {}]
    /\ recon' = [recon EXCEPT ![w] = {}]
    /\ cur' = [cur EXCEPT ![w] = NoCalc]
    /\ acq' = [acq EXCEPT ![w] = NoOwner]
    /\ txn' = [txn EXCEPT ![w] = NoTxn]
    /\ UNCHANGED durable

Step(w) ==
    \/ Reconcile(w) \/ HandleReconciled(w) \/ HandledAll(w) \/ RecoverFromResult(w)
    \/ Lease(w)
    \/ \E c \in Calc : Acquire(w, c) \/ SkipAcquisition(w, c)
    \/ NextPoll(w)
    \/ ExecuteSucceeds(w) \/ ExecuteFails(w) \/ RenewLease(w) \/ InlineLineage(w)
    \/ CheckOwner(w) \/ RecordSuccess(w) \/ RecordCompositeSuccess(w) \/ CaptureComposite(w)
    \/ PublicationFails(w) \/ MarkComplete(w)
    \/ MarkFailure(w) \/ RecordFailure(w) \/ MergeFailure(w) \/ FailExecution(w)
    \/ Flush(w)

Environment ==
    \/ \E c \in Calc : Submit(c) \/ CancelExecution(c) \/ LeaseExpires(c)
                       \/ LineageCompletes(c) \/ LineageFails(c)
    \/ \E S \in SUBSET CorrectionCalc : CancelPending(S)
    \/ ApiStops

Next ==
    \/ \E w \in Worker : Step(w) \/ Crash(w)
    \/ Environment

Spec == Init /\ [][Next]_vars

(* A worker that is up keeps taking steps, time passes, and the lineage    *)
(* worker drains its queue.  Strong fairness of Acquire: the oldest leased *)
(* job is acquired right after the lease commits, so a lease does not      *)
(* lapse before its first use for ever.  Nothing forces a submission, a    *)
(* cancellation or a crash.                                                *)
FairSpec ==
    /\ Spec
    /\ \A w \in Worker : WF_vars(Step(w))
    /\ \A w \in Worker, c \in Calc : SF_vars(Acquire(w, c))
    /\ \A c \in Calc : WF_vars(LeaseExpires(c)) /\ WF_vars(LineageCompletes(c) \/ LineageFails(c))

-----------------------------------------------------------------------------
(* Properties.                                                             *)

\* What resolve_async_result answers: the stored result, else the job.
View(c) ==
    IF result[c] # "none" THEN result[c]
    ELSE CASE job[c].status = "absent" -> "unknown"
           [] job[c].status \in {"pending", "leased", "running"} -> "accepted"
           [] job[c].status \in {"complete", "failed"} -> job[c].status

Contract == INSTANCE AsyncResultContract WITH view <- [c \in Calc |-> View(c)]

\* With one executor process, the deployed topology, a client is answered
\* once and the answer stays, through crashes, expiries and cancellations.
AnsweredOnce == Contract!Spec

\* No more than two executor processes.
AtMostTwoWorkers == \A u, v, w \in Worker : u = v \/ v = w \/ u = w

\* An active row names its owner and its lease, without which no process
\* would ever reconcile it, and the fallback to worker_id in
\* _ensure_compute_job_active_lease_owner is never needed, even when unlocked
\* writes of several workers overlap.  Three workers can lose the owner of a
\* job that was answered already: two of them recover it, and between the
\* load and the flush of the second recovery the late acquisition of the
\* third makes the row active again.
ActiveRowHasOwner ==
    \A c \in Calc :
        job[c].status \in {"leased", "running"} /\ (result[c] = "none" \/ AtMostTwoWorkers)
            => job[c].owner # NoOwner /\ job[c].lease # "none"

\* The retry budget: no attempt beyond max_attempts, and a job waiting for a
\* worker has an attempt left.
AttemptBudget ==
    \A c \in Calc :
        /\ job[c].attempts <= MaxAttempts
        /\ job[c].status \in {"pending", "leased"} => job[c].attempts < MaxAttempts

\* A workspace-summary success is published only when the lineage of the
\* calculation and its execution stage are complete.
SummaryPublishedAfterLineage ==
    [][\A c \in SummaryCalc :
          result[c] # "complete" /\ result'[c] = "complete"
              => lineage[c] = "complete" /\ exec[c] = "complete"]_vars

\* Every accepted calculation is answered.
EveryJobAnswered ==
    \A c \in Calc : View(c) = "accepted" ~> View(c) \in {"complete", "failed"}

\* What the runtime topology document says of a worker that lost its lease:
\* it does not write the job after another worker reclaimed it.  The loaded
\* row named this worker; at the flush the row may name another one.
StaleWorkerNeverWritesJob ==
    [][\A w \in Worker :
          pc[w] = "flush" /\ acq[w] # NoOwner /\ job'[cur[w]] # job[cur[w]]
              => job[cur[w]].owner \in {txn[w].loaded.owner, NoOwner}]_<<job, pc>>

=============================================================================
