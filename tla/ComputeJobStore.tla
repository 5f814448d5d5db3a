--------------------------- MODULE ComputeJobStore ---------------------------
(***************************************************************************)
(* The rows of the durable compute queue (app/services/compute_job_store)  *)
(* and what each store operation does to one row.                          *)
(*                                                                         *)
(* Time is kept only as far as the code compares it: lease_expires_at_utc  *)
(* is "none" (NULL), "live" (not before now) or "expired" (before now).    *)
(*                                                                         *)
(* lease_pending_jobs, reconcile_stale_jobs and cancel_pending_jobs run    *)
(* under a row lock or as one UPDATE ... WHERE, so their operators map the *)
(* current row to the next one.  The other operations load the row with    *)
(* session.get, without a lock, check it, and at commit write only the     *)
(* columns they changed: their operators give the row they intend, and     *)
(* FlushRow says what reaches the table.                                   *)
(***************************************************************************)
EXTENDS Naturals

CONSTANTS
    MaxAttempts,   \* COMPUTE_EXECUTOR_MAX_ATTEMPTS, the max_attempts column
    Worker,        \* COMPUTE_EXECUTOR_WORKER_ID of each executor process
    Acquisition,   \* the ids of _compute_job_acquisition_worker_id (uuid4)
    NoOwner        \* NULL in lease_owner_id

ASSUME MaxAttemptsAssumption == MaxAttempts \in Nat \ {0}
ASSUME OwnerAssumption ==
    /\ Worker \cap Acquisition = {}
    /\ NoOwner \notin Worker \cup Acquisition

Owner == Worker \cup Acquisition \cup {NoOwner}

\* The statuses of ComputeJobStatus, and "absent" for a row not yet inserted.
JobStatus == {"absent", "pending", "leased", "running", "complete", "failed"}

LeaseState == {"none", "live", "expired"}

JobRow == [status : JobStatus, attempts : Nat, owner : Owner, lease : LeaseState]

AbsentRow == [status |-> "absent", attempts |-> 0, owner |-> NoOwner, lease |-> "none"]

-----------------------------------------------------------------------------
(* Guards.                                                                 *)

\* _ensure_compute_job_active_lease_owner for a worker_id that is not None.
OwnsActiveLease(row, who) ==
    /\ row.status \in {"leased", "running"}
    /\ row.owner = who
    /\ row.lease = "live"

\* Mutant: the statement forgets the running rows.
IsStaleLeasedOnly(row) == row.status = "leased" /\ row.lease = "expired"

\* The rows _build_reconcile_stale_jobs_statement selects.
IsStale(row) == row.status \in {"leased", "running"} /\ row.lease = "expired"

\* The rows _build_lease_pending_jobs_statement selects.
IsLeasable(row) ==
    \/ row.status = "pending"
    \/ row.status = "leased" /\ row.lease = "expired"

-----------------------------------------------------------------------------
(* Operations that change a row they have locked.                          *)

\* register_job, CREATED.
Registered == [AbsentRow EXCEPT !.status = "pending"]

\* Mutant: the owner is not written with the lease.
LeasedAnonymous(row, worker) == [row EXCEPT !.status = "leased", !.lease = "live"]

\* lease_pending_jobs, for a row whose request payload can be read.
Leased(row, worker) ==
    [row EXCEPT !.status = "leased", !.owner = worker, !.lease = "live"]

\* lease_pending_jobs, _mark_invalid_request_payload.
Rejected(row) ==
    [row EXCEPT !.status = "failed", !.owner = NoOwner, !.lease = "none"]

\* Mutant: a job with attempts left keeps its status.
StaleOutcomeUnsettled(row) ==
    IF row.status = "running" /\ row.attempts >= MaxAttempts THEN "failed" ELSE row.status

\* _stale_job_reconciliation_outcome: a leased row never used its attempt.
StaleOutcome(row) ==
    IF row.status = "running" /\ row.attempts >= MaxAttempts THEN "failed" ELSE "pending"

\* _reconcile_stale_job_row.
Reconciled(row) ==
    [row EXCEPT !.status = StaleOutcome(row), !.owner = NoOwner, !.lease = "none"]

\* cancel_pending_jobs, for a row that is still pending.
Cancelled(row) ==
    [row EXCEPT !.status = "failed", !.owner = NoOwner, !.lease = "none"]

-----------------------------------------------------------------------------
(* Operations that load, check and later flush.                            *)

\* mark_running_acquired.
Acquired(row, acquisition) ==
    [status |-> "running", attempts |-> row.attempts + 1,
     owner |-> acquisition, lease |-> "live"]

\* renew_lease.
Renewed(row) == [row EXCEPT !.lease = "live"]

\* mark_complete.
Completed(row) ==
    [row EXCEPT !.status = "complete", !.owner = NoOwner, !.lease = "none"]

\* mark_failed.
Failed(row) ==
    [row EXCEPT !.status = "failed", !.owner = NoOwner, !.lease = "none"]

\* Mutant: the limit itself still counts as an attempt left.
RetryableFailureOneMore(row) ==
    [row EXCEPT !.status = IF row.attempts <= MaxAttempts THEN "pending" ELSE "failed",
                !.owner = NoOwner, !.lease = "none"]

\* mark_retryable_failure.
RetryableFailure(row) ==
    [row EXCEPT !.status = IF row.attempts < MaxAttempts THEN "pending" ELSE "failed",
                !.owner = NoOwner, !.lease = "none"]

\* What SQLAlchemy's unit of work writes at commit: the columns whose value
\* differs from the loaded one.  A lease that is granted again is a later
\* timestamp, so it always differs.
FlushRow(current, loaded, intended) ==
    [status   |-> IF intended.status # loaded.status THEN intended.status ELSE current.status,
     attempts |-> IF intended.attempts # loaded.attempts THEN intended.attempts ELSE current.attempts,
     owner    |-> IF intended.owner # loaded.owner THEN intended.owner ELSE current.owner,
     lease    |-> IF intended.lease # loaded.lease \/ intended.lease = "live"
                  THEN intended.lease ELSE current.lease]

=============================================================================
