------------------------ MODULE ComputeExecutorProofs ------------------------
(***************************************************************************)
(* Theorems about ComputeExecutor, for every number of workers, jobs,      *)
(* attempts and crashes.                                                   *)
(***************************************************************************)
EXTENDS ExecutorLeases, TLAPS

(* A worker in one of these control states handles a job.                  *)
Busy == Control \ {"reconcile", "handle", "lease", "process"}

CurrentJobOK == \A w \in Worker : pc[w] \in Busy => cur[w] \in Calc

TypeInv == TypeOK /\ CurrentJobOK

-----------------------------------------------------------------------------
(* Rows keep their type.                                                   *)

\* Every operation on a locked row gives a row (lease_pending_jobs,
\* reconcile_stale_jobs, cancel_pending_jobs, register_job).
LEMMA LockedRowTypes ==
    ASSUME NEW row \in JobRow
    PROVE  /\ AbsentRow \in JobRow
           /\ Registered \in JobRow
           /\ \A w \in Worker : Leased(row, w) \in JobRow
           /\ Rejected(row) \in JobRow
           /\ Reconciled(row) \in JobRow
           /\ Cancelled(row) \in JobRow
BY DEF JobRow, JobStatus, LeaseState, Owner, AbsentRow, Registered, Leased, Rejected,
       Reconciled, StaleOutcome, Cancelled

\* Every intended row of an unlocked operation is a row (mark_running_acquired,
\* renew_lease, mark_complete, mark_failed, mark_retryable_failure).
LEMMA IntendedRowTypes ==
    ASSUME NEW row \in JobRow
    PROVE  /\ \A a \in Acquisition : Acquired(row, a) \in JobRow
           /\ Renewed(row) \in JobRow
           /\ Completed(row) \in JobRow
           /\ Failed(row) \in JobRow
           /\ RetryableFailure(row) \in JobRow
<1> USE DEF JobRow, JobStatus, LeaseState, Owner
<1>1. \A a \in Acquisition : Acquired(row, a) \in JobRow
  BY DEF Acquired
<1>2. Renewed(row) \in JobRow /\ Completed(row) \in JobRow /\ Failed(row) \in JobRow
  BY DEF Renewed, Completed, Failed
<1>3. RetryableFailure(row) \in JobRow
  BY DEF RetryableFailure
<1>4. QED
  BY <1>1, <1>2, <1>3

\* The flush of a unit of work gives a row.
LEMMA FlushRowType ==
    ASSUME NEW current \in JobRow, NEW loaded \in JobRow, NEW intended \in JobRow
    PROVE  FlushRow(current, loaded, intended) \in JobRow
BY DEF JobRow, FlushRow

\* A load keeps the transaction slots well typed.
LEMMA LoadType ==
    ASSUME TypeOK, NEW w \in Worker, NEW c \in Calc, NEW row \in JobRow,
           NEW l \in Continuation, Load(w, c, row, l)
    PROVE  /\ txn' \in [Worker -> Txn]
           /\ pc' = [pc EXCEPT ![w] = "flush"]
           /\ pc' \in [Worker -> Control]
BY DEF Load, Goto, TypeOK, Txn, Control

-----------------------------------------------------------------------------
(* Type correctness.                                                       *)

LEMMA TypeInit == Init => TypeInv
BY BoundAssumption, LockedRowTypes
DEF Init, TypeInv, TypeOK, CurrentJobOK, Busy, Control, Continuation, NoTxn, Txn, JobRow, AbsentRow,
    JobStatus, LeaseState, Owner, ResultStatus, ExecStatus, LineageStatus

\* Steps of the API, the lineage worker and the clock.
LEMMA TypeEnvironment == TypeInv /\ Environment => TypeInv'
<1> SUFFICES ASSUME TypeInv, Environment
             PROVE  TypeInv'
  OBVIOUS
<1> USE DEF TypeInv, TypeOK, CurrentJobOK, local
<1>1. ASSUME NEW c \in Calc, Submit(c) PROVE TypeInv'
  <2>1. Registered \in JobRow
    BY DEF Registered, AbsentRow, JobRow, JobStatus, LeaseState, Owner
  <2>2. QED
    BY <1>1, <2>1 DEF Submit
<1>2. ASSUME NEW c \in Calc, CancelExecution(c) PROVE TypeInv'
  BY <1>2 DEF CancelExecution, ExecStatus
<1>3. ASSUME NEW c \in Calc, LeaseExpires(c) PROVE TypeInv'
  <2>1. [job[c] EXCEPT !.lease = "expired"] \in JobRow
    BY DEF JobRow, LeaseState
  <2>2. job' = [job EXCEPT ![c] = [job[c] EXCEPT !.lease = "expired"]]
    BY <1>3 DEF LeaseExpires
  <2>3. job' \in [Calc -> JobRow]
    BY <2>1, <2>2
  <2>4. QED
    BY <1>3, <2>3 DEF LeaseExpires
<1>4. ASSUME NEW c \in Calc, LineageCompletes(c) PROVE TypeInv'
  BY <1>4 DEF LineageCompletes, LineageOutcome, ExecStatus, LineageStatus
<1>5. ASSUME NEW c \in Calc, LineageFails(c) PROVE TypeInv'
  BY <1>5 DEF LineageFails, ExecStatus, LineageStatus
<1>6. ASSUME NEW S \in SUBSET CorrectionCalc, CancelPending(S) PROVE TypeInv'
  <2>1. S \subseteq Calc
    BY CalcAssumption
  <2>2. \A c \in Calc : Cancelled(job[c]) \in JobRow
    BY LockedRowTypes
  <2>3. job' \in [Calc -> JobRow]
    BY <1>6, <2>2 DEF CancelPending
  <2>4. QED
    BY <1>6, <2>1, <2>3 DEF CancelPending
<1>7. ASSUME ApiStops PROVE TypeInv'
  BY <1>7 DEF ApiStops
<1>8. QED
  BY <1>1, <1>2, <1>3, <1>4, <1>5, <1>6, <1>7 DEF Environment

\* Steps of a worker that write the job table under a lock.
LEMMA TypeLockedSteps ==
    ASSUME TypeInv, NEW w \in Worker, Reconcile(w) \/ Lease(w)
    PROVE  TypeInv'
<1> USE DEF TypeInv, TypeOK, CurrentJobOK
<1>1. CASE Reconcile(w)
  <2>1. PICK S \in SUBSET {c \in Calc : IsStale(job[c])} :
           /\ job' = [c \in Calc |-> IF c \in S THEN Reconciled(job[c]) ELSE job[c]]
           /\ recon' = [recon EXCEPT ![w] = {<<c, StaleOutcome(job[c])>> : c \in S}]
    BY <1>1 DEF Reconcile
  <2>2. job' \in [Calc -> JobRow]
    BY <2>1, LockedRowTypes
  <2>3. {<<c, StaleOutcome(job[c])>> : c \in S} \in SUBSET (Calc \X {"pending", "failed"})
    BY DEF StaleOutcome
  <2>4. recon' \in [Worker -> SUBSET (Calc \X {"pending", "failed"})]
    BY <2>1, <2>3
  <2>5. QED
    BY <1>1, <2>2, <2>4 DEF Reconcile, Goto, Control, Busy
<1>2. CASE Lease(w)
  <2>1. PICK S \in SUBSET {c \in Calc : IsLeasable(job[c])} :
           /\ job' = [c \in Calc |->
                         IF c \in S
                         THEN IF c \in CorruptCalc THEN Rejected(job[c]) ELSE Leased(job[c], w)
                         ELSE job[c]]
           /\ batch' = [batch EXCEPT ![w] = S \ CorruptCalc]
    BY <1>2 DEF Lease
  <2>2. job' \in [Calc -> JobRow]
    BY <2>1, LockedRowTypes
  <2>3. batch' \in [Worker -> SUBSET Calc]
    BY <2>1
  <2>4. QED
    BY <1>2, <2>2, <2>3 DEF Lease, Goto, Control, Busy
<1>3. QED
  BY <1>1, <1>2

\* Steps of a worker that load a row, or skip it.
LEMMA TypeLoadSteps ==
    ASSUME TypeInv, NEW w \in Worker,
           \/ RecoverFromResult(w) \/ RenewLease(w) \/ MarkComplete(w) \/ MarkFailure(w)
           \/ \E c \in Calc : Acquire(w, c)
    PROVE  TypeInv'
<1> USE DEF TypeInv, TypeOK, CurrentJobOK
<1>1. CASE RecoverFromResult(w)
  <2>1. cur[w] \in Calc
    BY <1>1 DEF RecoverFromResult, Busy, Control
  <2>2. Completed(job[cur[w]]) \in JobRow
    BY <2>1, IntendedRowTypes
  <2>3. /\ txn' \in [Worker -> Txn]
        /\ pc' = [pc EXCEPT ![w] = "flush"]
        /\ pc' \in [Worker -> Control]
    BY <1>1, <2>1, <2>2, LoadType DEF RecoverFromResult, Continuation
  <2>4. QED
    BY <1>1, <2>1, <2>3 DEF RecoverFromResult, durable
<1>2. CASE RenewLease(w)
  <2>1. cur[w] \in Calc
    BY <1>2 DEF RenewLease, Busy, Control
  <2>2. Renewed(job[cur[w]]) \in JobRow
    BY <2>1, IntendedRowTypes
  <2>3. /\ txn' \in [Worker -> Txn]
        /\ pc' = [pc EXCEPT ![w] = "flush"] \/ pc' = [pc EXCEPT ![w] = "fail_final"]
        /\ pc' \in [Worker -> Control]
    <3>1. CASE OwnsActiveLease(job[cur[w]], acq[w])
      BY <1>2, <2>1, <2>2, <3>1, LoadType DEF RenewLease, Continuation
    <3>2. CASE ~OwnsActiveLease(job[cur[w]], acq[w])
      BY <1>2, <3>2 DEF RenewLease, Goto, Control
    <3>3. QED
      BY <3>1, <3>2
  <2>4. QED
    BY <1>2, <2>1, <2>3 DEF RenewLease, durable
<1>3. CASE MarkComplete(w)
  <2>1. cur[w] \in Calc
    BY <1>3 DEF MarkComplete, Busy, Control
  <2>2. Completed(job[cur[w]]) \in JobRow
    BY <2>1, IntendedRowTypes
  <2>3. CASE Load(w, cur[w], Completed(job[cur[w]]), "process") /\ UNCHANGED <<cur, acq>>
    <3>1. /\ txn' \in [Worker -> Txn]
          /\ pc' = [pc EXCEPT ![w] = "flush"]
          /\ pc' \in [Worker -> Control]
      BY <1>3, <2>1, <2>2, <2>3, LoadType DEF MarkComplete, Continuation
    <3>2. QED
      BY <1>3, <2>1, <2>3, <3>1 DEF MarkComplete, durable
  <2>4. CASE LeaveJob(w) /\ UNCHANGED txn
    BY <1>3, <2>4 DEF MarkComplete, LeaveJob, Goto, durable, Control, Busy
  <2>5. QED
    BY <1>3, <2>3, <2>4 DEF MarkComplete
<1>4. CASE MarkFailure(w)
  <2> DEFINE row == job[cur[w]]
             intended == IF pc[w] = "fail_retry" THEN RetryableFailure(row) ELSE Failed(row)
  <2>1. cur[w] \in Calc
    BY <1>4 DEF MarkFailure, Busy, Control
  <2>2. intended \in JobRow
    BY <2>1, IntendedRowTypes
  <2>3. AfterFailure(w, intended) \in Continuation
    BY DEF AfterFailure, Continuation
  <2>4. CASE OwnsActiveLease(row, acq[w])
    <3>1. Load(w, cur[w], intended, AfterFailure(w, intended)) /\ UNCHANGED <<cur, acq>>
      BY <1>4, <2>4 DEF MarkFailure
    <3> HIDE DEF intended
    <3>2. /\ txn' \in [Worker -> Txn]
          /\ pc' = [pc EXCEPT ![w] = "flush"]
          /\ pc' \in [Worker -> Control]
      BY <2>1, <2>2, <2>3, <3>1, LoadType
    <3>3. QED
      BY <1>4, <2>1, <3>1, <3>2 DEF MarkFailure, durable
  <2>5. CASE ~OwnsActiveLease(row, acq[w])
    BY <1>4, <2>5 DEF MarkFailure, LeaveJob, Goto, durable, Control, Busy
  <2>6. QED
    BY <2>4, <2>5
<1>5. ASSUME NEW c \in Calc, Acquire(w, c) PROVE TypeInv'
  <2>1. PICK a \in Acquisition : acq' = [acq EXCEPT ![w] = a]
                               /\ Load(w, c, Acquired(job[c], a), "execute")
    BY <1>5 DEF Acquire
  <2>2. Acquired(job[c], a) \in JobRow
    BY IntendedRowTypes
  <2>3. /\ txn' \in [Worker -> Txn]
        /\ pc' = [pc EXCEPT ![w] = "flush"]
        /\ pc' \in [Worker -> Control]
    BY <2>1, <2>2, LoadType DEF Continuation
  <2>4. QED
    BY <1>5, <2>1, <2>3 DEF Acquire, durable
<1>6. QED
  BY <1>1, <1>2, <1>3, <1>4, <1>5

\* Steps of a worker that leave the transaction slots alone.
LEMMA TypeOtherSteps ==
    ASSUME TypeInv, NEW w \in Worker,
           \/ HandleReconciled(w) \/ HandledAll(w) \/ NextPoll(w)
           \/ \E c \in Calc : SkipAcquisition(w, c)
           \/ ExecuteSucceeds(w) \/ ExecuteFails(w) \/ InlineLineage(w)
           \/ CheckOwner(w) \/ RecordSuccess(w) \/ RecordCompositeSuccess(w)
           \/ CaptureComposite(w) \/ PublicationFails(w) \/ RecordFailure(w)
           \/ MergeFailure(w) \/ FailExecution(w)
    PROVE  TypeInv'
<1> USE DEF TypeInv, TypeOK, CurrentJobOK, Goto, Control, Busy
<1>1. CASE HandleReconciled(w)
  <2>1. PICK r \in recon[w] :
           /\ recon' = [recon EXCEPT ![w] = @ \ {r}]
           /\ \/ /\ cur' = [cur EXCEPT ![w] = r[1]]
                 /\ \/ pc' = [pc EXCEPT ![w] = "recover"]
                    \/ pc' = [pc EXCEPT ![w] = "fail_exec"]
                    \/ pc' = [pc EXCEPT ![w] = "fail_result"]
              \/ UNCHANGED <<cur, pc>>
    BY <1>1 DEF HandleReconciled
  <2>2. r[1] \in Calc
    BY <2>1
  <2>3. recon' \in [Worker -> SUBSET (Calc \X {"pending", "failed"})]
    BY <2>1
  <2>4. cur' \in [Worker -> Calc \cup {NoCalc}] /\ pc' \in [Worker -> Control]
    BY <2>1, <2>2
  <2>5. CurrentJobOK'
    BY <2>1, <2>2
  <2>6. QED
    BY <1>1, <2>3, <2>4, <2>5 DEF HandleReconciled, durable
<1>2. CASE HandledAll(w)
  BY <1>2 DEF HandledAll, durable
<1>3. CASE NextPoll(w)
  BY <1>3 DEF NextPoll, durable
<1>4. ASSUME NEW c \in Calc, SkipAcquisition(w, c) PROVE TypeInv'
  BY <1>4 DEF SkipAcquisition, durable
<1>5. CASE ExecuteSucceeds(w)
  BY <1>5 DEF ExecuteSucceeds, ExecStatus, LineageStatus
<1>6. CASE ExecuteFails(w)
  BY <1>6 DEF ExecuteFails, ExecStatus
<1>7. CASE InlineLineage(w)
  BY <1>7 DEF InlineLineage, ExecStatus, LineageStatus
<1>8. CASE CheckOwner(w)
  BY <1>8 DEF CheckOwner, LeaveJob, durable
<1>9. CASE RecordSuccess(w)
  BY <1>9 DEF RecordSuccess, ResultStatus
<1>10. CASE RecordCompositeSuccess(w)
  BY <1>10 DEF RecordCompositeSuccess, ResultStatus
<1>11. CASE PublicationFails(w)
  BY <1>11 DEF PublicationFails, durable
<1>12. CASE RecordFailure(w)
  BY <1>12 DEF RecordFailure, durable
<1>13. CASE FailExecution(w)
  BY <1>13 DEF FailExecution, LeaveJob, ExecStatus
<1>14. CASE CaptureComposite(w)
  BY <1>14 DEF CaptureComposite, ExecStatus, LineageStatus
<1>15. CASE MergeFailure(w)
  BY <1>15 DEF MergeFailure, ResultStatus
<1>16. QED
  BY <1>1, <1>2, <1>3, <1>4, <1>5, <1>6, <1>7, <1>8, <1>9, <1>10, <1>11, <1>12, <1>13,
     <1>14, <1>15

\* A flush writes a row; after it the worker handles its job or has left it.
LEMMA TypeFlush ==
    ASSUME TypeInv, NEW w \in Worker, Flush(w)
    PROVE  TypeInv'
<1> USE DEF TypeInv, TypeOK, CurrentJobOK
<1>1. cur[w] \in Calc
  BY DEF Flush, Busy, Control
<1>2. txn[w].loaded \in JobRow /\ txn[w].intended \in JobRow /\ txn[w].then \in Continuation
  BY DEF Txn
<1>3. FlushRow(job[cur[w]], txn[w].loaded, txn[w].intended) \in JobRow
  BY <1>1, <1>2, FlushRowType
<1>4. job' \in [Calc -> JobRow]
  BY <1>1, <1>3 DEF Flush
<1>5. NoTxn \in Txn
  BY LockedRowTypes DEF NoTxn, Txn, Continuation, AbsentRow, JobRow, JobStatus, LeaseState, Owner
<1>6. txn' \in [Worker -> Txn] /\ pc' \in [Worker -> Control]
  BY <1>2, <1>5 DEF Flush, Goto, Continuation, Control
<1>7. cur' \in [Worker -> Calc \cup {NoCalc}] /\ acq' \in [Worker -> Acquisition \cup {NoOwner}]
  BY DEF Flush
<1>8. CurrentJobOK'
  BY <1>1, <1>2 DEF Flush, Goto, Continuation, Control, Busy
<1>9. QED
  BY <1>4, <1>6, <1>7, <1>8 DEF Flush

LEMMA TypeCrash ==
    ASSUME TypeInv, NEW w \in Worker, Crash(w)
    PROVE  TypeInv'
<1> USE DEF TypeInv, TypeOK, CurrentJobOK
<1>1. NoTxn \in Txn
  BY LockedRowTypes DEF NoTxn, Txn, Continuation, AbsentRow, JobRow, JobStatus, LeaseState, Owner
<1>2. crashes' \in 0..MaxCrashes
  BY BoundAssumption DEF Crash
<1>3. QED
  BY <1>1, <1>2 DEF Crash, Goto, durable, Control, Busy

LEMMA TypeStep == TypeInv /\ [Next]_vars => TypeInv'
<1> SUFFICES ASSUME TypeInv, [Next]_vars
             PROVE  TypeInv'
  OBVIOUS
<1>1. ASSUME NEW w \in Worker, Step(w) PROVE TypeInv'
  BY <1>1, TypeLockedSteps, TypeLoadSteps, TypeOtherSteps, TypeFlush DEF Step
<1>2. ASSUME NEW w \in Worker, Crash(w) PROVE TypeInv'
  BY <1>2, TypeCrash
<1>3. CASE Environment
  BY <1>3, TypeEnvironment
<1>4. CASE UNCHANGED vars
  BY <1>4 DEF vars, durable, local, TypeInv, TypeOK, CurrentJobOK
<1>5. QED
  BY <1>1, <1>2, <1>3, <1>4 DEF Next

LEMMA TypeInvariance == Spec => []TypeInv
BY TypeInit, TypeStep, PTL DEF Spec

\* Every reachable state is well typed, for any number of workers and jobs:
\* the merged writes of overlapping transactions never produce a malformed
\* row, and every status, owner and lease column holds a declared value.
THEOREM TypeCorrect == Spec => []TypeOK
<1>1. TypeInv => TypeOK
  BY DEF TypeInv
<1>2. QED
  BY <1>1, TypeInvariance, PTL

-----------------------------------------------------------------------------
(* The stored result.                                                      *)

\* The steps that write the result store: record_success, the composite
\* publications and the merge of record_failure.
LEMMA ResultWriters ==
    ASSUME [Next]_vars
    PROVE  \/ UNCHANGED result
           \/ \E w \in Worker : RecordSuccess(w) \/ RecordCompositeSuccess(w) \/ MergeFailure(w)
<1>1. ASSUME NEW w \in Worker, Step(w),
             ~RecordSuccess(w), ~RecordCompositeSuccess(w), ~MergeFailure(w)
      PROVE  UNCHANGED result
  BY <1>1 DEF Step, durable, Reconcile, HandleReconciled, HandledAll, RecoverFromResult,
       Lease, Acquire, SkipAcquisition, NextPoll, ExecuteSucceeds, ExecuteFails, RenewLease,
       InlineLineage, CheckOwner, CaptureComposite, PublicationFails, MarkComplete,
       MarkFailure, RecordFailure, FailExecution, Flush
<1>2. ASSUME NEW w \in Worker, Crash(w) PROVE UNCHANGED result
  BY <1>2 DEF Crash, durable
<1>3. CASE Environment
  BY <1>3 DEF Environment, Submit, CancelExecution, LeaseExpires, LineageCompletes,
       LineageFails, CancelPending, ApiStops
<1>4. CASE UNCHANGED vars
  BY <1>4 DEF vars, durable
<1>5. QED
  BY <1>1, <1>2, <1>3, <1>4 DEF Next

\* No transaction of any process removes a stored result.
LEMMA ResultKept ==
    ASSUME TypeInv, [Next]_vars
    PROVE  \A c \in Calc : result[c] # "none" => result'[c] # "none"
<1> USE DEF TypeInv, TypeOK
<1>1. CASE UNCHANGED result
  BY <1>1
<1>2. ASSUME NEW w \in Worker, RecordSuccess(w) \/ RecordCompositeSuccess(w)
      PROVE  \A c \in Calc : result[c] # "none" => result'[c] # "none"
  BY <1>2 DEF RecordSuccess, RecordCompositeSuccess
<1>3. ASSUME NEW w \in Worker, MergeFailure(w)
      PROVE  \A c \in Calc : result[c] # "none" => result'[c] # "none"
  BY <1>3 DEF MergeFailure
<1>4. QED
  BY <1>1, <1>2, <1>3, ResultWriters

(* A complete job has some result, and a worker that is about to complete  *)
(* a job, or has loaded its row to do so, finds one in place.              *)
CompletedHasSome == \A c \in Calc : job[c].status = "complete" => result[c] # "none"

ResultFirst ==
    /\ CompletedHasSome
    /\ \A w \in Worker : pc[w] \in {"capture", "complete", "recover"} => result[cur[w]] # "none"
    /\ \A w \in Worker :
          pc[w] = "flush" /\ txn[w].intended.status = "complete" => result[cur[w]] # "none"

\* The status each store operation gives a row.
LEMMA RowStatuses ==
    ASSUME NEW row \in JobRow
    PROVE  /\ Registered.status = "pending"
           /\ \A w \in Worker : Leased(row, w).status = "leased"
           /\ Rejected(row).status = "failed"
           /\ Reconciled(row).status = StaleOutcome(row)
           /\ StaleOutcome(row) \in {"pending", "failed"}
           /\ Cancelled(row).status = "failed"
           /\ \A a \in Acquisition : Acquired(row, a).status = "running"
           /\ Renewed(row).status = row.status
           /\ Completed(row).status = "complete"
           /\ Failed(row).status = "failed"
           /\ RetryableFailure(row).status \in {"pending", "failed"}
BY DEF JobRow, AbsentRow, Registered, Leased, Rejected, Reconciled, StaleOutcome, Cancelled,
       Acquired, Renewed, Completed, Failed, RetryableFailure

\* Steps of the API, the lineage worker and the clock do not complete a job.
LEMMA ResultFirstEnvironment ==
    ASSUME TypeInv, ResultFirst, Environment
    PROVE  ResultFirst'
<1> USE DEF TypeInv, TypeOK, ResultFirst, CompletedHasSome
<1>1. UNCHANGED <<result, pc, cur, txn>>
  BY DEF Environment, Submit, CancelExecution, LeaseExpires, LineageCompletes,
       LineageFails, CancelPending, ApiStops, local
<1>2. ASSUME NEW c \in Calc, job'[c].status = "complete" PROVE job[c].status = "complete"
  <2>1. ASSUME NEW d \in Calc, Submit(d) PROVE job[c].status = "complete"
    BY <1>2, <2>1, RowStatuses DEF Submit
  <2>2. ASSUME NEW d \in Calc, LeaseExpires(d) PROVE job[c].status = "complete"
    BY <1>2, <2>2 DEF LeaseExpires, JobRow
  <2>3. ASSUME NEW S \in SUBSET CorrectionCalc, CancelPending(S)
        PROVE  job[c].status = "complete"
    <3>1. job'[c] = job[c] \/ job'[c] = Cancelled(job[c])
      BY <2>3 DEF CancelPending
    <3>2. QED
      BY <1>2, <3>1, RowStatuses
  <2>4. CASE UNCHANGED job
    BY <1>2, <2>4
  <2>5. QED
    BY <2>1, <2>2, <2>3, <2>4
    DEF Environment, CancelExecution, LineageCompletes, LineageFails, ApiStops
<1>3. QED
  BY <1>1, <1>2

\* Steps of a worker that write the job table under a lock never complete it.
LEMMA ResultFirstLockedSteps ==
    ASSUME TypeInv, ResultFirst, NEW w \in Worker, Reconcile(w) \/ Lease(w)
    PROVE  ResultFirst'
<1> USE DEF TypeInv, TypeOK, ResultFirst, CompletedHasSome
<1>1. UNCHANGED <<result, cur, txn>> /\ pc' \in {[pc EXCEPT ![w] = "handle"], [pc EXCEPT ![w] = "process"]}
  BY DEF Reconcile, Lease, Goto
<1>2. ASSUME NEW c \in Calc, job'[c].status = "complete" PROVE job[c].status = "complete"
  <2>1. \/ job'[c] \in {job[c], Reconciled(job[c])}
        \/ job'[c] \in {job[c], Rejected(job[c]), Leased(job[c], w)}
    <3>1. CASE Reconcile(w)
      BY <3>1 DEF Reconcile
    <3>2. CASE Lease(w)
      BY <3>2 DEF Lease
    <3>3. QED
      BY <3>1, <3>2
  <2>2. /\ Reconciled(job[c]).status # "complete"
        /\ Rejected(job[c]).status # "complete"
        /\ Leased(job[c], w).status # "complete"
    <3>1. job[c] \in JobRow
      OBVIOUS
    <3>2. QED
      BY <3>1, RowStatuses
  <2>3. QED
    BY <1>2, <2>1, <2>2
<1>3. QED
  BY <1>1, <1>2

\* Steps of a worker that load a row intend to complete it only from the
\* control states that find the success in place.
LEMMA ResultFirstLoadSteps ==
    ASSUME TypeInv, ResultFirst, NEW w \in Worker,
           \/ RecoverFromResult(w) \/ RenewLease(w) \/ MarkComplete(w) \/ MarkFailure(w)
           \/ \E c \in Calc : Acquire(w, c)
    PROVE  ResultFirst'
<1> USE DEF TypeInv, TypeOK, CurrentJobOK, ResultFirst, CompletedHasSome, Goto
<1>1. CASE RecoverFromResult(w)
  BY <1>1 DEF RecoverFromResult, Load, durable
<1>2. CASE RenewLease(w)
  <2>1. cur[w] \in Calc
    BY <1>2 DEF RenewLease, Busy, Control
  <2>2. CASE OwnsActiveLease(job[cur[w]], acq[w])
    <3>1. Renewed(job[cur[w]]).status # "complete"
      BY <2>1, <2>2, RowStatuses DEF OwnsActiveLease
    <3>2. QED
      BY <1>2, <2>2, <3>1 DEF RenewLease, Load, durable
  <2>3. CASE ~OwnsActiveLease(job[cur[w]], acq[w])
    BY <1>2, <2>3 DEF RenewLease, durable
  <2>4. QED
    BY <2>2, <2>3
<1>3. CASE MarkComplete(w)
  BY <1>3 DEF MarkComplete, Load, LeaveJob, durable
<1>4. CASE MarkFailure(w)
  <2>1. cur[w] \in Calc
    BY <1>4 DEF MarkFailure, Busy, Control
  <2>2. /\ RetryableFailure(job[cur[w]]).status # "complete"
        /\ Failed(job[cur[w]]).status # "complete"
    BY <2>1, RowStatuses
  <2>3. QED
    BY <1>4, <2>2 DEF MarkFailure, Load, LeaveJob, durable
<1>5. ASSUME NEW c \in Calc, Acquire(w, c) PROVE ResultFirst'
  <2>1. PICK a \in Acquisition : Load(w, c, Acquired(job[c], a), "execute")
    BY <1>5 DEF Acquire
  <2>2. Acquired(job[c], a).status # "complete"
    BY RowStatuses
  <2>3. QED
    BY <1>5, <2>1, <2>2 DEF Acquire, Load, durable
<1>6. QED
  BY <1>1, <1>2, <1>3, <1>4, <1>5

\* The other steps of a worker: only a stored or a found success leads on to
\* the completion of the job.
LEMMA ResultFirstOtherSteps ==
    ASSUME TypeInv, ResultFirst, NEW w \in Worker,
           \/ HandleReconciled(w) \/ HandledAll(w) \/ NextPoll(w)
           \/ \E c \in Calc : SkipAcquisition(w, c)
           \/ ExecuteSucceeds(w) \/ ExecuteFails(w) \/ InlineLineage(w)
           \/ CheckOwner(w) \/ RecordSuccess(w) \/ RecordCompositeSuccess(w)
           \/ CaptureComposite(w) \/ PublicationFails(w) \/ RecordFailure(w)
           \/ MergeFailure(w) \/ FailExecution(w) \/ Crash(w),
           \A c \in Calc : result[c] # "none" => result'[c] # "none"
    PROVE  ResultFirst'
<1> USE DEF TypeInv, TypeOK, CurrentJobOK, ResultFirst, CompletedHasSome, Goto
<1>1. CASE HandleReconciled(w)
  BY <1>1 DEF HandleReconciled, durable
<1>2. CASE HandledAll(w) \/ NextPoll(w)
  BY <1>2 DEF HandledAll, NextPoll, durable
<1>3. ASSUME NEW c \in Calc, SkipAcquisition(w, c) PROVE ResultFirst'
  BY <1>3 DEF SkipAcquisition, durable
<1>4. CASE ExecuteSucceeds(w) \/ ExecuteFails(w) \/ InlineLineage(w)
  BY <1>4 DEF ExecuteSucceeds, ExecuteFails, InlineLineage
<1>5. CASE CheckOwner(w) \/ PublicationFails(w) \/ FailExecution(w)
  BY <1>5 DEF CheckOwner, PublicationFails, FailExecution, LeaveJob, durable
<1>6. CASE RecordSuccess(w) \/ RecordCompositeSuccess(w) \/ MergeFailure(w)
  <2>1. /\ UNCHANGED <<job, cur, txn>>
        /\ \A v \in Worker : v # w => pc'[v] = pc[v]
        /\ pc'[w] \notin {"recover", "flush"}
        /\ pc'[w] \in {"capture", "complete"} => result'[cur[w]] # "none"
    <3>1. cur[w] \in Calc
      BY <1>6 DEF RecordSuccess, RecordCompositeSuccess, MergeFailure, Busy, Control
    <3>2. CASE RecordSuccess(w)
      BY <3>1, <3>2 DEF RecordSuccess
    <3>3. CASE RecordCompositeSuccess(w)
      BY <3>1, <3>3 DEF RecordCompositeSuccess
    <3>4. CASE MergeFailure(w)
      BY <3>1, <3>4 DEF MergeFailure
    <3>5. QED
      BY <1>6, <3>2, <3>3, <3>4
  <2>2. \A v \in Worker : pc[v] \in {"capture", "complete", "recover", "flush"} => cur[v] \in Calc
    BY DEF Busy, Control
  <2>3. QED
    BY <2>1, <2>2
<1>7. CASE Crash(w)
  BY <1>7 DEF Crash, durable
<1>8. CASE CaptureComposite(w) \/ RecordFailure(w)
  BY <1>8 DEF CaptureComposite, RecordFailure, durable
<1>9. QED
  BY <1>1, <1>2, <1>3, <1>4, <1>5, <1>6, <1>7, <1>8

\* A flush completes a job only where the load found the success in place,
\* or leaves a status that another worker wrote.
LEMMA ResultFirstFlush ==
    ASSUME TypeInv, ResultFirst, NEW w \in Worker, Flush(w)
    PROVE  ResultFirst'
<1> USE DEF TypeInv, TypeOK, CurrentJobOK, ResultFirst, CompletedHasSome
<1>1. cur[w] \in Calc
  BY DEF Flush, Busy, Control
<1>2. job' = [job EXCEPT ![cur[w]] = FlushRow(job[cur[w]], txn[w].loaded, txn[w].intended)]
  BY DEF Flush
<1>3. FlushRow(job[cur[w]], txn[w].loaded, txn[w].intended).status
        \in {txn[w].intended.status, job[cur[w]].status}
  BY DEF FlushRow
<1>4. UNCHANGED result /\ pc[w] = "flush"
  BY DEF Flush
<1>5. CompletedHasSome'
  BY <1>1, <1>2, <1>3, <1>4
<1>6. pc'[w] \notin {"capture", "complete", "recover", "flush"}
  BY DEF Flush, Goto, Txn, Continuation
<1>7. \A v \in Worker : v # w => pc'[v] = pc[v] /\ cur'[v] = cur[v] /\ txn'[v] = txn[v]
  BY DEF Flush, Goto
<1>8. QED
  BY <1>4, <1>5, <1>6, <1>7

LEMMA ResultFirstInvariance == Spec => []ResultFirst
<1>1. Init => ResultFirst
  BY DEF Init, ResultFirst, CompletedHasSome, AbsentRow
<1>2. TypeInv /\ ResultFirst /\ [Next]_vars => ResultFirst'
  <2> SUFFICES ASSUME TypeInv, ResultFirst, [Next]_vars
               PROVE  ResultFirst'
    OBVIOUS
  <2>1. \A c \in Calc : result[c] # "none" => result'[c] # "none"
    BY ResultKept
  <2>2. ASSUME NEW w \in Worker, Step(w) PROVE ResultFirst'
    BY <2>1, <2>2, ResultFirstLockedSteps, ResultFirstLoadSteps, ResultFirstOtherSteps,
       ResultFirstFlush DEF Step
  <2>3. ASSUME NEW w \in Worker, Crash(w) PROVE ResultFirst'
    BY <2>1, <2>3, ResultFirstOtherSteps
  <2>4. CASE Environment
    BY <2>4, ResultFirstEnvironment
  <2>5. CASE UNCHANGED vars
    BY <2>5 DEF vars, durable, local, ResultFirst, CompletedHasSome
  <2>6. QED
    BY <2>2, <2>3, <2>4, <2>5 DEF Next
<1>3. QED
  BY <1>1, <1>2, TypeInvariance, PTL DEF Spec

-----------------------------------------------------------------------------
(* The owner of an active row.                                             *)

Active == {"leased", "running"}

RowOwned(r) == r.status \in Active => r.owner # NoOwner /\ r.lease # "none"

(* A unit of work that checked its ownership acquires, renews or finishes  *)
(* the job; the follow-up of a reconciled job completes it unchecked.      *)
Checked(t) ==
    /\ t.then \notin {"handle", "reconcile"}
    /\ t.loaded.status \in Active
    /\ \/ /\ t.intended.owner \in Acquisition /\ t.intended.owner # t.loaded.owner
          /\ t.intended.lease = "live"
       \/ /\ t.intended.status = t.loaded.status /\ t.intended.owner = t.loaded.owner
          /\ t.intended.lease = "live"
       \/ t.intended.status \notin Active

Recovering(t) ==
    /\ t.then = "handle"
    /\ t.intended.status = "complete"

Recovers(w) == pc[w] = "recover" \/ (pc[w] = "flush" /\ txn[w].then = "handle")

(* The worker still has to follow up the job it reconciled.                *)
Follows(w, c) ==
    \/ \E r \in recon[w] : r[1] = c
    \/ Recovers(w) /\ cur[w] = c

(* A worker between two jobs has no acquisition; while reconciled jobs     *)
(* wait for their follow-up it has none either, and it follows up each of  *)
(* them once.                                                              *)
LoopOK(w) ==
    /\ pc[w] \in {"reconcile", "handle", "lease", "process"} => acq[w] = NoOwner
    /\ recon[w] # {} => /\ acq[w] = NoOwner
                        /\ pc[w] \in {"handle", "fail_result", "merge_failure", "fail_exec"} \/ Recovers(w)
    /\ \A r, s \in recon[w] : r[1] = s[1] => r = s
    /\ Recovers(w) => \A r \in recon[w] : r[1] # cur[w]

(* While one worker follows up a job that is complete, the other one holds *)
(* no unit of work that could make the job active again.                   *)
NoLateWork(w, v) ==
    \A c \in Calc :
        Follows(w, c) /\ job[c].status = "complete"
            => ~(pc[v] = "flush" /\ cur[v] = c /\ Checked(txn[v]))

(* So a row that was complete when its recovery loaded it still is.        *)
RecoveryOK(w) ==
    pc[w] = "flush" /\ Recovering(txn[w]) /\ txn[w].loaded.status = "complete"
        => job[cur[w]].status = "complete"

RowsOwned == \A c \in Calc : result[c] = "none" \/ AtMostTwoWorkers => RowOwned(job[c])
SlotsKnown == \A w \in Worker : pc[w] = "flush" => Checked(txn[w]) \/ Recovering(txn[w])
LoopsOK == \A w \in Worker : LoopOK(w)
PairOK ==
    AtMostTwoWorkers => /\ \A w, v \in Worker : w # v => NoLateWork(w, v)
                        /\ \A w \in Worker : RecoveryOK(w)

OwnerInv == RowsOwned /\ SlotsKnown /\ LoopsOK /\ PairOK

SameWorker(v) ==
    /\ pc'[v] = pc[v] /\ recon'[v] = recon[v] /\ cur'[v] = cur[v]
    /\ acq'[v] = acq[v] /\ txn'[v] = txn[v]

\* What stays true of a worker that takes no step.
LEMMA SameWorkerKeeps ==
    ASSUME NEW v, SameWorker(v)
    PROVE  /\ LoopOK(v) => LoopOK(v)'
           /\ \A c : Follows(v, c)' <=> Follows(v, c)
           /\ Checked(txn[v])' <=> Checked(txn[v])
           /\ Recovering(txn[v])' <=> Recovering(txn[v])
BY DEF SameWorker, LoopOK, Follows, Recovers, Checked, Recovering

\* A step of one worker that completes or revives no row, and whose own
\* memory follows up no complete job and loads no row that it should not.
LEMMA OwnerStep ==
    ASSUME TypeInv, OwnerInv, NEW w \in Worker,
           \A c \in Calc : result[c] # "none" => result'[c] # "none",
           \A c \in Calc : RowOwned(job[c]) => RowOwned(job'[c]),
           \A c \in Calc : job'[c].status = "complete" <=> job[c].status = "complete",
           \A u \in Worker : u # w => SameWorker(u),
           LoopOK(w)',
           \A c \in Calc : Follows(w, c)' /\ job'[c].status = "complete" => Follows(w, c),
           pc'[w] = "flush" =>
              /\ cur'[w] \in Calc
              /\ \/ Recovering(txn'[w]) /\ txn'[w].loaded = job[cur'[w]]
                 \/ Checked(txn'[w]) /\ job[cur'[w]].status \in Active
    PROVE  OwnerInv'
<1> USE DEF OwnerInv
<1>1. RowsOwned'
  BY DEF RowsOwned, AtMostTwoWorkers
<1>2. SlotsKnown'
  BY SameWorkerKeeps DEF SlotsKnown, SameWorker
<1>3. LoopsOK'
  BY SameWorkerKeeps DEF LoopsOK
<1>4. ASSUME AtMostTwoWorkers, NEW u \in Worker, NEW v \in Worker, u # v
      PROVE  NoLateWork(u, v)'
  <2>1. SUFFICES ASSUME NEW c \in Calc, Follows(u, c)', job'[c].status = "complete",
                        pc'[v] = "flush", cur'[v] = c, Checked(txn[v])'
                 PROVE  FALSE
    BY DEF NoLateWork
  <2>2. Follows(u, c)
    BY <2>1, SameWorkerKeeps
  <2>3. job[c].status = "complete"
    BY <2>1
  <2>4. CASE v = w
    <3>1. Checked(txn'[w])
      BY <2>1, <2>4
    <3>2. ~Recovering(txn'[w])
      BY <3>1 DEF Checked, Recovering
    <3>3. QED
      BY <2>1, <2>3, <2>4, <3>2 DEF Active
  <2>5. CASE v # w
    <3>1. pc[v] = "flush" /\ cur[v] = c /\ Checked(txn[v])
      BY <2>1, <2>5, SameWorkerKeeps DEF SameWorker
    <3>2. QED
      BY <1>4, <2>2, <2>3, <3>1 DEF PairOK, NoLateWork
  <2>6. QED
    BY <2>4, <2>5
<1>5. ASSUME AtMostTwoWorkers, NEW u \in Worker PROVE RecoveryOK(u)'
  <2>1. CASE u = w
    <3>1. SUFFICES ASSUME pc'[w] = "flush", Recovering(txn'[w]),
                          txn'[w].loaded.status = "complete"
                   PROVE  job'[cur'[w]].status = "complete"
      BY <2>1 DEF RecoveryOK
    <3>2. ~Checked(txn'[w])
      BY <3>1 DEF Checked, Recovering
    <3>3. QED
      BY <3>1, <3>2
  <2>2. CASE u # w
    <3>1. SUFFICES ASSUME pc[u] = "flush", Recovering(txn[u]),
                          txn[u].loaded.status = "complete"
                   PROVE  job'[cur[u]].status = "complete"
      BY <2>2, SameWorkerKeeps DEF RecoveryOK, SameWorker
    <3>2. cur[u] \in Calc
      BY <3>1 DEF TypeInv, CurrentJobOK, Busy, Control
    <3>3. job[cur[u]].status = "complete"
      BY <1>5, <3>1 DEF PairOK, RecoveryOK
    <3>4. QED
      BY <3>2, <3>3
  <2>3. QED
    BY <2>1, <2>2
<1>6. PairOK'
  BY <1>4, <1>5 DEF PairOK, AtMostTwoWorkers
<1>7. QED
  BY <1>1, <1>2, <1>3, <1>6

\* What the locked operations do to the owner of a row.
LEMMA RowsStayOwned ==
    ASSUME NEW row \in JobRow
    PROVE  /\ RowOwned(AbsentRow) /\ RowOwned(Registered)
           /\ \A w \in Worker : RowOwned(Leased(row, w))
           /\ RowOwned(Rejected(row))
           /\ RowOwned(Reconciled(row))
           /\ RowOwned(Cancelled(row))
           /\ RowOwned(row) => RowOwned([row EXCEPT !.lease = "expired"])
BY OwnerAssumption
DEF RowOwned, Active, JobRow, Owner, AbsentRow, Registered, Leased, Rejected, Reconciled,
    StaleOutcome, Cancelled

\* The API, the lineage worker and the clock touch no worker and complete no
\* job; cancel_pending_jobs and register_job leave rows that nobody owns.
LEMMA OwnerEnvironment ==
    ASSUME TypeInv, OwnerInv, Environment
    PROVE  OwnerInv'
<1> USE DEF TypeInv, TypeOK
<1>1. UNCHANGED <<result, pc, recon, cur, acq, txn>>
  BY DEF Environment, Submit, CancelExecution, LeaseExpires, LineageCompletes,
       LineageFails, CancelPending, ApiStops, local
<1>2. ASSUME NEW c \in Calc
      PROVE  /\ RowOwned(job[c]) => RowOwned(job'[c])
             /\ job'[c].status = "complete" <=> job[c].status = "complete"
  <2>1. ASSUME NEW d \in Calc, Submit(d) PROVE <1>2!2
    BY <2>1, RowStatuses, RowsStayOwned DEF Submit
  <2>2. ASSUME NEW d \in Calc, LeaseExpires(d) PROVE <1>2!2
    <3>1. job'[c] = job[c] \/ job'[c] = [job[c] EXCEPT !.lease = "expired"]
      BY <2>2 DEF LeaseExpires
    <3>2. [job[c] EXCEPT !.lease = "expired"].status = job[c].status
      BY DEF JobRow
    <3>3. job[c] \in JobRow
      OBVIOUS
    <3>4. RowOwned(job[c]) => RowOwned([job[c] EXCEPT !.lease = "expired"])
      BY <3>3, RowsStayOwned
    <3>5. QED
      BY <3>1, <3>2, <3>4
  <2>3. ASSUME NEW S \in SUBSET CorrectionCalc, CancelPending(S) PROVE <1>2!2
    <3>1. \/ job'[c] = job[c]
          \/ job'[c] = Cancelled(job[c]) /\ job[c].status = "pending"
      BY <2>3 DEF CancelPending
    <3>2. job[c] \in JobRow
      OBVIOUS
    <3>3. Cancelled(job[c]).status = "failed" /\ RowOwned(Cancelled(job[c]))
      BY <3>2, RowStatuses, RowsStayOwned
    <3>4. QED
      BY <3>1, <3>3
  <2>4. CASE UNCHANGED job
    BY <2>4
  <2>5. QED
    BY <2>1, <2>2, <2>3, <2>4
    DEF Environment, CancelExecution, LineageCompletes, LineageFails, ApiStops
<1>3. RowsOwned'
  BY <1>1, <1>2 DEF OwnerInv, RowsOwned, AtMostTwoWorkers
<1>4. SlotsKnown' /\ LoopsOK'
  BY <1>1 DEF OwnerInv, SlotsKnown, LoopsOK, LoopOK, Recovers, Checked, Recovering
<1>5. ASSUME NEW w \in Worker, NEW v \in Worker, NoLateWork(w, v) PROVE NoLateWork(w, v)'
  BY <1>1, <1>2, <1>5 DEF NoLateWork, Follows, Recovers, Checked
<1>6. ASSUME NEW w \in Worker, RecoveryOK(w) PROVE RecoveryOK(w)'
  <2>1. pc[w] = "flush" => cur[w] \in Calc
    BY DEF CurrentJobOK, Busy, Control
  <2>2. QED
    BY <1>1, <1>2, <1>6, <2>1 DEF RecoveryOK, Recovering
<1>7. PairOK'
  BY <1>5, <1>6 DEF OwnerInv, PairOK, AtMostTwoWorkers
<1>8. QED
  BY <1>3, <1>4, <1>7 DEF OwnerInv

\* reconcile_stale_jobs and lease_pending_jobs: a reconciled row is not
\* complete, and each is reconciled once.
LEMMA OwnerLockedSteps ==
    ASSUME TypeInv, OwnerInv, NEW w \in Worker, Reconcile(w) \/ Lease(w)
    PROVE  OwnerInv'
<1> USE DEF TypeInv, TypeOK
<1>1. LoopOK(w) /\ UNCHANGED result
  BY DEF OwnerInv, LoopsOK, Reconcile, Lease
<1>2. CASE Reconcile(w)
  <2>1. PICK S \in SUBSET {c \in Calc : IsStale(job[c])} :
           /\ job' = [c \in Calc |-> IF c \in S THEN Reconciled(job[c]) ELSE job[c]]
           /\ recon' = [recon EXCEPT ![w] = {<<c, StaleOutcome(job[c])>> : c \in S}]
    BY <1>2 DEF Reconcile
  <2>2. ASSUME NEW c \in Calc
        PROVE  /\ RowOwned(job[c]) => RowOwned(job'[c])
               /\ job'[c].status = "complete" <=> job[c].status = "complete"
               /\ c \in S => job'[c].status # "complete"
    <3>1. CASE c \in S
      <4>1. job'[c] = Reconciled(job[c]) /\ IsStale(job[c])
        BY <2>1, <3>1
      <4>2. job[c] \in JobRow
        OBVIOUS
      <4>3. Reconciled(job[c]).status \in {"pending", "failed"} /\ RowOwned(Reconciled(job[c]))
        BY <4>2, RowStatuses, RowsStayOwned
      <4>4. job[c].status # "complete"
        BY <4>1 DEF IsStale
      <4>5. QED
        BY <4>1, <4>3, <4>4
    <3>2. CASE c \notin S
      BY <2>1, <3>2
    <3>3. QED
      BY <3>1, <3>2
  <2>3. /\ \A u \in Worker : u # w => SameWorker(u)
        /\ pc[w] = "reconcile" /\ pc'[w] = "handle" /\ acq'[w] = acq[w]
        /\ recon'[w] = {<<c, StaleOutcome(job[c])>> : c \in S}
    BY <1>2, <2>1 DEF Reconcile, Goto, SameWorker
  <2>4. LoopOK(w)'
    BY <1>1, <2>3 DEF LoopOK, Recovers
  <2>5. \A c \in Calc : Follows(w, c)' => c \in S
    BY <2>3 DEF Follows, Recovers
  <2>6. QED
    BY <1>1, <2>2, <2>3, <2>4, <2>5, OwnerStep
<1>3. CASE Lease(w)
  <2>1. PICK S \in SUBSET {c \in Calc : IsLeasable(job[c])} :
           job' = [c \in Calc |->
                      IF c \in S
                      THEN IF c \in CorruptCalc THEN Rejected(job[c]) ELSE Leased(job[c], w)
                      ELSE job[c]]
    BY <1>3 DEF Lease
  <2>2. ASSUME NEW c \in Calc
        PROVE  /\ RowOwned(job[c]) => RowOwned(job'[c])
               /\ job'[c].status = "complete" <=> job[c].status = "complete"
    <3>1. CASE c \in S
      <4>1. job'[c] \in {Rejected(job[c]), Leased(job[c], w)} /\ IsLeasable(job[c])
        BY <2>1, <3>1
      <4>2. job[c] \in JobRow
        OBVIOUS
      <4>3. /\ Rejected(job[c]).status = "failed" /\ RowOwned(Rejected(job[c]))
            /\ Leased(job[c], w).status = "leased" /\ RowOwned(Leased(job[c], w))
        BY <4>2, RowStatuses, RowsStayOwned
      <4>4. job[c].status # "complete"
        BY <4>1 DEF IsLeasable
      <4>5. QED
        BY <4>1, <4>3, <4>4
    <3>2. CASE c \notin S
      BY <2>1, <3>2
    <3>3. QED
      BY <3>1, <3>2
  <2>3. /\ \A u \in Worker : u # w => SameWorker(u)
        /\ pc[w] = "lease" /\ pc'[w] = "process" /\ acq'[w] = acq[w]
        /\ recon'[w] = recon[w]
    BY <1>3 DEF Lease, Goto, SameWorker
  <2>4. recon[w] = {}
    BY <1>1, <2>3 DEF LoopOK, Recovers
  <2>5. LoopOK(w)'
    BY <1>1, <2>3, <2>4 DEF LoopOK, Recovers
  <2>6. \A c \in Calc : ~Follows(w, c)'
    BY <2>3, <2>4 DEF Follows, Recovers
  <2>7. QED
    BY <1>1, <2>2, <2>3, <2>5, <2>6, OwnerStep
<1>4. QED
  BY <1>2, <1>3

\* The unit of work of each unlocked operation that checks its ownership.
LEMMA CheckedUnits ==
    ASSUME NEW row \in JobRow, NEW who, OwnsActiveLease(row, who),
           NEW l \in Continuation \ {"handle", "reconcile"}
    PROVE  /\ \A a \in Acquisition :
                 row.owner \in Worker
                     => Checked([loaded |-> row, intended |-> Acquired(row, a), then |-> l])
           /\ Checked([loaded |-> row, intended |-> Renewed(row), then |-> l])
           /\ Checked([loaded |-> row, intended |-> Completed(row), then |-> l])
           /\ Checked([loaded |-> row, intended |-> Failed(row), then |-> l])
           /\ Checked([loaded |-> row, intended |-> RetryableFailure(row), then |-> l])
<1> USE OwnerAssumption DEF OwnsActiveLease, Checked, Active, JobRow
<1>1. ASSUME NEW a \in Acquisition, row.owner \in Worker
      PROVE  Checked([loaded |-> row, intended |-> Acquired(row, a), then |-> l])
  BY <1>1 DEF Acquired
<1>2. Checked([loaded |-> row, intended |-> Renewed(row), then |-> l])
  BY DEF Renewed
<1>3. /\ Checked([loaded |-> row, intended |-> Completed(row), then |-> l])
      /\ Checked([loaded |-> row, intended |-> Failed(row), then |-> l])
  BY DEF Completed, Failed
<1>4. Checked([loaded |-> row, intended |-> RetryableFailure(row), then |-> l])
  BY DEF RetryableFailure
<1>5. QED
  BY <1>1, <1>2, <1>3, <1>4

\* A step that loads a row after a check of its ownership, by a worker that
\* follows nothing up.
LEMMA OwnerLoad ==
    ASSUME TypeInv, OwnerInv, NEW w \in Worker, NEW c \in Calc, NEW row, NEW l,
           UNCHANGED <<result, job, recon>>,
           Load(w, c, row, l),
           Checked([loaded |-> job[c], intended |-> row, then |-> l]),
           pc[w] \notin {"handle", "recover", "fail_result", "merge_failure", "fail_exec", "flush"},
           cur'[w] = c,
           \A u \in Worker : u # w => cur'[u] = cur[u] /\ acq'[u] = acq[u]
    PROVE  OwnerInv'
<1> USE DEF TypeInv, TypeOK
<1>1. LoopOK(w)
  BY DEF OwnerInv, LoopsOK
<1>2. recon[w] = {}
  BY <1>1 DEF LoopOK, Recovers
<1>3. pc'[w] = "flush" /\ txn'[w] = [loaded |-> job[c], intended |-> row, then |-> l]
  BY DEF Load, Goto
<1>4. \A u \in Worker : u # w => SameWorker(u)
  BY DEF Load, Goto, SameWorker
<1>5. l # "handle" /\ job[c].status \in Active
  BY DEF Checked
<1>6. LoopOK(w)'
  BY <1>2, <1>3, <1>5 DEF LoopOK, Recovers
<1>7. ~\E d \in Calc : Follows(w, d)'
  BY <1>2, <1>3, <1>5 DEF Follows, Recovers
<1>8. Checked(txn'[w])
  BY <1>3
<1>9. QED
  BY <1>3, <1>4, <1>5, <1>6, <1>7, <1>8, OwnerStep

\* A step that leaves the job table and the units of work alone, by a worker
\* that follows up no more than before.
LEMMA OwnerQuiet ==
    ASSUME TypeInv, OwnerInv, NEW w \in Worker,
           \A c \in Calc : result[c] # "none" => result'[c] # "none",
           UNCHANGED job,
           \A u \in Worker : u # w => SameWorker(u),
           pc'[w] # "flush",
           recon'[w] \subseteq recon[w],
           pc'[w] = "recover" => /\ \E r \in recon[w] : cur'[w] = r[1] /\ r \notin recon'[w]
                                 /\ acq'[w] = acq[w]
                                 /\ pc[w] = "handle",
           pc'[w] \in {"reconcile", "handle", "lease", "process"} => acq'[w] = NoOwner,
           recon'[w] # {} => /\ acq'[w] = NoOwner
                             /\ pc'[w] \in {"handle", "fail_result", "merge_failure", "fail_exec", "recover"}
    PROVE  OwnerInv'
<1>1. LoopOK(w)
  BY DEF OwnerInv, LoopsOK
<1>2. LoopOK(w)'
  BY <1>1 DEF LoopOK, Recovers
<1>3. \A c \in Calc : Follows(w, c)' => Follows(w, c)
  BY DEF Follows, Recovers
<1>4. QED
  BY <1>2, <1>3, OwnerStep

\* Steps of a worker that load a row, or skip it.
LEMMA OwnerLoadSteps ==
    ASSUME TypeInv, OwnerInv, NEW w \in Worker,
           \/ RecoverFromResult(w) \/ RenewLease(w) \/ MarkComplete(w) \/ MarkFailure(w)
           \/ \E c \in Calc : Acquire(w, c)
    PROVE  OwnerInv'
<1> USE DEF TypeInv, TypeOK, CurrentJobOK
<1>0. LoopOK(w) /\ UNCHANGED <<result, job, recon>>
  BY DEF OwnerInv, LoopsOK, RecoverFromResult, RenewLease, MarkComplete, MarkFailure, Acquire, durable
<1>1. CASE RecoverFromResult(w)
  <2>1. cur[w] \in Calc /\ pc[w] = "recover"
    BY <1>1 DEF RecoverFromResult, Busy, Control
  <2>2. /\ pc'[w] = "flush" /\ cur' = cur /\ acq' = acq
        /\ txn'[w] = [loaded |-> job[cur[w]], intended |-> Completed(job[cur[w]]), then |-> "handle"]
    BY <1>1 DEF RecoverFromResult, Load, Goto
  <2>3. Completed(job[cur[w]]).status = "complete"
    BY <2>1, RowStatuses
  <2>4. Recovering(txn'[w]) /\ txn'[w].loaded = job[cur[w]] /\ txn'[w].then = "handle"
    BY <2>2, <2>3 DEF Recovering
  <2>5. \A u \in Worker : u # w => SameWorker(u)
    BY <1>0, <1>1 DEF RecoverFromResult, Load, Goto, SameWorker
  <2>6. LoopOK(w)'
    BY <1>0, <2>1, <2>2, <2>4 DEF LoopOK, Recovers
  <2>7. \A c \in Calc : Follows(w, c)' => Follows(w, c)
    BY <1>0, <2>1, <2>2 DEF Follows, Recovers
  <2>8. QED
    BY <1>0, <2>1, <2>2, <2>4, <2>5, <2>6, <2>7, OwnerStep
<1>2. CASE RenewLease(w)
  <2>1. cur[w] \in Calc /\ job[cur[w]] \in JobRow /\ pc[w] \in {"renew", "renew_again"}
    BY <1>2 DEF RenewLease, Busy, Control
  <2>2. CASE OwnsActiveLease(job[cur[w]], acq[w])
    <3>1. PICK l \in {"inline_lineage", "check"} :
             /\ Load(w, cur[w], Renewed(job[cur[w]]), l)
             /\ UNCHANGED <<cur, acq>>
      BY <1>2, <2>2 DEF RenewLease
    <3>2. l \in Continuation \ {"handle", "reconcile"}
      BY DEF Continuation
    <3>3. Checked([loaded |-> job[cur[w]], intended |-> Renewed(job[cur[w]]), then |-> l])
      BY <2>1, <2>2, <3>2, CheckedUnits
    <3>4. QED
      BY <1>0, <2>1, <3>1, <3>3, OwnerLoad
  <2>3. CASE ~OwnsActiveLease(job[cur[w]], acq[w])
    BY <1>0, <1>2, <2>1, <2>3, OwnerQuiet DEF RenewLease, Goto, SameWorker, LoopOK, Recovers
  <2>4. QED
    BY <2>2, <2>3
<1>3. CASE MarkComplete(w)
  <2>1. cur[w] \in Calc /\ job[cur[w]] \in JobRow /\ pc[w] = "complete"
    BY <1>3 DEF MarkComplete, Busy, Control
  <2>2. CASE /\ OwnsActiveLease(job[cur[w]], acq[w])
             /\ Load(w, cur[w], Completed(job[cur[w]]), "process")
             /\ UNCHANGED <<cur, acq>>
    <3>1. "process" \in Continuation \ {"handle", "reconcile"}
      BY DEF Continuation
    <3>2. Checked([loaded |-> job[cur[w]], intended |-> Completed(job[cur[w]]), then |-> "process"])
      BY <2>1, <2>2, <3>1, CheckedUnits
    <3>3. QED
      BY <1>0, <2>1, <2>2, <3>2, OwnerLoad
  <2>3. CASE LeaveJob(w) /\ UNCHANGED txn
    BY <1>0, <2>1, <2>3, OwnerQuiet DEF LeaveJob, Goto, SameWorker, LoopOK, Recovers
  <2>4. QED
    BY <1>3, <2>2, <2>3 DEF MarkComplete
<1>4. CASE MarkFailure(w)
  <2>1. cur[w] \in Calc /\ job[cur[w]] \in JobRow /\ pc[w] \in {"fail_retry", "fail_final"}
    BY <1>4 DEF MarkFailure, Busy, Control
  <2>2. CASE OwnsActiveLease(job[cur[w]], acq[w])
    <3>1. PICK row \in {RetryableFailure(job[cur[w]]), Failed(job[cur[w]])} :
             /\ Load(w, cur[w], row, AfterFailure(w, row))
             /\ UNCHANGED <<cur, acq>>
      BY <1>4, <2>2 DEF MarkFailure
    <3>2. PICK l : l = AfterFailure(w, row)
      OBVIOUS
    <3>3. l \in Continuation \ {"handle", "reconcile"}
      BY <3>2 DEF Continuation, AfterFailure
    <3>4. Checked([loaded |-> job[cur[w]], intended |-> row, then |-> l])
      BY <2>1, <2>2, <3>1, <3>3, CheckedUnits
    <3>5. QED
      BY <1>0, <2>1, <3>1, <3>2, <3>4, OwnerLoad
  <2>3. CASE ~OwnsActiveLease(job[cur[w]], acq[w])
    <3>1. LeaveJob(w) /\ UNCHANGED txn
      BY <1>4, <2>3 DEF MarkFailure
    <3>2. QED
      BY <1>0, <2>1, <3>1, OwnerQuiet DEF LeaveJob, Goto, SameWorker, LoopOK, Recovers
  <2>4. QED
    BY <2>2, <2>3
<1>5. ASSUME NEW c \in Calc, Acquire(w, c) PROVE OwnerInv'
  <2>1. PICK a \in Acquisition : /\ acq' = [acq EXCEPT ![w] = a]
                                 /\ Load(w, c, Acquired(job[c], a), "execute")
    BY <1>5 DEF Acquire
  <2>2. /\ cur' = [cur EXCEPT ![w] = c] /\ pc[w] = "process"
        /\ OwnsActiveLease(job[c], w) /\ job[c] \in JobRow
    BY <1>5 DEF Acquire
  <2>3. "execute" \in Continuation \ {"handle", "reconcile"} /\ job[c].owner \in Worker
    BY <2>2 DEF Continuation, OwnsActiveLease
  <2>4. Checked([loaded |-> job[c], intended |-> Acquired(job[c], a), then |-> "execute"])
    BY <2>2, <2>3, CheckedUnits
  <2>5. QED
    BY <1>0, <2>1, <2>2, <2>4, OwnerLoad
<1>6. QED
  BY <1>1, <1>2, <1>3, <1>4, <1>5

\* The other steps of a worker touch no row.
LEMMA OwnerOtherSteps ==
    ASSUME TypeInv, OwnerInv, NEW w \in Worker,
           \/ HandleReconciled(w) \/ HandledAll(w) \/ NextPoll(w)
           \/ \E c \in Calc : SkipAcquisition(w, c)
           \/ ExecuteSucceeds(w) \/ ExecuteFails(w) \/ InlineLineage(w)
           \/ CheckOwner(w) \/ RecordSuccess(w) \/ RecordCompositeSuccess(w)
           \/ CaptureComposite(w) \/ PublicationFails(w) \/ RecordFailure(w)
           \/ MergeFailure(w) \/ FailExecution(w) \/ Crash(w),
           \A c \in Calc : result[c] # "none" => result'[c] # "none"
    PROVE  OwnerInv'
<1> USE DEF TypeInv, TypeOK, Goto
<1>0. LoopOK(w)
  BY DEF OwnerInv, LoopsOK
<1>1. CASE HandleReconciled(w)
  <2>1. PICK r \in recon[w] :
           /\ recon' = [recon EXCEPT ![w] = @ \ {r}]
           /\ \/ /\ cur' = [cur EXCEPT ![w] = r[1]]
                 /\ \/ pc' = [pc EXCEPT ![w] = "recover"]
                    \/ pc' = [pc EXCEPT ![w] = "fail_exec"]
                    \/ pc' = [pc EXCEPT ![w] = "fail_result"]
              \/ UNCHANGED <<cur, pc>>
    BY <1>1 DEF HandleReconciled
  <2>2. pc[w] = "handle" /\ UNCHANGED <<job, acq, txn>>
    BY <1>1 DEF HandleReconciled, durable
  <2>3. /\ \A u \in Worker : u # w => SameWorker(u)
        /\ recon'[w] = recon[w] \ {r}
        /\ pc'[w] \in {"handle", "recover", "fail_exec", "fail_result"}
        /\ pc'[w] = "recover" => cur'[w] = r[1]
    BY <2>1, <2>2 DEF SameWorker
  <2>4. acq'[w] = NoOwner /\ acq[w] = NoOwner
    BY <1>0, <2>2 DEF LoopOK
  <2>5. QED
    BY <2>1, <2>2, <2>3, <2>4, OwnerQuiet
<1>2. CASE HandledAll(w) \/ NextPoll(w)
  BY <1>0, <1>2, OwnerQuiet DEF HandledAll, NextPoll, durable, SameWorker, LoopOK, Recovers
<1>3. ASSUME NEW c \in Calc, SkipAcquisition(w, c) PROVE OwnerInv'
  BY <1>0, <1>3, OwnerQuiet DEF SkipAcquisition, durable, SameWorker, LoopOK, Recovers
<1>4. CASE ExecuteSucceeds(w) \/ ExecuteFails(w)
  BY <1>0, <1>4, OwnerQuiet DEF ExecuteSucceeds, ExecuteFails, SameWorker, LoopOK, Recovers
<1>5. CASE InlineLineage(w) \/ PublicationFails(w)
  BY <1>0, <1>5, OwnerQuiet
  DEF InlineLineage, PublicationFails, durable, SameWorker, LoopOK, Recovers
<1>6. CASE CheckOwner(w)
  BY <1>0, <1>6, OwnerQuiet DEF CheckOwner, LeaveJob, durable, SameWorker, LoopOK, Recovers
<1>7. CASE RecordSuccess(w)
  BY <1>0, <1>7, OwnerQuiet DEF RecordSuccess, SameWorker, LoopOK, Recovers
<1>8. CASE RecordCompositeSuccess(w)
  BY <1>0, <1>8, OwnerQuiet DEF RecordCompositeSuccess, SameWorker, LoopOK, Recovers
<1>9. CASE RecordFailure(w)
  BY <1>0, <1>9, OwnerQuiet DEF RecordFailure, durable, SameWorker, LoopOK, Recovers
<1>10. CASE FailExecution(w)
  BY <1>0, <1>10, OwnerQuiet DEF FailExecution, LeaveJob, SameWorker, LoopOK, Recovers
<1>11. CASE Crash(w)
  BY <1>0, <1>11, OwnerQuiet DEF Crash, durable, SameWorker
<1>12. CASE CaptureComposite(w) \/ MergeFailure(w)
  BY <1>0, <1>12, OwnerQuiet DEF CaptureComposite, MergeFailure, SameWorker, LoopOK, Recovers
<1>13. QED
  BY <1>1, <1>2, <1>3, <1>4, <1>5, <1>6, <1>7, <1>8, <1>9, <1>10, <1>11, <1>12

\* What a flush leaves: a checked unit of work keeps the row owned, whatever
\* was written in between; a recovery leaves it complete, unless the row was
\* complete at the load and is not any more.
LEMMA FlushedRow ==
    ASSUME NEW row \in JobRow, NEW t \in Txn
    PROVE  /\ RowOwned(row) /\ Checked(t) => RowOwned(FlushRow(row, t.loaded, t.intended))
           /\ Recovering(t) /\ (t.loaded.status = "complete" => row.status = "complete")
                 => FlushRow(row, t.loaded, t.intended).status = "complete"
<1> USE DEF FlushRow, JobRow, Txn
<1>1. ASSUME RowOwned(row), Checked(t)
      PROVE  RowOwned(FlushRow(row, t.loaded, t.intended))
  <2>1. CASE t.intended.owner \in Acquisition /\ t.intended.owner # t.loaded.owner
             /\ t.intended.lease = "live"
    BY <2>1, OwnerAssumption DEF RowOwned
  <2>2. CASE t.intended.status = t.loaded.status /\ t.intended.owner = t.loaded.owner
             /\ t.intended.lease = "live"
    BY <1>1, <2>2 DEF RowOwned
  <2>3. CASE t.intended.status \notin Active
    BY <1>1, <2>3 DEF RowOwned, Checked
  <2>4. QED
    BY <1>1, <2>1, <2>2, <2>3 DEF Checked
<1>2. ASSUME Recovering(t), t.loaded.status = "complete" => row.status = "complete"
      PROVE  FlushRow(row, t.loaded, t.intended).status = "complete"
  BY <1>2 DEF Recovering
<1>3. QED
  BY <1>1, <1>2

\* A flush of a checked unit of work keeps its row owned.  The flush of a
\* recovery completes its row, or finds it complete: of the other worker's
\* units of work none could have changed that.
LEMMA OwnerFlush ==
    ASSUME TypeInv, ResultFirst, OwnerInv, NEW w \in Worker, Flush(w)
    PROVE  OwnerInv'
<1> USE DEF TypeInv, TypeOK
<1> DEFINE new == FlushRow(job[cur[w]], txn[w].loaded, txn[w].intended)
<1>1. /\ pc[w] = "flush" /\ cur[w] \in Calc /\ job[cur[w]] \in JobRow /\ txn[w] \in Txn
      /\ txn[w].then \in Continuation
  BY DEF Flush, CurrentJobOK, Busy, Control, Txn
<1>2. /\ UNCHANGED <<result, recon>>
      /\ \A c \in Calc : c # cur[w] => job'[c] = job[c]
      /\ job'[cur[w]] = new
  BY <1>1 DEF Flush
<1>3. /\ \A u \in Worker : u # w => SameWorker(u)
      /\ pc'[w] = txn[w].then
      /\ txn[w].then \in {"handle", "process"} => acq'[w] = NoOwner
      /\ txn[w].then \notin {"handle", "process"} => acq'[w] = acq[w]
  BY <1>1 DEF Flush, Goto, SameWorker
<1>4. pc'[w] \notin {"flush", "recover"}
  BY <1>1, <1>3 DEF Continuation
<1>5. LoopOK(w) /\ (Checked(txn[w]) \/ Recovering(txn[w]))
  BY <1>1 DEF OwnerInv, LoopsOK, SlotsKnown
<1>6. recon[w] # {} => /\ txn[w].then = "handle"
                       /\ \A r \in recon[w] : r[1] # cur[w]
  BY <1>1, <1>5 DEF LoopOK, Recovers
<1>7. LoopOK(w)'
  <2>1. txn[w].then \notin {"reconcile", "lease"}
    BY <1>1, <1>5 DEF Checked, Recovering, Continuation
  <2>2. pc'[w] \in {"reconcile", "handle", "lease", "process"} => acq'[w] = NoOwner
    BY <1>3, <2>1
  <2>3. QED
    BY <1>2, <1>3, <1>4, <1>5, <1>6, <2>2 DEF LoopOK, Recovers
<1>8. LoopsOK'
  BY <1>3, <1>7, SameWorkerKeeps DEF OwnerInv, LoopsOK
<1>9. SlotsKnown'
  BY <1>3, <1>4, SameWorkerKeeps DEF OwnerInv, SlotsKnown, SameWorker
<1>10. AtMostTwoWorkers /\ Recovering(txn[w]) => new.status = "complete"
  BY <1>1, FlushedRow DEF OwnerInv, PairOK, RecoveryOK
<1>11. RowsOwned'
  <2>1. SUFFICES ASSUME NEW c \in Calc, result[c] = "none" \/ AtMostTwoWorkers
                 PROVE  RowOwned(job'[c])
    BY <1>2 DEF RowsOwned, AtMostTwoWorkers
  <2>2. RowOwned(job[c])
    BY <2>1 DEF OwnerInv, RowsOwned
  <2>3. CASE c # cur[w]
    BY <1>2, <2>2, <2>3
  <2>4. CASE c = cur[w] /\ Checked(txn[w])
    BY <1>1, <1>2, <2>2, <2>4, FlushedRow
  <2>5. CASE c = cur[w] /\ Recovering(txn[w])
    <3>1. result[c] # "none"
      BY <1>1, <2>5 DEF ResultFirst, Recovering
    <3>2. QED
      BY <1>2, <1>10, <2>1, <2>5, <3>1 DEF RowOwned, Active
  <2>6. QED
    BY <1>5, <2>3, <2>4, <2>5
<1>12. ASSUME AtMostTwoWorkers, NEW u \in Worker, NEW v \in Worker, u # v
       PROVE  NoLateWork(u, v)'
  <2>1. SUFFICES ASSUME NEW c \in Calc, Follows(u, c)', job'[c].status = "complete",
                        pc'[v] = "flush", cur'[v] = c, Checked(txn[v])'
                 PROVE  FALSE
    BY DEF NoLateWork
  <2>2. v # w
    BY <1>4, <2>1
  <2>3. u = w
    BY <1>12, <2>2 DEF AtMostTwoWorkers
  <2>4. Follows(w, c) /\ c # cur[w]
    BY <1>2, <1>4, <1>6, <2>1, <2>3 DEF Follows, Recovers
  <2>5. pc[v] = "flush" /\ cur[v] = c /\ Checked(txn[v])
    BY <1>3, <2>1, <2>2, SameWorkerKeeps DEF SameWorker
  <2>6. QED
    BY <1>2, <1>12, <2>1, <2>3, <2>4, <2>5 DEF OwnerInv, PairOK, NoLateWork
<1>13. ASSUME AtMostTwoWorkers, NEW u \in Worker PROVE RecoveryOK(u)'
  <2>1. CASE u = w
    BY <1>4, <2>1 DEF RecoveryOK
  <2>2. CASE u # w
    <3>1. SUFFICES ASSUME pc[u] = "flush", Recovering(txn[u]),
                          txn[u].loaded.status = "complete"
                   PROVE  job'[cur[u]].status = "complete"
      BY <1>3, <2>2, SameWorkerKeeps DEF RecoveryOK, SameWorker
    <3>2. cur[u] \in Calc
      BY <3>1 DEF CurrentJobOK, Busy, Control
    <3>3. job[cur[u]].status = "complete"
      BY <1>13, <3>1 DEF OwnerInv, PairOK, RecoveryOK
    <3>4. CASE cur[u] # cur[w]
      BY <1>2, <3>2, <3>3, <3>4
    <3>5. CASE cur[u] = cur[w]
      <4>1. Follows(u, cur[w])
        BY <3>1, <3>5 DEF Follows, Recovers, Recovering
      <4>2. NoLateWork(u, w)
        BY <1>13, <2>2 DEF OwnerInv, PairOK
      <4>3. ~Checked(txn[w])
        BY <1>1, <3>3, <3>5, <4>1, <4>2 DEF NoLateWork
      <4>4. QED
        BY <1>2, <1>5, <1>10, <1>13, <3>5, <4>3
    <3>6. QED
      BY <3>4, <3>5
  <2>3. QED
    BY <2>1, <2>2
<1>14. PairOK'
  BY <1>12, <1>13 DEF PairOK, AtMostTwoWorkers
<1>15. QED
  BY <1>8, <1>9, <1>11, <1>14 DEF OwnerInv

LEMMA OwnerNext ==
    ASSUME TypeInv, ResultFirst, OwnerInv, [Next]_vars
    PROVE  OwnerInv'
<1>1. \A c \in Calc : result[c] # "none" => result'[c] # "none"
  BY ResultKept
<1>2. ASSUME NEW w \in Worker, Step(w) PROVE OwnerInv'
  BY <1>1, <1>2, OwnerLockedSteps, OwnerLoadSteps, OwnerOtherSteps, OwnerFlush DEF Step
<1>3. ASSUME NEW w \in Worker, Crash(w) PROVE OwnerInv'
  BY <1>1, <1>3, OwnerOtherSteps
<1>4. CASE Environment
  BY <1>4, OwnerEnvironment
<1>5. CASE UNCHANGED vars
  BY <1>5 DEF vars, durable, local, OwnerInv, RowsOwned, SlotsKnown, LoopsOK, LoopOK, PairOK,
     NoLateWork, RecoveryOK, Follows, Recovers, Checked, Recovering, AtMostTwoWorkers
<1>6. QED
  BY <1>2, <1>3, <1>4, <1>5 DEF Next

LEMMA OwnerInvariance == Spec => []OwnerInv
<1>1. Init => OwnerInv
  BY DEF Init, OwnerInv, RowsOwned, SlotsKnown, LoopsOK, LoopOK, PairOK, NoLateWork, RecoveryOK,
     Recovers, RowOwned, Active, AbsentRow
<1>2. TypeInv /\ ResultFirst /\ OwnerInv /\ [Next]_vars => OwnerInv'
  BY OwnerNext
<1>3. QED
  BY <1>1, <1>2, TypeInvariance, ResultFirstInvariance, PTL DEF Spec

\* An active row names its owner and its lease, so that its expiry can be
\* seen and reconciled: for every number of executors until the job is
\* answered, and with two executors for ever, through every overlap
\* of late acquisitions, renewals, completions and unchecked recoveries.
THEOREM ActiveRowsAreOwned == Spec => []ActiveRowHasOwner
<1>1. OwnerInv => ActiveRowHasOwner
  BY DEF OwnerInv, RowsOwned, RowOwned, Active, ActiveRowHasOwner
<1>2. QED
  BY <1>1, OwnerInvariance, PTL


-----------------------------------------------------------------------------
(* Results of jobs whose lease was never outlived.                         *)

(* The control states in which a worker owns the job it handles.           *)
Executing == {"execute", "renew", "inline_lineage", "renew_again", "check", "publish",
              "fail_retry", "fail_final"}

HasJob(v, c) == acq[v] # NoOwner /\ OwnsActiveLease(job[c], acq[v])

(* The unit of work of an owner: it loaded the row as it is, to acquire    *)
(* the job, to renew its lease, to requeue it or to fail it.               *)
OwnersWork(v, c) ==
    LET t == txn[v]
    IN  /\ c \notin batch[v]
        /\ t.loaded = job[c]
        /\ \/ /\ t.then = "execute" /\ acq[v] # NoOwner
              /\ OwnsActiveLease(job[c], v) /\ t.intended = Acquired(t.loaded, acq[v])
           \/ /\ t.then \in {"inline_lineage", "check"}
              /\ HasJob(v, c) /\ t.intended = Renewed(t.loaded)
           \/ /\ t.then = "process" /\ HasJob(v, c) /\ t.intended.status = "pending"
           \/ /\ t.then \in {"fail_result", "fail_exec"} /\ HasJob(v, c)
              /\ t.intended.status = "failed"

(* A worker that holds a job without a success owns its lease, and one     *)
(* that records its failure finds the job failed; none completes it.  Once *)
(* the success is there, none is about to merge a failure.                 *)
Handles(v, c) ==
    IF result[c] = "complete" THEN pc[v] = "merge_failure" => cur[v] # c
    ELSE /\ c \in batch[v] => OwnsActiveLease(job[c], v)
         /\ <<c, "failed">> \in recon[v] => job[c].status = "failed"
         /\ cur[v] = c =>
               /\ pc[v] \in Executing => HasJob(v, c)
               /\ pc[v] = "flush" => OwnersWork(v, c)
               /\ pc[v] \in {"fail_result", "merge_failure"} => job[c].status = "failed"
               /\ pc[v] \notin {"recover", "capture", "complete"}

Answered(c) ==
    /\ result[c] # "complete" => job[c].status # "complete"
    /\ \A v \in Worker : Handles(v, c)

DistinctAcquisitions ==
    \A u, v \in Worker : acq[u] # NoOwner /\ acq[u] = acq[v] => u = v

LeaseInv == DistinctAcquisitions /\ \A c \in Calc \ outlived : Answered(c)

SameHands(v) ==
    /\ pc'[v] = pc[v] /\ batch'[v] = batch[v] /\ recon'[v] = recon[v]
    /\ cur'[v] = cur[v] /\ acq'[v] = acq[v] /\ txn'[v] = txn[v]

\* What is known of a worker that takes no step, while neither row of the
\* job changes, stays so;
LEMMA HandlesKeeps ==
    ASSUME NEW c \in Calc, NEW v \in Worker, Handles(v, c), SameHands(v),
           job'[c] = job[c], result'[c] = result[c]
    PROVE  Handles(v, c)'
BY DEF SameHands, Handles, HasJob, OwnersWork, OwnsActiveLease, Acquired, Renewed

\* so such a step keeps what is known of the job, if the worker that takes
\* it keeps its part.
LEMMA AnsweredStep ==
    ASSUME NEW c \in Calc, NEW w \in Worker, Answered(c),
           job'[c] = job[c], result'[c] = result[c],
           \A v \in Worker : v # w => SameHands(v),
           Handles(w, c)'
    PROVE  Answered(c)'
BY HandlesKeeps DEF Answered

(* The worker has the job in hand and a row to defend.                     *)
Holds(v, c) ==
    \/ c \in batch[v]
    \/ cur[v] = c /\ pc[v] \in Executing \cup {"flush"}

(* The worker records, or will record, the failure of the job.             *)
Fails(v, c) ==
    \/ <<c, "failed">> \in recon[v]
    \/ cur[v] = c /\ pc[v] \in {"fail_result", "merge_failure"}

\* Of a job without a success the holder owns the active row, and whoever
\* records the failure finds it failed.
LEMMA HoldersKnown ==
    ASSUME TypeInv, NEW c \in Calc, Answered(c), result[c] # "complete", NEW v \in Worker
    PROVE  /\ Holds(v, c) => /\ job[c].status \in {"leased", "running"}
                             /\ job[c].lease = "live"
                             /\ job[c].owner = v
                                  \/ (acq[v] # NoOwner /\ job[c].owner = acq[v])
           /\ Fails(v, c) => job[c].status = "failed"
<1>1. Handles(v, c)
  BY DEF Answered
<1>2. QED
  BY <1>1 DEF Handles, Holds, Fails, HasJob, OwnersWork, OwnsActiveLease

\* Two workers do not hold one job, and none records the failure of a job
\* that is held.
LEMMA HoldersAlone ==
    ASSUME TypeInv, DistinctAcquisitions, NEW c \in Calc, Answered(c), result[c] # "complete",
           NEW w \in Worker, Holds(w, c), NEW v \in Worker
    PROVE  ~Fails(v, c) /\ (v # w => ~Holds(v, c))
<1>1. ~Fails(v, c)
  BY HoldersKnown
<1>2. ASSUME v # w, Holds(v, c) PROVE FALSE
  <2>1. /\ job[c].owner = v \/ (acq[v] # NoOwner /\ job[c].owner = acq[v])
        /\ job[c].owner = w \/ (acq[w] # NoOwner /\ job[c].owner = acq[w])
    BY <1>2, HoldersKnown
  <2>2. acq[v] \in Acquisition \cup {NoOwner} /\ acq[w] \in Acquisition \cup {NoOwner}
    BY DEF TypeInv, TypeOK
  <2>3. QED
    BY <1>2, <2>1, <2>2, OwnerAssumption DEF DistinctAcquisitions
<1>3. QED
  BY <1>1, <1>2

\* A worker that neither holds a job nor records its failure does not care
\* what becomes of its row.
LEMMA OthersUnaffected ==
    ASSUME NEW c \in Calc, NEW v \in Worker, Handles(v, c), result[c] # "complete",
           result'[c] = result[c], SameHands(v), ~Holds(v, c), ~Fails(v, c)
    PROVE  Handles(v, c)'
BY DEF Handles, Holds, Fails, SameHands, Executing

\* The API, the lineage worker and the clock: the rows they write belong to
\* no worker, except where a lease is outlived.
LEMMA AnsweredEnvironment ==
    ASSUME TypeInv, Environment, NEW c \in Calc, Answered(c),
           ~(AtWork(c) /\ RunsOut(c))
    PROVE  Answered(c)'
<1> USE DEF TypeInv, TypeOK
<1>1. UNCHANGED <<local, result>> /\ \A v \in Worker : SameHands(v)
  BY DEF Environment, Submit, CancelExecution, LeaseExpires, LineageCompletes,
     LineageFails, CancelPending, ApiStops, local, SameHands
<1>2. CASE job'[c] = job[c]
  BY <1>1, <1>2, HandlesKeeps DEF Answered
<1>3. CASE job'[c] # job[c] /\ result[c] = "complete"
  BY <1>1, <1>3 DEF Answered, Handles, SameHands
<1>4. CASE job'[c] # job[c] /\ result[c] # "complete"
  <2>1. \/ Submit(c)
        \/ \E S \in SUBSET CorrectionCalc : c \in S /\ CancelPending(S)
        \/ LeaseExpires(c)
    BY <1>4 DEF Environment, Submit, CancelExecution, LeaseExpires, LineageCompletes,
       LineageFails, CancelPending, ApiStops
  <2>2. CASE job[c].status \in {"absent", "pending"} /\ job'[c].status # "complete"
    BY <1>1, <1>4, <2>2, HoldersKnown, OthersUnaffected DEF Answered
  <2>3. CASE LeaseExpires(c)
    <3>1. job'[c] = [job[c] EXCEPT !.lease = "expired"] /\ job[c].lease = "live"
      BY <2>3 DEF LeaseExpires
    <3>2. job'[c].status = job[c].status /\ RunsOut(c)
      BY <3>1 DEF RunsOut, JobRow
    <3>3. \A v \in Worker : cur[v] # c /\ c \notin batch[v]
      BY <3>2 DEF AtWork
    <3>4. QED
      BY <1>1, <3>2, <3>3 DEF Answered, Handles, SameHands
  <2>4. QED
    <3>1. CASE Submit(c)
      BY <2>2, <3>1 DEF Submit, Registered, AbsentRow
    <3>2. ASSUME NEW S \in SUBSET CorrectionCalc, c \in S, CancelPending(S) PROVE Answered(c)'
      BY <2>2, <3>2 DEF CancelPending, Cancelled, JobRow
    <3>3. QED
      BY <2>1, <2>3, <3>1, <3>2
<1>5. QED
  BY <1>2, <1>3, <1>4

\* reconcile_stale_jobs and lease_pending_jobs take only rows that no worker
\* holds under a live lease; the failures that the first decides are noted
\* with their rows.
LEMMA AnsweredLockedSteps ==
    ASSUME TypeInv, NEW w \in Worker, Reconcile(w) \/ Lease(w), NEW c \in Calc, Answered(c)
    PROVE  Answered(c)'
<1> USE DEF TypeInv, TypeOK
<1>1. result' = result /\ \A v \in Worker : v # w => SameHands(v)
  BY DEF Reconcile, Lease, Goto, SameHands
<1>2. Handles(w, c)
  BY DEF Answered
<1>3. CASE Reconcile(w)
  <2>1. PICK S \in SUBSET {d \in Calc : IsStale(job[d])} :
           /\ job' = [d \in Calc |-> IF d \in S THEN Reconciled(job[d]) ELSE job[d]]
           /\ recon' = [recon EXCEPT ![w] = {<<d, StaleOutcome(job[d])>> : d \in S}]
    BY <1>3 DEF Reconcile
  <2>2. /\ pc'[w] = "handle" /\ batch'[w] = batch[w] /\ cur'[w] = cur[w]
        /\ acq'[w] = acq[w] /\ txn'[w] = txn[w]
    BY <1>3 DEF Reconcile, Goto
  <2>3. <<c, "failed">> \in recon'[w] => c \in S /\ StaleOutcome(job[c]) = "failed"
    BY <2>1
  <2>4. CASE c \notin S
    <3>1. job'[c] = job[c]
      BY <2>1, <2>4
    <3>2. Handles(w, c)'
      BY <1>1, <1>2, <2>2, <2>3, <2>4, <3>1 DEF Handles, Executing, OwnsActiveLease
    <3>3. QED
      BY <1>1, <3>1, <3>2, AnsweredStep
  <2>5. CASE c \in S /\ result[c] = "complete"
    BY <1>1, <2>2, <2>5 DEF Answered, Handles, SameHands
  <2>6. CASE c \in S /\ result[c] # "complete"
    <3>1. /\ job[c].status \in {"leased", "running"} /\ job[c].lease = "expired"
          /\ job'[c].status = StaleOutcome(job[c])
      BY <2>1, <2>6 DEF IsStale, Reconciled, JobRow
    <3>2. \A v \in Worker : ~Holds(v, c) /\ ~Fails(v, c)
      BY <2>6, <3>1, HoldersKnown
    <3>3. \A v \in Worker : v # w => Handles(v, c)'
      BY <1>1, <2>6, <3>2, OthersUnaffected DEF Answered
    <3>4. Handles(w, c)'
      BY <1>1, <2>2, <2>3, <2>6, <3>1, <3>2 DEF Handles, Holds, Executing
    <3>5. job'[c].status # "complete"
      BY <3>1 DEF StaleOutcome
    <3>6. QED
      BY <3>3, <3>4, <3>5 DEF Answered
  <2>7. QED
    BY <2>4, <2>5, <2>6
<1>4. CASE Lease(w)
  <2>1. PICK S \in SUBSET {d \in Calc : IsLeasable(job[d])} :
           /\ job' = [d \in Calc |-> IF d \in S
                                     THEN IF d \in CorruptCalc THEN Rejected(job[d])
                                          ELSE Leased(job[d], w)
                                     ELSE job[d]]
           /\ batch' = [batch EXCEPT ![w] = S \ CorruptCalc]
    BY <1>4 DEF Lease
  <2>2. /\ pc'[w] = "process" /\ recon'[w] = recon[w] /\ cur'[w] = cur[w]
        /\ acq'[w] = acq[w] /\ txn'[w] = txn[w] /\ batch'[w] = S \ CorruptCalc
    BY <1>4, <2>1 DEF Lease, Goto
  <2>3. CASE c \notin S
    <3>1. job'[c] = job[c]
      BY <2>1, <2>3
    <3>2. Handles(w, c)'
      BY <1>1, <1>2, <2>2, <2>3, <3>1 DEF Handles, Executing
    <3>3. QED
      BY <1>1, <3>1, <3>2, AnsweredStep
  <2>4. CASE c \in S /\ result[c] = "complete"
    BY <1>1, <2>2, <2>4 DEF Answered, Handles, SameHands
  <2>5. CASE c \in S /\ result[c] # "complete"
    <3>1. /\ job[c].status = "pending"
                \/ (job[c].status = "leased" /\ job[c].lease = "expired")
          /\ job'[c] = IF c \in CorruptCalc THEN Rejected(job[c]) ELSE Leased(job[c], w)
      BY <2>1, <2>5 DEF IsLeasable
    <3>2. \A v \in Worker : ~Holds(v, c) /\ ~Fails(v, c)
      BY <2>5, <3>1, HoldersKnown
    <3>3. \A v \in Worker : v # w => Handles(v, c)'
      BY <1>1, <2>5, <3>2, OthersUnaffected DEF Answered
    <3>4. c \notin CorruptCalc => OwnsActiveLease(job'[c], w)
      BY <3>1 DEF Leased, OwnsActiveLease, JobRow
    <3>5. Handles(w, c)'
      BY <1>1, <2>2, <2>5, <3>2, <3>4 DEF Handles, Fails, Executing
    <3>6. job'[c].status # "complete"
      BY <3>1 DEF Leased, Rejected, JobRow
    <3>7. QED
      BY <3>3, <3>5, <3>6 DEF Answered
  <2>6. QED
    BY <2>3, <2>4, <2>5
<1>5. QED
  BY <1>3, <1>4

\* The steps that load a row load it as it is, as owners of the job, except
\* the recovery, which has seen the success.
LEMMA AnsweredLoadSteps ==
    ASSUME TypeInv, NEW w \in Worker,
           \/ RecoverFromResult(w) \/ RenewLease(w) \/ MarkComplete(w) \/ MarkFailure(w)
           \/ \E d \in Calc : Acquire(w, d),
           NEW c \in Calc, Answered(c)
    PROVE  Answered(c)'
<1> USE DEF TypeInv, TypeOK
<1>1. job' = job /\ result' = result /\ \A v \in Worker : v # w => SameHands(v)
  BY DEF RecoverFromResult, RenewLease, MarkComplete, MarkFailure, Acquire, Load, LeaveJob,
     Goto, SameHands, durable
<1>2. Handles(w, c)
  BY DEF Answered
<1>3. recon'[w] = recon[w]
  BY DEF RecoverFromResult, RenewLease, MarkComplete, MarkFailure, Acquire
<1>4. CASE RecoverFromResult(w)
  <2>1. /\ pc[w] = "recover" /\ pc'[w] = "flush" /\ batch'[w] = batch[w] /\ cur'[w] = cur[w]
    BY <1>4 DEF RecoverFromResult, Load, Goto
  <2>2. Handles(w, c)'
    BY <1>1, <1>2, <1>3, <2>1 DEF Handles, Executing
  <2>3. QED
    BY <1>1, <2>2, AnsweredStep
<1>5. CASE RenewLease(w)
  <2>1. /\ pc[w] \in {"renew", "renew_again"} /\ cur[w] \in Calc
        /\ batch'[w] = batch[w] /\ cur'[w] = cur[w] /\ acq'[w] = acq[w]
    BY <1>5 DEF RenewLease, CurrentJobOK, Busy, Control
  <2>2. CASE pc'[w] = "fail_final"
    <3>1. Handles(w, c)'
      BY <1>1, <1>2, <1>3, <2>1, <2>2 DEF Handles, Executing, HasJob
    <3>2. QED
      BY <1>1, <3>1, AnsweredStep
  <2>3. CASE pc'[w] # "fail_final"
    <3>1. /\ pc'[w] = "flush" /\ txn'[w].loaded = job[cur[w]]
          /\ txn'[w].intended = Renewed(job[cur[w]])
          /\ txn'[w].then \in {"inline_lineage", "check"}
      BY <1>5, <2>1, <2>3 DEF RenewLease, Load, Goto
    <3>2. cur[w] = c /\ result[c] # "complete" => HasJob(w, c)
      BY <1>2, <2>1 DEF Handles, Executing
    <3>3. HasJob(w, c) => c \notin batch[w] \/ result[c] = "complete"
      BY <1>2, OwnerAssumption DEF HasJob, Handles, OwnsActiveLease
    <3>4. Handles(w, c)'
      BY <1>1, <1>2, <1>3, <2>1, <3>1, <3>2, <3>3 DEF Handles, Executing, HasJob, OwnersWork
    <3>5. QED
      BY <1>1, <3>4, AnsweredStep
  <2>4. QED
    BY <2>2, <2>3
<1>6. CASE MarkComplete(w)
  <2>1. /\ pc[w] = "complete" /\ batch'[w] = batch[w]
        /\ \/ pc'[w] = "flush" /\ cur'[w] = cur[w]
           \/ pc'[w] \in {"handle", "process"} /\ cur'[w] = NoCalc
    BY <1>6 DEF MarkComplete, Load, LeaveJob, Goto
  <2>2. Handles(w, c)'
    BY <1>1, <1>2, <1>3, <2>1, CalcAssumption DEF Handles, Executing
  <2>3. QED
    BY <1>1, <2>2, AnsweredStep
<1>7. CASE MarkFailure(w)
  <2>1. /\ pc[w] \in {"fail_retry", "fail_final"} /\ cur[w] \in Calc /\ batch'[w] = batch[w]
    BY <1>7 DEF MarkFailure, CurrentJobOK, Busy, Control
  <2>2. CASE ~OwnsActiveLease(job[cur[w]], acq[w])
    <3>1. pc'[w] \in {"handle", "process"} /\ cur'[w] = NoCalc
      BY <1>7, <2>2 DEF MarkFailure, LeaveJob, Goto
    <3>2. Handles(w, c)'
      BY <1>1, <1>2, <1>3, <2>1, <3>1, CalcAssumption DEF Handles, Executing
    <3>3. QED
      BY <1>1, <3>2, AnsweredStep
  <2>3. CASE OwnsActiveLease(job[cur[w]], acq[w])
    <3> DEFINE intended == IF pc[w] = "fail_retry" THEN RetryableFailure(job[cur[w]])
                           ELSE Failed(job[cur[w]])
    <3>1. /\ pc'[w] = "flush" /\ cur'[w] = cur[w] /\ acq'[w] = acq[w]
          /\ txn'[w].loaded = job[cur[w]] /\ txn'[w].intended = intended
          /\ txn'[w].then = AfterFailure(w, intended)
      BY <1>7, <2>3 DEF MarkFailure, Load, Goto
    <3>2. intended.status \in {"pending", "failed"}
      BY <2>1 DEF RetryableFailure, Failed, JobRow
    <3>3. \/ intended.status = "pending" /\ txn'[w].then = "process"
          \/ intended.status = "failed" /\ txn'[w].then \in {"fail_result", "fail_exec"}
      BY <3>1, <3>2 DEF AfterFailure
    <3>4. cur[w] = c /\ result[c] # "complete" => HasJob(w, c)
      BY <1>2, <2>1 DEF Handles, Executing
    <3>5. HasJob(w, c) => c \notin batch[w] \/ result[c] = "complete"
      BY <1>2, OwnerAssumption DEF HasJob, Handles, OwnsActiveLease
    <3> HIDE DEF intended
    <3>6. Handles(w, c)'
      BY <1>1, <1>2, <1>3, <2>1, <3>1, <3>3, <3>4, <3>5
      DEF Handles, Executing, HasJob, OwnersWork
    <3>7. QED
      BY <1>1, <3>6, AnsweredStep
  <2>4. QED
    BY <2>2, <2>3
<1>8. ASSUME NEW d \in Calc, Acquire(w, d) PROVE Answered(c)'
  <2>1. PICK a \in Acquisition :
           /\ acq'[w] = a /\ pc'[w] = "flush" /\ cur'[w] = d
           /\ batch'[w] = batch[w] \ {d} /\ OwnsActiveLease(job[d], w)
           /\ txn'[w] = [loaded |-> job[d], intended |-> Acquired(job[d], a), then |-> "execute"]
    BY <1>8 DEF Acquire, Load, Goto
  <2>2. Handles(w, c)'
    BY <1>1, <1>2, <1>3, <2>1, OwnerAssumption DEF Handles, Executing, OwnersWork
  <2>3. QED
    BY <1>1, <2>2, AnsweredStep
<1>9. QED
  BY <1>4, <1>5, <1>6, <1>7, <1>8

\* The steps between two loads keep the job with its owner.
LEMMA AnsweredQuietSteps ==
    ASSUME TypeInv, NEW w \in Worker,
           \/ HandleReconciled(w) \/ HandledAll(w) \/ NextPoll(w) \/ ExecuteSucceeds(w)
           \/ ExecuteFails(w) \/ InlineLineage(w) \/ CheckOwner(w) \/ CaptureComposite(w)
           \/ PublicationFails(w) \/ RecordFailure(w) \/ FailExecution(w) \/ Crash(w)
           \/ \E d \in Calc : SkipAcquisition(w, d),
           NEW c \in Calc, Answered(c)
    PROVE  Answered(c)'
<1> USE DEF TypeInv, TypeOK
<1>1. job' = job /\ result' = result /\ \A v \in Worker : v # w => SameHands(v)
  BY DEF HandleReconciled, HandledAll, NextPoll, ExecuteSucceeds, ExecuteFails, InlineLineage,
     CheckOwner, CaptureComposite, PublicationFails, RecordFailure, FailExecution, Crash,
     SkipAcquisition, LeaveJob, Goto, SameHands, durable
<1>2. Handles(w, c)
  BY DEF Answered
<1> USE <1>1, <1>2 DEF Handles, Executing, Goto
<1>3. SUFFICES Handles(w, c)'
  BY AnsweredStep
<1>4. CASE HandleReconciled(w)
  BY <1>4 DEF HandleReconciled
<1>5. CASE HandledAll(w)
  BY <1>5 DEF HandledAll
<1>6. CASE NextPoll(w)
  BY <1>6 DEF NextPoll
<1>7. CASE ExecuteSucceeds(w)
  BY <1>7 DEF ExecuteSucceeds, HasJob
<1>8. CASE ExecuteFails(w)
  BY <1>8 DEF ExecuteFails, HasJob
<1>9. CASE InlineLineage(w)
  BY <1>9 DEF InlineLineage, HasJob
<1>10. CASE CheckOwner(w)
  BY <1>10, CalcAssumption DEF CheckOwner, LeaveJob, HasJob
<1>11. CASE CaptureComposite(w)
  BY <1>11 DEF CaptureComposite
<1>12. CASE PublicationFails(w)
  BY <1>12 DEF PublicationFails, HasJob
<1>13. CASE RecordFailure(w)
  BY <1>13 DEF RecordFailure
<1>14. CASE FailExecution(w)
  BY <1>14, CalcAssumption DEF FailExecution, LeaveJob
<1>15. CASE Crash(w)
  BY <1>15, CalcAssumption DEF Crash
<1>16. ASSUME NEW d \in Calc, SkipAcquisition(w, d) PROVE Handles(w, c)'
  BY <1>16 DEF SkipAcquisition
<1>17. QED
  BY <1>4, <1>5, <1>6, <1>7, <1>8, <1>9, <1>10, <1>11, <1>12, <1>13, <1>14, <1>15, <1>16

\* The success of a job is recorded by its owner, when no other worker is
\* about to merge a failure; a failure is merged where no success is.
LEMMA AnsweredResultSteps ==
    ASSUME TypeInv, DistinctAcquisitions, NEW w \in Worker,
           RecordSuccess(w) \/ RecordCompositeSuccess(w) \/ MergeFailure(w),
           NEW c \in Calc, Answered(c)
    PROVE  Answered(c)'
<1> USE DEF TypeInv, TypeOK
<1>1. /\ job' = job /\ \A v \in Worker : v # w => SameHands(v)
      /\ batch'[w] = batch[w] /\ recon'[w] = recon[w] /\ cur'[w] = cur[w] /\ acq'[w] = acq[w]
      /\ cur[w] \in Calc
  BY DEF RecordSuccess, RecordCompositeSuccess, MergeFailure, Goto, SameHands, CurrentJobOK,
     Busy, Control
<1>2. Handles(w, c)
  BY DEF Answered
<1>3. CASE cur[w] # c
  <2>1. result'[c] = result[c]
    BY <1>1, <1>3 DEF RecordSuccess, RecordCompositeSuccess, MergeFailure
  <2>2. Handles(w, c)'
    BY <1>1, <1>2, <1>3, <2>1 DEF Handles
  <2>3. QED
    BY <1>1, <2>1, <2>2, AnsweredStep
<1>4. CASE cur[w] = c /\ (RecordSuccess(w) \/ RecordCompositeSuccess(w))
  <2>1. /\ pc[w] = "publish" /\ pc'[w] \in {"capture", "complete"}
        /\ result'[c] = "complete"
    BY <1>1, <1>4 DEF RecordSuccess, RecordCompositeSuccess, Goto
  <2>2. \A v \in Worker : v # w => ~(pc[v] = "merge_failure" /\ cur[v] = c)
    <3>1. CASE result[c] = "complete"
      BY <3>1 DEF Answered, Handles
    <3>2. CASE result[c] # "complete"
      <4>1. Holds(w, c)
        BY <1>4, <2>1 DEF Holds, Executing
      <4>2. QED
        BY <3>2, <4>1, HoldersAlone DEF Fails
    <3>3. QED
      BY <3>1, <3>2
  <2>3. QED
    BY <1>1, <2>1, <2>2 DEF Answered, Handles, SameHands
<1>5. CASE cur[w] = c /\ MergeFailure(w)
  <2>1. /\ pc[w] = "merge_failure" /\ pc'[w] = "fail_exec" /\ result'[c] = "failed"
    BY <1>1, <1>5 DEF MergeFailure, Goto
  <2>2. result[c] # "complete"
    BY <1>2, <1>5, <2>1 DEF Handles
  <2>3. Handles(w, c)'
    BY <1>1, <1>2, <2>1, <2>2 DEF Handles, Executing, OwnsActiveLease
  <2>4. ASSUME NEW v \in Worker, v # w PROVE Handles(v, c)'
    <3>1. SameHands(v) /\ Handles(v, c)
      BY <1>1, <2>4 DEF Answered
    <3>2. QED
      BY <1>1, <2>1, <2>2, <3>1
      DEF Handles, SameHands, HasJob, OwnersWork, OwnsActiveLease, Acquired, Renewed
  <2>5. QED
    BY <1>1, <2>2, <2>3, <2>4 DEF Answered
<1>6. QED
  BY <1>3, <1>4, <1>5

\* The flush of a row that nobody changed since its load gives the row that
\* was intended.
LEMMA FlushedUnchanged ==
    ASSUME NEW loaded \in JobRow, NEW intended \in JobRow
    PROVE  FlushRow(loaded, loaded, intended) = intended
BY DEF FlushRow, JobRow

\* The flush of an owner writes a row that nobody changed since its load.
LEMMA AnsweredFlush ==
    ASSUME TypeInv, DistinctAcquisitions, NEW w \in Worker, Flush(w),
           NEW c \in Calc, Answered(c)
    PROVE  Answered(c)'
<1> USE DEF TypeInv, TypeOK
<1>1. /\ pc[w] = "flush" /\ cur[w] \in Calc /\ txn[w] \in Txn /\ job[c] \in JobRow
      /\ result' = result /\ \A v \in Worker : v # w => SameHands(v)
      /\ batch'[w] = batch[w] /\ recon'[w] = recon[w] /\ pc'[w] = txn[w].then
      /\ job'[cur[w]] = FlushRow(job[cur[w]], txn[w].loaded, txn[w].intended)
      /\ \A d \in Calc : d # cur[w] => job'[d] = job[d]
      /\ txn[w].then \in {"handle", "process"} => cur'[w] = NoCalc
      /\ txn[w].then \notin {"handle", "process"} => cur'[w] = cur[w] /\ acq'[w] = acq[w]
  BY DEF Flush, Goto, SameHands, CurrentJobOK, Busy, Control
<1>2. Handles(w, c) /\ txn[w].then \in Continuation
  BY <1>1 DEF Answered, Txn
<1>3. CASE cur[w] # c
  <2>1. cur'[w] # c
    BY <1>1, <1>3, CalcAssumption
  <2>2. Handles(w, c)'
    BY <1>1, <1>2, <1>3, <2>1 DEF Handles, Continuation
  <2>3. QED
    BY <1>1, <1>3, <2>2, AnsweredStep
<1>4. CASE cur[w] = c /\ result[c] = "complete"
  <2>1. pc'[w] # "merge_failure"
    BY <1>1, <1>2 DEF Continuation
  <2>2. QED
    BY <1>1, <1>4, <2>1 DEF Answered, Handles, SameHands
<1>5. CASE cur[w] = c /\ result[c] # "complete"
  <2>1. OwnersWork(w, c)
    BY <1>1, <1>2, <1>5 DEF Handles
  <2>2. job'[c] = txn[w].intended
    BY <1>1, <1>5, <2>1, FlushedUnchanged DEF OwnersWork, Txn
  <2>3. Holds(w, c)
    BY <1>1, <1>5 DEF Holds
  <2>4. \A v \in Worker : v # w => Handles(v, c)'
    BY <1>1, <1>5, <2>3, HoldersAlone, OthersUnaffected DEF Answered
  <2>5. c \notin batch'[w] /\ <<c, "failed">> \notin recon'[w]
    BY <1>1, <1>5, <2>1, <2>3, HoldersAlone DEF OwnersWork, Fails
  <2>6. CASE txn[w].then = "execute"
    <3>1. OwnsActiveLease(job'[c], acq'[w]) /\ acq'[w] # NoOwner
      BY <1>1, <2>1, <2>2, <2>6 DEF OwnersWork, Acquired, OwnsActiveLease
    <3>2. Handles(w, c)'
      BY <1>1, <1>5, <2>5, <2>6, <3>1 DEF Handles, Executing, HasJob
    <3>3. QED
      BY <2>4, <3>1, <3>2 DEF Answered, OwnsActiveLease
  <2>7. CASE txn[w].then \in {"inline_lineage", "check"}
    <3>1. OwnsActiveLease(job'[c], acq'[w]) /\ acq'[w] # NoOwner
      BY <1>1, <2>1, <2>2, <2>7 DEF OwnersWork, Renewed, OwnsActiveLease, HasJob, JobRow
    <3>2. Handles(w, c)'
      BY <1>1, <1>5, <2>5, <2>7, <3>1 DEF Handles, Executing, HasJob
    <3>3. QED
      BY <2>4, <3>1, <3>2 DEF Answered, OwnsActiveLease
  <2>8. CASE txn[w].then = "process"
    <3>1. job'[c].status = "pending" /\ cur'[w] # c
      BY <1>1, <2>1, <2>2, <2>8, CalcAssumption DEF OwnersWork
    <3>2. Handles(w, c)'
      BY <1>1, <1>5, <2>5, <3>1 DEF Handles
    <3>3. QED
      BY <2>4, <3>1, <3>2 DEF Answered
  <2>9. CASE txn[w].then \in {"fail_result", "fail_exec"}
    <3>1. job'[c].status = "failed"
      BY <2>1, <2>2, <2>9 DEF OwnersWork
    <3>2. Handles(w, c)'
      BY <1>1, <1>5, <2>5, <2>9, <3>1 DEF Handles, Executing
    <3>3. QED
      BY <2>4, <3>1, <3>2 DEF Answered
  <2>10. QED
    BY <2>1, <2>6, <2>7, <2>8, <2>9 DEF OwnersWork
<1>6. QED
  BY <1>3, <1>4, <1>5

\* No acquisition id is used twice (uuid4).
LEMMA AcquisitionsStayDistinct ==
    ASSUME TypeInv, DistinctAcquisitions, [Next]_vars
    PROVE  DistinctAcquisitions'
<1> USE DEF TypeInv, TypeOK
<1>1. ASSUME NEW w \in Worker, NEW c \in Calc, Acquire(w, c) PROVE DistinctAcquisitions'
  BY <1>1 DEF Acquire, Fresh, DistinctAcquisitions
<1>2. ASSUME NEW w \in Worker, \A v \in Worker : acq'[v] = acq[v] \/ acq'[v] = NoOwner
      PROVE  DistinctAcquisitions'
  BY <1>2 DEF DistinctAcquisitions
<1>3. ASSUME NEW w \in Worker, Step(w), \A c \in Calc : ~Acquire(w, c)
      PROVE  DistinctAcquisitions'
  <2>1. \A v \in Worker : acq'[v] = acq[v] \/ acq'[v] = NoOwner
    BY <1>3 DEF Step, Reconcile, HandleReconciled, HandledAll, RecoverFromResult,
       Lease, SkipAcquisition, NextPoll, ExecuteSucceeds, ExecuteFails, RenewLease,
       InlineLineage, CheckOwner, RecordSuccess, RecordCompositeSuccess, CaptureComposite,
       PublicationFails, MarkComplete, MarkFailure, RecordFailure, MergeFailure,
       FailExecution, Flush, LeaveJob
  <2>2. QED
    BY <1>2, <2>1
<1>4. ASSUME NEW w \in Worker, Crash(w) PROVE DistinctAcquisitions'
  BY <1>2, <1>4 DEF Crash
<1>5. CASE Environment \/ UNCHANGED vars
  <2>1. acq' = acq
    BY <1>5 DEF Environment, Submit, CancelExecution, LeaseExpires, LineageCompletes,
       LineageFails, CancelPending, ApiStops, vars, local
  <2>2. QED
    BY <2>1 DEF DistinctAcquisitions
<1>6. QED
  BY <1>1, <1>3, <1>4, <1>5 DEF Next

LEMMA AnsweredNext ==
    ASSUME TypeInv, DistinctAcquisitions, [Next]_vars, NEW c \in Calc, Answered(c),
           ~(AtWork(c) /\ RunsOut(c))
    PROVE  Answered(c)'
<1>1. ASSUME NEW w \in Worker, Step(w) PROVE Answered(c)'
  BY <1>1, AnsweredLockedSteps, AnsweredLoadSteps, AnsweredQuietSteps, AnsweredResultSteps,
     AnsweredFlush DEF Step
<1>2. ASSUME NEW w \in Worker, Crash(w) PROVE Answered(c)'
  BY <1>2, AnsweredQuietSteps
<1>3. CASE Environment
  BY <1>3, AnsweredEnvironment
<1>4. CASE UNCHANGED vars
  <2>1. job' = job /\ result' = result /\ \A v \in Worker : SameHands(v)
    BY <1>4 DEF vars, durable, local, SameHands
  <2>2. QED
    BY <2>1, HandlesKeeps DEF Answered
<1>5. QED
  BY <1>1, <1>2, <1>3, <1>4 DEF Next

\* The jobs outlived so far stay noted, and all that run out in a step.
LEMMA OutlivedGrows ==
    ASSUME [LeaseNext]_leaseVars
    PROVE  /\ [Next]_vars
           /\ outlived \subseteq outlived'
           /\ \A c \in Calc \ outlived' : ~(AtWork(c) /\ RunsOut(c)) \/ UNCHANGED vars
<1>1. CASE LeaseNext
  BY <1>1 DEF LeaseNext
<1>2. CASE UNCHANGED leaseVars
  BY <1>2 DEF leaseVars
<1>3. QED
  BY <1>1, <1>2

\* The executors with their history behave as the executors do.
LEMMA LeasesImplement == LeaseSpec => Spec
<1>1. LeaseInit => Init
  BY DEF LeaseInit
<1>2. [LeaseNext]_leaseVars => [Next]_vars
  BY OutlivedGrows
<1>3. QED
  BY <1>1, <1>2, PTL DEF LeaseSpec, Spec

LEMMA LeaseInvariance == LeaseSpec => [](TypeInv /\ LeaseInv)
<1>1. LeaseInit => LeaseInv
  BY DEF LeaseInit, Init, LeaseInv, DistinctAcquisitions, Answered, Handles, Executing, AbsentRow
<1>2. TypeInv /\ LeaseInv /\ [LeaseNext]_leaseVars => LeaseInv'
  <2> SUFFICES ASSUME TypeInv, LeaseInv, [LeaseNext]_leaseVars
               PROVE  LeaseInv'
    OBVIOUS
  <2>1. [Next]_vars /\ outlived \subseteq outlived'
    BY OutlivedGrows
  <2>2. DistinctAcquisitions'
    BY <2>1, AcquisitionsStayDistinct DEF LeaseInv
  <2>3. ASSUME NEW c \in Calc, c \notin outlived' PROVE Answered(c)'
    <3>1. Answered(c) /\ DistinctAcquisitions
      BY <2>1, <2>3 DEF LeaseInv
    <3>2. CASE ~(AtWork(c) /\ RunsOut(c))
      BY <2>1, <3>1, <3>2, AnsweredNext
    <3>3. CASE UNCHANGED vars
      <4>1. job' = job /\ result' = result /\ \A v \in Worker : SameHands(v)
        BY <3>3 DEF vars, durable, local, SameHands
      <4>2. QED
        BY <3>1, <4>1, HandlesKeeps DEF Answered
    <3>4. QED
      BY <2>3, <3>2, <3>3, OutlivedGrows
  <2>4. QED
    BY <2>2, <2>3 DEF LeaseInv
<1>3. QED
  BY <1>1, <1>2, LeasesImplement, TypeInvariance, PTL DEF LeaseSpec

\* While no worker outlived the lease of a job it had in hand, the success
\* of the job is final: through crashes, requeues, recoveries and unlocked
\* failure writes, for every number of executors.
THEOREM SuccessIsFinal == LeaseSpec => SuccessResultPreserved
<1>1. TypeInv /\ LeaseInv /\ [LeaseNext]_leaseVars
         => [\A c \in Calc \ outlived : result[c] = "complete" => result'[c] = "complete"]_vars
  <2> SUFFICES ASSUME TypeInv, LeaseInv, [LeaseNext]_leaseVars,
                      NEW c \in Calc, c \notin outlived, result[c] = "complete"
               PROVE  result'[c] = "complete"
    OBVIOUS
  <2> USE DEF TypeInv, TypeOK
  <2>1. [Next]_vars
    BY OutlivedGrows
  <2>2. \A v \in Worker : pc[v] = "merge_failure" => cur[v] # c
    BY DEF LeaseInv, Answered, Handles
  <2>3. ASSUME NEW w \in Worker,
               RecordSuccess(w) \/ RecordCompositeSuccess(w) \/ MergeFailure(w)
        PROVE  result'[c] = "complete"
    BY <2>2, <2>3 DEF RecordSuccess, RecordCompositeSuccess, MergeFailure
  <2>4. QED
    BY <2>1, <2>3, ResultWriters
<1>2. QED
  BY <1>1, LeaseInvariance, PTL DEF LeaseSpec, SuccessResultPreserved

\* A complete job has a result, and it is the success unless some worker
\* outlived the lease of the job.
THEOREM CompletionHasResult == LeaseSpec => []CompletedJobHasResult
<1>1. TypeInv /\ LeaseInv /\ ResultFirst => CompletedJobHasResult
  <2> SUFFICES ASSUME TypeInv, LeaseInv, ResultFirst,
                      NEW c \in Calc, job[c].status = "complete", result[c] # "complete"
               PROVE  result[c] = "failed" /\ c \in outlived
    BY DEF CompletedJobHasResult
  <2>1. result[c] = "failed"
    BY DEF ResultFirst, CompletedHasSome, TypeInv, TypeOK, ResultStatus
  <2>2. c \in outlived
    BY DEF LeaseInv, Answered
  <2>3. QED
    BY <2>1, <2>2
<1>2. QED
  BY <1>1, LeaseInvariance, LeasesImplement, ResultFirstInvariance, PTL

=============================================================================
