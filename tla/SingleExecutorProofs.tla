------------------------ MODULE SingleExecutorProofs ------------------------
(***************************************************************************)
(* What one executor process, the deployed topology, guarantees, for every *)
(* number of jobs, attempts and crashes: the retry budget, lineage before  *)
(* the result of a summary, and that a client is answered once.            *)
(*                                                                         *)
(* All three need the single process: a job-store operation checks the row *)
(* it loaded and not the row it overwrites, and only a second executor can *)
(* take a job away in between.                                             *)
(***************************************************************************)
EXTENDS ComputeExecutorProofs

(* What is true of every stored row, and of every row a worker intends.    *)
RowOK(r) ==
    /\ r.attempts <= MaxAttempts
    /\ r.status \in {"absent", "pending", "leased"} => r.attempts < MaxAttempts
    /\ r.status = "absent" => r.attempts = 0
    /\ r.status \in {"absent", "pending"} => r.owner = NoOwner
    /\ r.status = "running" => r.owner \in Acquisition

(* Between its load and its flush, a row keeps the attempts and the owner  *)
(* that were loaded, and its status too wherever the flush will not write  *)
(* one.                                                                    *)
SlotOK(w) ==
    pc[w] = "flush" =>
        /\ RowOK(txn[w].intended)
        /\ txn[w].intended.status # "absent"
        /\ job[cur[w]].attempts = txn[w].loaded.attempts
        /\ job[cur[w]].owner = txn[w].loaded.owner
        /\ txn[w].intended.status = txn[w].loaded.status =>
              /\ job[cur[w]].status = txn[w].loaded.status
              /\ txn[w].loaded.status # "pending"

BudgetInv ==
    /\ \A c \in Calc : RowOK(job[c])
    /\ \A w \in Worker : SlotOK(w)

-----------------------------------------------------------------------------

\* The operations keep a row within its budget: a leased row has an attempt
\* left for mark_running_acquired, a stale or failed attempt is requeued
\* only below the limit.
LEMMA RowsKeepBudget ==
    ASSUME NEW row \in JobRow, RowOK(row)
    PROVE  /\ RowOK(Registered)
           /\ IsLeasable(row) => \A w \in Worker : RowOK(Leased(row, w))
           /\ RowOK(Rejected(row))
           /\ IsStale(row) => RowOK(Reconciled(row))
           /\ RowOK(Cancelled(row))
           /\ \A w \in Worker, a \in Acquisition :
                 OwnsActiveLease(row, w) => RowOK(Acquired(row, a))
           /\ RowOK(Renewed(row))
           /\ RowOK(Completed(row))
           /\ RowOK(Failed(row))
           /\ RowOK(RetryableFailure(row))
<1> USE MaxAttemptsAssumption, OwnerAssumption DEF JobRow, JobStatus, Owner, LeaseState, RowOK
<1>1. RowOK(Registered) /\ RowOK(Rejected(row)) /\ RowOK(Cancelled(row))
  BY DEF Registered, AbsentRow, Rejected, Cancelled
<1>2. IsLeasable(row) => \A w \in Worker : RowOK(Leased(row, w))
  BY DEF Leased, IsLeasable
<1>3. IsStale(row) => RowOK(Reconciled(row))
  BY DEF IsStale, Reconciled, StaleOutcome
<1>4. ASSUME NEW w \in Worker, NEW a \in Acquisition, OwnsActiveLease(row, w)
      PROVE  RowOK(Acquired(row, a))
  BY <1>4 DEF OwnsActiveLease, Acquired
<1>5. RowOK(Renewed(row)) /\ RowOK(Completed(row)) /\ RowOK(Failed(row))
  BY DEF Renewed, Completed, Failed
<1>6. RowOK(RetryableFailure(row))
  BY DEF RetryableFailure
<1>7. QED
  BY <1>1, <1>2, <1>3, <1>4, <1>5, <1>6

\* The API, the lineage worker and the clock change no attempts and no
\* owner, and a status only before a worker has the job.
LEMMA BudgetEnvironment ==
    ASSUME TypeInv, BudgetInv, Environment
    PROVE  BudgetInv'
<1> USE DEF TypeInv, TypeOK, BudgetInv
<1>1. UNCHANGED local
  BY DEF Environment, Submit, CancelExecution, LeaseExpires, LineageCompletes,
       LineageFails, CancelPending, ApiStops
<1>2. ASSUME NEW c \in Calc
      PROVE  /\ RowOK(job'[c])
             /\ job'[c].attempts = job[c].attempts
             /\ job'[c].owner = job[c].owner
             /\ job'[c].status = job[c].status \/ job[c].status \in {"absent", "pending"}
  <2>1. ASSUME NEW d \in Calc, Submit(d) PROVE <1>2!2
    <3>1. CASE c = d
      BY <2>1, <3>1, RowsKeepBudget DEF Submit, Registered, AbsentRow, RowOK
    <3>2. CASE c # d
      BY <2>1, <3>2 DEF Submit
    <3>3. QED
      BY <3>1, <3>2
  <2>2. ASSUME NEW d \in Calc, LeaseExpires(d) PROVE <1>2!2
    BY <2>2 DEF LeaseExpires, JobRow, RowOK
  <2>3. ASSUME NEW S \in SUBSET CorrectionCalc, CancelPending(S) PROVE <1>2!2
    <3>1. CASE c \in S
      <4>1. job'[c] = Cancelled(job[c]) /\ job[c].status = "pending"
        BY <2>3, <3>1 DEF CancelPending
      <4>2. RowOK(job[c]) /\ RowOK(Cancelled(job[c]))
        BY RowsKeepBudget
      <4>3. /\ Cancelled(job[c]).attempts = job[c].attempts
            /\ Cancelled(job[c]).owner = NoOwner
        BY DEF Cancelled, JobRow
      <4>4. QED
        BY <4>1, <4>2, <4>3 DEF RowOK
    <3>2. CASE c \notin S
      BY <2>3, <3>2 DEF CancelPending
    <3>3. QED
      BY <3>1, <3>2
  <2>4. CASE UNCHANGED job
    BY <2>4
  <2>5. QED
    BY <2>1, <2>2, <2>3, <2>4
    DEF Environment, CancelExecution, LineageCompletes, LineageFails, ApiStops
<1>3. ASSUME NEW w \in Worker PROVE SlotOK(w)'
  BY <1>1, <1>2 DEF SlotOK, local, CurrentJobOK, Busy, Control
<1>4. QED
  BY <1>2, <1>3

\* Reconciliation and leasing keep every row within its budget, and a worker
\* that takes such a step has loaded nothing.
LEMMA BudgetLockedSteps ==
    ASSUME NEW w, Worker = {w}, TypeInv, BudgetInv, Reconcile(w) \/ Lease(w)
    PROVE  BudgetInv'
<1> USE DEF TypeInv, TypeOK, BudgetInv
<1>1. ASSUME NEW c \in Calc PROVE RowOK(job'[c])
  <2>1. job[c] \in JobRow /\ RowOK(job[c]) /\ w \in Worker
    OBVIOUS
  <2>2. CASE Reconcile(w)
    <3>1. \/ job'[c] = job[c]
          \/ IsStale(job[c]) /\ job'[c] = Reconciled(job[c])
      BY <2>2 DEF Reconcile
    <3>2. QED
      BY <2>1, <3>1, RowsKeepBudget
  <2>3. CASE Lease(w)
    <3>1. \/ job'[c] = job[c]
          \/ IsLeasable(job[c]) /\ job'[c] \in {Rejected(job[c]), Leased(job[c], w)}
      BY <2>3 DEF Lease
    <3>2. QED
      BY <2>1, <3>1, RowsKeepBudget
  <2>4. QED
    BY <2>2, <2>3
<1>2. pc'[w] # "flush"
  BY DEF Reconcile, Lease, Goto
<1>3. QED
  BY <1>1, <1>2 DEF SlotOK

\* A load that changes nothing yet, of a row within its budget.
LEMMA BudgetLoad ==
    ASSUME NEW w, Worker = {w}, TypeInv, BudgetInv, UNCHANGED job,
           NEW c \in Calc, cur'[w] = c,
           NEW intended \in JobRow, RowOK(intended), intended.status # "absent",
           intended.status = job[c].status => intended.status # "pending",
           NEW l, Load(w, c, intended, l)
    PROVE  BudgetInv'
<1> USE DEF TypeInv, TypeOK, BudgetInv
<1>1. txn'[w].loaded = job[c] /\ txn'[w].intended = intended
  BY DEF Load
<1>2. SlotOK(w)'
  BY <1>1 DEF SlotOK
<1>3. QED
  BY <1>2

LEMMA BudgetLoadSteps ==
    ASSUME NEW w, Worker = {w}, TypeInv, BudgetInv,
           \/ RecoverFromResult(w) \/ RenewLease(w) \/ MarkComplete(w) \/ MarkFailure(w)
           \/ \E c \in Calc : Acquire(w, c)
    PROVE  BudgetInv'
<1> USE DEF TypeInv, TypeOK, CurrentJobOK, BudgetInv
<1>0. w \in Worker /\ UNCHANGED job
  BY DEF RecoverFromResult, RenewLease, MarkComplete, MarkFailure, Acquire, durable
<1>s. ASSUME pc'[w] # "flush" PROVE BudgetInv'
  BY <1>0, <1>s DEF SlotOK
<1>1. CASE RecoverFromResult(w)
  <2>1. cur[w] \in Calc
    BY <1>0, <1>1 DEF RecoverFromResult, Busy, Control
  <2>2. /\ Completed(job[cur[w]]) \in JobRow /\ RowOK(Completed(job[cur[w]]))
        /\ Completed(job[cur[w]]).status = "complete"
    BY <2>1, IntendedRowTypes, RowsKeepBudget, RowStatuses
  <2>3. cur'[w] = cur[w] /\ Load(w, cur[w], Completed(job[cur[w]]), "handle")
    BY <1>1 DEF RecoverFromResult
  <2>4. QED
    BY <1>0, <2>1, <2>2, <2>3, BudgetLoad
<1>2. CASE RenewLease(w)
  <2>1. cur[w] \in Calc
    BY <1>0, <1>2 DEF RenewLease, Busy, Control
  <2>2. CASE OwnsActiveLease(job[cur[w]], acq[w])
    <3>1. /\ Renewed(job[cur[w]]) \in JobRow /\ RowOK(Renewed(job[cur[w]]))
          /\ Renewed(job[cur[w]]).status \in {"leased", "running"}
      BY <2>1, <2>2, IntendedRowTypes, RowsKeepBudget, RowStatuses DEF OwnsActiveLease
    <3>2. PICK l : cur'[w] = cur[w] /\ Load(w, cur[w], Renewed(job[cur[w]]), l)
      BY <1>2, <2>2 DEF RenewLease
    <3>3. QED
      BY <1>0, <2>1, <3>1, <3>2, BudgetLoad
  <2>3. CASE ~OwnsActiveLease(job[cur[w]], acq[w])
    BY <1>0, <1>s, <1>2, <2>3 DEF RenewLease, Goto
  <2>4. QED
    BY <2>2, <2>3
<1>3. CASE MarkComplete(w)
  <2>1. cur[w] \in Calc
    BY <1>0, <1>3 DEF MarkComplete, Busy, Control
  <2>2. CASE Load(w, cur[w], Completed(job[cur[w]]), "process") /\ UNCHANGED <<cur, acq>>
    <3>1. /\ Completed(job[cur[w]]) \in JobRow /\ RowOK(Completed(job[cur[w]]))
          /\ Completed(job[cur[w]]).status = "complete"
      BY <2>1, IntendedRowTypes, RowsKeepBudget, RowStatuses
    <3>2. cur'[w] = cur[w] /\ Load(w, cur[w], Completed(job[cur[w]]), "process")
      BY <2>2
    <3>3. QED
      BY <1>0, <2>1, <3>1, <3>2, BudgetLoad
  <2>3. CASE LeaveJob(w) /\ UNCHANGED txn
    BY <1>0, <1>s, <2>3 DEF LeaveJob, Goto
  <2>4. QED
    BY <1>3, <2>2, <2>3 DEF MarkComplete
<1>4. CASE MarkFailure(w)
  <2>1. cur[w] \in Calc
    BY <1>0, <1>4 DEF MarkFailure, Busy, Control
  <2>2. CASE OwnsActiveLease(job[cur[w]], acq[w])
    <3>1. PICK intended \in {RetryableFailure(job[cur[w]]), Failed(job[cur[w]])}, l \in Continuation :
             cur'[w] = cur[w] /\ Load(w, cur[w], intended, l)
      BY <1>4, <2>2 DEF MarkFailure, AfterFailure, Continuation
    <3>2. job[cur[w]].status \in {"leased", "running"}
      BY <2>2 DEF OwnsActiveLease
    <3>3. intended \in JobRow /\ RowOK(intended) /\ intended.status \in {"pending", "failed"}
      <4>1. job[cur[w]] \in JobRow /\ RowOK(job[cur[w]])
        BY <2>1
      <4>2. CASE intended = RetryableFailure(job[cur[w]])
        BY <4>1, <4>2, IntendedRowTypes, RowsKeepBudget, RowStatuses
      <4>3. CASE intended = Failed(job[cur[w]])
        BY <4>1, <4>3, IntendedRowTypes, RowsKeepBudget, RowStatuses
      <4>4. QED
        BY <3>1, <4>2, <4>3
    <3>4. QED
      BY <1>0, <2>1, <3>1, <3>2, <3>3, BudgetLoad
  <2>3. CASE ~OwnsActiveLease(job[cur[w]], acq[w])
    BY <1>0, <1>s, <1>4, <2>3 DEF MarkFailure, LeaveJob, Goto
  <2>4. QED
    BY <2>2, <2>3
<1>5. ASSUME NEW c \in Calc, Acquire(w, c) PROVE BudgetInv'
  <2>1. PICK a \in Acquisition : Load(w, c, Acquired(job[c], a), "execute")
    BY <1>5 DEF Acquire
  <2>2. cur'[w] = c /\ OwnsActiveLease(job[c], w)
    BY <1>0, <1>5 DEF Acquire
  <2>3. /\ Acquired(job[c], a) \in JobRow /\ RowOK(Acquired(job[c], a))
        /\ Acquired(job[c], a).status = "running"
    BY <1>0, <2>2, IntendedRowTypes, RowsKeepBudget, RowStatuses
  <2>4. QED
    BY <1>0, <2>1, <2>2, <2>3, BudgetLoad
<1>6. QED
  BY <1>1, <1>2, <1>3, <1>4, <1>5

\* The row a flush leaves agrees with the intended one.
LEMMA BudgetFlush ==
    ASSUME NEW w, Worker = {w}, TypeInv, BudgetInv, Flush(w)
    PROVE  BudgetInv'
<1> USE DEF TypeInv, TypeOK, CurrentJobOK, BudgetInv
<1>1. w \in Worker /\ cur[w] \in Calc
  BY DEF Flush, Busy, Control
<1> DEFINE new == FlushRow(job[cur[w]], txn[w].loaded, txn[w].intended)
<1>2. SlotOK(w) /\ pc[w] = "flush"
  BY <1>1 DEF Flush
<1>3. /\ new.status = txn[w].intended.status
      /\ new.attempts = txn[w].intended.attempts
      /\ new.owner = txn[w].intended.owner
  BY <1>2 DEF SlotOK, FlushRow
<1>4. RowOK(new)
  BY <1>2, <1>3 DEF SlotOK, RowOK
<1>5. job' = [job EXCEPT ![cur[w]] = new]
  BY DEF Flush
<1>6. \A c \in Calc : RowOK(job'[c])
  BY <1>1, <1>4, <1>5
<1>7. pc'[w] # "flush"
  BY <1>1 DEF Flush, Goto, Txn, Continuation
<1>8. QED
  BY <1>6, <1>7 DEF SlotOK

\* The other steps of a worker leave the jobs alone and load nothing.
LEMMA BudgetOtherSteps ==
    ASSUME NEW w, Worker = {w}, TypeInv, BudgetInv,
           \/ HandleReconciled(w) \/ HandledAll(w) \/ NextPoll(w)
           \/ \E c \in Calc : SkipAcquisition(w, c)
           \/ ExecuteSucceeds(w) \/ ExecuteFails(w) \/ InlineLineage(w)
           \/ CheckOwner(w) \/ RecordSuccess(w) \/ RecordCompositeSuccess(w)
           \/ CaptureComposite(w) \/ PublicationFails(w) \/ RecordFailure(w)
           \/ MergeFailure(w) \/ FailExecution(w) \/ Crash(w)
    PROVE  BudgetInv'
<1> USE DEF TypeInv, TypeOK
<1>1. UNCHANGED job
  BY DEF HandleReconciled, HandledAll, NextPoll, SkipAcquisition, ExecuteSucceeds,
       ExecuteFails, InlineLineage, CheckOwner, RecordSuccess, RecordCompositeSuccess,
       CaptureComposite, PublicationFails, RecordFailure, MergeFailure, FailExecution, Crash,
       durable
<1>2. pc'[w] # "flush"
  BY DEF HandleReconciled, HandledAll, NextPoll, SkipAcquisition, ExecuteSucceeds,
       ExecuteFails, InlineLineage, CheckOwner, RecordSuccess, RecordCompositeSuccess,
       CaptureComposite, PublicationFails, RecordFailure, MergeFailure, FailExecution, Crash,
       Goto, LeaveJob
<1>3. QED
  BY <1>1, <1>2 DEF BudgetInv, SlotOK

LEMMA BudgetInvariance ==
    ASSUME NEW w, Worker = {w}
    PROVE  Spec => []BudgetInv
<1>1. Init => BudgetInv
  BY MaxAttemptsAssumption DEF Init, BudgetInv, SlotOK, RowOK, AbsentRow
<1>2. TypeInv /\ BudgetInv /\ [Next]_vars => BudgetInv'
  <2> SUFFICES ASSUME TypeInv, BudgetInv, [Next]_vars
               PROVE  BudgetInv'
    OBVIOUS
  <2>1. CASE Step(w)
    BY <2>1, BudgetLockedSteps, BudgetLoadSteps, BudgetFlush, BudgetOtherSteps DEF Step
  <2>2. CASE Crash(w)
    BY <2>2, BudgetOtherSteps
  <2>3. CASE Environment
    BY <2>3, BudgetEnvironment
  <2>4. CASE UNCHANGED vars
    BY <2>4 DEF vars, durable, local, BudgetInv, SlotOK
  <2>5. QED
    BY <2>1, <2>2, <2>3, <2>4 DEF Next
<1>3. QED
  BY <1>1, <1>2, TypeInvariance, PTL DEF Spec

\* One executor process never starts more than max_attempts attempts of a
\* job, and a job that waits for a worker has an attempt left, through
\* crashes, lease expiries, reconciliations and cancellations.
THEOREM RetryBudget ==
    ASSUME NEW w, Worker = {w}
    PROVE  Spec => []AttemptBudget
<1>1. BudgetInv => AttemptBudget
  BY DEF BudgetInv, RowOK, AttemptBudget
<1>2. QED
  BY <1>1, BudgetInvariance, PTL

-----------------------------------------------------------------------------
(* The answer a client gets.                                               *)

(* At work on a job that was acquired.                                     *)
Working == {"execute", "renew", "inline_lineage", "renew_again", "check", "publish", "capture",
            "complete", "fail_retry", "fail_final"}

(* The job of a worker stays with it until the worker has let go of it: it *)
(* is active while the worker is at work on it, and failed once the worker *)
(* is to record its failure, which has no result to replace.  A recovery   *)
(* has seen the success of its job.                                        *)
JobKept(w) ==
    /\ pc[w] \in Working => job[cur[w]].status \in Active
    /\ pc[w] \in {"fail_result", "merge_failure", "fail_exec"} => job[cur[w]].status = "failed"
    /\ pc[w] = "merge_failure" => result[cur[w]] = "none"
    /\ Recovers(w) => result[cur[w]] = "complete"
    /\ pc[w] = "flush" /\ txn[w].then # "handle" =>
          job[cur[w]].status \in Active /\ job[cur[w]].status = txn[w].loaded.status
    /\ pc[w] = "flush" /\ txn[w].then \in {"execute", "inline_lineage", "check"} =>
          txn[w].intended.status \in Active
    /\ pc[w] = "flush" /\ txn[w].then \in {"fail_result", "fail_exec"} =>
          txn[w].intended.status = "failed"
    /\ \A r \in recon[w] : r[2] = "failed" => job[r[1]].status = "failed"

(* A failure is stored only for a failed job, and only a job that was      *)
(* taken off the queue is being cancelled.                                 *)
StoresAgree ==
    /\ \A c \in Calc : result[c] = "failed" => job[c].status = "failed"
    /\ \A c \in cancelling : job[c].status \in {"failed", "complete"}

(* The lineage of a summary on the way to its publication.                 *)
SummaryLineage(w) ==
    cur[w] \in SummaryCalc =>
        /\ pc[w] \in {"renew", "inline_lineage"} \/ (pc[w] = "flush" /\ txn[w].then = "inline_lineage")
              => (lineage[cur[w]] = "complete" => exec[cur[w]] = "complete")
        /\ pc[w] \in {"renew_again", "check", "publish"} \/ (pc[w] = "flush" /\ txn[w].then = "check")
              => lineage[cur[w]] = "complete" /\ exec[cur[w]] = "complete"

AnswerInv == StoresAgree /\ \A w \in Worker : JobKept(w) /\ SummaryLineage(w)

(* What follows from TypeInv for a worker.                                 *)
LEMMA WorkerTypes ==
    ASSUME TypeInv, NEW w \in Worker
    PROVE  /\ pc[w] \in Working \cup {"fail_result", "merge_failure", "fail_exec", "flush", "recover"}
              => cur[w] \in Calc
           /\ \A r \in recon[w] : r[1] \in Calc
           /\ txn[w] \in Txn
BY DEF TypeInv, TypeOK, CurrentJobOK, Working, Busy, Control

\* JobKept only depends on the rows of the worker's jobs.
LEMMA JobKeptFrame ==
    ASSUME TypeInv, NEW w \in Worker, JobKept(w), UNCHANGED <<result, pc, recon, cur, txn>>,
           \A c \in Calc : job'[c].status = job[c].status \/ job[c].status \in {"absent", "pending"}
    PROVE  JobKept(w)'
<1>1. /\ pc[w] \in Working \cup {"fail_result", "merge_failure", "fail_exec", "flush"}
            => cur[w] \in Calc
      /\ \A r \in recon[w] : r[1] \in Calc
  BY WorkerTypes
<1>2. QED
  BY <1>1 DEF JobKept, Recovers, Active

\* The API, the clock and the lineage worker take no job away from a worker
\* and do not spoil the lineage of a summary it has seen complete: the only
\* executions that are failed are those of jobs taken off the queue.
LEMMA AnswerEnvironment ==
    ASSUME TypeInv, AnswerInv, Environment
    PROVE  AnswerInv'
<1> USE DEF AnswerInv
<1>1. UNCHANGED <<result, pc, recon, cur, txn>>
  BY DEF Environment, Submit, CancelExecution, LeaseExpires, LineageCompletes,
       LineageFails, CancelPending, ApiStops, local
<1>2. ASSUME NEW c \in Calc
      PROVE  job'[c].status = job[c].status \/ job[c].status \in {"absent", "pending"}
  BY DEF Environment, Submit, CancelExecution, LeaseExpires, LineageCompletes,
       LineageFails, CancelPending, ApiStops, TypeInv, TypeOK, JobRow
<1>3. \A w \in Worker : JobKept(w)'
  BY <1>1, <1>2, JobKeptFrame
<1>4. ASSUME NEW c \in cancelling' PROVE job'[c].status \in {"failed", "complete"}
  <2>1. CASE c \in cancelling
    BY <1>2, <2>1 DEF StoresAgree, TypeInv, TypeOK
  <2>2. CASE c \notin cancelling
    <3>1. PICK S \in SUBSET CorrectionCalc : CancelPending(S)
      BY <1>4, <2>2 DEF Environment, Submit, CancelExecution, LeaseExpires, LineageCompletes,
           LineageFails, ApiStops
    <3>2. c \in Calc /\ job'[c] = Cancelled(job[c])
      BY <1>4, <2>2, <3>1, CalcAssumption DEF CancelPending
    <3>3. Cancelled(job[c]).status = "failed"
      BY <3>2, RowStatuses DEF TypeInv, TypeOK
    <3>4. QED
      BY <3>2, <3>3
  <2>3. QED
    BY <2>1, <2>2
<1>5. StoresAgree'
  BY <1>1, <1>2, <1>4 DEF StoresAgree
<1>6. ASSUME NEW w \in Worker PROVE SummaryLineage(w)'
  <2>1. SUFFICES ASSUME cur[w] \in SummaryCalc,
                        \/ pc[w] \in {"renew", "inline_lineage", "renew_again", "check", "publish"}
                        \/ pc[w] = "flush" /\ txn[w].then \in {"inline_lineage", "check"}
                 PROVE  SummaryLineage(w)'
    BY <1>1 DEF SummaryLineage
  <2>2. cur[w] \in Calc /\ job[cur[w]].status \in Active
    BY <2>1, WorkerTypes DEF JobKept, Working
  <2>3. cur[w] \notin cancelling
    BY <2>2 DEF StoresAgree, Active
  <2>4. \/ exec'[cur[w]] = exec[cur[w]] /\ lineage'[cur[w]] = lineage[cur[w]]
        \/ lineage[cur[w]] = "queued" /\ lineage'[cur[w]] = exec'[cur[w]]
    <3> USE <2>2, <2>3 DEF TypeInv, TypeOK
    <3>1. ASSUME NEW c \in Calc, CancelExecution(c) PROVE <2>4
      BY <3>1 DEF CancelExecution
    <3>2. ASSUME NEW c \in Calc, LineageCompletes(c) \/ LineageFails(c) PROVE <2>4
      BY <3>2 DEF LineageCompletes, LineageFails
    <3>3. CASE UNCHANGED <<exec, lineage>>
      BY <3>3
    <3>4. QED
      BY <3>1, <3>2, <3>3 DEF Environment, Submit, LeaseExpires, CancelPending, ApiStops
  <2>5. QED
    BY <1>1, <2>1, <2>4 DEF SummaryLineage
<1>7. QED
  BY <1>3, <1>5, <1>6

\* reconcile_stale_jobs and lease_pending_jobs, by a worker that has no job.
LEMMA AnswerLockedSteps ==
    ASSUME NEW w, Worker = {w}, TypeInv, OwnerInv, AnswerInv, Reconcile(w) \/ Lease(w)
    PROVE  AnswerInv'
<1> USE DEF TypeInv, TypeOK
<1>0. w \in Worker /\ UNCHANGED <<result, cancelling>>
  BY DEF Reconcile, Lease
<1>1. ASSUME NEW c \in Calc
      PROVE  \/ job'[c].status = job[c].status
             \/ job[c].status \in Active \cup {"pending"}
  <2>1. CASE Reconcile(w)
    <3>1. job'[c] = job[c] \/ IsStale(job[c])
      BY <2>1 DEF Reconcile
    <3>2. QED
      BY <3>1 DEF IsStale, Active
  <2>2. CASE Lease(w)
    <3>1. job'[c] = job[c] \/ IsLeasable(job[c])
      BY <2>2 DEF Lease
    <3>2. QED
      BY <3>1 DEF IsLeasable, Active
  <2>3. QED
    BY <2>1, <2>2
<1>2. StoresAgree'
  BY <1>0, <1>1 DEF AnswerInv, StoresAgree, Active
<1>3. pc'[w] \in {"handle", "process"}
  BY <1>0 DEF Reconcile, Lease, Goto
<1>4. \A r \in recon'[w] : r[2] = "failed" => job'[r[1]].status = "failed"
  <2>1. CASE Reconcile(w)
    <3>1. PICK S \in SUBSET {c \in Calc : IsStale(job[c])} :
             /\ job' = [c \in Calc |-> IF c \in S THEN Reconciled(job[c]) ELSE job[c]]
             /\ recon' = [recon EXCEPT ![w] = {<<c, StaleOutcome(job[c])>> : c \in S}]
      BY <2>1 DEF Reconcile
    <3>2. ASSUME NEW r \in recon'[w], r[2] = "failed" PROVE job'[r[1]].status = "failed"
      <4>1. PICK c \in S : r = <<c, StaleOutcome(job[c])>>
        BY <1>0, <3>1, <3>2
      <4>2. c \in Calc /\ job'[c] = Reconciled(job[c]) /\ job[c] \in JobRow
        BY <3>1, <4>1
      <4>3. job'[c].status = StaleOutcome(job[c])
        BY <4>2, RowStatuses
      <4>4. QED
        BY <3>2, <4>1, <4>3
    <3>3. QED
      BY <3>2
  <2>2. CASE Lease(w)
    <3>1. recon[w] = {} /\ recon' = recon
      BY <1>0, <2>2 DEF Lease, OwnerInv, LoopsOK, LoopOK, Recovers
    <3>2. QED
      BY <3>1
  <2>3. QED
    BY <2>1, <2>2
<1>5. JobKept(w)'
  BY <1>3, <1>4 DEF JobKept, Recovers, Working
<1>6. SummaryLineage(w)'
  BY <1>3 DEF SummaryLineage
<1>7. QED
  BY <1>0, <1>2, <1>5, <1>6 DEF AnswerInv

\* A step that loads the row of an active job changes nothing yet.
LEMMA AnswerLoad ==
    ASSUME NEW w, Worker = {w}, TypeInv, OwnerInv, AnswerInv,
           UNCHANGED <<job, result, exec, lineage, cancelling, recon>>,
           NEW c \in Calc, NEW row, NEW l, Load(w, c, row, l), cur'[w] = c,
           l # "handle", job[c].status \in Active,
           l \in {"execute", "inline_lineage", "check"} => row.status \in Active,
           l \in {"fail_result", "fail_exec"} => row.status = "failed",
           c \in SummaryCalc =>
              /\ l = "inline_lineage" => (lineage[c] = "complete" => exec[c] = "complete")
              /\ l = "check" => lineage[c] = "complete" /\ exec[c] = "complete"
    PROVE  AnswerInv'
<1>0. w \in Worker
  OBVIOUS
<1>1. /\ pc'[w] = "flush"
      /\ txn'[w].loaded = job[c] /\ txn'[w].intended = row /\ txn'[w].then = l
  BY <1>0 DEF Load, Goto, TypeInv, TypeOK
<1>2. JobKept(w) /\ StoresAgree
  BY <1>0 DEF AnswerInv
<1>3. JobKept(w)'
  BY <1>1, <1>2 DEF JobKept, Recovers, Working
<1>4. SummaryLineage(w)'
  BY <1>1 DEF SummaryLineage
<1>5. StoresAgree'
  BY <1>2 DEF StoresAgree
<1>6. QED
  BY <1>3, <1>4, <1>5 DEF AnswerInv

\* A step that leaves the stores alone and loads nothing, by a worker that
\* goes on with its active job, records the failure of a failed one, or has
\* no job any more.
LEMMA AnswerQuiet ==
    ASSUME NEW w, Worker = {w}, TypeInv, AnswerInv, UNCHANGED <<job, cancelling>>,
           \A c \in Calc : result'[c] = "failed" => job[c].status = "failed",
           pc'[w] # "flush",
           recon'[w] \subseteq recon[w],
           pc'[w] \in Working => job[cur'[w]].status \in Active,
           pc'[w] \in {"fail_result", "merge_failure", "fail_exec"}
              => job[cur'[w]].status = "failed",
           pc'[w] = "merge_failure" => result'[cur'[w]] = "none",
           pc'[w] = "recover" => result'[cur'[w]] = "complete",
           cur'[w] \in SummaryCalc =>
              /\ pc'[w] \in {"renew", "inline_lineage"} =>
                    (lineage'[cur'[w]] = "complete" => exec'[cur'[w]] = "complete")
              /\ pc'[w] \in {"renew_again", "check", "publish"} =>
                    lineage'[cur'[w]] = "complete" /\ exec'[cur'[w]] = "complete"
    PROVE  AnswerInv'
<1>1. w \in Worker /\ JobKept(w) /\ StoresAgree
  BY DEF AnswerInv
<1>2. JobKept(w)'
  BY <1>1 DEF JobKept, Recovers
<1>3. SummaryLineage(w)'
  BY DEF SummaryLineage
<1>4. StoresAgree'
  BY <1>1 DEF StoresAgree
<1>5. QED
  BY <1>2, <1>3, <1>4 DEF AnswerInv

LEMMA AnswerLoadSteps ==
    ASSUME NEW w, Worker = {w}, TypeInv, OwnerInv, AnswerInv,
           \/ RenewLease(w) \/ MarkComplete(w) \/ MarkFailure(w)
           \/ \E c \in Calc : Acquire(w, c)
    PROVE  AnswerInv'
<1>0. /\ w \in Worker /\ JobKept(w) /\ StoresAgree /\ SummaryLineage(w)
      /\ UNCHANGED <<job, result, exec, lineage, cancelling, recon>>
  BY DEF AnswerInv, RenewLease, MarkComplete, MarkFailure, Acquire, durable
<1>1. CASE RenewLease(w)
  <2>1. /\ cur[w] \in Calc /\ job[cur[w]] \in JobRow /\ cur' = cur
        /\ pc[w] \in {"renew", "renew_again"} /\ job[cur[w]].status \in Active
    BY <1>0, <1>1 DEF RenewLease, TypeInv, TypeOK, CurrentJobOK, Busy, Control, JobKept, Working
  <2>2. CASE OwnsActiveLease(job[cur[w]], acq[w])
    <3>1. PICK l \in {"inline_lineage", "check"} :
             /\ Load(w, cur[w], Renewed(job[cur[w]]), l)
             /\ l = "inline_lineage" <=> pc[w] = "renew"
      BY <1>1, <2>1, <2>2 DEF RenewLease
    <3>2. Renewed(job[cur[w]]).status \in Active
      BY <2>1, RowStatuses
    <3>3. cur[w] \in SummaryCalc =>
             /\ l = "inline_lineage" => (lineage[cur[w]] = "complete" => exec[cur[w]] = "complete")
             /\ l = "check" => lineage[cur[w]] = "complete" /\ exec[cur[w]] = "complete"
      BY <1>0, <2>1, <3>1 DEF SummaryLineage
    <3>4. PICK row : row = Renewed(job[cur[w]])
      OBVIOUS
    <3>5. QED
      BY <1>0, <2>1, <3>1, <3>2, <3>3, <3>4, AnswerLoad
  <2>3. CASE ~OwnsActiveLease(job[cur[w]], acq[w])
    <3>1. pc'[w] = "fail_final"
      BY <1>0, <1>1, <2>3 DEF RenewLease, Goto, TypeInv, TypeOK
    <3>2. QED
      BY <1>0, <2>1, <3>1, AnswerQuiet DEF StoresAgree
  <2>4. QED
    BY <2>2, <2>3
<1>2. CASE MarkComplete(w)
  <2>1. /\ cur[w] \in Calc /\ job[cur[w]] \in JobRow
        /\ pc[w] = "complete" /\ job[cur[w]].status \in Active
    BY <1>0, <1>2 DEF MarkComplete, TypeInv, TypeOK, CurrentJobOK, Busy, Control, JobKept, Working
  <2>2. CASE Load(w, cur[w], Completed(job[cur[w]]), "process") /\ UNCHANGED <<cur, acq>>
    BY <1>0, <2>1, <2>2, AnswerLoad
  <2>3. CASE LeaveJob(w)
    <3>1. pc'[w] \in {"handle", "process"}
      BY <1>0, <2>3 DEF LeaveJob, Goto, TypeInv, TypeOK
    <3>2. QED
      BY <1>0, <3>1, AnswerQuiet DEF StoresAgree, Working
  <2>4. QED
    BY <1>2, <2>2, <2>3 DEF MarkComplete
<1>3. CASE MarkFailure(w)
  <2>1. /\ cur[w] \in Calc /\ job[cur[w]] \in JobRow
        /\ job[cur[w]].status \in Active
    BY <1>0, <1>3 DEF MarkFailure, TypeInv, TypeOK, CurrentJobOK, Busy, Control, JobKept, Working
  <2>2. CASE OwnsActiveLease(job[cur[w]], acq[w])
    <3>1. PICK row \in {RetryableFailure(job[cur[w]]), Failed(job[cur[w]])} :
             /\ Load(w, cur[w], row, AfterFailure(w, row))
             /\ UNCHANGED <<cur, acq>>
      BY <1>3, <2>2 DEF MarkFailure
    <3>2. row.status \in {"pending", "failed"}
      BY <2>1, <3>1, RowStatuses
    <3>3. PICK l : l = AfterFailure(w, row)
      OBVIOUS
    <3>4. /\ l \in {"process", "fail_exec", "fail_result"}
          /\ l \in {"fail_result", "fail_exec"} => row.status = "failed"
      BY <3>2, <3>3 DEF AfterFailure
    <3>5. QED
      BY <1>0, <2>1, <3>1, <3>3, <3>4, AnswerLoad
  <2>3. CASE ~OwnsActiveLease(job[cur[w]], acq[w])
    <3>1. pc'[w] \in {"handle", "process"}
      BY <1>0, <1>3, <2>3 DEF MarkFailure, LeaveJob, Goto, TypeInv, TypeOK
    <3>2. QED
      BY <1>0, <3>1, AnswerQuiet DEF StoresAgree, Working
  <2>4. QED
    BY <2>2, <2>3
<1>4. ASSUME NEW c \in Calc, Acquire(w, c) PROVE AnswerInv'
  <2>1. PICK a \in Acquisition : Load(w, c, Acquired(job[c], a), "execute")
    BY <1>4 DEF Acquire
  <2>2. /\ cur'[w] = c /\ job[c].status \in Active /\ job[c] \in JobRow
    BY <1>0, <1>4 DEF Acquire, OwnsActiveLease, Active, TypeInv, TypeOK
  <2>3. Acquired(job[c], a).status \in Active
    BY <2>2, RowStatuses DEF Active
  <2>4. QED
    BY <1>0, <2>1, <2>2, <2>3, AnswerLoad
<1>5. QED
  BY <1>1, <1>2, <1>3, <1>4

\* The recovery of a reconciled job loads its row and changes nothing yet.
LEMMA AnswerRecover ==
    ASSUME NEW w, Worker = {w}, TypeInv, AnswerInv, RecoverFromResult(w)
    PROVE  AnswerInv'
<1>1. /\ w \in Worker /\ JobKept(w) /\ StoresAgree /\ Recovers(w)
      /\ UNCHANGED <<job, result, exec, lineage, cancelling, recon, cur>>
  BY DEF AnswerInv, RecoverFromResult, durable, Recovers
<1>2. pc'[w] = "flush" /\ txn'[w].then = "handle"
  BY <1>1 DEF RecoverFromResult, Load, Goto, TypeInv, TypeOK
<1>3. JobKept(w)'
  BY <1>1, <1>2 DEF JobKept, Recovers, Working
<1>4. SummaryLineage(w)'
  BY <1>2 DEF SummaryLineage
<1>5. StoresAgree'
  BY <1>1 DEF StoresAgree
<1>6. QED
  BY <1>3, <1>4, <1>5 DEF AnswerInv

LEMMA AnswerOtherSteps ==
    ASSUME NEW w, Worker = {w}, TypeInv, OwnerInv, AnswerInv,
           \/ HandleReconciled(w) \/ HandledAll(w) \/ NextPoll(w)
           \/ \E c \in Calc : SkipAcquisition(w, c)
           \/ ExecuteSucceeds(w) \/ ExecuteFails(w) \/ InlineLineage(w)
           \/ CheckOwner(w) \/ RecordSuccess(w) \/ RecordCompositeSuccess(w)
           \/ CaptureComposite(w) \/ PublicationFails(w) \/ RecordFailure(w)
           \/ MergeFailure(w) \/ FailExecution(w) \/ Crash(w)
    PROVE  AnswerInv'
<1> USE DEF Goto
<1>0. w \in Worker /\ JobKept(w) /\ StoresAgree /\ SummaryLineage(w)
  BY DEF AnswerInv
<1>t. /\ pc \in [Worker -> Control] /\ cur \in [Worker -> Calc \cup {NoCalc}]
      /\ recon \in [Worker -> SUBSET (Calc \X {"pending", "failed"})]
      /\ acq \in [Worker -> Acquisition \cup {NoOwner}]
      /\ result \in [Calc -> ResultStatus]
      /\ exec \in [Calc -> ExecStatus] /\ lineage \in [Calc -> LineageStatus]
      /\ pc[w] \in Working \cup {"fail_result", "merge_failure", "fail_exec"} => cur[w] \in Calc
  BY <1>0, WorkerTypes DEF TypeInv, TypeOK
<1>1. CASE HandleReconciled(w)
  <2>1. PICK r \in recon[w] :
           /\ recon' = [recon EXCEPT ![w] = @ \ {r}]
           /\ \/ /\ result[r[1]] = "complete"
                 /\ cur' = [cur EXCEPT ![w] = r[1]]
                 /\ pc' = [pc EXCEPT ![w] = "recover"]
              \/ /\ r[2] = "failed"
                 /\ cur' = [cur EXCEPT ![w] = r[1]]
                 /\ \/ pc' = [pc EXCEPT ![w] = "fail_exec"]
                    \/ pc' = [pc EXCEPT ![w] = "fail_result"]
              \/ UNCHANGED <<cur, pc>>
    BY <1>1 DEF HandleReconciled
  <2>2. pc[w] = "handle" /\ UNCHANGED <<job, result, cancelling>>
    BY <1>1 DEF HandleReconciled, durable
  <2>3. /\ recon'[w] \subseteq recon[w]
        /\ pc'[w] \in {"handle", "recover", "fail_exec", "fail_result"}
        /\ pc'[w] \in {"fail_exec", "fail_result"} => job[cur'[w]].status = "failed"
        /\ pc'[w] = "recover" => result[cur'[w]] = "complete"
    BY <1>0, <1>t, <2>1, <2>2 DEF JobKept
  <2>4. QED
    BY <1>0, <2>2, <2>3, AnswerQuiet DEF StoresAgree, Working
<1>2. CASE HandledAll(w) \/ NextPoll(w) \/ Crash(w)
  <2>1. /\ pc'[w] \in {"lease", "reconcile"} /\ recon'[w] \subseteq recon[w]
        /\ UNCHANGED <<job, result, cancelling>>
    BY <1>0, <1>t, <1>2 DEF HandledAll, NextPoll, Crash, durable
  <2>2. QED
    BY <1>0, <2>1, AnswerQuiet DEF StoresAgree, Working
<1>3. ASSUME NEW c \in Calc, SkipAcquisition(w, c) PROVE AnswerInv'
  <2>1. pc'[w] = "process" /\ UNCHANGED <<job, result, cancelling, recon>>
    BY <1>0, <1>t, <1>3 DEF SkipAcquisition, durable
  <2>2. QED
    BY <1>0, <2>1, AnswerQuiet DEF StoresAgree, Working
<1>4. CASE ExecuteSucceeds(w)
  <2>1. /\ UNCHANGED <<job, result, cancelling, recon, cur>> /\ pc[w] = "execute"
        /\ pc'[w] \in {"renew", "check"}
        /\ cur[w] \in SummaryCalc => pc'[w] = "renew" /\ lineage'[cur[w]] = "queued"
    BY <1>0, <1>t, <1>4, CalcAssumption DEF ExecuteSucceeds, Working
  <2>2. QED
    BY <1>0, <2>1, AnswerQuiet DEF StoresAgree, JobKept, Working
<1>5. CASE ExecuteFails(w) \/ PublicationFails(w)
  <2>1. /\ UNCHANGED <<job, result, cancelling, recon, cur>> /\ pc[w] \in Working
        /\ pc'[w] \in {"fail_retry", "fail_final"}
    BY <1>0, <1>t, <1>5 DEF ExecuteFails, PublicationFails, durable, Working
  <2>2. QED
    BY <1>0, <2>1, AnswerQuiet DEF StoresAgree, JobKept
<1>6. CASE InlineLineage(w)
  <2>1. /\ UNCHANGED <<job, result, cancelling, recon, cur>> /\ pc[w] = "inline_lineage"
        /\ cur[w] \in Calc
    BY <1>0, <1>t, <1>6 DEF InlineLineage, Working
  <2>2. /\ pc'[w] \in {"renew_again", "fail_retry"}
        /\ pc'[w] = "renew_again" =>
              \/ lineage'[cur[w]] = "complete" /\ exec'[cur[w]] = "complete"
              \/ lineage[cur[w]] = "complete" /\ UNCHANGED <<lineage, exec>>
    BY <1>0, <1>t, <1>6, <2>1 DEF InlineLineage
  <2>3. QED
    BY <1>0, <2>1, <2>2, AnswerQuiet DEF StoresAgree, JobKept, Working, SummaryLineage
<1>7. CASE CheckOwner(w)
  <2>1. UNCHANGED <<job, result, exec, lineage, cancelling, recon>> /\ pc[w] = "check"
    BY <1>7 DEF CheckOwner, durable
  <2>2. \/ pc'[w] = "publish" /\ cur' = cur
        \/ pc'[w] \in {"handle", "process"}
    BY <1>0, <1>t, <1>7 DEF CheckOwner, LeaveJob
  <2>3. QED
    BY <1>0, <2>1, <2>2, AnswerQuiet DEF StoresAgree, JobKept, Working, SummaryLineage
<1>8. CASE RecordSuccess(w) \/ RecordCompositeSuccess(w)
  <2>1. /\ UNCHANGED <<job, cancelling, recon, cur>> /\ pc[w] = "publish"
        /\ \A c \in Calc : result'[c] \in {"complete", result[c]}
        /\ pc'[w] \in {"capture", "complete"}
    BY <1>0, <1>t, <1>8 DEF RecordSuccess, RecordCompositeSuccess
  <2>2. QED
    BY <1>0, <2>1, AnswerQuiet DEF StoresAgree, JobKept, Working
<1>9. CASE RecordFailure(w)
  <2>1. /\ UNCHANGED <<job, result, cancelling, recon, cur>> /\ pc[w] = "fail_result"
        /\ pc'[w] \in {"merge_failure", "fail_exec"}
        /\ pc'[w] = "merge_failure" => result[cur[w]] = "none"
    BY <1>0, <1>t, <1>9 DEF RecordFailure, durable
  <2>2. QED
    BY <1>0, <2>1, AnswerQuiet DEF StoresAgree, JobKept, Working
<1>10. CASE FailExecution(w)
  <2>1. /\ UNCHANGED <<job, result, cancelling, recon>>
        /\ pc'[w] \in {"handle", "process"}
    BY <1>0, <1>t, <1>10 DEF FailExecution, LeaveJob
  <2>2. QED
    BY <1>0, <2>1, AnswerQuiet DEF StoresAgree, Working
<1>11. CASE MergeFailure(w)
  <2>1. /\ UNCHANGED <<job, cancelling, recon, cur>> /\ pc[w] = "merge_failure"
        /\ \A c \in Calc : c # cur[w] => result'[c] = result[c]
        /\ pc'[w] = "fail_exec"
    BY <1>0, <1>t, <1>11 DEF MergeFailure
  <2>2. QED
    BY <1>0, <2>1, AnswerQuiet DEF StoresAgree, JobKept, Working
<1>12. CASE CaptureComposite(w)
  <2>1. /\ UNCHANGED <<job, result, cancelling, recon, cur>> /\ pc[w] = "capture"
        /\ pc'[w] \in {"complete", "fail_retry", "fail_final"}
    BY <1>0, <1>t, <1>12 DEF CaptureComposite
  <2>2. QED
    BY <1>0, <2>1, AnswerQuiet DEF StoresAgree, JobKept, Working
<1>13. QED
  BY <1>1, <1>2, <1>3, <1>4, <1>5, <1>6, <1>7, <1>8, <1>9, <1>10, <1>11, <1>12

\* A flush leaves the job where the worker expects it; a recovery completes
\* only a job whose success is stored.
LEMMA AnswerFlush ==
    ASSUME NEW w, Worker = {w}, TypeInv, ResultFirst, OwnerInv, AnswerInv, Flush(w)
    PROVE  AnswerInv'
<1> DEFINE new == FlushRow(job[cur[w]], txn[w].loaded, txn[w].intended)
<1>0. w \in Worker /\ JobKept(w) /\ StoresAgree /\ SummaryLineage(w) /\ LoopOK(w)
  BY DEF AnswerInv, OwnerInv, LoopsOK
<1>1. /\ pc[w] = "flush" /\ cur[w] \in Calc /\ txn[w].then \in Continuation
      /\ \A r \in recon[w] : r[1] \in Calc
  BY <1>0, WorkerTypes DEF Flush, Txn
<1>2. Checked(txn[w]) \/ Recovering(txn[w])
  BY <1>0, <1>1 DEF OwnerInv, SlotsKnown
<1>3. /\ UNCHANGED <<result, exec, lineage, cancelling, recon>>
      /\ \A c \in Calc : c # cur[w] => job'[c] = job[c]
      /\ job'[cur[w]] = new
      /\ pc'[w] = txn[w].then
      /\ txn[w].then \notin {"handle", "process"} => cur'[w] = cur[w]
  BY <1>0, <1>1 DEF Flush, Goto, TypeInv, TypeOK
<1>4. new.status = IF txn[w].intended.status # txn[w].loaded.status
                   THEN txn[w].intended.status ELSE job[cur[w]].status
  BY DEF FlushRow
<1>5. CASE txn[w].then = "handle"
  <2>1. Recovering(txn[w])
    BY <1>2, <1>5 DEF Checked
  <2>2. result[cur[w]] = "complete" /\ new.status \in {"complete", job[cur[w]].status}
    BY <1>0, <1>1, <1>4, <1>5, <2>1 DEF JobKept, Recovers, Recovering
  <2>3. \A r \in recon[w] : r[1] # cur[w]
    BY <1>0, <1>1, <1>5 DEF LoopOK, Recovers
  <2>4. JobKept(w)'
    BY <1>0, <1>1, <1>3, <1>5, <2>3 DEF JobKept, Recovers, Working
  <2>5. SummaryLineage(w)'
    BY <1>3, <1>5 DEF SummaryLineage
  <2>6. StoresAgree'
    BY <1>0, <1>3, <2>2 DEF StoresAgree, TypeInv, TypeOK
  <2>7. QED
    BY <2>4, <2>5, <2>6 DEF AnswerInv
<1>6. CASE txn[w].then # "handle"
  <2>1. job[cur[w]].status \in Active /\ job[cur[w]].status = txn[w].loaded.status
    BY <1>0, <1>1, <1>6 DEF JobKept
  <2>2. recon[w] = {}
    BY <1>0, <1>1, <1>6 DEF LoopOK, Recovers
  <2>3. new.status = txn[w].intended.status
    BY <1>4, <2>1
  <2>4. pc'[w] # "flush"
    BY <1>1, <1>3 DEF Continuation
  <2>5. pc'[w] \in Working => pc'[w] \in {"execute", "inline_lineage", "check"}
    BY <1>1, <1>3 DEF Continuation, Working
  <2>6. JobKept(w)'
    BY <1>0, <1>1, <1>3, <2>2, <2>3, <2>4, <2>5 DEF JobKept, Recovers, Continuation
  <2>7. SummaryLineage(w)'
    BY <1>0, <1>1, <1>3, <2>4, <2>5 DEF SummaryLineage, Continuation
  <2>8. StoresAgree'
    BY <1>0, <1>3, <2>1 DEF StoresAgree, TypeInv, TypeOK, Active
  <2>9. QED
    BY <2>6, <2>7, <2>8 DEF AnswerInv
<1>7. QED
  BY <1>5, <1>6

LEMMA AnswerInvariance ==
    ASSUME NEW w, Worker = {w}
    PROVE  Spec => []AnswerInv
<1>1. Init => AnswerInv
  BY DEF Init, AnswerInv, StoresAgree, JobKept, Recovers, SummaryLineage, Working
<1>2. TypeInv /\ ResultFirst /\ OwnerInv /\ AnswerInv /\ [Next]_vars => AnswerInv'
  <2> SUFFICES ASSUME TypeInv, ResultFirst, OwnerInv, AnswerInv, [Next]_vars
               PROVE  AnswerInv'
    OBVIOUS
  <2>1. CASE Step(w)
    BY <2>1, AnswerLockedSteps, AnswerLoadSteps, AnswerRecover, AnswerFlush, AnswerOtherSteps
    DEF Step
  <2>2. CASE Crash(w)
    BY <2>2, AnswerOtherSteps
  <2>3. CASE Environment
    BY <2>3, AnswerEnvironment
  <2>4. CASE UNCHANGED vars
    BY <2>4 DEF vars, durable, local, AnswerInv, StoresAgree, JobKept, Recovers, SummaryLineage
  <2>5. QED
    BY <2>1, <2>2, <2>3, <2>4 DEF Next
<1>3. QED
  BY <1>1, <1>2, TypeInvariance, ResultFirstInvariance, OwnerInvariance, PTL DEF Spec

-----------------------------------------------------------------------------
(* Lineage before the result of a summary.                                 *)

\* A workspace summary is published only when its lineage and its execution
\* are complete: neither the lineage worker nor a cancellation changes them
\* while the executor renews its lease, checks its ownership and publishes.
THEOREM SummaryHasLineage ==
    ASSUME NEW w, Worker = {w}
    PROVE  Spec => SummaryPublishedAfterLineage
<1> DEFINE Late == \A c \in SummaryCalc :
                      result[c] # "complete" /\ result'[c] = "complete"
                          => lineage[c] = "complete" /\ exec[c] = "complete"
<1>1. TypeInv /\ AnswerInv /\ [Next]_vars => [Late]_vars
  <2> SUFFICES ASSUME TypeInv, AnswerInv, [Next]_vars,
                      NEW c \in SummaryCalc, result[c] # "complete", result'[c] = "complete"
               PROVE  lineage[c] = "complete" /\ exec[c] = "complete"
    OBVIOUS
  <2>1. c \in Calc \ CompositeCalc /\ result \in [Calc -> ResultStatus]
    BY CalcAssumption DEF TypeInv, TypeOK
  <2>2. RecordSuccess(w) \/ RecordCompositeSuccess(w) \/ MergeFailure(w)
    BY ResultWriters
  <2>3. ~MergeFailure(w)
    BY <2>1 DEF MergeFailure
  <2>4. cur[w] = c /\ pc[w] = "publish"
    BY <2>1, <2>2, <2>3 DEF RecordSuccess, RecordCompositeSuccess
  <2>5. QED
    BY <2>4 DEF AnswerInv, SummaryLineage
<1>2. QED
  BY <1>1, TypeInvariance, AnswerInvariance, PTL DEF Spec, SummaryPublishedAfterLineage

-----------------------------------------------------------------------------
(* The refinement of AsyncResultContract.                                  *)

\* The view by cases.
LEMMA ViewCases ==
    ASSUME NEW c \in Calc, job[c].status \in JobStatus, result[c] \in ResultStatus
    PROVE  /\ result[c] # "none" => View(c) = result[c]
           /\ result[c] = "none" /\ job[c].status = "absent" => View(c) = "unknown"
           /\ result[c] = "none" /\ job[c].status \in Active \cup {"pending"} => View(c) = "accepted"
           /\ result[c] = "none" /\ job[c].status \in {"complete", "failed"} => View(c) = job[c].status
BY DEF View, Active, JobStatus

LEMMA ViewCasesNext ==
    ASSUME NEW c \in Calc, job'[c].status \in JobStatus, result'[c] \in ResultStatus
    PROVE  /\ result'[c] # "none" => View(c)' = result'[c]
           /\ result'[c] = "none" /\ job'[c].status = "absent" => View(c)' = "unknown"
           /\ result'[c] = "none" /\ job'[c].status \in Active \cup {"pending"} => View(c)' = "accepted"
           /\ result'[c] = "none" /\ job'[c].status \in {"complete", "failed"} => View(c)' = job'[c].status
BY DEF View, Active, JobStatus

\* The view of a calculation whose two records stay.
LEMMA SameView ==
    ASSUME TypeInv, TypeInv', NEW c \in Calc,
           result'[c] = result[c], job'[c].status = job[c].status
    PROVE  View(c)' = View(c)
<1>1. /\ job[c].status \in JobStatus /\ result[c] \in ResultStatus
      /\ job'[c].status \in JobStatus /\ result'[c] \in ResultStatus
  BY DEF TypeInv, TypeOK, JobRow
<1>2. QED
  BY <1>1, ViewCases, ViewCasesNext DEF JobStatus, Active

\* The answer stays, or an accepted calculation fails.
Answers(c) == View(c)' = View(c) \/ (View(c) = "accepted" /\ View(c)' = "failed")

\* A step in which every answer stays or fails is a step of the contract.
LEMMA FailRefined ==
    ASSUME \A c \in Calc : Answers(c)
    PROVE  Contract!Next
<1> DEFINE S == {c \in Calc : View(c) = "accepted" /\ View(c)' = "failed"}
<1>1. \A c \in S : [d \in Calc |-> View(d)][c] = "accepted"
  OBVIOUS
<1>2. [c \in Calc |-> View(c)]'
        = [c \in Calc |-> IF c \in S THEN "failed" ELSE [d \in Calc |-> View(d)][c]]
  BY DEF Answers
<1>3. Contract!Fail(S)
  BY <1>1, <1>2 DEF Contract!Fail
<1>4. QED
  BY <1>3 DEF Contract!Next

\* A job whose stores say the same, or whose job fails or waits again, has
\* an answer that stays or fails.
LEMMA JobAnswers ==
    ASSUME TypeInv, TypeInv', AnswerInv, NEW c \in Calc, result'[c] = result[c],
           \/ job'[c].status = job[c].status
           \/ result[c] = "complete"
           \/ /\ job[c].status \in Active \cup {"pending"}
              /\ job'[c].status \in Active \cup {"pending", "failed"}
    PROVE  Answers(c)
<1>1. /\ job[c].status \in JobStatus /\ result[c] \in ResultStatus
      /\ job'[c].status \in JobStatus /\ result'[c] \in ResultStatus
  BY DEF TypeInv, TypeOK, JobRow
<1>2. result[c] = "failed" => job[c].status = "failed"
  BY DEF AnswerInv, StoresAgree
<1>3. CASE result[c] # "none"
  BY <1>1, <1>3, ViewCases, ViewCasesNext DEF Answers
<1>4. CASE result[c] = "none" /\ job'[c].status = job[c].status
  BY <1>1, <1>4, ViewCases, ViewCasesNext DEF Answers, JobStatus, Active
<1>5. CASE /\ result[c] = "none"
           /\ job[c].status \in Active \cup {"pending"}
           /\ job'[c].status \in Active \cup {"pending", "failed"}
  BY <1>1, <1>5, ViewCases, ViewCasesNext DEF Answers
<1>6. QED
  BY <1>3, <1>4, <1>5

\* The API, the clock and the lineage worker: a submission is accepted, a
\* cancellation fails what is still waiting.
LEMMA EnvironmentRefined ==
    ASSUME TypeInv, TypeInv', AnswerInv, Environment
    PROVE  Contract!Next
<1>1. UNCHANGED result
  BY DEF Environment, Submit, CancelExecution, LeaseExpires, LineageCompletes,
       LineageFails, CancelPending, ApiStops
<1>2. ASSUME NEW d \in Calc, Submit(d) PROVE Contract!Next
  <2>1. \A c \in Calc : c # d => job'[c] = job[c]
    BY <1>2 DEF Submit, TypeInv, TypeOK
  <2>2. job[d].status = "absent" /\ job'[d].status = "pending"
    BY <1>2, RowStatuses DEF Submit, TypeInv, TypeOK, Registered, AbsentRow
  <2>3. \A c \in Calc : c # d => View(c)' = View(c)
    BY <1>1, <2>1, SameView
  <2>4. CASE result[d] = "none"
    <3>1. View(d) = "unknown" /\ View(d)' = "accepted"
      BY <1>1, <2>2, <2>4 DEF View
    <3>2. Contract!Accept(d)
      BY <2>3, <3>1 DEF Contract!Accept
    <3>3. QED
      BY <3>2 DEF Contract!Next
  <2>5. CASE result[d] # "none"
    <3>1. View(d)' = View(d)
      BY <1>1, <2>5 DEF View
    <3>2. QED
      BY <2>3, <3>1, FailRefined DEF Answers
  <2>6. QED
    BY <2>4, <2>5
<1>3. ASSUME NEW d \in Calc, LeaseExpires(d) PROVE Contract!Next
  <2>1. \A c \in Calc : job'[c].status = job[c].status
    BY <1>3 DEF LeaseExpires, TypeInv, TypeOK, JobRow
  <2>2. QED
    BY <1>1, <2>1, JobAnswers, FailRefined
<1>4. ASSUME NEW S \in SUBSET CorrectionCalc, CancelPending(S) PROVE Contract!Next
  <2>1. ASSUME NEW c \in Calc
        PROVE  \/ job'[c].status = job[c].status
               \/ job[c].status = "pending" /\ job'[c].status = "failed"
    <3>1. \/ job'[c] = job[c]
          \/ job'[c] = Cancelled(job[c]) /\ job[c].status = "pending"
      BY <1>4 DEF CancelPending
    <3>2. Cancelled(job[c]).status = "failed"
      BY RowStatuses DEF TypeInv, TypeOK
    <3>3. QED
      BY <3>1, <3>2
  <2>2. QED
    BY <1>1, <2>1, JobAnswers, FailRefined
<1>5. CASE UNCHANGED job
  BY <1>1, <1>5, JobAnswers, FailRefined
<1>6. QED
  BY <1>2, <1>3, <1>4, <1>5
  DEF Environment, CancelExecution, LineageCompletes, LineageFails, ApiStops

\* Reconciliation and leasing fail some of the accepted jobs.
LEMMA LockedRefined ==
    ASSUME TypeInv, TypeInv', AnswerInv, NEW w \in Worker, Reconcile(w) \/ Lease(w)
    PROVE  Contract!Next
<1>1. UNCHANGED result
  BY DEF Reconcile, Lease
<1>2. ASSUME NEW c \in Calc
      PROVE  \/ job'[c] = job[c]
             \/ /\ job[c].status \in Active \cup {"pending"}
                /\ job'[c].status \in Active \cup {"pending", "failed"}
  <2>1. job[c] \in JobRow
    BY DEF TypeInv, TypeOK
  <2>2. CASE Reconcile(w)
    <3>1. job'[c] = job[c] \/ (IsStale(job[c]) /\ job'[c] = Reconciled(job[c]))
      BY <2>2 DEF Reconcile
    <3>2. Reconciled(job[c]).status \in {"pending", "failed"}
      BY <2>1, RowStatuses
    <3>3. QED
      BY <3>1, <3>2 DEF IsStale, Active
  <2>3. CASE Lease(w)
    <3>1. \/ job'[c] = job[c]
          \/ IsLeasable(job[c]) /\ job'[c] \in {Rejected(job[c]), Leased(job[c], w)}
      BY <2>3 DEF Lease
    <3>2. Rejected(job[c]).status = "failed" /\ Leased(job[c], w).status = "leased"
      BY <2>1, RowStatuses
    <3>3. QED
      BY <3>1, <3>2 DEF IsLeasable, Active
  <2>4. QED
    BY <2>2, <2>3
<1>3. QED
  BY <1>1, <1>2, JobAnswers, FailRefined

\* A flush fails an active job, requeues it or keeps it active; it completes
\* a job only whose success is stored.
LEMMA FlushRefined ==
    ASSUME TypeInv, TypeInv', ResultFirst, OwnerInv, BudgetInv, AnswerInv,
           NEW w \in Worker, Flush(w)
    PROVE  Contract!Next
<1>1. /\ pc[w] = "flush" /\ cur[w] \in Calc /\ txn[w] \in Txn
      /\ JobKept(w) /\ SlotOK(w)
  BY WorkerTypes DEF Flush, AnswerInv, BudgetInv
<1>2. /\ UNCHANGED result
      /\ \A c \in Calc : c # cur[w] => job'[c] = job[c]
      /\ job'[cur[w]].status = IF txn[w].intended.status # txn[w].loaded.status
                               THEN txn[w].intended.status ELSE job[cur[w]].status
  BY <1>1 DEF Flush, FlushRow, TypeInv, TypeOK
<1>3. CASE txn[w].intended.status = "complete"
  <2>1. result[cur[w]] = "complete"
    <3>1. CASE txn[w].then = "handle"
      BY <1>1, <3>1 DEF JobKept, Recovers
    <3>2. CASE txn[w].then # "handle"
      <4>1. result[cur[w]] # "none" /\ job[cur[w]].status \in Active
        BY <1>1, <1>3, <3>2 DEF ResultFirst, JobKept
      <4>2. QED
        BY <1>1, <4>1 DEF AnswerInv, StoresAgree, Active, TypeInv, TypeOK, ResultStatus
    <3>3. QED
      BY <3>1, <3>2
  <2>2. QED
    BY <1>2, <2>1, JobAnswers, FailRefined
<1>4. CASE txn[w].intended.status # "complete"
  <2>1. txn[w].then # "handle"
    BY <1>1, <1>4 DEF OwnerInv, SlotsKnown, Checked, Recovering
  <2>2. job[cur[w]].status \in Active /\ job[cur[w]].status = txn[w].loaded.status
    BY <1>1, <2>1 DEF JobKept
  <2>3. txn[w].intended.status \in Active \cup {"pending", "failed"}
    BY <1>1, <1>4 DEF SlotOK, Txn, JobRow, JobStatus, Active
  <2>4. job'[cur[w]].status = txn[w].intended.status
    BY <1>2, <2>2
  <2>5. QED
    BY <1>1, <1>2, <2>2, <2>3, <2>4, JobAnswers, FailRefined
<1>5. QED
  BY <1>3, <1>4

\* A publication answers a job that is still accepted; it repeats the answer
\* of one that was published before.
LEMMA PublicationRefined ==
    ASSUME TypeInv, TypeInv', AnswerInv, NEW w \in Worker,
           RecordSuccess(w) \/ RecordCompositeSuccess(w)
    PROVE  Contract!Next
<1>1. pc[w] = "publish" /\ UNCHANGED job
  BY DEF RecordSuccess, RecordCompositeSuccess
<1>2. cur[w] \in Calc /\ job[cur[w]].status \in Active
  BY <1>1, WorkerTypes DEF AnswerInv, JobKept, Working
<1>3. /\ result'[cur[w]] = "complete"
      /\ \A c \in Calc : c # cur[w] => result'[c] = result[c]
  BY <1>2 DEF RecordSuccess, RecordCompositeSuccess, TypeInv, TypeOK
<1>4. result[cur[w]] \in {"none", "complete"}
  BY <1>2 DEF AnswerInv, StoresAgree, Active, TypeInv, TypeOK, ResultStatus
<1>5. \A c \in Calc : c # cur[w] => View(c)' = View(c)
  BY <1>1, <1>3, SameView
<1>6. CASE result[cur[w]] = "none"
  <2>1. View(cur[w]) = "accepted"
    BY <1>2, <1>6 DEF View, Active
  <2>2. PICK c \in Calc : c = cur[w]
    BY <1>2
  <2>3. View(c)' = "complete"
    BY <1>3, <2>2 DEF View
  <2>4. Contract!Deliver(c)
    BY <1>5, <2>1, <2>2, <2>3 DEF Contract!Deliver
  <2>5. QED
    BY <2>4 DEF Contract!Next
<1>7. CASE result[cur[w]] = "complete"
  <2>1. \A c \in Calc : result'[c] = result[c]
    BY <1>3, <1>7
  <2>2. QED
    BY <1>1, <2>1, JobAnswers, FailRefined
<1>8. QED
  BY <1>4, <1>6, <1>7

\* A failure is merged for a job that has failed and has no result.
LEMMA FailureRefined ==
    ASSUME TypeInv, TypeInv', AnswerInv, NEW w \in Worker, MergeFailure(w)
    PROVE  Contract!Next
<1>1. cur[w] \in Calc /\ job[cur[w]].status = "failed" /\ UNCHANGED job
  BY WorkerTypes DEF MergeFailure, AnswerInv, JobKept
<1>2. /\ result[cur[w]] = "none" /\ result'[cur[w]] = "failed"
      /\ \A c \in Calc : c # cur[w] => result'[c] = result[c]
  BY <1>1 DEF MergeFailure, AnswerInv, JobKept, TypeInv, TypeOK
<1>3. ASSUME NEW c \in Calc PROVE View(c)' = View(c)
  <2>1. CASE result'[c] = result[c]
    BY <1>1, <2>1, SameView
  <2>2. CASE result'[c] # result[c]
    <3>1. result[c] = "none" /\ result'[c] = "failed" /\ job[c].status = "failed"
      BY <1>1, <1>2, <2>2
    <3>2. View(c) = "failed" /\ View(c)' = "failed"
      BY <3>1, ViewCases, ViewCasesNext DEF View, ResultStatus, JobStatus
    <3>3. QED
      BY <3>2
  <2>3. QED
    BY <2>1, <2>2
<1>4. QED
  BY <1>3, FailRefined DEF Answers

\* One executor, one API and the lineage worker implement the contract of
\* the async API: a calculation is accepted, then answered once, and the
\* answer stays, through every crash, lapsed lease, retry, recovery and
\* cancellation.
THEOREM ContractIsKept ==
    ASSUME NEW w, Worker = {w}
    PROVE  Spec => AnsweredOnce
<1>1. Init => Contract!Init
  BY DEF Init, Contract!Init, View, AbsentRow
<1>2. /\ TypeInv /\ TypeInv' /\ ResultFirst /\ OwnerInv /\ BudgetInv /\ AnswerInv
      /\ [Next]_vars
      => [Contract!Next]_([c \in Calc |-> View(c)])
  <2> SUFFICES ASSUME TypeInv, TypeInv', ResultFirst, OwnerInv, BudgetInv, AnswerInv, [Next]_vars
               PROVE  Contract!Next
    OBVIOUS
  <2>1. CASE UNCHANGED <<job, result>>
    BY <2>1, JobAnswers, FailRefined
  <2>2. CASE Environment
    BY <2>2, EnvironmentRefined
  <2>3. CASE Reconcile(w) \/ Lease(w) \/ Flush(w)
    BY <2>3, LockedRefined, FlushRefined
  <2>4. CASE RecordSuccess(w) \/ RecordCompositeSuccess(w) \/ MergeFailure(w)
    BY <2>4, PublicationRefined, FailureRefined
  <2>5. CASE UNCHANGED vars \/ Crash(w)
    BY <2>1, <2>5 DEF vars, durable, Crash
  <2>6. CASE /\ Step(w) /\ ~(Reconcile(w) \/ Lease(w) \/ Flush(w))
             /\ ~(RecordSuccess(w) \/ RecordCompositeSuccess(w) \/ MergeFailure(w))
    <3>1. UNCHANGED <<job, result>>
      BY <2>6 DEF Step, durable, HandleReconciled, HandledAll, RecoverFromResult,
         Acquire, SkipAcquisition, NextPoll, ExecuteSucceeds, ExecuteFails, RenewLease,
         InlineLineage, CheckOwner, CaptureComposite, PublicationFails, MarkComplete,
         MarkFailure, RecordFailure, FailExecution
    <3>2. QED
      BY <2>1, <3>1
  <2>7. QED
    BY <2>2, <2>3, <2>4, <2>5, <2>6 DEF Next
<1>3. QED
  BY <1>1, <1>2, TypeInvariance, ResultFirstInvariance, OwnerInvariance, BudgetInvariance,
     AnswerInvariance, PTL DEF Spec, AnsweredOnce, Contract!Spec

=============================================================================
