---------------------------- MODULE ExecutorLeases ----------------------------
(***************************************************************************)
(* ComputeExecutor with a history of the leases that were outlived, and    *)
(* what the executors promise of a job whose lease was not.                *)
(*                                                                         *)
(* The lease is the only thing that keeps two executors apart: the result  *)
(* store compares no owner, and record_failure checks for a success in one *)
(* statement and writes in a later one.  So the promises about results     *)
(* hold of a job as long as no worker had it in hand when its lease ran    *)
(* out, whatever crashes, recoveries, requeues and cancellations happen.   *)
(***************************************************************************)
EXTENDS ComputeExecutor

VARIABLE outlived   \* jobs whose lease ran out under a worker still at work

AtWork(c) == \E w \in Worker : c \in batch[w] \/ cur[w] = c

RunsOut(c) == job[c].lease = "live" /\ job'[c].lease = "expired"

LeaseInit == Init /\ outlived = {}

LeaseNext ==
    /\ Next
    /\ outlived' = outlived \cup {c \in Calc : AtWork(c) /\ RunsOut(c)}

leaseVars == <<vars, outlived>>

LeaseSpec == LeaseInit /\ [][LeaseNext]_leaseVars

-----------------------------------------------------------------------------
(* Properties.                                                             *)

\* A stored success is never taken back (record_failure keeps it), whatever
\* the number of workers: after a crash, a requeue or a recovery the next
\* holder of the job finds no earlier one between its check and its merge.
\* An outlived lease can lose the success: the late failure was checked
\* before the success of the next holder and is merged after it.
SuccessResultPreserved ==
    [][\A c \in Calc \ outlived : result[c] = "complete" => result'[c] = "complete"]_vars

\* A job is complete only once it has a result (_publish_compute_job_success
\* writes the result first, recovery reads it first), and the result is its
\* success unless its lease was outlived.
CompletedJobHasResult ==
    \A c \in Calc :
        job[c].status = "complete"
            => result[c] = "complete" \/ (result[c] = "failed" /\ c \in outlived)

=============================================================================
