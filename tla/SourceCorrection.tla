--------------------------- MODULE SourceCorrection ---------------------------
(***************************************************************************)
(* Source corrections (app/services/source_correction_service and its      *)
(* store): an authorized notice that source data was restated schedules a  *)
(* recalculation of every retained calculation it affects, under a new     *)
(* calculation id.  The rows of analytics_source_correction are read,      *)
(* acted upon and overwritten by separate transactions of concurrent API   *)
(* requests, while the compute executor runs the scheduled jobs.           *)
(*                                                                         *)
(* One tenant and one source scope are modelled.  A calculation is the     *)
(* sequence of its retained original and the corrections it was            *)
(* recalculated for, which is what the uuid5 of its identity encodes; its  *)
(* window is its original's.  The analytics type, the input mode and the   *)
(* FX or benchmark match of _is_impacted are left to the choice of         *)
(* Originals: the retained calculations that match in all but the window.  *)
(***************************************************************************)
EXTENDS Integers, Sequences, FiniteSets

CONSTANTS
    Client,         \* concurrent API requests
    Correction,     \* correction ids
    Request,        \* the correction requests that are ever sent
    Original,       \* retained completed calculations
    Window,         \* the first and last day an original covers
    MaxGeneration,  \* bound on recalculations of recalculations that complete
    MaxRunning,     \* the jobs that the executors run at a time
    MaxCalls,       \* bound on API requests
    MaxFaults       \* bound on crashed requests and on jobs that fail or are
                    \* retried

Day == Int

ASSUME CorrectionAssumption ==
    /\ \A r \in Request :
          /\ r.id \in Correction
          /\ r.observed \in Nat /\ r.from \in Day /\ r.to \in Day
          /\ DOMAIN r = {"id", "observed", "revision", "supersedes", "from", "to"}
    /\ \A o \in Original : Window[o].from \in Day /\ Window[o].to \in Day
    /\ MaxGeneration \in Nat /\ MaxRunning \in Nat /\ MaxCalls \in Nat /\ MaxFaults \in Nat

VARIABLES
    upstream,   \* source revisions that Core has made effective
    rows,       \* analytics_source_correction, by correction id
    execution,  \* status of analytics_execution, by calculation
    stage,      \* its submission stage
    job,        \* status of analytics_compute_job, by calculation
    saw,        \* the revisions a job found upstream when it last started
    due,        \* per correction, the affected calculations when it was admitted
    pc,         \* control state of each API request
    local,      \* its local variables
    calls, faults

stores == <<rows, execution, stage, job, saw, due>>
bounds == <<calls, faults>>
vars == <<upstream, rows, execution, stage, job, saw, due, pc, local, calls, faults>>

Calculation ==
    {<<o>> \o s : o \in Original,
                  s \in UNION {[1..n -> Correction] : n \in 0..(MaxGeneration + 1)}}

\* replacement_id: deterministic in the correction and the calculation.
Replacement(c, q) == Append(q, c)
Replaced(q) == SubSeq(q, 1, Len(q) - 1)

RowState == {"recalculation_pending", "no_effect", "complete", "partial_failure",
             "superseded", "cancelled"}
Terminal == RowState \ {"recalculation_pending"}
ImpactState == {"pending", "running", "complete", "failed"}

NoRow == [state |-> "none"]
NoImpacts == [q \in {} |-> "pending"]

\* A row: the request, its order of creation, the window it was coalesced to,
\* its state and the state of each recalculation it lists.
Row(r, n, from, to, state, impacts) ==
    [req |-> r, created |-> n, from |-> from, to |-> to, state |-> state, impacts |-> impacts]

IsImpacts(f) == DOMAIN f \subseteq Calculation /\ \A q \in DOMAIN f : f[q] \in ImpactState

IsRow(x) ==
    /\ x.req \in Request /\ x.created \in Nat /\ x.from \in Day /\ x.to \in Day
    /\ x.state \in RowState /\ IsImpacts(x.impacts)

NoLocal == [req |-> "none"]

Control == {"idle", "coalesce", "register", "check_newer", "supersede", "list",
            "next", "start_stage", "register_job", "complete_stage",
            "get", "reconcile", "write", "cancel_jobs", "cancel_execution", "cancel_publish"}

\* Every record is well formed; a row is kept under its own correction id.
TypeOK ==
    /\ \A c \in Correction : rows[c] # NoRow => IsRow(rows[c]) /\ rows[c].req.id = c
    /\ execution \in [Calculation -> {"none", "pending", "complete", "failed"}]
    /\ stage \in [Calculation -> {"none", "in_progress", "complete"}]
    /\ job \in [Calculation -> {"none", "pending", "running", "complete", "failed", "cancelled"}]
    /\ pc \in [Client -> Control]
    /\ calls \in 0..MaxCalls /\ faults \in 0..MaxFaults

Init ==
    /\ upstream = {}
    /\ rows = [c \in Correction |-> NoRow]
    /\ execution = [q \in Calculation |-> IF Len(q) = 1 THEN "complete" ELSE "none"]
    /\ stage = [q \in Calculation |-> IF Len(q) = 1 THEN "complete" ELSE "none"]
    /\ job = [q \in Calculation |-> IF Len(q) = 1 THEN "complete" ELSE "none"]
    /\ saw = [q \in Calculation |-> {}]
    /\ due = [c \in Correction |-> {}]
    /\ pc = [k \in Client |-> "idle"]
    /\ local = [k \in Client |-> NoLocal]
    /\ calls = 0 /\ faults = 0

Goto(k, l) == pc' = [pc EXCEPT ![k] = l]

\* The request is answered, or refused, and its local variables are gone.
Answer(k) == Goto(k, "idle") /\ local' = [local EXCEPT ![k] = NoLocal]

Fault == faults < MaxFaults /\ faults' = faults + 1

Registered == {c \in Correction : rows[c] # NoRow}

\* The order of latest_for_scope and of _latest_scope_statement.
Newer(x, y) ==
    \/ x.req.observed > y.req.observed
    \/ x.req.observed = y.req.observed /\ x.created > y.created

LatestForScope ==
    {rows[c] : c \in {d \in Registered : \A e \in Registered \ {d} : Newer(rows[d], rows[e])}}

Overlap(from, to, w) == from <= w.to /\ w.from <= to

\* _is_impacted and list_completed_executions_for_tenant_target.
Impacted(r) ==
    {q \in Calculation : execution[q] = "complete" /\ Overlap(r.from, r.to, Window[q[1]])}

-----------------------------------------------------------------------------
(* submit_source_correction.                                               *)

\* Core makes a revision effective before it sends the notice of it.
Submit(k, r) ==
    /\ pc[k] = "idle" /\ calls < MaxCalls
    /\ calls' = calls + 1
    /\ upstream' = upstream \cup {r.revision}
    /\ Goto(k, "coalesce")
    /\ local' = [local EXCEPT ![k] = [req |-> r, latest |-> LatestForScope]]
    /\ UNCHANGED <<stores, faults>>

\* Mutant: work that a worker has started is coalesced too.
AllImpactsQueued(impacts) == \A q \in DOMAIN impacts : job[q] \in {"pending", "running"}

AllImpactsPending(impacts) == \A q \in DOMAIN impacts : job[q] = "pending"

\* _coalescing_context: the impacts and the window taken over from the latest
\* correction of the scope as it was read.
Coalesced(r, latest) ==
    LET own == [impacts |-> NoImpacts, from |-> r.from, to |-> r.to]
        Min(a, b) == IF a < b THEN a ELSE b
        Max(a, b) == IF a < b THEN b ELSE a
    IN  IF latest = {} THEN own
        ELSE LET x == CHOOSE y \in latest : TRUE
             IN  IF x.req.id = r.id
                 THEN [impacts |-> NoImpacts, from |-> x.from, to |-> x.to]
                 ELSE IF /\ x.state = "recalculation_pending"
                         /\ Overlap(x.from, x.to, [from |-> r.from, to |-> r.to])
                         /\ AllImpactsPending(x.impacts)
                      THEN [impacts |-> x.impacts, from |-> Min(x.from, r.from), to |-> Max(x.to, r.to)]
                      ELSE own

Coalesce(k) ==
    /\ pc[k] = "coalesce"
    /\ local' = [local EXCEPT ![k] =
          [req |-> local[k].req, inherited |-> Coalesced(local[k].req, local[k].latest)]]
    /\ Goto(k, "register")
    /\ UNCHANGED <<upstream, stores, bounds>>

\* Mutant: an event with the observation time of the latest one is not checked.
BreaksRevisionChainLater(r) ==
    \E x \in LatestForScope : r.observed > x.req.observed /\ r.supersedes # x.req.revision

BreaksRevisionChain(r) ==
    \E x \in LatestForScope : r.observed >= x.req.observed /\ r.supersedes # x.req.revision

\* register, serialized by the advisory lock of the scope: a replay, a refusal
\* or a new row without impacts.  A replay of a settled row is answered.
Register(k) ==
    LET r == local[k].req
        from == local[k].inherited.from
        to == local[k].inherited.to
        Continue(x) == /\ Goto(k, "check_newer")
                       /\ local' = [local EXCEPT ![k] =
                             [req |-> r, impacts |-> local[k].inherited.impacts, record |-> x]]
    IN  /\ pc[k] = "register"
        /\ \/ /\ rows[r.id] # NoRow
              /\ \/ /\ rows[r.id].req # r \/ rows[r.id].state \in Terminal
                    /\ Answer(k)
                 \/ /\ rows[r.id].req = r /\ rows[r.id].state \notin Terminal
                    /\ Continue(rows[r.id])
              /\ UNCHANGED <<rows, due>>
           \/ /\ rows[r.id] = NoRow /\ BreaksRevisionChain(r)
              /\ Answer(k)
              /\ UNCHANGED <<rows, due>>
           \/ /\ rows[r.id] = NoRow /\ ~BreaksRevisionChain(r)
              /\ LET x == Row(r, Cardinality(Registered), from, to, "recalculation_pending", NoImpacts)
                 IN  rows' = [rows EXCEPT ![r.id] = x] /\ Continue(x)
              /\ due' = [due EXCEPT ![r.id] = Impacted(r)]
        /\ UNCHANGED <<upstream, execution, stage, job, saw, bounds>>

\* has_newer_scope_event; a row that lists its impacts is only reported.
CheckNewer(k) ==
    LET r == local[k].req
    IN  /\ pc[k] = "check_newer"
        /\ \/ /\ local[k].record.impacts # NoImpacts
              /\ Goto(k, "get")
           \/ /\ local[k].record.impacts = NoImpacts
              /\ \E c \in Registered : rows[c].req.observed > r.observed
              /\ Goto(k, "supersede")
           \/ /\ local[k].record.impacts = NoImpacts
              /\ ~\E c \in Registered : rows[c].req.observed > r.observed
              /\ Goto(k, "list")
        /\ local' = [local EXCEPT ![k] = [req |-> r, impacts |-> local[k].impacts]]
        /\ UNCHANGED <<upstream, stores, bounds>>

\* store.update: overwrites the state and the impacts of a row.
Update(c, state, impacts) ==
    rows' = [rows EXCEPT ![c] =
        Row(rows[c].req, rows[c].created, rows[c].from, rows[c].to, state, impacts)]

Supersede(k) ==
    /\ pc[k] = "supersede"
    /\ Update(local[k].req.id, "superseded", NoImpacts)
    /\ Answer(k)
    /\ UNCHANGED <<upstream, execution, stage, job, saw, due, bounds>>

-----------------------------------------------------------------------------
(* _schedule_impacted_calculations.                                        *)

\* Mutant: a correction that took over pending work looks for no other.
CandidatesUnlessCoalesced(r, impacts) == IF impacts = NoImpacts THEN Impacted(r) ELSE {}

Candidates(r, impacts) == Impacted(r) \ {Replaced(q) : q \in DOMAIN impacts}

\* The local variables of the loop over the candidates.
Scheduling(r, impacts, todo, created) ==
    [req |-> r, impacts |-> impacts, todo |-> todo, created |-> created]

List(k) ==
    /\ pc[k] = "list"
    /\ local' = [local EXCEPT ![k] =
          Scheduling(local[k].req, local[k].impacts, Candidates(local[k].req, local[k].impacts), FALSE)]
    /\ Goto(k, "next")
    /\ UNCHANGED <<upstream, stores, bounds>>

Current(k) == CHOOSE q \in local[k].todo : TRUE

Extended(impacts, q) == [x \in DOMAIN impacts \cup {q} |-> IF x = q THEN "pending" ELSE impacts[x]]

\* register_execution of the next replacement, CREATED or REPLAY (the same
\* correction and original always register the same payload); after the last one
\* the row is overwritten with the whole list.
ScheduleNext(k) ==
    /\ pc[k] = "next"
    /\ \/ /\ local[k].todo # {}
          /\ LET q == Replacement(local[k].req.id, Current(k))
             IN  \/ /\ execution[q] = "none"
                    /\ execution' = [execution EXCEPT ![q] = "pending"]
                    /\ Goto(k, "start_stage")
                    /\ local' = [local EXCEPT ![k] =
                          Scheduling(local[k].req, local[k].impacts, local[k].todo, TRUE)]
                 \/ /\ execution[q] # "none"
                    /\ Goto(k, "register_job")
                    /\ local' = [local EXCEPT ![k] =
                          Scheduling(local[k].req, local[k].impacts, local[k].todo, FALSE)]
                    /\ UNCHANGED execution
          /\ UNCHANGED rows
       \/ /\ local[k].todo = {}
          /\ Update(local[k].req.id,
                    IF local[k].impacts = NoImpacts THEN "no_effect" ELSE "recalculation_pending",
                    local[k].impacts)
          /\ Goto(k, "get")
          /\ local' = [local EXCEPT ![k] = [req |-> local[k].req]]
          /\ UNCHANGED execution
    /\ UNCHANGED <<upstream, stage, job, saw, due, bounds>>

\* start_stage of the submission, by the request that created the execution.
StartStage(k) ==
    /\ pc[k] = "start_stage"
    /\ stage' = [stage EXCEPT ![Replacement(local[k].req.id, Current(k))] = "in_progress"]
    /\ Goto(k, "register_job")
    /\ UNCHANGED <<upstream, rows, execution, job, saw, due, local, bounds>>

\* The impact of the current candidate is noted and the next one is taken.
Scheduled(k) ==
    /\ local' = [local EXCEPT ![k] = Scheduling(local[k].req,
          Extended(local[k].impacts, Replacement(local[k].req.id, Current(k))),
          local[k].todo \ {Current(k)}, FALSE)]
    /\ Goto(k, "next")

\* Mutant: a job that has already ended is queued again.
RegisterJobAgain(k) ==
    LET q == Replacement(local[k].req.id, Current(k))
    IN  /\ pc[k] = "register_job"
        /\ job' = [job EXCEPT ![q] = IF job[q] \in {"none", "cancelled", "failed"} THEN "pending" ELSE job[q]]
        /\ IF local[k].created THEN Goto(k, "complete_stage") /\ UNCHANGED local ELSE Scheduled(k)
        /\ UNCHANGED <<upstream, rows, execution, stage, saw, due, bounds>>

\* Mutant: the submission stage is completed before the job is registered.
RegisterJobLater(k) ==
    /\ pc[k] = "register_job"
    /\ IF local[k].created THEN Goto(k, "complete_stage") /\ UNCHANGED local ELSE Scheduled(k)
    /\ UNCHANGED <<upstream, rows, execution, stage, job, saw, due, bounds>>

\* register_job, CREATED or REPLAY: a job that exists is left as it is.
RegisterJob(k) ==
    LET q == Replacement(local[k].req.id, Current(k))
    IN  /\ pc[k] = "register_job"
        /\ job' = [job EXCEPT ![q] = IF job[q] = "none" THEN "pending" ELSE job[q]]
        /\ IF local[k].created THEN Goto(k, "complete_stage") /\ UNCHANGED local ELSE Scheduled(k)
        /\ UNCHANGED <<upstream, rows, execution, stage, saw, due, bounds>>

CompleteStage(k) ==
    /\ pc[k] = "complete_stage"
    /\ stage' = [stage EXCEPT ![Replacement(local[k].req.id, Current(k))] = "complete"]
    /\ Scheduled(k)
    /\ UNCHANGED <<upstream, rows, execution, job, saw, due, bounds>>

-----------------------------------------------------------------------------
(* get_source_correction and _reconcile_record.                            *)

\* The row as it is read; one without impacts, superseded or cancelled is
\* reported as it is.
ReadsForReconciliation(k, x) ==
    /\ x.impacts # NoImpacts /\ x.state \notin {"superseded", "cancelled"}
    /\ Goto(k, "reconcile")
    /\ local' = [local EXCEPT ![k] = [req |-> x.req, record |-> x]]

\* A status request; one that finds nothing to reconcile changes nothing.
Poll(k, c) ==
    /\ pc[k] = "idle" /\ calls < MaxCalls
    /\ rows[c] # NoRow
    /\ ReadsForReconciliation(k, rows[c])
    /\ calls' = calls + 1
    /\ UNCHANGED <<upstream, stores, faults>>

\* The end of a submission.
Get(k) ==
    LET x == rows[local[k].req.id]
    IN  /\ pc[k] = "get"
        /\ \/ ReadsForReconciliation(k, x)
           \/ /\ x.impacts = NoImpacts \/ x.state \in {"superseded", "cancelled"}
              /\ Answer(k)
        /\ UNCHANGED <<upstream, stores, bounds>>

\* Mutant: the job alone decides.
ReconciledByJob(q) ==
    CASE job[q] = "complete" -> "complete"
      [] job[q] \in {"none", "failed", "cancelled"} -> "failed"
      [] job[q] = "running" -> "running"
      [] job[q] = "pending" -> "pending"

\* _reconcile_impact.
ReconciledImpact(q) ==
    CASE job[q] = "none" \/ execution[q] = "none" -> "failed"
      [] job[q] = "complete" /\ execution[q] = "complete" -> "complete"
      [] job[q] \in {"failed", "cancelled"} \/ execution[q] = "failed" -> "failed"
      [] job[q] = "running" /\ execution[q] \notin {"none", "failed"} -> "running"
      [] OTHER -> "pending"

\* Mutant: open work is called by the name that the impacts use.
ReconciledStatePending(impacts) ==
    IF \A q \in DOMAIN impacts : impacts[q] = "complete" THEN "complete"
    ELSE IF \E q \in DOMAIN impacts : impacts[q] = "failed" THEN "partial_failure" ELSE "pending"

ReconciledState(impacts) ==
    LET states == {impacts[q] : q \in DOMAIN impacts}
    IN  IF states = {"complete"} THEN "complete"
        ELSE IF "failed" \in states THEN "partial_failure" ELSE "recalculation_pending"

Reconcile(k) ==
    LET x == local[k].record
        impacts == [q \in DOMAIN x.impacts |-> ReconciledImpact(q)]
    IN  /\ pc[k] = "reconcile"
        /\ \/ /\ ReconciledState(impacts) = x.state /\ impacts = x.impacts
              /\ Answer(k)
           \/ /\ ReconciledState(impacts) # x.state \/ impacts # x.impacts
              /\ Goto(k, "write")
              /\ local' = [local EXCEPT ![k] = [req |-> local[k].req, impacts |-> impacts]]
        /\ UNCHANGED <<upstream, stores, bounds>>

Write(k) ==
    /\ pc[k] = "write"
    /\ Update(local[k].req.id, ReconciledState(local[k].impacts), local[k].impacts)
    /\ Answer(k)
    /\ UNCHANGED <<upstream, execution, stage, job, saw, due, bounds>>

-----------------------------------------------------------------------------
(* cancel_source_correction.                                               *)

\* The local variables of a cancellation: its batch and the executions to go.
Cancelling(r, batch, todo) == [req |-> r, batch |-> batch, todo |-> todo]

\* A correction that is already settled is reported and left as it is.
Cancel(k, c) ==
    /\ pc[k] = "idle" /\ calls < MaxCalls
    /\ rows[c] # NoRow /\ rows[c].state \notin Terminal
    /\ calls' = calls + 1
    /\ Goto(k, "cancel_jobs")
    /\ local' = [local EXCEPT ![k] =
          Cancelling(rows[c].req, DOMAIN rows[c].impacts, DOMAIN rows[c].impacts)]
    /\ UNCHANGED <<upstream, stores, faults>>

\* cancel_pending_jobs: every job of the batch, or none and a conflict.
CancelJobs(k) ==
    LET batch == local[k].batch
    IN  /\ pc[k] = "cancel_jobs"
        /\ \/ /\ \A q \in batch : job[q] = "pending"
              /\ job' = [q \in Calculation |-> IF q \in batch THEN "cancelled" ELSE job[q]]
              /\ Goto(k, "cancel_execution")
              /\ UNCHANGED local
           \/ /\ \E q \in batch : job[q] # "pending"
              /\ Answer(k)
              /\ UNCHANGED job
        /\ UNCHANGED <<upstream, rows, execution, stage, saw, due, bounds>>

\* execution_registry.mark_failed, one execution after the other.
CancelExecution(k) ==
    /\ pc[k] = "cancel_execution"
    /\ \/ /\ local[k].todo # {}
          /\ execution' = [execution EXCEPT ![Current(k)] = "failed"]
          /\ local' = [local EXCEPT ![k] =
                Cancelling(local[k].req, local[k].batch, local[k].todo \ {Current(k)})]
          /\ UNCHANGED pc
       \/ /\ local[k].todo = {}
          /\ Goto(k, "cancel_publish")
          /\ UNCHANGED <<execution, local>>
    /\ UNCHANGED <<upstream, rows, stage, job, saw, due, bounds>>

\* The impacts of a batch are failed; the others are kept.
FailedIn(impacts, batch) ==
    [q \in DOMAIN impacts |-> IF q \in batch THEN "failed" ELSE impacts[q]]

\* Mutant: one cancelled impact cancels the correction.
CancelledRowIfAny(x, batch) ==
    IF DOMAIN x.impacts \cap batch = {} THEN x
    ELSE Row(x.req, x.created, x.from, x.to, "cancelled", FailedIn(x.impacts, batch))

\* cancel_impacts on one row: the shared impacts fail; the correction is
\* cancelled if it lists no other.
CancelledRow(x, batch) ==
    IF DOMAIN x.impacts \cap batch = {} THEN x
    ELSE Row(x.req, x.created, x.from, x.to,
             IF DOMAIN x.impacts \subseteq batch THEN "cancelled" ELSE "partial_failure",
             FailedIn(x.impacts, batch))

CancelPublish(k) ==
    /\ pc[k] = "cancel_publish"
    /\ rows' = [c \in Correction |->
          IF rows[c] = NoRow THEN NoRow ELSE CancelledRow(rows[c], local[k].batch)]
    /\ Answer(k)
    /\ UNCHANGED <<upstream, execution, stage, job, saw, due, bounds>>

\* The process dies or an exception escapes between two writes; before the
\* first of them it leaves nothing behind.
Crash(k) ==
    /\ pc[k] \in {"check_newer", "supersede", "list", "next", "start_stage", "register_job", "complete_stage",
                  "cancel_execution", "cancel_publish"}
    /\ Fault
    /\ Answer(k)
    /\ UNCHANGED <<upstream, stores, calls>>

-----------------------------------------------------------------------------
(* The compute executor, as the corrections see it.                        *)

\* A worker takes a job and resolves its sources from then on.
StartJob(q) ==
    /\ job[q] = "pending" /\ Len(q) <= MaxGeneration + 1
    /\ Cardinality({x \in Calculation : job[x] = "running"}) < MaxRunning
    /\ job' = [job EXCEPT ![q] = "running"]
    /\ saw' = [saw EXCEPT ![q] = upstream]
    /\ UNCHANGED <<upstream, rows, execution, stage, due, pc, local, bounds>>

CompleteJob(q) ==
    /\ job[q] = "running"
    /\ job' = [job EXCEPT ![q] = "complete"]
    /\ UNCHANGED <<upstream, rows, execution, stage, saw, due, pc, local, bounds>>

\* The job fails, or goes back to the queue: after a retryable failure or when
\* its lease expired.
FailJob(q) ==
    /\ job[q] = "running"
    /\ Fault
    /\ \E s \in {"failed", "pending"} : job' = [job EXCEPT ![q] = s]
    /\ UNCHANGED <<upstream, rows, execution, stage, saw, due, pc, local, calls>>

\* The lineage worker completes the execution.
CompleteExecution(q) ==
    /\ execution[q] = "pending" /\ job[q] \in {"running", "complete"}
    /\ execution' = [execution EXCEPT ![q] = "complete"]
    /\ UNCHANGED <<upstream, rows, stage, job, saw, due, pc, local, bounds>>

\* The execution fails with its job, or when its lineage cannot be written.
FailExecution(q) ==
    /\ execution[q] = "pending"
    /\ \/ job[q] = "failed" /\ UNCHANGED faults
       \/ job[q] = "complete" /\ Fault
    /\ execution' = [execution EXCEPT ![q] = "failed"]
    /\ UNCHANGED <<upstream, rows, stage, job, saw, due, pc, local, calls>>

-----------------------------------------------------------------------------

Proceed(k) ==
    \/ Coalesce(k) \/ Register(k) \/ CheckNewer(k) \/ Supersede(k)
    \/ List(k) \/ ScheduleNext(k) \/ StartStage(k) \/ RegisterJob(k) \/ CompleteStage(k)
    \/ Get(k) \/ Reconcile(k) \/ Write(k)
    \/ CancelJobs(k) \/ CancelExecution(k) \/ CancelPublish(k)

Begin(k) ==
    \/ \E r \in Request : Submit(k, r)
    \/ \E c \in Correction : Poll(k, c) \/ Cancel(k, c)

Work(q) ==
    StartJob(q) \/ CompleteJob(q) \/ FailJob(q) \/ CompleteExecution(q) \/ FailExecution(q)

Next ==
    \/ \E k \in Client : Begin(k) \/ Proceed(k) \/ Crash(k)
    \/ \E q \in Calculation : Work(q)

Spec == Init /\ [][Next]_vars

-----------------------------------------------------------------------------
(* Properties.                                                             *)

\* A recalculation that a correction reports complete has read its sources
\* after the correction was effective upstream, also when the work was taken
\* over from an earlier correction, replayed after a crash or retried.
RecalculationSeesCorrection ==
    \A c \in Registered : \A q \in DOMAIN rows[c].impacts :
        rows[c].impacts[q] = "complete" => rows[c].req.revision \in saw[q]

\* Once the impact of a correction is recorded, every calculation that was
\* affected and retained when it was admitted is listed, whichever of the
\* submission and its replays wrote last and whatever they took over.
NoImpactLost ==
    \A c \in Registered :
        \/ rows[c].state = "superseded"
        \/ rows[c].state = "recalculation_pending" /\ rows[c].impacts = NoImpacts
        \/ \A q \in due[c] : execution[q] = "complete" =>
              q \in {Replaced(x) : x \in DOMAIN rows[c].impacts}

\* A correction is complete only when each of its recalculations ended well in
\* both stores; a corrected path is exposed for no other.
CompleteMeansRecalculated ==
    \A c \in Registered : \A q \in DOMAIN rows[c].impacts :
        rows[c].impacts[q] = "complete" => job[q] = "complete" /\ execution[q] = "complete"

\* A correction is cancelled only with its whole batch: none of its jobs was
\* ever taken by a worker or will be.
CancelledMeansWholeBatch ==
    \A c \in Registered :
        rows[c].state = "cancelled" =>
            /\ rows[c].impacts # NoImpacts
            /\ \A q \in DOMAIN rows[c].impacts : job[q] = "cancelled"

\* A cancelled recalculation stays cancelled, also when a replay that read the
\* correction before the cancellation goes on to schedule it.
CancelledStaysCancelled ==
    [][\A q \in Calculation : job[q] = "cancelled" => job'[q] = "cancelled"]_vars

\* A completed submission stage means a queued job, wherever the submission
\* was cut off.
SubmittedMeansQueued == \A q \in Calculation : stage[q] = "complete" => job[q] # "none"

\* Two corrections never both extend the same source revision, unless one of
\* them came late: it was older than a correction already admitted.
SingleSuccessor ==
    \A c, d \in Registered :
        /\ rows[c].created < rows[d].created
        /\ rows[c].req.supersedes = rows[d].req.supersedes
        /\ rows[c].req.revision # rows[c].req.supersedes
        => \E e \in Registered : /\ rows[e].created < rows[d].created
                                 /\ rows[e].req.observed > rows[d].req.observed

=============================================================================
