---------------------------- MODULE LineageQueue ----------------------------
(***************************************************************************)
(* Lineage capture and materialization: the queue of lineage payloads      *)
(* (app/services/lineage_metadata_store), the poller that drains it        *)
(* (app/workers/lineage_worker), the inline materializer the compute       *)
(* executor calls for a workspace summary, the artifact files they write   *)
(* (app/services/lineage_service), and the execution they complete.        *)
(*                                                                         *)
(* A transaction is a step.  An operation that loads a row without a lock  *)
(* is two, the load and the flush, which writes the columns it changed; a  *)
(* record that exists is locked in between.  The lane of retained returns-series sources, whose custody    *)
(* columns guard it differently, is not part of this module.               *)
(***************************************************************************)
EXTENDS Naturals, FiniteSets

CONSTANTS
    Poller,        \* LINEAGE_WORKER_ID of each lineage worker
    Inline,        \* inline materializers, each with a uuid4 as its worker id
    NoOwner,       \* NULL in worker_id
    Calc,          \* calculation ids
    NoCalc,
    SummaryCalc,   \* asynchronous workspace summaries, materialized inline
    SyncCalc,      \* calculations of a request, which its caller may cancel
    CorruptCalc,   \* payloads whose details_json cannot be read back
    MaxAttempts,   \* LINEAGE_WORKER_MAX_ATTEMPTS
    BatchSize,     \* LINEAGE_WORKER_BATCH_SIZE
    MaxCaptures,   \* bound on the captures of an asynchronous calculation
    MaxOverruns,   \* bound on leases that expire under a worker still at work
    MaxFaults      \* bound on crashes and on swallowed errors of the registry

ASSUME LineageAssumption ==
    /\ Poller \cap Inline = {} /\ NoOwner \notin Poller \cup Inline
    /\ NoCalc \notin Calc /\ (Poller \cup Inline) \cap Calc = {}
    /\ SummaryCalc \subseteq Calc /\ SyncCalc \subseteq Calc \ SummaryCalc
    /\ CorruptCalc \subseteq Calc
    /\ MaxAttempts \in Nat \ {0} /\ BatchSize \in Nat \ {0}
    /\ MaxCaptures \in Nat \ {0} /\ MaxOverruns \in Nat /\ MaxFaults \in Nat

VARIABLES
    record,     \* status of lineage_records, "none" without a row
    payload,    \* the row of lineage_payloads, NoPayload without one
    disk,       \* "none", "files" (artifacts only) or "manifest" (all of them)
    exec,       \* status of the execution
    stage,      \* status of its lineage stage
    capture,    \* where complete_execution_with_lineage is
    cancel,     \* where record_execution_cancellation is
    pc, batch, cur,
    seen,       \* rows loaded without a lock, by worker or by capture
    captures, overruns, faults

durable == <<record, payload, disk, exec, stage>>
api == <<capture, cancel, captures>>
local == <<pc, batch, cur>>
vars == <<durable, api, local, seen, overruns, faults>>

Worker == Poller \cup Inline

Payload == [attempts : Nat, owner : Worker \cup {NoOwner}, lease : {"none", "live", "expired"}]
NoPayload == [attempts |-> 0, owner |-> NoOwner, lease |-> "absent"]
FreshPayload == [attempts |-> 0, owner |-> NoOwner, lease |-> "none"]

RecordStatus == {"none", "pending", "complete", "failed"}
Control == {"poll", "next", "write", "manifest", "complete", "finish", "confirm", "delete",
            "flush_delete", "retry", "fail", "fail_exec", "requeue", "flush_requeue"}

NotSeen == [record |-> "none", payload |-> NoPayload]

\* The shape of the rows; a payload has its record, a busy worker its payload.
TypeOK ==
    /\ record \in [Calc -> RecordStatus]
    /\ payload \in [Calc -> Payload \cup {NoPayload}]
    /\ \A c \in Calc : payload[c] # NoPayload => record[c] # "none"
    /\ disk \in [Calc -> {"none", "files", "manifest"}]
    /\ exec \in [Calc -> {"running", "complete", "failed"}]
    /\ stage \in [Calc -> {"none", "in_progress", "complete", "failed"}]
    /\ capture \in [Calc -> {"idle", "start_stage", "enqueue", "flush"}]
    /\ cancel \in [Calc -> {"none", "stages", "lineage", "done"}]
    /\ pc \in [Worker -> Control]
    /\ batch \in [Worker -> SUBSET Calc]
    /\ cur \in [Worker -> Calc \cup {NoCalc}]
    /\ \A w \in Worker : (cur[w] = NoCalc) <=> pc[w] \in {"poll", "next"}
    /\ seen \in [Worker \cup Calc -> [record : RecordStatus, payload : Payload \cup {NoPayload}]]
    /\ captures \in [Calc -> 0..MaxCaptures]
    /\ overruns \in 0..MaxOverruns /\ faults \in 0..MaxFaults

Init ==
    /\ record = [c \in Calc |-> "none"]
    /\ payload = [c \in Calc |-> NoPayload]
    /\ disk = [c \in Calc |-> "none"]
    /\ exec = [c \in Calc |-> "running"]
    /\ stage = [c \in Calc |-> "none"]
    /\ capture = [c \in Calc |-> "idle"]
    /\ cancel = [c \in Calc |-> "none"]
    /\ pc = [w \in Worker |-> "poll"]
    /\ batch = [w \in Worker |-> {}]
    /\ cur = [w \in Worker |-> NoCalc]
    /\ seen = [x \in Worker \cup Calc |-> NotSeen]
    /\ captures = [c \in Calc |-> 0]
    /\ overruns = 0 /\ faults = 0

-----------------------------------------------------------------------------
(* Rows.                                                                   *)

HasPayload(c) == payload[c] # NoPayload

\* _ensure_lineage_payload_active_lease_owner.
OwnsLease(w, c) == payload[c].owner = w /\ payload[c].lease = "live"

\* Mutant: a lease that expired is not taken over.
IsClaimableOnce(c) == record[c] = "pending" /\ payload[c].lease = "none"

\* The rows _postgresql_pending_payload_lease_statement claims.
IsClaimable(c) == record[c] = "pending" /\ payload[c].lease \in {"none", "expired"}

Claimed(row, w) == [attempts |-> row.attempts + 1, owner |-> w, lease |-> "live"]

\* Mutant: a missing payload comes into being.
ReleasedOrCreated(row) == [row EXCEPT !.owner = NoOwner, !.lease = "none"]

\* The lease columns set to NULL, as mark_failed and mark_pending do.
Released(row) ==
    IF row = NoPayload THEN row ELSE [row EXCEPT !.owner = NoOwner, !.lease = "none"]

\* A column reaches the table only if its loaded value was changed.
Written(current, loaded, intended) == IF intended # loaded THEN intended ELSE current

FlushPayload(current, loaded, intended) ==
    [attempts |-> Written(current.attempts, loaded.attempts, intended.attempts),
     owner |-> Written(current.owner, loaded.owner, intended.owner),
     lease |-> Written(current.lease, loaded.lease, intended.lease)]

\* The lock _refuse_generic_source_reset takes on a record that exists.  The
\* lease statements skip a locked record, an UPDATE of it waits; the payload
\* is not locked, and delete_payload touches no record.
RecordLocked(c) ==
    \/ capture[c] = "flush" /\ seen[c].record # "none"
    \/ \E w \in Worker : pc[w] = "flush_requeue" /\ cur[w] = c

-----------------------------------------------------------------------------
(* complete_execution_with_lineage.                                        *)

\* mark_running.  An asynchronous calculation may be computed again.
BeginCapture(c) ==
    /\ captures[c] < IF c \in SyncCalc THEN 1 ELSE MaxCaptures
    /\ cancel[c] = "none"
    /\ captures' = [captures EXCEPT ![c] = @ + 1]
    /\ exec' = [exec EXCEPT ![c] = "running"]
    /\ capture' = [capture EXCEPT ![c] = "start_stage"]
    /\ UNCHANGED <<record, payload, disk, stage, cancel, local, seen, overruns, faults>>

StartStage(c) ==
    /\ capture[c] = "start_stage"
    /\ stage' = [stage EXCEPT ![c] = "in_progress"]
    /\ capture' = [capture EXCEPT ![c] = "enqueue"]
    /\ UNCHANGED <<record, payload, disk, exec, cancel, captures, local, seen, overruns, faults>>

\* enqueue_lineage_payload merges both rows: it loads them ...
LoadCapture(c) ==
    /\ capture[c] = "enqueue" /\ ~RecordLocked(c)
    /\ seen' = [seen EXCEPT ![c] = [record |-> record[c], payload |-> payload[c]]]
    /\ capture' = [capture EXCEPT ![c] = "flush"]
    /\ UNCHANGED <<durable, cancel, captures, local, overruns, faults>>

\* ... and inserts or updates them.
FlushCapture(c) ==
    LET loaded == seen[c]
    IN  /\ capture[c] = "flush"
        /\ loaded.payload # NoPayload => HasPayload(c)
        /\ record' = [record EXCEPT ![c] = Written(@, loaded.record, "pending")]
        /\ payload' = [payload EXCEPT ![c] =
                          IF loaded.payload = NoPayload THEN FreshPayload
                          ELSE FlushPayload(@, loaded.payload, FreshPayload)]
        /\ seen' = [seen EXCEPT ![c] = NotSeen]
        /\ capture' = [capture EXCEPT ![c] = "idle"]
        /\ UNCHANGED <<disk, exec, stage, cancel, captures, local, overruns, faults>>

\* The enqueue raises, for instance because the loaded payload was deleted:
\* fail_stage_and_execution.
CaptureFails(c) ==
    /\ capture[c] = "flush"
    /\ exec' = [exec EXCEPT ![c] = "failed"]
    /\ stage' = [stage EXCEPT ![c] = "failed"]
    /\ seen' = [seen EXCEPT ![c] = NotSeen]
    /\ capture' = [capture EXCEPT ![c] = "idle"]
    /\ UNCHANGED <<record, payload, disk, cancel, captures, local, overruns, faults>>

-----------------------------------------------------------------------------
(* record_execution_cancellation, once the request's own work is drained.  *)

CancelExecution(c) ==
    /\ c \in SyncCalc /\ cancel[c] = "none" /\ capture[c] = "idle"
    /\ exec' = [exec EXCEPT ![c] = "failed"]
    /\ cancel' = [cancel EXCEPT ![c] = "stages"]
    /\ UNCHANGED <<record, payload, disk, stage, capture, captures, local, seen, overruns, faults>>

CancelStages(c) ==
    /\ cancel[c] = "stages"
    /\ stage' = [stage EXCEPT ![c] = IF @ = "in_progress" THEN "failed" ELSE @]
    /\ cancel' = [cancel EXCEPT ![c] = "lineage"]
    /\ UNCHANGED <<record, payload, disk, exec, capture, captures, local, seen, overruns, faults>>

\* mark_failed_if_present.
CancelLineage(c) ==
    /\ cancel[c] = "lineage" /\ ~RecordLocked(c)
    /\ record' = [record EXCEPT ![c] = IF @ = "none" THEN @ ELSE "failed"]
    /\ payload' = [payload EXCEPT ![c] = Released(@)]
    /\ cancel' = [cancel EXCEPT ![c] = "done"]
    /\ UNCHANGED <<disk, exec, stage, capture, captures, local, seen, overruns, faults>>

-----------------------------------------------------------------------------
(* The clock.                                                              *)

\* Some worker still has the payload it leased in hand.
AtWork(c) == \E w \in Worker : payload[c].owner = w /\ (c \in batch[w] \/ cur[w] = c)

Expired(c) == payload' = [payload EXCEPT ![c].lease = "expired"]

\* The lease of a holder that is gone lapses.
LeaseLapses(c) ==
    /\ payload[c].lease = "live" /\ ~AtWork(c)
    /\ Expired(c)
    /\ UNCHANGED <<record, disk, exec, stage, api, local, seen, overruns, faults>>

\* A worker takes longer than its lease.
LeaseOverrun(c) ==
    /\ payload[c].lease = "live" /\ AtWork(c)
    /\ overruns < MaxOverruns
    /\ overruns' = overruns + 1
    /\ Expired(c)
    /\ UNCHANGED <<record, disk, exec, stage, api, local, seen, faults>>

-----------------------------------------------------------------------------
(* Leasing.                                                                *)

Goto(w, l) == pc' = [pc EXCEPT ![w] = l]

Leave(w) == Goto(w, "next") /\ cur' = [cur EXCEPT ![w] = NoCalc]

\* The rows of S are leased, or failed when their details cannot be read.
Claim(w, S) ==
    /\ record' = [c \in Calc |-> IF c \in S \cap CorruptCalc THEN "failed" ELSE record[c]]
    /\ payload' = [c \in Calc |->
                      IF c \in S
                      THEN IF c \in CorruptCalc
                           THEN Released(Claimed(payload[c], w)) ELSE Claimed(payload[c], w)
                      ELSE payload[c]]
    /\ batch' = [batch EXCEPT ![w] = S \ CorruptCalc]
    /\ Goto(w, "next")

\* lease_pending_payloads.
LeasePayloads(w) ==
    LET claimable == {c \in Calc : IsClaimable(c) /\ ~RecordLocked(c)}
    IN  /\ w \in Poller /\ pc[w] = "poll"
        /\ \E S \in SUBSET claimable :
              /\ S # {} /\ Cardinality(S) <= BatchSize
              /\ Claim(w, S)
        /\ UNCHANGED <<disk, exec, stage, api, cur, seen, overruns, faults>>

\* lease_pending_payload, by a process_pending_calculation call.
LeaseInline(w, c) ==
    /\ w \in Inline /\ pc[w] = "poll"
    /\ c \in SummaryCalc /\ IsClaimable(c) /\ ~RecordLocked(c)
    /\ Claim(w, {c})
    /\ UNCHANGED <<disk, exec, stage, api, cur, seen, overruns, faults>>

EndBatch(w) ==
    /\ pc[w] = "next" /\ batch[w] = {}
    /\ Goto(w, "poll")
    /\ UNCHANGED <<durable, api, batch, cur, seen, overruns, faults>>

-----------------------------------------------------------------------------
(* materialize_payload.                                                    *)

\* ensure_active_payload_lease_owner; a stale worker skips the payload.
EnsureOwner(w, c) ==
    /\ pc[w] = "next" /\ c \in batch[w]
    /\ batch' = [batch EXCEPT ![w] = @ \ {c}]
    /\ \/ /\ OwnsLease(w, c)
          /\ cur' = [cur EXCEPT ![w] = c]
          /\ Goto(w, "write")
       \/ /\ ~OwnsLease(w, c)
          /\ UNCHANGED <<cur, pc>>
    /\ UNCHANGED <<durable, api, seen, overruns, faults>>

\* Mutant: the manifest is taken for written with the artifacts.
WriteArtifactsOnly(w) ==
    /\ pc[w] = "write"
    /\ disk' = [disk EXCEPT ![cur[w]] = IF @ = "none" THEN "files" ELSE @]
    /\ Goto(w, "complete")
    /\ UNCHANGED <<record, payload, exec, stage, api, batch, cur, seen, overruns, faults>>

\* _materialize_artifact_files.
WriteArtifacts(w) ==
    /\ pc[w] = "write"
    /\ disk' = [disk EXCEPT ![cur[w]] = IF @ = "none" THEN "files" ELSE @]
    /\ Goto(w, "manifest")
    /\ UNCHANGED <<record, payload, exec, stage, api, batch, cur, seen, overruns, faults>>

WriteManifest(w) ==
    /\ pc[w] = "manifest"
    /\ disk' = [disk EXCEPT ![cur[w]] = "manifest"]
    /\ Goto(w, "complete")
    /\ UNCHANGED <<record, payload, exec, stage, api, batch, cur, seen, overruns, faults>>

\* Any other exception makes materialize_payload return False.
MaterializationFails(w) ==
    /\ pc[w] \in {"write", "manifest", "complete"}
    /\ Goto(w, "retry")
    /\ UNCHANGED <<durable, api, batch, cur, seen, overruns, faults>>

\* mark_complete, under the lock of the record.
MarkComplete(w) ==
    /\ pc[w] = "complete" /\ ~RecordLocked(cur[w])
    /\ \/ /\ record[cur[w]] # "failed" /\ OwnsLease(w, cur[w])
          /\ record' = [record EXCEPT ![cur[w]] = "complete"]
          /\ Goto(w, "finish")
          /\ UNCHANGED cur
       \/ /\ record[cur[w]] = "failed" \/ ~OwnsLease(w, cur[w])
          /\ Leave(w)
          /\ UNCHANGED record
    /\ UNCHANGED <<payload, disk, exec, stage, api, batch, seen, overruns, faults>>

AfterFinish(w) == Goto(w, IF w \in Inline THEN "confirm" ELSE "delete")

\* Mutant: the update has no status condition.
FinishExecutionAlways(w) ==
    /\ pc[w] = "finish"
    /\ exec' = [exec EXCEPT ![cur[w]] = "complete"]
    /\ stage' = [stage EXCEPT ![cur[w]] = "complete"]
    /\ AfterFinish(w)
    /\ UNCHANGED <<record, payload, disk, api, batch, cur, seen, overruns, faults>>

\* complete_stage_and_execution: a failed execution is not completed.
FinishExecution(w) ==
    /\ pc[w] = "finish"
    /\ IF exec[cur[w]] = "failed"
       THEN UNCHANGED <<exec, stage>>
       ELSE /\ exec' = [exec EXCEPT ![cur[w]] = "complete"]
            /\ stage' = [stage EXCEPT ![cur[w]] = "complete"]
    /\ AfterFinish(w)
    /\ UNCHANGED <<record, payload, disk, api, batch, cur, seen, overruns, faults>>

\* _complete_execution_stage logs an exception of the registry and goes on.
FinishSwallowed(w) ==
    /\ pc[w] = "finish"
    /\ faults < MaxFaults
    /\ faults' = faults + 1
    /\ AfterFinish(w)
    /\ UNCHANGED <<durable, api, batch, cur, seen, overruns>>

\* require_terminal_stage of the inline materializer.
ConfirmTerminal(w) ==
    /\ pc[w] = "confirm"
    /\ \/ /\ record[cur[w]] = "complete" /\ stage[cur[w]] = "complete"
          /\ Goto(w, "delete")
          /\ UNCHANGED cur
       \/ /\ record[cur[w]] # "complete" \/ stage[cur[w]] # "complete"
          /\ Leave(w)
    /\ UNCHANGED <<durable, api, batch, seen, overruns, faults>>

\* delete_payload loads the row and checks its owner ...
LoadDelete(w) ==
    /\ pc[w] = "delete"
    /\ \/ OwnsLease(w, cur[w]) /\ Goto(w, "flush_delete") /\ UNCHANGED cur
       \/ ~OwnsLease(w, cur[w]) /\ Leave(w)
    /\ UNCHANGED <<durable, api, batch, seen, overruns, faults>>

\* ... and deletes whatever row has the key by then.
FlushDelete(w) ==
    /\ pc[w] = "flush_delete"
    /\ payload' = [payload EXCEPT ![cur[w]] = NoPayload]
    /\ Leave(w)
    /\ UNCHANGED <<record, disk, exec, stage, api, batch, seen, overruns, faults>>

-----------------------------------------------------------------------------
(* _handle_lineage_materialization_retry.                                  *)

\* Mutant: the limit itself still counts as an attempt left.
DecideRetryOneMore(w) ==
    /\ pc[w] = "retry"
    /\ \/ ~HasPayload(cur[w]) /\ Leave(w)
       \/ /\ HasPayload(cur[w])
          /\ Goto(w, IF payload[cur[w]].attempts > MaxAttempts THEN "fail" ELSE "requeue")
          /\ UNCHANGED cur
    /\ UNCHANGED <<durable, api, batch, seen, overruns, faults>>

\* get_payload and the attempt budget.
DecideRetry(w) ==
    /\ pc[w] = "retry"
    /\ \/ ~HasPayload(cur[w]) /\ Leave(w)
       \/ /\ HasPayload(cur[w])
          /\ Goto(w, IF payload[cur[w]].attempts >= MaxAttempts THEN "fail" ELSE "requeue")
          /\ UNCHANGED cur
    /\ UNCHANGED <<durable, api, batch, seen, overruns, faults>>

\* mark_failed.
MarkFailed(w) ==
    /\ pc[w] = "fail" /\ ~RecordLocked(cur[w])
    /\ record' = [record EXCEPT ![cur[w]] = "failed"]
    /\ payload' = [payload EXCEPT ![cur[w]] = Released(@)]
    /\ Goto(w, "fail_exec")
    /\ UNCHANGED <<disk, exec, stage, api, batch, cur, seen, overruns, faults>>

\* fail_stage_and_execution.
FailExecution(w) ==
    /\ pc[w] = "fail_exec"
    /\ exec' = [exec EXCEPT ![cur[w]] = "failed"]
    /\ stage' = [stage EXCEPT ![cur[w]] = "failed"]
    /\ Leave(w)
    /\ UNCHANGED <<record, payload, disk, api, batch, seen, overruns, faults>>

\* It raises and so may mark_failed of the registry: both are logged.
FailSwallowed(w) ==
    /\ pc[w] = "fail_exec"
    /\ faults < MaxFaults
    /\ faults' = faults + 1
    /\ \E s \in {exec[cur[w]], "failed"} : exec' = [exec EXCEPT ![cur[w]] = s]
    /\ Leave(w)
    /\ UNCHANGED <<record, payload, disk, stage, api, batch, seen, overruns>>

\* mark_pending: no owner is checked.
LoadRequeue(w) ==
    /\ pc[w] = "requeue" /\ ~RecordLocked(cur[w])
    /\ seen' = [seen EXCEPT ![w] = [record |-> record[cur[w]], payload |-> payload[cur[w]]]]
    /\ Goto(w, "flush_requeue")
    /\ UNCHANGED <<durable, api, batch, cur, overruns, faults>>

\* An update of a payload that was deleted raises, and nothing is written:
\* the poller's process ends and is started again, the inline call returns.
FlushRequeue(w) ==
    LET c == cur[w]
        loaded == seen[w]
        gone == loaded.payload # NoPayload /\ loaded.payload.owner # NoOwner /\ ~HasPayload(c)
    IN  /\ pc[w] = "flush_requeue"
        /\ \/ /\ ~gone
              /\ record' = [record EXCEPT ![c] = Written(@, loaded.record, "pending")]
              /\ payload' = [payload EXCEPT ![c] =
                                IF ~HasPayload(c) THEN @
                                ELSE FlushPayload(@, loaded.payload, Released(loaded.payload))]
              /\ Leave(w)
              /\ UNCHANGED batch
           \/ /\ gone
              /\ Goto(w, "poll")
              /\ cur' = [cur EXCEPT ![w] = NoCalc]
              /\ batch' = [batch EXCEPT ![w] = {}]
              /\ UNCHANGED <<record, payload>>
        /\ seen' = [seen EXCEPT ![w] = NotSeen]
        /\ UNCHANGED <<disk, exec, stage, api, overruns, faults>>

-----------------------------------------------------------------------------

\* The process dies and is started again.
Crash(w) ==
    /\ pc[w] # "poll"
    /\ faults < MaxFaults
    /\ faults' = faults + 1
    /\ Goto(w, "poll")
    /\ batch' = [batch EXCEPT ![w] = {}]
    /\ cur' = [cur EXCEPT ![w] = NoCalc]
    /\ seen' = [seen EXCEPT ![w] = NotSeen]
    /\ UNCHANGED <<durable, api, overruns>>

Step(w) ==
    \/ LeasePayloads(w) \/ EndBatch(w)
    \/ \E c \in Calc : LeaseInline(w, c) \/ EnsureOwner(w, c)
    \/ WriteArtifacts(w) \/ WriteManifest(w) \/ MaterializationFails(w) \/ MarkComplete(w)
    \/ FinishExecution(w) \/ FinishSwallowed(w) \/ ConfirmTerminal(w)
    \/ LoadDelete(w) \/ FlushDelete(w)
    \/ DecideRetry(w) \/ MarkFailed(w) \/ FailExecution(w) \/ FailSwallowed(w)
    \/ LoadRequeue(w) \/ FlushRequeue(w)

Capture(c) ==
    \/ BeginCapture(c) \/ StartStage(c) \/ LoadCapture(c) \/ FlushCapture(c) \/ CaptureFails(c)

Cancellation(c) == CancelExecution(c) \/ CancelStages(c) \/ CancelLineage(c)

Next ==
    \/ \E w \in Worker : Step(w) \/ Crash(w)
    \/ \E c \in Calc : Capture(c) \/ Cancellation(c) \/ LeaseLapses(c) \/ LeaseOverrun(c)

Spec == Init /\ [][Next]_vars

\* The lineage workers keep polling, time passes, and a transaction that holds
\* the lock of a record ends; nothing forces a capture, a cancellation or an
\* inline call.
FairSpec ==
    /\ Spec
    /\ \A w \in Poller : WF_vars(Step(w))
    /\ \A w \in Inline : WF_vars(FlushRequeue(w))
    /\ \A c \in Calc : WF_vars(LeaseLapses(c)) /\ WF_vars(FlushCapture(c) \/ CaptureFails(c))

-----------------------------------------------------------------------------
(* Properties.                                                             *)

\* At no time could two workers have the payload in hand: only one poller
\* takes it, or it was captured once and no lease was outlived.
OneHolder(c) ==
    \/ c \notin SummaryCalc /\ \A p, q \in Poller : p = q
    \/ captures[c] <= 1 /\ overruns = 0

\* Neither a second capture nor a second worker interferes.
SoleHolder(c) == captures[c] <= 1 /\ OneHolder(c)

\* An execution is complete only when its evidence is: the record is complete,
\* and behind a complete record the manifest is on disk.
CompleteMeansEvidence ==
    \A c \in Calc :
        /\ record[c] = "complete" => disk[c] = "manifest"
        /\ exec[c] = "complete" /\ SoleHolder(c) => record[c] = "complete"

\* Once the caller's cancellation has failed the execution, no lineage worker,
\* however far it is, completes it again, nor revives the stage.
CancelledStaysFailed ==
    \A c \in Calc :
        /\ cancel[c] # "none" => exec[c] = "failed"
        /\ cancel[c] \in {"lineage", "done"} => stage[c] # "in_progress"

\* The retry budget of a payload: attempts beyond it are those that a crash or
\* an outlived lease cost.  A worker that loses some payload of its batch to
\* another one may give up the whole batch, so no payload may have two holders.
PayloadAttemptBudget ==
    (\A d \in Calc : OneHolder(d)) =>
        \A c \in Calc : SoleHolder(c) => payload[c].attempts <= MaxAttempts + overruns + faults

\* Queued lineage is materialized or fails, and with it the execution; what
\* leaves the execution running is a worker that dies or cannot reach the
\* registry after it settled the record, a payload that cannot be read, or a
\* capture of the same calculation that overlaps another one.
LineageSettles ==
    \A c \in Calc \ SummaryCalc :
        record[c] = "pending" /\ captures[c] = 1
            ~> \/ captures[c] > 1
               \/ /\ record[c] \in {"complete", "failed"}
                  /\ exec[c] # "running" \/ faults > 0 \/ c \in CorruptCalc

\* What record_execution_cancellation says it does: "Durably fence an execution
\* and any queued lineage after caller cancellation."
CancelledLineageStaysFenced ==
    \A c \in Calc : cancel[c] = "done" => record[c] \in {"none", "failed"}

=============================================================================
