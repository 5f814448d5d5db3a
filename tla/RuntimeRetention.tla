--------------------------- MODULE RuntimeRetention ---------------------------
(***************************************************************************)
(* Retention cleanup (app/services/runtime_retention_service and its       *)
(* execution and run services): what is older than the retention window is *)
(* listed store by store, legal holds, source custody and source           *)
(* corrections are taken out, and the rest is deleted in five phases with  *)
(* evidence written before the first and after the last.                   *)
(*                                                                         *)
(* The scheduled worker runs its cleanups without a lease.  A request of   *)
(* an operator runs inside the lease of OperatorActionLease, which keeps   *)
(* apart only requests for the same key, and those only until it is stale: *)
(* the cleanups of all processes may overlap here.                         *)
(*                                                                         *)
(* Time is counted in ticks of a day's order: the cooldown and the age of  *)
(* a preview lie below a tick, so the cooldown may refuse at will (a       *)
(* stutter) and a preview is recent for PreviewAge ticks.  Evidence is     *)
(* kept as the latest of each process and mode; the limits on the length   *)
(* and the age of its history are left out.                                *)
(***************************************************************************)
EXTENDS Naturals, FiniteSets

CONSTANTS
    Operator,      \* processes with requests of an operator
    Calculation,   \* calculations with runtime records
    Worker,        \* the scheduled worker, which applies its cleanup
    Correlation,   \* correlation ids of requests
    Retention,     \* RUNTIME_RETENTION_DAYS, in ticks: positive
    PreviewAge,    \* RUNTIME_RETENTION_APPLY_PREVIEW_MAX_AGE_SECONDS, in ticks
    MaxTime,       \* bound on the clock
    MaxProtected,  \* bound on the holds and on the correction references placed
    MaxFaults      \* bound on the failing operations and the crashes

ASSUME RetentionAssumption ==
    /\ Worker \notin Operator
    /\ {Retention, MaxTime} \subseteq Nat \ {0}
    /\ {PreviewAge, MaxProtected, MaxFaults} \subseteq Nat

VARIABLES
    rows,        \* the time stamp of each record, by store and calculation
    custody,     \* calculations whose lineage record has a source custody state
    composite,   \* calculations whose result is a composite original
    artifacts,   \* calculations with a lineage artifact directory
    hold,        \* calculation ids of the legal hold file
    referenced,  \* calculation ids in the impacts of source corrections
    evidence,    \* the latest evidence of each process and mode
    cpc,         \* control state of each cleanup
    clean,       \* the local variables of each cleanup
    shield,      \* history: what was held or referenced when a cleanup began
    now,
    faults

vars == <<rows, custody, composite, artifacts, hold, referenced, evidence, cpc, clean, shield, now, faults>>
world == <<rows, custody, composite, artifacts, hold, referenced, now>>

Cleaner == Operator \cup {Worker}
Store == {"execution", "lineage", "job", "result"}
Mode == {"dry_run", "apply"}

\* No record; a record that is not terminal.
Absent == 0
Open == MaxTime + 1

NoTargets == [s \in Store |-> {}]
NoEvidence == [status |-> "none", correlation |-> "none", at |-> 0, targets |-> NoTargets]

Evidence ==
    [status : {"none", "planned", "in_progress", "applied", "failed"},
     correlation : Correlation \cup {"none"}, at : 0..MaxTime, targets : [Store -> SUBSET Calculation]]

NoCleanup ==
    [mode |-> "dry_run", correlation |-> "none", at |-> 0, cutoff |-> 0, listed |-> NoTargets,
     protected |-> {}]

Cleanup ==
    [mode : Mode, correlation : Correlation \cup {"none"}, at : 0..MaxTime, cutoff : 0..MaxTime,
     listed : [Store -> SUBSET Calculation], protected : SUBSET Calculation]

Deleting == {"delete_job", "delete_result", "delete_artifacts", "delete_lineage", "delete_execution"}
Control == {"idle", "requested", "list", "custody", "corrections", "publish_plan", "publish_start",
            "publish_end", "publish_failure", "dead"} \cup Deleting

\* The records, the cleanups and their evidence are well formed.
TypeOK ==
    /\ rows \in [Store -> [Calculation -> 0..Open]]
    /\ custody \in SUBSET Calculation
    /\ composite \in SUBSET Calculation
    /\ artifacts \in SUBSET Calculation
    /\ hold \in SUBSET Calculation
    /\ referenced \in SUBSET Calculation
    /\ evidence \in [Cleaner -> [Mode -> Evidence]]
    /\ cpc \in [Cleaner -> Control]
    /\ clean \in [Cleaner -> Cleanup]
    /\ shield \in [Cleaner -> SUBSET Calculation]
    /\ now \in 0..MaxTime
    /\ faults \in 0..MaxFaults

\* The executor has just stored the results.  Source custody is kept for
\* returns series only.
Init ==
    /\ rows = [s \in Store |-> [c \in Calculation |-> IF s = "result" THEN 1 ELSE Open]]
    /\ composite \in SUBSET Calculation
    /\ custody \in SUBSET (Calculation \ composite)
    /\ artifacts = {}
    /\ hold = {}
    /\ referenced = {}
    /\ evidence = [k \in Cleaner |-> [m \in Mode |-> NoEvidence]]
    /\ cpc = [k \in Cleaner |-> "idle"]
    /\ clean = [k \in Cleaner |-> NoCleanup]
    /\ shield = [k \in Cleaner |-> {}]
    /\ now = 1
    /\ faults = 0

-----------------------------------------------------------------------------
(* The clock, the executor, the operators and the correction service.      *)

Environment == UNCHANGED <<custody, composite, evidence, cpc, clean, shield, faults>>

Tick ==
    /\ now < MaxTime
    /\ now' = now + 1
    /\ Environment
    /\ UNCHANGED <<rows, artifacts, hold, referenced>>

\* The executor ends the execution, then the job; the lineage worker writes the
\* artifacts and ends the lineage record on its own.
Settle(s, c) ==
    /\ rows[s][c] = Open
    /\ \/ s = "execution" /\ UNCHANGED artifacts
       \/ s = "job" /\ rows["execution"][c] # Open /\ UNCHANGED artifacts
       \/ s = "lineage" /\ artifacts' = artifacts \cup {c}
    /\ rows' = [rows EXCEPT ![s][c] = now]
    /\ Environment
    /\ UNCHANGED <<hold, referenced, now>>

MayProtect == Cardinality(hold) + Cardinality(referenced) < MaxProtected

PlaceHold(c) ==
    /\ c \notin hold /\ MayProtect
    /\ hold' = hold \cup {c}
    /\ Environment
    /\ UNCHANGED <<rows, artifacts, referenced, now>>

ReferToCorrection(c) ==
    /\ c \notin referenced /\ MayProtect
    /\ referenced' = referenced \cup {c}
    /\ Environment
    /\ UNCHANGED <<rows, artifacts, hold, now>>

-----------------------------------------------------------------------------
(* run_runtime_retention_cleanup of the run service.                       *)

Goto(k, l) == cpc' = [cpc EXCEPT ![k] = l]
Locals(k, r) == clean' = [clean EXCEPT ![k] = r]

\* The retained evidence of the operator that answers a request again.
Replayable(mode, correlation) ==
    \E p \in Operator :
        /\ evidence[p][mode].correlation = correlation
        /\ evidence[p][mode].status = (IF mode = "apply" THEN "applied" ELSE "planned")

\* enforce_runtime_retention_apply_preview.
Previewed ==
    \E p \in Operator :
        /\ evidence[p]["dry_run"].status # "none"
        /\ now - evidence[p]["dry_run"].at <= PreviewAge

\* The history is read and its guards pass before the lease is asked for and
\* the cleanup begins.
Request(p, mode, correlation) ==
    /\ cpc[p] = "idle"
    /\ ~Replayable(mode, correlation)
    /\ mode = "apply" => Previewed
    /\ Goto(p, "requested")
    /\ Locals(p, [NoCleanup EXCEPT !.mode = mode, !.correlation = correlation])
    /\ UNCHANGED <<world, evidence, shield, faults>>

-----------------------------------------------------------------------------
(* The cleanup itself: collection.                                         *)

\* The cleanup is over: the worker waits for its next poll, the operator has
\* the answer.
End(k, l) ==
    /\ Goto(k, l)
    /\ Locals(k, NoCleanup)
    /\ shield' = [shield EXCEPT ![k] = {}]

\* Mutant: the window ends in the future.
CutoffAhead == now + Retention

\* The end of the retention window; time starts at 0.
Cutoff == IF now < Retention THEN 0 ELSE now - Retention

\* The cutoff is fixed once and the hold file is read.
Begin(k) ==
    /\ \/ k = Worker /\ cpc[k] = "idle"
       \/ k \in Operator /\ cpc[k] = "requested"
    /\ Locals(k, [clean[k] EXCEPT
                    !.mode = IF k = Worker THEN "apply" ELSE clean[k].mode,
                    !.at = now,
                    !.cutoff = Cutoff,
                    !.protected = hold])
    /\ shield' = [shield EXCEPT ![k] = hold \cup referenced]
    /\ Goto(k, "list")
    /\ UNCHANGED <<world, evidence, faults>>

\* COMPOSITE_PROTECTED_RESULT_TYPES: composite originals are never selected.
Kept(s, c) == s = "result" /\ c \in composite

\* Mutant: the record exactly at the cutoff is kept.
YoungerThan(s, cutoff) == {c \in Calculation : rows[s][c] \in 1..(cutoff - 1) /\ ~Kept(s, c)}
\* Terminal and no younger than the cutoff.
Older(s, cutoff) == {c \in Calculation : rows[s][c] \in 1..cutoff /\ ~Kept(s, c)}

\* The four lists are one step: between them records only settle, with a stamp
\* above the cutoff, or are gone before the custody of their group is read.
List(k) ==
    /\ cpc[k] = "list"
    /\ Locals(k, [clean[k] EXCEPT !.listed = [s \in Store |-> Older(s, clean[k].cutoff)]])
    /\ Goto(k, "custody")
    /\ UNCHANGED <<world, evidence, shield, faults>>

\* Mutant: only the lineage record must be eligible.
SourceProtectionByLineage(listed) ==
    {c \in custody : rows["lineage"][c] # Absent /\ c \notin listed["lineage"]}

\* source_retention_protection: a source calculation is protected as a whole
\* until each of its records that still exists is eligible ...
SourceProtection(listed) ==
    {c \in custody :
        /\ rows["lineage"][c] # Absent
        /\ \E s \in Store : rows[s][c] # Absent /\ c \notin listed[s]}

\* ... and while a lineage worker has leased its payload, which may be any.
ReadCustody(k) ==
    /\ cpc[k] = "custody"
    /\ \E leased \in SUBSET {c \in custody : rows["lineage"][c] # Absent} :
          Locals(k, [clean[k] EXCEPT
                        !.protected = @ \cup SourceProtection(clean[k].listed) \cup leased])
    /\ Goto(k, "corrections")
    /\ UNCHANGED <<world, evidence, shield, faults>>

\* Mutant: only source calculations keep what a correction refers to.
ReadCorrectionsOfSources(k) ==
    /\ cpc[k] = "corrections"
    /\ Locals(k, [clean[k] EXCEPT !.protected = @ \cup (referenced \cap custody)])
    /\ Goto(k, IF clean[k].mode = "apply" THEN "publish_start" ELSE "publish_plan")
    /\ UNCHANGED <<world, evidence, shield, faults>>

ReadCorrections(k) ==
    /\ cpc[k] = "corrections"
    /\ Locals(k, [clean[k] EXCEPT !.protected = @ \cup referenced])
    /\ Goto(k, IF clean[k].mode = "apply" THEN "publish_start" ELSE "publish_plan")
    /\ UNCHANGED <<world, evidence, shield, faults>>

-----------------------------------------------------------------------------
(* Evidence and deletion.                                                  *)

Targets(k) == [s \in Store |-> clean[k].listed[s] \ clean[k].protected]

Publish(k, status, at, targets) ==
    evidence' = [evidence EXCEPT ![k][clean[k].mode] =
                    [status |-> status, correlation |-> clean[k].correlation,
                     at |-> at, targets |-> targets]]

\* Nothing reads the targets of a plan or of a failure, nor the time of an
\* apply: they are left out.
PublishPlan(k) ==
    /\ cpc[k] = "publish_plan"
    /\ Publish(k, "planned", clean[k].at, NoTargets)
    /\ End(k, "idle")
    /\ UNCHANGED <<world, faults>>

\* Mutant: the evidence comes with the end only.
PublishStartLater(k) ==
    /\ cpc[k] = "publish_start"
    /\ Goto(k, "delete_job")
    /\ UNCHANGED <<world, evidence, clean, shield, faults>>

\* before_apply: the evidence is durable before anything is deleted.
PublishStart(k) ==
    /\ cpc[k] = "publish_start"
    /\ Publish(k, "in_progress", 0, Targets(k))
    /\ Goto(k, "delete_job")
    /\ UNCHANGED <<world, clean, shield, faults>>

Remove(s, ids) == rows' = [rows EXCEPT ![s] = [c \in Calculation |-> IF c \in ids THEN Absent ELSE @[c]]]

\* Mutant: the records go before their artifacts.
NextPhaseSwapped == [delete_job |-> "delete_result", delete_result |-> "delete_lineage",
                     delete_lineage |-> "delete_artifacts", delete_artifacts |-> "delete_execution",
                     delete_execution |-> "publish_end"]
\* The order of the phases.
NextPhase == [delete_job |-> "delete_result", delete_result |-> "delete_artifacts",
              delete_artifacts |-> "delete_lineage", delete_lineage |-> "delete_execution",
              delete_execution |-> "publish_end"]

\* prune_terminal_jobs_older_than and prune_results_older_than filter again.
DeleteOlder(k) ==
    /\ cpc[k] \in {"delete_job", "delete_result"}
    /\ LET s == IF cpc[k] = "delete_job" THEN "job" ELSE "result"
       IN  Remove(s, Older(s, clean[k].cutoff) \ (clean[k].listed[s] \cap clean[k].protected))
    /\ Goto(k, NextPhase[cpc[k]])
    /\ UNCHANGED <<custody, composite, artifacts, hold, referenced, now, evidence, clean, shield, faults>>

\* One rmtree; a directory that is gone is skipped.
DeleteArtifacts(k) ==
    /\ cpc[k] = "delete_artifacts"
    /\ LET left == Targets(k)["lineage"] \cap artifacts
       IN  \/ \E c \in left : artifacts' = artifacts \ {c} /\ UNCHANGED cpc
           \/ left = {} /\ Goto(k, NextPhase[cpc[k]]) /\ UNCHANGED artifacts
    /\ UNCHANGED <<rows, custody, composite, hold, referenced, now, evidence, clean, shield, faults>>

\* delete_calculation_ids and delete_executions, by id.
DeleteListed(k) ==
    /\ cpc[k] \in {"delete_lineage", "delete_execution"}
    /\ LET s == IF cpc[k] = "delete_lineage" THEN "lineage" ELSE "execution"
       IN  Remove(s, Targets(k)[s])
    /\ Goto(k, NextPhase[cpc[k]])
    /\ UNCHANGED <<custody, composite, artifacts, hold, referenced, now, evidence, clean, shield, faults>>

PublishEnd(k) ==
    /\ cpc[k] = "publish_end"
    /\ Publish(k, "applied", 0, Targets(k))
    /\ End(k, "idle")
    /\ UNCHANGED <<world, faults>>

-----------------------------------------------------------------------------
(* Failures.                                                               *)

Fault == faults < MaxFaults /\ faults' = faults + 1

\* The exception leaves run_forever, or goes through the lease to the caller.
Raise(k) == End(k, IF k = Worker THEN "dead" ELSE "idle")

\* A read of the collection fails: no evidence is written.
CollectionFails(k) ==
    /\ cpc[k] \in {"list", "custody", "corrections"}
    /\ Fault
    /\ Raise(k)
    /\ UNCHANGED <<world, evidence>>

\* A phase raises, its transaction rolled back: the later ones do not run.
PhaseFails(k) ==
    /\ cpc[k] \in Deleting
    /\ Fault
    /\ Goto(k, "publish_failure")
    /\ UNCHANGED <<world, evidence, clean, shield>>

\* Mutant: the status is derived from the mode.
PublishFailureAsApplied(k) ==
    /\ cpc[k] = "publish_failure"
    /\ Publish(k, "applied", 0, Targets(k))
    /\ Raise(k)
    /\ UNCHANGED <<world, faults>>

PublishFailure(k) ==
    /\ cpc[k] = "publish_failure"
    /\ Publish(k, "failed", 0, NoTargets)
    /\ Raise(k)
    /\ UNCHANGED <<world, faults>>

\* The process dies, or cannot write its evidence: what it has deleted stays
\* deleted, and evidence in progress stays in progress.
Crash(k) ==
    /\ cpc[k] \notin {"idle", "dead"}
    /\ Fault
    /\ Raise(k)
    /\ UNCHANGED <<world, evidence>>

-----------------------------------------------------------------------------

Step(k) ==
    \/ Begin(k) \/ List(k) \/ ReadCustody(k) \/ ReadCorrections(k)
    \/ PublishPlan(k) \/ PublishStart(k) \/ DeleteOlder(k) \/ DeleteArtifacts(k)
    \/ DeleteListed(k) \/ PublishEnd(k) \/ PublishFailure(k)

Next ==
    \/ Tick
    \/ \E c \in Calculation :
        PlaceHold(c) \/ ReferToCorrection(c) \/ \E s \in Store : Settle(s, c)
    \/ \E k \in Cleaner : Step(k) \/ CollectionFails(k) \/ PhaseFails(k) \/ Crash(k)
    \/ \E p \in Operator, m \in Mode, x \in Correlation : Request(p, m, x)

Spec == Init /\ [][Next]_vars

-----------------------------------------------------------------------------
(* Properties.                                                             *)

Removed(s, c) == rows[s][c] # Absent /\ rows'[s][c] = Absent

\* docs/guides/api_reference.md: legal holds and correction references in place
\* when a cleanup begins exclude the calculation from its deletions, though the
\* phases filter the stores again, later, while records go on to settle.
ShieldedStays ==
    [][\A s \in Store, c \in Calculation : Removed(s, c) =>
        \E k \in Cleaner : cpc[k] \in Deleting /\ cpc'[k] # cpc[k] /\ c \notin shield[k]]_vars

\* "Protect the whole authority group until each extant member is eligible":
\* no record of a source calculation goes before all of its records are older
\* than the retention window.
CustodyGoesTogether ==
    [][\A s \in Store, c \in custody : Removed(s, c) =>
        \A t \in Store : rows[t][c] + Retention <= now]_vars

\* docs/runbooks/runtime-retention-cleanup.md: "Apply mode writes durable
\* evidence before destructive deletion starts": each record that goes is a
\* target of evidence in progress.
DeletionsAreAnnounced ==
    [][\A s \in Store, c \in Calculation : Removed(s, c) =>
        \E k \in Cleaner :
            /\ evidence[k]["apply"].status = "in_progress"
            /\ c \in evidence[k]["apply"].targets[s]]_vars

\* An artifact directory is reachable through its lineage record, whatever
\* cleanups crash, fail or overlap: a retry finds what is left to delete.
ArtifactsHaveRecords == \A c \in artifacts : rows["lineage"][c] # Absent

\* Evidence says "applied" only when every target it lists is gone.
AppliedMeansGone ==
    \A k \in Cleaner : evidence[k]["apply"].status = "applied" =>
        \A s \in Store : \A c \in evidence[k]["apply"].targets[s] : rows[s][c] = Absent

\* A cleanup that gets through leaves nothing older than its cutoff behind but
\* what it found protected and the results that are composite originals; all
\* other records of their calculations are gone.
CleanupIsThorough ==
    \A k \in Cleaner : cpc[k] = "publish_end" =>
        \A s \in Store, c \in Calculation \ clean[k].protected :
            rows[s][c] = Absent \/ rows[s][c] > clean[k].cutoff \/ Kept(s, c)

=============================================================================
