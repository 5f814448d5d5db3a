-------------------------- MODULE SubmissionFencing --------------------------
(***************************************************************************)
(* Async submission (app/services/submission_fencing_service): the two     *)
(* durable records of a calculation, its execution and its compute job,    *)
(* are written by separate transactions of concurrent requests, which may  *)
(* be cut off between any two of them and are retried by their clients.    *)
(*                                                                         *)
(* The uniqueness of calculation_id and of the idempotency key fences      *)
(* duplicate requests: one creates the execution, the others replay it or  *)
(* are refused.  A request is identified by its body; tenant, workflow and *)
(* window are part of it.                                                  *)
(*                                                                         *)
(* A stateful request without a key is registered as a synchronous         *)
(* execution and resolved while its client waits; one that turns out to be *)
(* large is then promoted: its job is registered and the execution becomes *)
(* an asynchronous one.                                                    *)
(***************************************************************************)
EXTENDS Naturals

CONSTANTS
    Submitter,       \* concurrent clients
    Calc,            \* calculation ids of requests without an idempotency key
    KeyedCalc,       \* calculation ids minted for requests with one
    Request,         \* request bodies
    StatefulRequest, \* the stateful ones, which are resolved before they run
    NoRequest,
    Key,             \* idempotency keys
    NoKey,
    MaxSubmissions,  \* bound on the submissions the clients start
    MaxErrors,       \* bound on store errors that a request survives
    AnswerLost,      \* TRUE if a commit may succeed and its answer be lost
    MaxCutOffs       \* bound on requests that end without an answer

ASSUME SubmissionAssumption ==
    /\ Calc \cap KeyedCalc = {}
    /\ NoRequest \notin Request
    /\ StatefulRequest \subseteq Request
    /\ NoKey \notin Key
    /\ AnswerLost \in BOOLEAN
    /\ MaxSubmissions \in Nat /\ MaxErrors \in Nat /\ MaxCutOffs \in Nat

VARIABLES
    execution,   \* analytics_execution and its submission stage, by calculation
    queue,       \* the request of analytics_compute_job, by calculation
    done,        \* calculations whose job the executor has run
    pc,          \* control state of each client's request
    want,        \* what the client asks for
    got,         \* what register_execution answered
    begun, errors, cutoffs

vars == <<execution, queue, done, pc, want, got, begun, errors, cutoffs>>

AnyCalc == Calc \cup KeyedCalc

NoExecution == [request |-> NoRequest, key |-> NoKey, mode |-> "async",
                status |-> "none", stage |-> "none"]
NoWant == [request |-> NoRequest, key |-> NoKey]

Execution == [request : Request, key : Key \cup {NoKey}, mode : {"sync", "async"},
              status : {"pending", "settled"},
              stage : {"none", "in_progress", "complete"}]
             \cup {NoExecution}

Control == {"idle", "register", "lookup", "start_stage", "register_job", "complete_stage",
            "heal_stage", "rollback_error", "rollback_conflict",
            "find_promoted", "register_sync", "lookup_sync", "resolve",
            "promote_job", "promote_contract", "fail_error", "fail_conflict",
            "accepted", "answered", "conflict", "error"}

\* The client has an answer, or has not asked.
AtRest == {"idle", "accepted", "answered", "conflict"}

\* Every record is well formed, and a request past its registration knows its
\* calculation.
TypeOK ==
    /\ execution \in [AnyCalc -> Execution]
    /\ queue \in [AnyCalc -> Request \cup {NoRequest}]
    /\ done \subseteq {c \in AnyCalc : queue[c] # NoRequest}
    /\ pc \in [Submitter -> Control]
    /\ \A p \in Submitter :
          /\ pc[p] # "idle" => want[p] \in [calc : AnyCalc, request : Request, key : Key \cup {NoKey}]
          /\ pc[p] \notin {"idle", "register", "lookup", "find_promoted", "register_sync",
                          "lookup_sync", "conflict", "error"}
                => got[p] \in [calc : AnyCalc, request : Request, created : BOOLEAN]
    /\ begun \in 0..MaxSubmissions
    /\ errors \in 0..MaxErrors
    /\ cutoffs \in 0..MaxCutOffs

Init ==
    /\ execution = [c \in AnyCalc |-> NoExecution]
    /\ queue = [c \in AnyCalc |-> NoRequest]
    /\ done = {}
    /\ pc = [p \in Submitter |-> "idle"]
    /\ want = [p \in Submitter |-> NoWant]
    /\ got = [p \in Submitter |-> NoWant]
    /\ begun = 0 /\ errors = 0 /\ cutoffs = 0

Exists(c) == execution[c].status # "none"

Goto(p, l) == pc' = [pc EXCEPT ![p] = l]

-----------------------------------------------------------------------------
(* Clients.                                                                *)

\* A key comes with a calculation id of its own, by default a new uuid4.
CalcFor(key) == IF key = NoKey THEN Calc ELSE KeyedCalc

\* A request with a key is submitted asynchronously whatever its body.
IsResolvedFirst(w) == w.key = NoKey /\ w.request \in StatefulRequest

Send(p, w) ==
    /\ want' = [want EXCEPT ![p] = w]
    /\ got' = [got EXCEPT ![p] = NoWant]
    /\ Goto(p, IF IsResolvedFirst(w) THEN "find_promoted" ELSE "register")

Begin(p) ==
    /\ pc[p] \in AtRest /\ begun < MaxSubmissions
    /\ begun' = begun + 1
    /\ \E k \in Key \cup {NoKey}, r \in Request : \E c \in CalcFor(k) :
          Send(p, [calc |-> c, request |-> r, key |-> k])
    /\ UNCHANGED <<execution, queue, done, errors, cutoffs>>

\* A client without an answer sends the same request again.
Retry(p) ==
    /\ pc[p] = "error"
    /\ \E c \in CalcFor(want[p].key) :
          /\ want[p].key = NoKey => c = want[p].calc
          /\ Send(p, [want[p] EXCEPT !.calc = c])
    /\ UNCHANGED <<execution, queue, done, begun, errors, cutoffs>>

\* The process dies or an exception escapes: nothing is written any more.
CutOff(p) ==
    /\ pc[p] \notin AtRest \cup {"error"}
    /\ cutoffs < MaxCutOffs
    /\ cutoffs' = cutoffs + 1
    /\ Goto(p, "error")
    /\ UNCHANGED <<execution, queue, done, want, got, begun, errors>>

-----------------------------------------------------------------------------
(* register_execution.                                                     *)

\* The insert is committed, or an IntegrityError sends the request on.
RegisterExecution(p) ==
    LET w == want[p]
    IN  /\ pc[p] = "register"
        /\ \/ /\ ~Exists(w.calc)
              /\ w.key = NoKey \/ \A c \in AnyCalc : execution[c].key # w.key
              /\ execution' = [execution EXCEPT ![w.calc] =
                    [request |-> w.request, key |-> w.key, mode |-> "async",
                     status |-> "pending", stage |-> "none"]]
              /\ got' = [got EXCEPT ![p] =
                    [calc |-> w.calc, request |-> w.request, created |-> TRUE]]
              /\ Goto(p, "start_stage")
           \/ /\ \/ Exists(w.calc)
                 \/ w.key # NoKey /\ \E c \in AnyCalc : execution[c].key = w.key
              /\ Goto(p, "lookup")
              /\ UNCHANGED <<execution, got>>
        /\ UNCHANGED <<queue, done, want, begun, errors, cutoffs>>

\* The row a duplicate is compared with: the holder of the key, else the row
\* of the calculation id.
Existing(w) ==
    LET holders == {c \in AnyCalc : w.key # NoKey /\ execution[c].key = w.key}
    IN  IF holders # {} THEN holders ELSE {c \in {w.calc} : Exists(c)}

\* Mutant: the bodies are not compared.
SameCalculation(w, c) == w.key # NoKey => execution[c].key = w.key

\* submission_identity_fingerprint under a key, the replay signature without.
IsReplay(w, c) ==
    /\ w.key # NoKey => execution[c].key = w.key
    /\ execution[c].request = w.request

\* _is_durably_resolved_execution_replay.
IsResolved(c) == execution[c].status = "settled"

\* Mutant: a row that is gone passes for a replay.
LookupExecutionUnchecked(p) ==
    /\ pc[p] = "lookup"
    /\ \E c \in IF Existing(want[p]) = {} THEN {want[p].calc} ELSE Existing(want[p]) :
          got' = [got EXCEPT ![p] =
                    [calc |-> c, request |-> execution[c].request, created |-> FALSE]]
    /\ Goto(p, "register_job")
    /\ UNCHANGED <<execution, queue, done, want, begun, errors, cutoffs>>

\* _registration_result_for_duplicate_execution.  The row may be gone by now.
LookupExecution(p) ==
    /\ pc[p] = "lookup"
    /\ \/ /\ Existing(want[p]) = {}
          /\ Goto(p, "error")
          /\ UNCHANGED got
       \/ \E c \in Existing(want[p]) :
             \/ /\ ~IsReplay(want[p], c)
                /\ Goto(p, "conflict")
                /\ UNCHANGED got
             \/ /\ IsReplay(want[p], c)
                /\ got' = [got EXCEPT ![p] =
                      [calc |-> c, request |-> execution[c].request, created |-> FALSE]]
                /\ Goto(p, IF IsResolved(c) THEN "accepted" ELSE "register_job")
    /\ UNCHANGED <<execution, queue, done, want, begun, errors, cutoffs>>

-----------------------------------------------------------------------------
(* register_job and its rollback.                                          *)

\* Mutant: the execution is deleted under a key too.
AfterFailureDropsKey(p, answer) ==
    IF got[p].created
    THEN IF answer = "conflict" THEN "rollback_conflict" ELSE "rollback_error"
    ELSE answer

\* _rollback_created_async_execution: under a key the execution is kept.
AfterFailure(p, answer) ==
    IF got[p].created /\ want[p].key = NoKey
    THEN IF answer = "conflict" THEN "rollback_conflict" ELSE "rollback_error"
    ELSE answer

\* Mutant: a job that is already there ends the submission.
RegisterJobReplayEnds(p) ==
    LET c == got[p].calc
    IN  /\ pc[p] = "register_job"
        /\ \/ /\ queue[c] = NoRequest
              /\ queue' = [queue EXCEPT ![c] = got[p].request]
              /\ Goto(p, IF got[p].created THEN "complete_stage" ELSE "accepted")
           \/ /\ queue[c] # NoRequest
              /\ Goto(p, "accepted")
              /\ UNCHANGED queue
        /\ UNCHANGED <<execution, done, want, got, begun, errors, cutoffs>>

\* CREATED, REPLAY or CONFLICT.
RegisterJob(p) ==
    LET c == got[p].calc
    IN  /\ pc[p] = "register_job"
        /\ \/ /\ queue[c] = NoRequest
              /\ queue' = [queue EXCEPT ![c] = got[p].request]
              /\ Goto(p, IF got[p].created THEN "complete_stage" ELSE "start_stage")
           \/ /\ queue[c] = got[p].request
              /\ Goto(p, IF got[p].created THEN "complete_stage" ELSE "heal_stage")
              /\ UNCHANGED queue
           \/ /\ queue[c] \notin {NoRequest, got[p].request}
              /\ Goto(p, AfterFailure(p, "conflict"))
              /\ UNCHANGED queue
        /\ UNCHANGED <<execution, done, want, got, begun, errors, cutoffs>>

\* The store raises: before its commit, or after it with the answer lost.
RegisterJobRaises(p) ==
    LET c == got[p].calc
    IN  /\ pc[p] = "register_job"
        /\ errors < MaxErrors
        /\ errors' = errors + 1
        /\ \/ UNCHANGED queue
           \/ /\ AnswerLost /\ queue[c] = NoRequest
              /\ queue' = [queue EXCEPT ![c] = got[p].request]
        /\ Goto(p, AfterFailure(p, "error"))
        /\ UNCHANGED <<execution, done, want, got, begun, cutoffs>>

\* delete_execution; its stages go with it.
Rollback(p) ==
    /\ pc[p] \in {"rollback_error", "rollback_conflict"}
    /\ execution' = [execution EXCEPT ![got[p].calc] = NoExecution]
    /\ Goto(p, IF pc[p] = "rollback_conflict" THEN "conflict" ELSE "error")
    /\ UNCHANGED <<queue, done, want, got, begun, errors, cutoffs>>

-----------------------------------------------------------------------------
(* The submission stage; each step locks the execution and fails without. *)

StartStage(p) ==
    /\ pc[p] = "start_stage"
    /\ \/ /\ Exists(got[p].calc)
          /\ execution' = [execution EXCEPT ![got[p].calc].stage = "in_progress"]
          /\ Goto(p, IF got[p].created THEN "register_job" ELSE "complete_stage")
       \/ /\ ~Exists(got[p].calc)
          /\ Goto(p, "error")
          /\ UNCHANGED execution
    /\ UNCHANGED <<queue, done, want, got, begun, errors, cutoffs>>

CompleteStage(p) ==
    /\ pc[p] = "complete_stage"
    /\ \/ /\ execution[got[p].calc].stage # "none"
          /\ execution' = [execution EXCEPT ![got[p].calc].stage = "complete"]
          /\ Goto(p, "accepted")
       \/ /\ execution[got[p].calc].stage = "none"
          /\ Goto(p, "error")
          /\ UNCHANGED execution
    /\ UNCHANGED <<queue, done, want, got, begun, errors, cutoffs>>

\* complete_stage_if_in_progress.
HealStage(p) ==
    /\ pc[p] = "heal_stage"
    /\ \/ /\ execution[got[p].calc].stage = "in_progress"
          /\ execution' = [execution EXCEPT ![got[p].calc].stage = "complete"]
          /\ Goto(p, "accepted")
       \/ /\ Exists(got[p].calc) /\ execution[got[p].calc].stage # "in_progress"
          /\ Goto(p, "accepted")
          /\ UNCHANGED execution
       \/ /\ ~Exists(got[p].calc)
          /\ Goto(p, "error")
          /\ UNCHANGED execution
    /\ UNCHANGED <<queue, done, want, got, begun, errors, cutoffs>>

-----------------------------------------------------------------------------
(* Stateful requests: finalize_resolved_stateful_execution.                *)

\* replay_promoted_stateful_async_execution.
FindPromoted(p) ==
    LET w == want[p]
        promoted == execution[w.calc].mode = "async" /\ execution[w.calc].request = w.request
    IN  /\ pc[p] = "find_promoted"
        /\ \/ /\ promoted
              /\ got' = [got EXCEPT ![p] = [calc |-> w.calc, request |-> w.request, created |-> FALSE]]
              /\ Goto(p, "accepted")
           \/ /\ ~promoted
              /\ Goto(p, "register_sync")
              /\ UNCHANGED got
        /\ UNCHANGED <<execution, queue, done, want, begun, errors, cutoffs>>

\* register_sync_execution_or_raise: there is no replay of a synchronous one.
RegisterSync(p) ==
    LET w == want[p]
    IN  /\ pc[p] = "register_sync"
        /\ \/ /\ ~Exists(w.calc)
              /\ execution' = [execution EXCEPT ![w.calc] =
                    [request |-> w.request, key |-> NoKey, mode |-> "sync",
                     status |-> "pending", stage |-> "none"]]
              /\ got' = [got EXCEPT ![p] = [calc |-> w.calc, request |-> w.request, created |-> FALSE]]
              /\ Goto(p, "resolve")
           \/ /\ Exists(w.calc)
              /\ Goto(p, "lookup_sync")
              /\ UNCHANGED <<execution, got>>
        /\ UNCHANGED <<queue, done, want, begun, errors, cutoffs>>

LookupSync(p) ==
    /\ pc[p] = "lookup_sync"
    /\ Goto(p, IF Exists(want[p].calc) THEN "conflict" ELSE "error")
    /\ UNCHANGED <<execution, queue, done, want, got, begun, errors, cutoffs>>

\* The execution ends here, complete or failed.
Settle(p) == execution' = [execution EXCEPT ![got[p].calc].status = "settled"]

\* The upstream sources are awaited: the request turns out to be large, or it is
\* calculated in place, or its resolution fails.
Resolve(p) ==
    /\ pc[p] = "resolve"
    /\ \/ Goto(p, "promote_job") /\ UNCHANGED execution
       \/ Goto(p, "answered") /\ Settle(p)
       \/ Goto(p, "fail_error") /\ UNCHANGED execution
    /\ UNCHANGED <<queue, done, want, got, begun, errors, cutoffs>>

\* Mutant: the execution is made asynchronous before its job is registered.
PromoteJobLater(p) ==
    /\ pc[p] = "promote_job"
    /\ execution' = [execution EXCEPT ![got[p].calc].mode = "async"]
    /\ Goto(p, "register_job")
    /\ UNCHANGED <<queue, done, want, got, begun, errors, cutoffs>>

\* CREATED, REPLAY or CONFLICT; there is nothing to roll back.
PromoteJob(p) ==
    LET c == got[p].calc
    IN  /\ pc[p] = "promote_job"
        /\ \/ /\ queue[c] \in {NoRequest, got[p].request}
              /\ queue' = [queue EXCEPT ![c] = got[p].request]
              /\ Goto(p, "promote_contract")
           \/ /\ queue[c] \notin {NoRequest, got[p].request}
              /\ Goto(p, "fail_conflict")
              /\ UNCHANGED queue
        /\ UNCHANGED <<execution, done, want, got, begun, errors, cutoffs>>

\* update_execution_contract; update_execution_identity, which follows, changes
\* columns that only asynchronous requests of the same body are compared with.
PromoteContract(p) ==
    /\ pc[p] = "promote_contract"
    /\ \/ /\ Exists(got[p].calc)
          /\ execution' = [execution EXCEPT ![got[p].calc].mode = "async"]
          /\ Goto(p, "start_stage")
       \/ /\ ~Exists(got[p].calc)
          /\ Goto(p, "error")
          /\ UNCHANGED execution
    /\ UNCHANGED <<queue, done, want, got, begun, errors, cutoffs>>

\* A store raises during the promotion, before its commit or after it.
PromotionRaises(p) ==
    /\ IsResolvedFirst(want[p])
    /\ pc[p] \in {"promote_job", "promote_contract", "start_stage", "complete_stage"}
    /\ errors < MaxErrors
    /\ errors' = errors + 1
    /\ \/ UNCHANGED queue
       \/ /\ AnswerLost /\ pc[p] = "promote_job" /\ queue[got[p].calc] = NoRequest
          /\ queue' = [queue EXCEPT ![got[p].calc] = got[p].request]
    /\ Goto(p, "fail_error")
    /\ UNCHANGED <<execution, done, want, got, begun, cutoffs>>

\* record_execution_failure, whatever the executor has made of the execution.
RecordFailure(p) ==
    /\ pc[p] \in {"fail_error", "fail_conflict"}
    /\ IF Exists(got[p].calc) THEN Settle(p) ELSE UNCHANGED execution
    /\ Goto(p, IF pc[p] = "fail_conflict" THEN "conflict" ELSE "error")
    /\ UNCHANGED <<queue, done, want, got, begun, errors, cutoffs>>

-----------------------------------------------------------------------------

\* The executor runs a queued job and settles the execution, complete or
\* failed, if there is one.
RunJob(c) ==
    /\ queue[c] # NoRequest /\ c \notin done
    /\ done' = done \cup {c}
    /\ \/ /\ Exists(c)
          /\ execution' = [execution EXCEPT ![c].status = "settled"]
       \/ ~Exists(c) /\ UNCHANGED execution
    /\ UNCHANGED <<queue, pc, want, got, begun, errors, cutoffs>>

Proceed(p) ==
    \/ Retry(p)
    \/ RegisterExecution(p) \/ LookupExecution(p)
    \/ RegisterJob(p) \/ RegisterJobRaises(p) \/ Rollback(p)
    \/ StartStage(p) \/ CompleteStage(p) \/ HealStage(p)
    \/ FindPromoted(p) \/ RegisterSync(p) \/ LookupSync(p) \/ Resolve(p)
    \/ PromoteJob(p) \/ PromoteContract(p) \/ PromotionRaises(p) \/ RecordFailure(p)

\* All clients are answered and the queue is empty.
Finished ==
    /\ begun = MaxSubmissions
    /\ \A p \in Submitter : pc[p] \in AtRest
    /\ \A c \in AnyCalc : queue[c] # NoRequest => c \in done
    /\ UNCHANGED vars

Next ==
    \/ \E p \in Submitter : Begin(p) \/ CutOff(p) \/ Proceed(p)
    \/ \E c \in AnyCalc : RunJob(c)
    \/ Finished

Spec == Init /\ [][Next]_vars

-----------------------------------------------------------------------------
(* Properties.                                                             *)

\* One idempotency key stands for one calculation and one request, whatever
\* errors, cuts and retries came between: clients that were accepted under it
\* poll the same calculation.
KeyResolvesToOneCalculation ==
    \A p, q \in Submitter :
        /\ pc[p] = "accepted" /\ pc[q] = "accepted"
        /\ want[p].key # NoKey /\ want[p].key = want[q].key
        => got[p].calc = got[q].calc /\ want[p].request = want[q].request

\* A client accepted under a key, or by a promotion, finds its own request
\* queued: a replay of a submission that was cut off before register_job
\* registers the job, and an execution is only made asynchronous once it has
\* one, whatever errors and cuts came between.
AcceptedRequestIsQueued ==
    \A p \in Submitter :
        pc[p] = "accepted" /\ (want[p].key # NoKey \/ IsResolvedFirst(want[p]))
            => queue[got[p].calc] = want[p].request

\* Requests that die at any point never leave a job without its execution, nor
\* accept a request that is not queued; only a store error can, through the
\* rollback.
CutsKeepRecordsTogether ==
    errors = 0 =>
        /\ \A c \in AnyCalc : queue[c] # NoRequest => Exists(c) /\ execution[c].request = queue[c]
        /\ \A p \in Submitter : pc[p] = "accepted" => queue[got[p].calc] = want[p].request

\* Once the requests that raced for a calculation are answered, its submission
\* stage is complete, whichever of them created or promoted the execution,
\* registered the job or restarted the stage last.
StageSettled ==
    (errors = 0 /\ cutoffs = 0 /\ \A p \in Submitter : pc[p] \in AtRest \cup {"error"})
        => \A c \in AnyCalc : Exists(c) /\ (execution[c].mode = "async" \/ queue[c] # NoRequest)
                                => execution[c].stage = "complete"

\* The design constraint of docs/technical/architecture.md: "no executor work
\* without durable execution metadata".
ExecutorWorkHasExecution ==
    [][\A c \in AnyCalc : c \notin done /\ c \in done' => Exists(c)]_vars

=============================================================================
