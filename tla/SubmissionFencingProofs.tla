------------------------ MODULE SubmissionFencingProofs ------------------------
(***************************************************************************)
(* Submission fencing, for any number of clients, calculations, requests   *)
(* and keys: a key stands for one calculation, whoever is accepted finds   *)
(* the request queued, cuts alone never part a job from its execution, and *)
(* the submission stage is settled once the clients are.                   *)
(*                                                                         *)
(* The argument follows the execution row.  While a request is the owner   *)
(* of a row it created, nobody else can delete it; a row under a key is    *)
(* never deleted at all.  So what a request learnt about its row when it   *)
(* registered is still true when it registers the job.                     *)
(***************************************************************************)
EXTENDS SubmissionFencing, TLAPS

\* What a client asks for, and what a registration answers.
Want == [calc : AnyCalc, request : Request, key : Key \cup {NoKey}]
Got == [calc : AnyCalc, request : Request, created : BOOLEAN]

\* Past its registration a request holds a calculation.
Holding == Control \ {"idle", "register", "lookup", "find_promoted", "register_sync",
                      "lookup_sync", "conflict", "error"}

\* TypeOK, with the shape of want and got when they are not meaningful.
TypeInv ==
    /\ execution \in [AnyCalc -> Execution]
    /\ queue \in [AnyCalc -> Request \cup {NoRequest}]
    /\ done \subseteq {c \in AnyCalc : queue[c] # NoRequest}
    /\ pc \in [Submitter -> Control]
    /\ want \in [Submitter -> Want \cup {NoWant}]
    /\ got \in [Submitter -> Got \cup {NoWant}]
    /\ \A p \in Submitter : /\ pc[p] # "idle" => want[p] \in Want
                            /\ pc[p] \in Holding => got[p] \in Got
    /\ begun \in 0..MaxSubmissions
    /\ errors \in 0..MaxErrors
    /\ cutoffs \in 0..MaxCutOffs

-----------------------------------------------------------------------------
(* The invariant.                                                          *)

Rollbacks == {"rollback_error", "rollback_conflict"}
StatefulOnly == {"find_promoted", "register_sync", "lookup_sync", "resolve", "promote_job",
                 "promote_contract", "fail_error", "fail_conflict"}
AsyncOnly == {"register", "lookup", "register_job", "heal_stage"} \cup Rollbacks

\* Each lane has its control states, and only an unkeyed request that created
\* its execution rolls it back.
Lanes ==
    \A p \in Submitter :
        /\ pc[p] # "idle" => want[p].calc \in CalcFor(want[p].key)
        /\ pc[p] \in StatefulOnly => IsResolvedFirst(want[p])
        /\ pc[p] \in AsyncOnly => ~IsResolvedFirst(want[p])
        /\ pc[p] \in Holding /\ IsResolvedFirst(want[p]) => ~got[p].created
        /\ pc[p] \in Rollbacks => got[p].created /\ want[p].key = NoKey

\* A request holds a calculation of its own kind, with its own body.
HoldsOwnRequest ==
    \A p \in Submitter : pc[p] \in Holding =>
        /\ got[p].request = want[p].request
        /\ got[p].calc \in CalcFor(want[p].key)

\* The rows under a key: they have a keyed calculation id, and no two share it.
KeyedRows ==
    /\ \A c \in AnyCalc : Exists(c) => (execution[c].key # NoKey <=> c \in KeyedCalc)
    /\ \A c, d \in AnyCalc : execution[c].key # NoKey /\ execution[c].key = execution[d].key => c = d

\* A request under a key holds the row of that key.
HoldsItsKey ==
    \A p \in Submitter : pc[p] \in Holding /\ want[p].key # NoKey =>
        execution[got[p].calc].key = want[p].key /\ execution[got[p].calc].request = want[p].request

\* A job under a key has its execution and that execution's request; an
\* execution under a key is only settled by its job.
KeyedJobs ==
    \A c \in KeyedCalc :
        /\ queue[c] # NoRequest => Exists(c) /\ execution[c].request = queue[c]
        /\ execution[c].status = "settled" => queue[c] # NoRequest

\* The owner of a row: the request that created it, while it may still delete
\* or settle it.
Owner(p) ==
    \/ pc[p] \in {"start_stage", "register_job", "complete_stage"} \cup Rollbacks /\ got[p].created
    \/ pc[p] \in {"resolve", "promote_job", "promote_contract"}

Owners ==
    /\ \A p \in Submitter : Owner(p) =>
          Exists(got[p].calc) /\ execution[got[p].calc].request = got[p].request
    /\ \A p, q \in Submitter : Owner(p) /\ Owner(q) /\ got[p].calc = got[q].calc => p = q

\* Control states that come after the job was registered.
JobFirst ==
    \A p \in Submitter :
        \/ pc[p] \in {"complete_stage", "heal_stage", "promote_contract"}
        \/ pc[p] = "start_stage" /\ ~got[p].created
        => queue[got[p].calc] = got[p].request

\* An execution of a stateful request was made asynchronous with its job queued.
PromotedIsQueued ==
    \A c \in Calc :
        execution[c].mode = "async" /\ execution[c].request \in StatefulRequest
            => queue[c] = execution[c].request

FencingInv ==
    /\ TypeInv /\ Lanes /\ HoldsOwnRequest
    /\ KeyedRows /\ HoldsItsKey /\ KeyedJobs
    /\ Owners /\ JobFirst /\ PromotedIsQueued
    /\ AcceptedRequestIsQueued

\* Without a store error there is no rollback, and what a request holds exists.
NoErrorInv ==
    errors = 0 =>
        /\ \A p \in Submitter : pc[p] \notin Rollbacks
        /\ \A p \in Submitter : pc[p] \in Holding =>
              Exists(got[p].calc) /\ execution[got[p].calc].request = got[p].request
        /\ \A c \in AnyCalc :
              execution[c].status = "settled" /\ (c \in KeyedCalc \/ execution[c].request \notin StatefulRequest)
                  => queue[c] # NoRequest

\* A request that is going to complete the submission stage of its execution.
Settling(p) ==
    \/ pc[p] \in {"start_stage", "complete_stage", "promote_contract"}
    \/ pc[p] = "register_job" /\ got[p].created

\* A stage that is not complete yet has somebody to complete it.
StageWork ==
    /\ \A p \in Submitter :
          errors = 0 /\ (pc[p] = "complete_stage" \/ (pc[p] = "register_job" /\ got[p].created))
              => execution[got[p].calc].stage # "none"
    /\ errors = 0 /\ cutoffs = 0 =>
          \A c \in AnyCalc :
              Exists(c) /\ (execution[c].mode = "async" \/ queue[c] # NoRequest)
                  => \/ execution[c].stage = "complete"
                     \/ \E p \in Submitter : Settling(p) /\ got[p].calc = c

-----------------------------------------------------------------------------
(* Steps on a row that exists.                                             *)

\* The rows of the registry, their requests and their keys.
RowsKept ==
    \A c \in AnyCalc :
        /\ execution'[c].request = execution[c].request
        /\ execution'[c].key = execution[c].key
        /\ execution'[c].status = "none" <=> execution[c].status = "none"

\* Changing the stage, the status or the mode of a row that exists.
LEMMA RowUpdate ==
    ASSUME TypeInv, NEW c \in AnyCalc, Exists(c), NEW x,
           execution' = [execution EXCEPT ![c] = x],
           \/ \E s \in {"in_progress", "complete"} : x = [execution[c] EXCEPT !.stage = s]
           \/ x = [execution[c] EXCEPT !.status = "settled"]
           \/ x = [execution[c] EXCEPT !.mode = "async"]
    PROVE  execution' \in [AnyCalc -> Execution] /\ RowsKept
  <1>1. execution[c] \in Execution /\ execution[c] # NoExecution
    BY DEF TypeInv, Exists, NoExecution
  <1>2. /\ x \in Execution /\ x.request = execution[c].request /\ x.key = execution[c].key
        /\ x.status # "none"
    BY <1>1 DEF Exists, Execution, NoExecution
  <1> QED BY <1>2 DEF TypeInv, Exists, RowsKept

\* The states in which the job must be there already.
NeedsJob(p, l) ==
    \/ l \in {"complete_stage", "heal_stage", "promote_contract"}
    \/ l = "start_stage" /\ ~got[p].created
    \/ l = "accepted" /\ (want[p].key # NoKey \/ IsResolvedFirst(want[p]))

\* A request may go on at l.
Legal(p, l) ==
    /\ l \in Holding => pc[p] \in Holding
    /\ l # "idle" /\ pc[p] # "idle"
    /\ l \in StatefulOnly => IsResolvedFirst(want[p])
    /\ l \in AsyncOnly => ~IsResolvedFirst(want[p])
    /\ l \in Rollbacks => got[p].created /\ want[p].key = NoKey
    /\ \/ l \in {"start_stage", "register_job", "complete_stage"} \cup Rollbacks /\ got[p].created
       \/ l \in {"resolve", "promote_job", "promote_contract"}
       => Owner(p)
    /\ NeedsJob(p, l) => queue[got[p].calc] = got[p].request

\* A step that moves a request and touches stages, statuses and modes only.
LEMMA RowStep ==
    ASSUME FencingInv, NEW p \in Submitter, NEW l \in Control, Legal(p, l), Goto(p, l),
           UNCHANGED <<queue, done, want, got, begun>>,
           errors' \in 0..MaxErrors, cutoffs' \in 0..MaxCutOffs,
           execution' \in [AnyCalc -> Execution], RowsKept,
           \A c \in Calc : execution'[c].mode = "async" =>
               execution[c].mode = "async" \/ queue[c] = execution[c].request,
           \A c \in KeyedCalc : execution'[c].status = "settled" =>
               execution[c].status = "settled" \/ queue[c] # NoRequest
    PROVE  FencingInv'
  <1>1. pc'[p] = l /\ \A q \in Submitter : q # p => pc'[q] = pc[q]
    BY DEF Goto, FencingInv, TypeInv
  <1>2. TypeInv'
    BY <1>1 DEF FencingInv, TypeInv, Goto, Legal
  <1>3. Lanes' /\ HoldsOwnRequest'
    BY <1>1 DEF FencingInv, Lanes, HoldsOwnRequest, Legal
  <1>4. KeyedRows' /\ KeyedJobs'
    BY DEF FencingInv, KeyedRows, KeyedJobs, RowsKept, Exists, AnyCalc
  <1>5. \A q \in Submitter : pc[q] \in Holding => got[q].calc \in AnyCalc
    BY DEF FencingInv, TypeInv, Got
  <1>6. HoldsItsKey'
    BY <1>1, <1>5 DEF FencingInv, HoldsItsKey, RowsKept, Legal
  <1>7. \A q \in Submitter : Owner(q)' => Owner(q) /\ pc[q] \in Holding
    BY <1>1 DEF Owner, Legal, Holding, Control, Rollbacks
  <1>8. Owners'
    BY <1>5, <1>7 DEF FencingInv, Owners, RowsKept, Exists
  <1>9. JobFirst' /\ AcceptedRequestIsQueued'
    BY <1>1 DEF FencingInv, JobFirst, AcceptedRequestIsQueued, HoldsOwnRequest, Legal, NeedsJob,
                Holding, Control
  <1>10. PromotedIsQueued'
    BY DEF FencingInv, PromotedIsQueued, RowsKept, AnyCalc
  <1> QED BY <1>2, <1>3, <1>4, <1>6, <1>8, <1>9, <1>10 DEF FencingInv

-----------------------------------------------------------------------------
(* Steps by which a request comes to hold a row.                           *)

\* A request that did not hold a calculation holds one that exists.
LEMMA HoldStep ==
    ASSUME FencingInv, NEW p \in Submitter, NEW l \in {"accepted", "register_job"}, NEW g \in Got,
           pc[p] \in {"lookup", "find_promoted"}, Goto(p, l), got' = [got EXCEPT ![p] = g],
           UNCHANGED <<execution, queue, done, want, begun, errors, cutoffs>>,
           ~g.created, g.request = want[p].request, g.calc \in CalcFor(want[p].key),
           l = "register_job" => pc[p] = "lookup",
           want[p].key # NoKey => /\ execution[g.calc].key = want[p].key
                                  /\ execution[g.calc].request = want[p].request,
           l = "accepted" /\ (want[p].key # NoKey \/ IsResolvedFirst(want[p]))
               => queue[g.calc] = want[p].request
    PROVE  FencingInv'
  <1>1. /\ pc'[p] = l /\ got'[p] = g
        /\ \A q \in Submitter : q # p => pc'[q] = pc[q] /\ got'[q] = got[q]
    BY DEF Goto, FencingInv, TypeInv
  <1>2. pc'[p] \in Control /\ pc'[p] # "idle" /\ pc[p] # "idle" /\ pc'[p] \in Holding
    BY <1>1 DEF Control, Holding
  <1>3. TypeInv'
    BY <1>1, <1>2 DEF FencingInv, TypeInv, Goto
  <1>4. Lanes' /\ HoldsOwnRequest'
    BY <1>1, <1>2 DEF FencingInv, Lanes, HoldsOwnRequest, StatefulOnly, AsyncOnly, Rollbacks
  <1>5. KeyedRows' /\ KeyedJobs' /\ PromotedIsQueued'
    BY DEF FencingInv, KeyedRows, KeyedJobs, PromotedIsQueued, Exists
  <1>6. HoldsItsKey'
    BY <1>1 DEF FencingInv, HoldsItsKey
  <1>7. ~Owner(p)' /\ \A q \in Submitter : q # p => Owner(q)' = Owner(q)
    BY <1>1 DEF Owner, Rollbacks
  <1>8. Owners'
    BY <1>1, <1>7 DEF FencingInv, Owners, Exists
  <1>9. JobFirst' /\ AcceptedRequestIsQueued'
    BY <1>1 DEF FencingInv, JobFirst, AcceptedRequestIsQueued
  <1> QED BY <1>3, <1>4, <1>5, <1>6, <1>8, <1>9 DEF FencingInv

\* A request creates the row of a calculation that has none, and owns it.
LEMMA CreateStep ==
    ASSUME FencingInv, NEW p \in Submitter, NEW l \in {"start_stage", "resolve"}, NEW g \in Got,
           NEW x \in Execution,
           pc[p] = IF l = "resolve" THEN "register_sync" ELSE "register",
           Goto(p, l), got' = [got EXCEPT ![p] = g],
           execution' = [execution EXCEPT ![want[p].calc] = x],
           UNCHANGED <<queue, done, want, begun, errors, cutoffs>>,
           ~Exists(want[p].calc),
           want[p].key # NoKey => \A c \in AnyCalc : execution[c].key # want[p].key,
           x.request = want[p].request, x.key = want[p].key, x.status = "pending",
           x.mode = IF l = "resolve" THEN "sync" ELSE "async",
           g.calc = want[p].calc, g.request = want[p].request, g.created <=> l = "start_stage"
    PROVE  FencingInv'
  <1>1. /\ pc'[p] = l /\ got'[p] = g
        /\ \A q \in Submitter : q # p => pc'[q] = pc[q] /\ got'[q] = got[q]
    BY DEF Goto, FencingInv, TypeInv
  <1>2. /\ pc'[p] \in Control /\ pc'[p] # "idle" /\ pc[p] # "idle" /\ pc'[p] \in Holding
        /\ want[p] \in Want /\ want[p].calc \in CalcFor(want[p].key)
        /\ l = "resolve" <=> IsResolvedFirst(want[p])
    BY <1>1 DEF Control, Holding, FencingInv, TypeInv, Lanes, StatefulOnly, AsyncOnly
  <1>3. /\ execution'[want[p].calc] = x
        /\ \A c \in AnyCalc : c # want[p].calc => execution'[c] = execution[c]
        /\ want[p].calc \in AnyCalc
    BY <1>2 DEF FencingInv, TypeInv, Want
  <1>4. TypeInv'
    BY <1>1, <1>2 DEF FencingInv, TypeInv, Goto
  <1>5. Lanes' /\ HoldsOwnRequest'
    BY <1>1, <1>2 DEF FencingInv, Lanes, HoldsOwnRequest, StatefulOnly, AsyncOnly, Rollbacks
  <1>6. x.key # NoKey <=> want[p].calc \in KeyedCalc
    BY <1>2, SubmissionAssumption DEF CalcFor
  <1>7. KeyedRows'
    BY <1>3, <1>6 DEF FencingInv, KeyedRows, Exists
  <1>8. \A q \in Submitter : pc[q] \in Holding => got[q].calc \in AnyCalc
    BY DEF FencingInv, TypeInv, Got
  <1>9. execution[want[p].calc].key = NoKey
    BY <1>3 DEF FencingInv, TypeInv, Execution, NoExecution, Exists
  <1>10. HoldsItsKey'
    BY <1>1, <1>2, <1>3, <1>8, <1>9 DEF FencingInv, HoldsItsKey
  <1>11. queue[want[p].calc] = NoRequest \/ want[p].calc \notin KeyedCalc
    BY DEF FencingInv, KeyedJobs
  <1>12. KeyedJobs'
    BY <1>3, <1>11 DEF FencingInv, KeyedJobs, Exists, AnyCalc
  <1>13. \A q \in Submitter : q # p /\ Owner(q)' => /\ Owner(q) /\ got[q].calc \in AnyCalc
                                                 /\ got[q].calc # want[p].calc
    BY <1>1, <1>8 DEF FencingInv, Owners, Owner, Holding, Control, Rollbacks
  <1>14. Owners'
    BY <1>1, <1>3, <1>13 DEF FencingInv, Owners, Exists
  <1>15. JobFirst' /\ AcceptedRequestIsQueued'
    BY <1>1 DEF FencingInv, JobFirst, AcceptedRequestIsQueued
  <1>16. PromotedIsQueued'
    BY <1>2, <1>3, SubmissionAssumption DEF FencingInv, PromotedIsQueued, AnyCalc, CalcFor, IsResolvedFirst
  <1> QED BY <1>4, <1>5, <1>7, <1>10, <1>12, <1>14, <1>15, <1>16 DEF FencingInv

-----------------------------------------------------------------------------
(* Steps that register a job, and the rollback.                            *)

\* The job of the calculation a request holds is registered, or was already.
LEMMA JobStep ==
    ASSUME FencingInv, NEW p \in Submitter, NEW l \in Control,
           pc[p] \in {"register_job", "promote_job"}, Goto(p, l),
           queue[got[p].calc] \in {NoRequest, got[p].request},
           queue' = [queue EXCEPT ![got[p].calc] = got[p].request],
           UNCHANGED <<execution, done, want, got, begun, cutoffs>>, errors' \in 0..MaxErrors,
           l \in {"start_stage", "complete_stage", "heal_stage", "error"} \cup Rollbacks => pc[p] = "register_job",
           l \in {"promote_contract", "fail_error"} => pc[p] = "promote_job",
           l \in Rollbacks \cup {"complete_stage"} => got[p].created,
           l \in Rollbacks => want[p].key = NoKey,
           l = "start_stage" => ~got[p].created,
           l \in {"start_stage", "complete_stage", "heal_stage", "error", "promote_contract", "fail_error"} \cup Rollbacks
    PROVE  FencingInv'
  <1>1. /\ pc'[p] = l /\ \A q \in Submitter : q # p => pc'[q] = pc[q]
        /\ pc[p] \in Holding /\ l # "idle" /\ pc[p] # "idle"
    BY DEF Goto, FencingInv, TypeInv, Holding, Control, Rollbacks
  <1>2. got[p].calc \in AnyCalc /\ got[p].request \in Request
    BY <1>1 DEF FencingInv, TypeInv, Got
  <1>3. /\ queue'[got[p].calc] = got[p].request
        /\ \A c \in AnyCalc : queue[c] # NoRequest => queue'[c] = queue[c]
        /\ \A c \in AnyCalc : queue'[c] = queue[c] \/ c = got[p].calc
    BY <1>2 DEF FencingInv, TypeInv
  <1>4. TypeInv'
    BY <1>1, <1>2, <1>3, SubmissionAssumption DEF FencingInv, TypeInv, Goto
  <1>5. Lanes' /\ HoldsOwnRequest' /\ HoldsItsKey' /\ KeyedRows'
    BY <1>1 DEF FencingInv, Lanes, HoldsOwnRequest, HoldsItsKey, KeyedRows, Exists,
                StatefulOnly, AsyncOnly, Rollbacks, Holding, Control
  <1>6. KeyedJobs'
    <2>1. got[p].calc \in KeyedCalc => /\ Exists(got[p].calc)
                                       /\ execution[got[p].calc].request = got[p].request
      BY <1>1, <1>2, SubmissionAssumption
         DEF FencingInv, TypeInv, HoldsOwnRequest, HoldsItsKey, CalcFor, Exists, Execution, NoExecution
    <2> QED BY <1>3, <2>1 DEF FencingInv, KeyedJobs, AnyCalc, Exists
  <1>7. \A q \in Submitter : Owner(q)' => Owner(q)
    BY <1>1 DEF Owner, Rollbacks
  <1>8. Owners'
    BY <1>7 DEF FencingInv, Owners, Exists
  <1>9. \A q \in Submitter : pc[q] \in Holding =>
            got[q].calc \in AnyCalc /\ got[q].request # NoRequest /\ got[q].request = want[q].request
    BY SubmissionAssumption DEF FencingInv, TypeInv, Got, HoldsOwnRequest
  <1>10. JobFirst' /\ AcceptedRequestIsQueued'
    BY <1>1, <1>3, <1>9 DEF FencingInv, JobFirst, AcceptedRequestIsQueued, Holding, Control, Rollbacks
  <1>11. PromotedIsQueued'
    BY <1>3, SubmissionAssumption DEF FencingInv, PromotedIsQueued, AnyCalc
  <1> QED BY <1>4, <1>5, <1>6, <1>8, <1>10, <1>11 DEF FencingInv

\* A rollback deletes a row that only the request rolling back can delete.
LEMMA RollbackInv ==
    ASSUME FencingInv, NEW p \in Submitter, Rollback(p)
    PROVE  FencingInv'
  <1>1. /\ pc'[p] \in {"conflict", "error"} /\ \A q \in Submitter : q # p => pc'[q] = pc[q]
        /\ pc[p] \in Holding /\ pc[p] # "idle" /\ Owner(p)
        /\ got[p].calc \in Calc /\ got[p].calc \in AnyCalc
    BY DEF Rollback, Goto, FencingInv, TypeInv, Lanes, HoldsOwnRequest, CalcFor, Owner, Got, Rollbacks,
           Holding, Control
  <1>2. /\ execution'[got[p].calc] = NoExecution
        /\ \A c \in AnyCalc : c # got[p].calc => execution'[c] = execution[c]
    BY <1>1 DEF Rollback, FencingInv, TypeInv
  <1>3. TypeInv'
    BY <1>1 DEF Rollback, FencingInv, TypeInv, Goto, Holding, Control, Execution
  <1>4. Lanes' /\ HoldsOwnRequest'
    BY <1>1 DEF Rollback, FencingInv, Lanes, HoldsOwnRequest, StatefulOnly, AsyncOnly, Rollbacks, Holding
  <1>5. got[p].calc \notin KeyedCalc
    BY <1>1, SubmissionAssumption
  <1>6. KeyedRows' /\ KeyedJobs'
    BY <1>2, <1>5 DEF Rollback, FencingInv, KeyedRows, KeyedJobs, Exists, NoExecution, AnyCalc
  <1>7. HoldsItsKey'
    BY <1>1, <1>2, <1>5 DEF Rollback, FencingInv, HoldsItsKey, HoldsOwnRequest, CalcFor, AnyCalc, Holding
  <1>8. \A q \in Submitter : Owner(q)' => Owner(q) /\ q # p /\ got[q].calc \in AnyCalc
    BY <1>1 DEF Rollback, FencingInv, TypeInv, Got, Owner, Rollbacks, Holding, Control
  <1>9. Owners'
    BY <1>1, <1>2, <1>8 DEF Rollback, FencingInv, Owners, Exists
  <1>10. JobFirst' /\ AcceptedRequestIsQueued'
    BY <1>1 DEF Rollback, FencingInv, JobFirst, AcceptedRequestIsQueued
  <1>11. PromotedIsQueued'
    BY <1>2, SubmissionAssumption DEF Rollback, FencingInv, PromotedIsQueued, NoExecution, AnyCalc
  <1> QED BY <1>3, <1>4, <1>6, <1>7, <1>9, <1>10, <1>11 DEF FencingInv

-----------------------------------------------------------------------------
(* The actions.                                                            *)

LEMMA FencingInit == Init => FencingInv
  <1> SUFFICES ASSUME Init PROVE FencingInv
    OBVIOUS
  <1>1. TypeInv
    BY SubmissionAssumption DEF Init, TypeInv, Execution, NoExecution, NoWant, Holding, Control
  <1>2. Lanes /\ HoldsOwnRequest /\ HoldsItsKey /\ Owners /\ JobFirst /\ AcceptedRequestIsQueued
    BY DEF Init, Lanes, HoldsOwnRequest, HoldsItsKey, Owners, Owner, JobFirst, AcceptedRequestIsQueued,
           Holding, StatefulOnly, AsyncOnly, Rollbacks
  <1>3. KeyedRows /\ KeyedJobs /\ PromotedIsQueued
    BY SubmissionAssumption DEF Init, KeyedRows, KeyedJobs, PromotedIsQueued, NoExecution, Exists, AnyCalc
  <1> QED BY <1>1, <1>2, <1>3 DEF FencingInv

\* A request is sent, for the first time or again.
LEMMA SendInv ==
    ASSUME FencingInv, NEW p \in Submitter, NEW w \in Want, w.calc \in CalcFor(w.key), Send(p, w),
           pc[p] \in AtRest \cup {"error"},
           UNCHANGED <<execution, queue, done, errors, cutoffs>>, begun' \in 0..MaxSubmissions
    PROVE  FencingInv'
  <1>1. /\ want'[p] = w /\ pc'[p] = IF IsResolvedFirst(w) THEN "find_promoted" ELSE "register"
        /\ \A q \in Submitter : q # p => pc'[q] = pc[q] /\ want'[q] = want[q] /\ got'[q] = got[q]
    BY DEF Send, Goto, FencingInv, TypeInv
  <1>2. pc'[p] \notin Holding /\ pc'[p] # "idle" /\ pc'[p] \in Control /\ pc'[p] # "accepted"
    BY <1>1 DEF Holding, Control
  <1>3. TypeInv'
    BY <1>1, <1>2 DEF Send, Goto, FencingInv, TypeInv
  <1>4. Lanes' /\ HoldsOwnRequest' /\ HoldsItsKey'
    BY <1>1, <1>2 DEF FencingInv, Lanes, HoldsOwnRequest, HoldsItsKey, StatefulOnly, AsyncOnly, Rollbacks
  <1>5. KeyedRows' /\ KeyedJobs' /\ PromotedIsQueued'
    BY DEF FencingInv, KeyedRows, KeyedJobs, PromotedIsQueued, Exists
  <1>6. \A q \in Submitter : Owner(q)' => q # p /\ Owner(q)
    BY <1>1 DEF Owner, Rollbacks
  <1>7. Owners'
    BY <1>1, <1>6 DEF FencingInv, Owners, Exists
  <1>8. JobFirst' /\ AcceptedRequestIsQueued'
    BY <1>1, <1>2 DEF FencingInv, JobFirst, AcceptedRequestIsQueued
  <1> QED BY <1>3, <1>4, <1>5, <1>7, <1>8 DEF FencingInv

LEMMA ClientInv ==
    ASSUME FencingInv, NEW p \in Submitter, Begin(p) \/ Retry(p)
    PROVE  FencingInv'
  <1>1. CASE Begin(p)
    <2>1. PICK k \in Key \cup {NoKey}, r \in Request : \E c \in CalcFor(k) :
              Send(p, [calc |-> c, request |-> r, key |-> k])
      BY <1>1 DEF Begin
    <2>2. PICK c \in CalcFor(k) : Send(p, [calc |-> c, request |-> r, key |-> k])
      BY <2>1
    <2> DEFINE w == [calc |-> c, request |-> r, key |-> k]
    <2>3. w \in Want /\ w.calc \in CalcFor(w.key)
      BY DEF Want, CalcFor, AnyCalc
    <2>4. begun' \in 0..MaxSubmissions
      BY <1>1, SubmissionAssumption DEF Begin, FencingInv, TypeInv
    <2> QED BY <1>1, <2>2, <2>3, <2>4, SendInv DEF Begin
  <1>2. CASE Retry(p)
    <2>1. PICK c \in CalcFor(want[p].key) : Send(p, [want[p] EXCEPT !.calc = c])
      BY <1>2 DEF Retry
    <2>2. want[p] \in Want
      BY <1>2 DEF Retry, FencingInv, TypeInv
    <2> DEFINE w == [want[p] EXCEPT !.calc = c]
    <2>3. w \in Want /\ w.calc \in CalcFor(w.key)
      BY <2>2 DEF Want, CalcFor, AnyCalc
    <2> QED BY <1>2, <2>1, <2>3, SendInv DEF Retry, FencingInv, TypeInv
  <1> QED BY <1>1, <1>2

LEMMA RegisterInv ==
    ASSUME FencingInv, NEW p \in Submitter, RegisterExecution(p) \/ RegisterSync(p)
    PROVE  FencingInv'
  <1> DEFINE w == want[p]
             g(b) == [calc |-> w.calc, request |-> w.request, created |-> b]
             x(m) == [request |-> w.request, key |-> w.key, mode |-> m, status |-> "pending", stage |-> "none"]
  <1>1. w \in Want /\ g(TRUE) \in Got /\ g(FALSE) \in Got /\ x("sync") \in Execution /\ x("async") \in Execution
    BY DEF RegisterExecution, RegisterSync, FencingInv, TypeInv, Want, Got, Execution
  <1>2. CASE RegisterExecution(p) /\ Goto(p, "lookup") /\ UNCHANGED <<execution, got>>
    <2>1. Legal(p, "lookup")
      BY <1>2 DEF RegisterExecution, Legal, NeedsJob, FencingInv, Lanes, Holding, StatefulOnly, AsyncOnly, Rollbacks
    <2> QED BY <1>2, <2>1, RowStep DEF RegisterExecution, FencingInv, TypeInv, RowsKept, Control
  <1>3. CASE RegisterExecution(p) /\ ~Exists(w.calc)
             /\ (w.key = NoKey \/ \A c \in AnyCalc : execution[c].key # w.key)
             /\ execution' = [execution EXCEPT ![w.calc] = x("async")]
             /\ got' = [got EXCEPT ![p] = g(TRUE)] /\ Goto(p, "start_stage")
    BY <1>1, <1>3, CreateStep DEF RegisterExecution
  <1>4. CASE RegisterSync(p) /\ Goto(p, "lookup_sync") /\ UNCHANGED <<execution, got>>
    <2>1. Legal(p, "lookup_sync")
      BY <1>4 DEF RegisterSync, Legal, NeedsJob, FencingInv, Lanes, Holding, StatefulOnly, AsyncOnly, Rollbacks
    <2> QED BY <1>4, <2>1, RowStep DEF RegisterSync, FencingInv, TypeInv, RowsKept, Control
  <1>5. CASE RegisterSync(p) /\ ~Exists(w.calc) /\ execution' = [execution EXCEPT ![w.calc] =
                 [request |-> w.request, key |-> NoKey, mode |-> "sync", status |-> "pending", stage |-> "none"]]
             /\ got' = [got EXCEPT ![p] = g(FALSE)] /\ Goto(p, "resolve")
    <2>1. w.key = NoKey
      BY <1>5 DEF RegisterSync, FencingInv, Lanes, StatefulOnly, IsResolvedFirst
    <2> QED BY <1>1, <1>5, <2>1, CreateStep DEF RegisterSync
  <1> QED BY <1>2, <1>3, <1>4, <1>5 DEF RegisterExecution, RegisterSync

\* A duplicate that finds a replay holds a row with its own body, and under a
\* key the row of that key.
LEMMA LookupInv ==
    ASSUME FencingInv, NEW p \in Submitter, LookupExecution(p) \/ FindPromoted(p) \/ LookupSync(p)
    PROVE  FencingInv'
  <1>0. pc[p] \in {"lookup", "find_promoted", "lookup_sync"} /\ want[p] \in Want
        /\ want[p].calc \in CalcFor(want[p].key)
    BY DEF LookupExecution, FindPromoted, LookupSync, FencingInv, TypeInv, Lanes
  <1>1. ASSUME NEW l \in {"error", "conflict", "register_sync"}, Goto(p, l), UNCHANGED got,
               l = "register_sync" => pc[p] = "find_promoted",
               UNCHANGED <<execution, queue, done, want, begun, errors, cutoffs>>
        PROVE  FencingInv'
    <2>1. Legal(p, l) /\ l \in Control
      BY <1>0, <1>1 DEF Legal, NeedsJob, FencingInv, Lanes, Holding, Control, StatefulOnly, AsyncOnly, Rollbacks
    <2> QED BY <1>1, <2>1, RowStep DEF FencingInv, TypeInv, RowsKept
  <1>2. ASSUME LookupExecution(p), NEW c \in Existing(want[p]), IsReplay(want[p], c),
               got' = [got EXCEPT ![p] = [calc |-> c, request |-> execution[c].request, created |-> FALSE]],
               Goto(p, IF IsResolved(c) THEN "accepted" ELSE "register_job")
        PROVE  FencingInv'
    <2> DEFINE g == [calc |-> c, request |-> execution[c].request, created |-> FALSE]
    <2>1. c \in AnyCalc
      BY <1>0 DEF Existing, Want
    <2>2. execution[c].request = want[p].request /\ g \in Got
      BY <1>0, <1>2, <2>1 DEF IsReplay, Want, Got
    <2>3. want[p].key # NoKey => execution[c].key = want[p].key
      BY <1>2 DEF IsReplay
    <2>4. want[p].key # NoKey => Exists(c) /\ c \in KeyedCalc
      BY <2>1, <2>3 DEF FencingInv, TypeInv, KeyedRows, Exists, Execution, NoExecution
    <2>5. want[p].key = NoKey => c = want[p].calc
      BY DEF Existing
    <2>6. c \in CalcFor(want[p].key)
      BY <1>0, <2>4, <2>5 DEF CalcFor
    <2>7. IsResolved(c) /\ want[p].key # NoKey => queue[c] = want[p].request
      BY <2>2, <2>4 DEF IsResolved, FencingInv, KeyedJobs
    <2>8. pc[p] = "lookup" /\ ~IsResolvedFirst(want[p])
      BY <1>2 DEF LookupExecution, FencingInv, Lanes, AsyncOnly
    <2> QED BY <1>2, <2>2, <2>3, <2>6, <2>7, <2>8, HoldStep DEF LookupExecution
  <1>3. ASSUME FindPromoted(p), execution[want[p].calc].mode = "async",
               execution[want[p].calc].request = want[p].request,
               got' = [got EXCEPT ![p] = [calc |-> want[p].calc, request |-> want[p].request, created |-> FALSE]],
               Goto(p, "accepted")
        PROVE  FencingInv'
    <2> DEFINE g == [calc |-> want[p].calc, request |-> want[p].request, created |-> FALSE]
    <2>1. g \in Got
      BY <1>0 DEF Want, Got
    <2>2. IsResolvedFirst(want[p]) /\ pc[p] = "find_promoted"
      BY <1>3 DEF FindPromoted, FencingInv, Lanes, StatefulOnly
    <2>3. want[p].key = NoKey /\ queue[want[p].calc] = want[p].request
      BY <1>0, <1>3, <2>2 DEF IsResolvedFirst, CalcFor, FencingInv, PromotedIsQueued
    <2> QED BY <1>0, <1>3, <2>1, <2>2, <2>3, HoldStep DEF FindPromoted
  <1>4. CASE LookupExecution(p)
    BY <1>1, <1>2, <1>4 DEF LookupExecution
  <1>5. CASE FindPromoted(p)
    BY <1>1, <1>3, <1>5 DEF FindPromoted
  <1>6. CASE LookupSync(p)
    BY <1>1, <1>6 DEF LookupSync
  <1> QED BY <1>4, <1>5, <1>6

\* What a request at work holds.
LEMMA HoldingTypes ==
    ASSUME FencingInv, NEW p \in Submitter, pc[p] \in Holding
    PROVE  got[p].calc \in AnyCalc /\ got[p].request \in Request /\ pc[p] # "idle"
           /\ (IsResolvedFirst(want[p]) => got[p].calc \notin KeyedCalc)
  BY SubmissionAssumption DEF FencingInv, TypeInv, Got, HoldsOwnRequest, CalcFor, IsResolvedFirst,
                              Holding, Control

LEMMA RegisterJobInv ==
    ASSUME FencingInv, NEW p \in Submitter,
           RegisterJob(p) \/ RegisterJobRaises(p) \/ PromoteJob(p) \/ PromotionRaises(p)
    PROVE  FencingInv'
  <1>1. /\ pc[p] \in {"register_job", "promote_job", "promote_contract", "start_stage", "complete_stage"}
        /\ pc[p] \in Holding /\ errors' \in 0..MaxErrors
    BY SubmissionAssumption DEF RegisterJob, RegisterJobRaises, PromoteJob, PromotionRaises, Holding, Control,
           FencingInv, TypeInv
  <1>2. /\ RegisterJob(p) \/ RegisterJobRaises(p) => pc[p] = "register_job"
        /\ PromoteJob(p) => pc[p] = "promote_job"
        /\ PromotionRaises(p) => IsResolvedFirst(want[p])
        /\ pc[p] = "register_job" => ~IsResolvedFirst(want[p])
        /\ pc[p] = "promote_job" => IsResolvedFirst(want[p])
    BY DEF RegisterJob, RegisterJobRaises, PromoteJob, PromotionRaises, FencingInv, Lanes, AsyncOnly, StatefulOnly
  <1>3. /\ got[p].calc \in AnyCalc /\ got[p].request \in Request /\ pc[p] # "idle"
    BY <1>1, HoldingTypes
  \* The job is there after the step.
  <1>4. ASSUME queue[got[p].calc] \in {NoRequest, got[p].request},
               queue' = [queue EXCEPT ![got[p].calc] = got[p].request],
               pc[p] \in {"register_job", "promote_job"},
               NEW l \in {"start_stage", "complete_stage", "heal_stage", "error", "promote_contract", "fail_error"} \cup Rollbacks,
               Goto(p, l),
               l \in {"start_stage", "complete_stage", "heal_stage", "error"} \cup Rollbacks => pc[p] = "register_job",
               l \in {"promote_contract", "fail_error"} => pc[p] = "promote_job",
               l \in Rollbacks \cup {"complete_stage"} => got[p].created,
               l \in Rollbacks => want[p].key = NoKey,
               l = "start_stage" => ~got[p].created,
               UNCHANGED <<execution, done, want, got, begun, cutoffs>>
        PROVE  FencingInv'
    BY <1>1, <1>4, JobStep DEF Control, Rollbacks
  \* The job is not registered.
  <1>5. ASSUME UNCHANGED queue,
               NEW l \in {"conflict", "error", "fail_error", "fail_conflict"} \cup Rollbacks, Goto(p, l),
               l \in Rollbacks => got[p].created /\ want[p].key = NoKey /\ pc[p] = "register_job",
               l \in {"fail_error", "fail_conflict"} => IsResolvedFirst(want[p]),
               UNCHANGED <<execution, done, want, got, begun, cutoffs>>
        PROVE  FencingInv'
    <2>1. Legal(p, l) /\ l \in Control
      BY <1>1, <1>2, <1>3, <1>5 DEF Legal, NeedsJob, Holding, Control, StatefulOnly, AsyncOnly, Rollbacks, Owner
    <2> QED BY <1>1, <1>5, <2>1, RowStep DEF FencingInv, TypeInv, RowsKept
  <1>6. AfterFailure(p, "conflict") \in {"conflict", "rollback_conflict"}
        /\ (AfterFailure(p, "conflict") \in Rollbacks => got[p].created /\ want[p].key = NoKey)
    BY DEF AfterFailure, Rollbacks
  <1>7. AfterFailure(p, "error") \in {"error", "rollback_error"}
        /\ (AfterFailure(p, "error") \in Rollbacks => got[p].created /\ want[p].key = NoKey)
    BY DEF AfterFailure, Rollbacks
  <1>8. queue[got[p].calc] = got[p].request /\ UNCHANGED queue => queue' = [queue EXCEPT ![got[p].calc] = got[p].request]
    BY <1>3 DEF FencingInv, TypeInv
  <1>9. CASE RegisterJob(p)
    BY <1>2, <1>4, <1>5, <1>6, <1>8, <1>9 DEF RegisterJob, Rollbacks
  <1>10. CASE RegisterJobRaises(p)
    BY <1>2, <1>4, <1>5, <1>7, <1>10 DEF RegisterJobRaises, Rollbacks
  <1>11. CASE PromoteJob(p)
    BY <1>2, <1>4, <1>5, <1>11 DEF PromoteJob, Rollbacks
  <1>12. CASE PromotionRaises(p)
    BY <1>2, <1>4, <1>5, <1>12 DEF PromotionRaises, Rollbacks
  <1> QED BY <1>9, <1>10, <1>11, <1>12

\* The submission stage, the promotion and the failure of an execution.
LEMMA StageInv ==
    ASSUME FencingInv, NEW p \in Submitter,
           StartStage(p) \/ CompleteStage(p) \/ HealStage(p) \/ Resolve(p) \/ PromoteContract(p) \/ RecordFailure(p)
    PROVE  FencingInv'
  <1> DEFINE c == got[p].calc
  <1>1. pc[p] \in Holding
    BY DEF StartStage, CompleteStage, HealStage, Resolve, PromoteContract, RecordFailure, Holding, Control
  <1>2. c \in AnyCalc /\ pc[p] # "idle" /\ (IsResolvedFirst(want[p]) => c \notin KeyedCalc) /\ TypeInv
    BY <1>1, HoldingTypes DEF FencingInv
  <1>3. ASSUME NEW l \in Control, Legal(p, l), Goto(p, l), UNCHANGED <<queue, done, want, got, begun, errors, cutoffs>>,
               \/ UNCHANGED execution
               \/ Exists(c) /\ \E s \in {"in_progress", "complete"} : execution' = [execution EXCEPT ![c].stage = s]
               \/ Exists(c) /\ c \notin KeyedCalc /\ execution' = [execution EXCEPT ![c].status = "settled"]
               \/ /\ Exists(c) /\ queue[c] = execution[c].request
                  /\ execution' = [execution EXCEPT ![c].mode = "async"]
        PROVE  FencingInv'
    <2>1. CASE UNCHANGED execution
      BY <1>2, <1>3, <2>1, RowStep DEF TypeInv, RowsKept
    <2>2. CASE Exists(c) /\ \E s \in {"in_progress", "complete"} : execution' = [execution EXCEPT ![c].stage = s]
      <3>1. PICK s \in {"in_progress", "complete"} : execution' = [execution EXCEPT ![c].stage = s]
        BY <2>2
      <3>2. execution' \in [AnyCalc -> Execution] /\ RowsKept
        BY <1>2, <2>2, <3>1, RowUpdate
      <3>3. \A d \in AnyCalc : execution'[d].mode = execution[d].mode /\ execution'[d].status = execution[d].status
        BY <1>2, <2>2, <3>1 DEF TypeInv, Exists, Execution, NoExecution
      <3> QED BY <1>2, <1>3, <3>2, <3>3, RowStep DEF TypeInv, AnyCalc
    <2>3. CASE Exists(c) /\ c \notin KeyedCalc /\ execution' = [execution EXCEPT ![c].status = "settled"]
      <3>1. execution' \in [AnyCalc -> Execution] /\ RowsKept
        BY <1>2, <2>3, RowUpdate
      <3>2. \A d \in AnyCalc : execution'[d].mode = execution[d].mode /\ (d # c => execution'[d].status = execution[d].status)
        BY <1>2, <2>3 DEF TypeInv, Exists, Execution, NoExecution
      <3> QED BY <1>2, <1>3, <2>3, <3>1, <3>2, RowStep DEF TypeInv, AnyCalc
    <2>4. CASE Exists(c) /\ queue[c] = execution[c].request /\ execution' = [execution EXCEPT ![c].mode = "async"]
      <3>1. execution' \in [AnyCalc -> Execution] /\ RowsKept
        BY <1>2, <2>4, RowUpdate
      <3>2. \A d \in AnyCalc : execution'[d].status = execution[d].status /\ (d # c => execution'[d].mode = execution[d].mode)
        BY <1>2, <2>4 DEF TypeInv, Exists, Execution, NoExecution
      <3> QED BY <1>2, <1>3, <2>4, <3>1, <3>2, RowStep DEF TypeInv, AnyCalc
    <2> QED BY <1>3, <2>1, <2>2, <2>3, <2>4
  <1>4. CASE StartStage(p)
    <2>1. Legal(p, "error") /\ Legal(p, IF got[p].created THEN "register_job" ELSE "complete_stage")
      BY <1>1, <1>2, <1>4 DEF StartStage, Legal, NeedsJob, Owner, Holding, Control, Rollbacks, StatefulOnly, AsyncOnly,
                              FencingInv, Lanes, JobFirst
    <2> QED BY <1>3, <1>4, <2>1 DEF StartStage, Control
  <1>5. CASE CompleteStage(p)
    <2>1. Legal(p, "error") /\ Legal(p, "accepted")
      BY <1>1, <1>2, <1>5 DEF CompleteStage, Legal, NeedsJob, Holding, Control, Rollbacks, StatefulOnly, AsyncOnly,
                              FencingInv, JobFirst
    <2>2. execution[c].stage # "none" => Exists(c)
      BY <1>2 DEF TypeInv, Exists, Execution, NoExecution
    <2> QED BY <1>3, <1>5, <2>1, <2>2 DEF CompleteStage, Control
  <1>6. CASE HealStage(p)
    <2>1. Legal(p, "error") /\ Legal(p, "accepted")
      BY <1>1, <1>2, <1>6 DEF HealStage, Legal, NeedsJob, Holding, Control, Rollbacks, StatefulOnly, AsyncOnly,
                              FencingInv, JobFirst
    <2>2. execution[c].stage = "in_progress" => Exists(c)
      BY <1>2 DEF TypeInv, Exists, Execution, NoExecution
    <2> QED BY <1>3, <1>6, <2>1, <2>2 DEF HealStage, Control
  <1>7. CASE Resolve(p)
    <2>1. IsResolvedFirst(want[p]) /\ Owner(p) /\ Exists(c)
      BY <1>7 DEF Resolve, FencingInv, Lanes, StatefulOnly, Owners, Owner
    <2>2. Legal(p, "promote_job") /\ Legal(p, "answered") /\ Legal(p, "fail_error")
      BY <1>1, <1>2, <2>1 DEF Legal, NeedsJob, Holding, Control, Rollbacks, StatefulOnly, AsyncOnly
    <2> QED BY <1>2, <1>3, <1>7, <2>1, <2>2 DEF Resolve, Settle, Control
  <1>8. CASE PromoteContract(p)
    <2>1. /\ IsResolvedFirst(want[p]) /\ Owner(p)
          /\ queue[c] = got[p].request /\ execution[c].request = got[p].request /\ ~got[p].created
      BY <1>1, <1>8 DEF PromoteContract, FencingInv, Lanes, StatefulOnly, Owners, Owner, JobFirst
    <2>2. Legal(p, "start_stage") /\ Legal(p, "error")
      BY <1>1, <1>2, <2>1 DEF Legal, NeedsJob, Holding, Control, Rollbacks, StatefulOnly, AsyncOnly
    <2> QED BY <1>3, <1>8, <2>1, <2>2 DEF PromoteContract, Control
  <1>9. CASE RecordFailure(p)
    <2>1. IsResolvedFirst(want[p])
      BY <1>9 DEF RecordFailure, FencingInv, Lanes, StatefulOnly
    <2>2. Legal(p, "conflict") /\ Legal(p, "error")
      BY <1>1, <1>2, <2>1 DEF Legal, NeedsJob, Holding, Control, Rollbacks, StatefulOnly, AsyncOnly
    <2> QED BY <1>2, <1>3, <1>9, <2>1, <2>2 DEF RecordFailure, Settle, Control
  <1> QED BY <1>4, <1>5, <1>6, <1>7, <1>8, <1>9

LEMMA CutOffInv ==
    ASSUME FencingInv, NEW p \in Submitter, CutOff(p)
    PROVE  FencingInv'
  <1>1. Legal(p, "error") /\ cutoffs' \in 0..MaxCutOffs
    BY SubmissionAssumption DEF CutOff, Legal, NeedsJob, Holding, StatefulOnly, AsyncOnly, Rollbacks, AtRest,
                                FencingInv, TypeInv
  <1> QED BY <1>1, RowStep DEF CutOff, FencingInv, TypeInv, RowsKept, Control

\* The executor settles an execution whose job was queued.
LEMMA RunJobInv ==
    ASSUME FencingInv, NEW c \in AnyCalc, RunJob(c)
    PROVE  FencingInv'
  <1>1. /\ execution' \in [AnyCalc -> Execution] /\ RowsKept
        /\ \A d \in AnyCalc : /\ execution'[d].mode = execution[d].mode
                              /\ execution'[d].status = execution[d].status \/ queue[d] # NoRequest
    <2>1. CASE UNCHANGED execution
      BY <2>1 DEF FencingInv, TypeInv, RowsKept
    <2>2. CASE Exists(c) /\ execution' = [execution EXCEPT ![c].status = "settled"]
      <3>1. execution' \in [AnyCalc -> Execution] /\ RowsKept
        BY <2>2, RowUpdate DEF FencingInv
      <3> QED BY <2>2, <3>1 DEF RunJob, FencingInv, TypeInv, Exists, Execution, NoExecution
    <2> QED BY <2>1, <2>2 DEF RunJob
  <1>2. TypeInv'
    BY <1>1 DEF RunJob, FencingInv, TypeInv
  <1>3. Lanes' /\ HoldsOwnRequest' /\ JobFirst' /\ AcceptedRequestIsQueued'
    BY DEF RunJob, FencingInv, Lanes, HoldsOwnRequest, JobFirst, AcceptedRequestIsQueued
  <1>4. KeyedRows' /\ KeyedJobs' /\ PromotedIsQueued'
    BY <1>1 DEF RunJob, FencingInv, KeyedRows, KeyedJobs, PromotedIsQueued, RowsKept, Exists, AnyCalc
  <1>5. \A q \in Submitter : Owner(q)' => Owner(q) /\ pc[q] \in Holding
    BY DEF RunJob, Owner, Holding, Control, Rollbacks
  <1>6. HoldsItsKey' /\ Owners'
    BY <1>1, <1>5, HoldingTypes DEF RunJob, FencingInv, HoldsItsKey, Owners, RowsKept, Exists
  <1> QED BY <1>2, <1>3, <1>4, <1>6 DEF FencingInv

LEMMA FencingNext == FencingInv /\ [Next]_vars => FencingInv'
  <1> SUFFICES ASSUME FencingInv, [Next]_vars PROVE FencingInv'
    OBVIOUS
  <1>1. ASSUME NEW p \in Submitter, Begin(p) \/ CutOff(p) \/ Proceed(p) PROVE FencingInv'
    BY <1>1, ClientInv, CutOffInv, RegisterInv, LookupInv, RegisterJobInv, RollbackInv, StageInv DEF Proceed
  <1>2. ASSUME NEW c \in AnyCalc, RunJob(c) PROVE FencingInv'
    BY <1>2, RunJobInv
  <1>3. CASE UNCHANGED vars
    BY <1>3 DEF vars, FencingInv, TypeInv, Lanes, HoldsOwnRequest, KeyedRows, HoldsItsKey, KeyedJobs, Owners, Owner,
                JobFirst, PromotedIsQueued, AcceptedRequestIsQueued, Exists
  <1> QED BY <1>1, <1>2, <1>3 DEF Next, Finished

LEMMA FencingInvariance == Spec => []FencingInv
  BY FencingInit, FencingNext, PTL DEF Spec

-----------------------------------------------------------------------------
(* Without store errors.                                                   *)

CleanInv == NoErrorInv /\ CutsKeepRecordsTogether /\ StageWork

\* A submission stage that is due: the execution was submitted.
Due(c) == Exists(c) /\ (execution[c].mode = "async" \/ queue[c] # NoRequest)

\* A step of request p changes nobody else's locals ...
Bystanders(p) ==
    \A q \in Submitter : q # p => pc'[q] = pc[q] /\ got'[q] = got[q] /\ want'[q] = want[q]

\* ... keeps the rows there are, settles only those that have a job or are not
\* asynchronous, and never starts a stage anew ...
RowsStay ==
    \A c \in AnyCalc :
        /\ Exists(c) =>
              /\ Exists(c)' /\ execution'[c].request = execution[c].request
              /\ execution'[c].status = "settled" =>
                    \/ execution[c].status = "settled" \/ queue[c] # NoRequest
                    \/ c \notin KeyedCalc /\ execution[c].request \in StatefulRequest
              /\ execution[c].stage # "none" => execution'[c].stage # "none"
        /\ ~Exists(c) => execution'[c].status # "settled"

\* ... and registers at most the job of the calculation it holds.
QueueStays(p) ==
    \A c \in AnyCalc :
        \/ queue'[c] = queue[c]
        \/ pc[p] \in Holding /\ c = got[p].calc /\ queue[c] = NoRequest /\ queue'[c] = got[p].request

\* Where p goes: it keeps what it holds or comes to hold a row that exists.
Arrives(p) ==
    /\ pc'[p] \notin Rollbacks
    /\ pc'[p] \in Holding =>
          \/ pc[p] \in Holding /\ got'[p] = got[p]
          \/ Exists(got[p].calc)' /\ execution'[got'[p].calc].request = got'[p].request
    /\ pc'[p] = "accepted" => queue'[got'[p].calc] = got'[p].request
    /\ pc'[p] = "complete_stage" \/ (pc'[p] = "register_job" /\ got'[p].created)
          => execution'[got'[p].calc].stage # "none"

\* A stage that is due is complete, or p is on its way to complete it, or p has
\* nothing to do with it.
StageStays(p) ==
    \A c \in AnyCalc : Due(c)' =>
        \/ execution'[c].stage = "complete"
        \/ Settling(p)' /\ got'[p].calc = c
        \/ Due(c) /\ execution[c].stage # "complete" /\ ~(Settling(p) /\ got[p].calc = c)

LEMMA CleanStep ==
    ASSUME FencingInv, FencingInv', CleanInv, errors = 0, NEW p \in Submitter, Bystanders(p),
           RowsStay, QueueStays(p), Arrives(p), cutoffs' = 0 => cutoffs = 0 /\ StageStays(p)
    PROVE  CleanInv'
  <1>1. \A q \in Submitter : /\ pc[q] \in Holding => got[q].calc \in AnyCalc /\ got[q].request \in Request
                             /\ pc'[q] \in Holding => /\ got'[q].calc \in AnyCalc
                                                      /\ got'[q].request = want'[q].request
    BY DEF FencingInv, TypeInv, Got, HoldsOwnRequest
  <1>2. \A q \in Submitter : pc'[q] \in Holding =>
            Exists(got[q].calc)' /\ execution'[got'[q].calc].request = got'[q].request
    <2> TAKE q \in Submitter
    <2> HAVE pc'[q] \in Holding
    <2>1. CASE pc[q] \in Holding /\ got'[q] = got[q]
      BY <1>1, <2>1 DEF CleanInv, NoErrorInv, RowsStay, Exists
    <2>2. CASE q # p
      BY <2>1, <2>2 DEF Bystanders
    <2>3. CASE q = p
      BY <2>1, <2>3 DEF Arrives
    <2> QED BY <2>2, <2>3
  <1>3. NoErrorInv'
    <2>1. \A q \in Submitter : pc'[q] \notin Rollbacks
      BY DEF CleanInv, NoErrorInv, Bystanders, Arrives
    <2>2. ASSUME NEW c \in AnyCalc, execution'[c].status = "settled",
                 c \in KeyedCalc \/ execution'[c].request \notin StatefulRequest
          PROVE  queue'[c] # NoRequest
      <3>1. Exists(c) /\ queue[c] # NoRequest
        BY <2>2 DEF CleanInv, NoErrorInv, RowsStay
      <3> QED BY <3>1 DEF QueueStays
    <2> QED BY <1>2, <2>1, <2>2 DEF NoErrorInv
  <1>4. \A c \in AnyCalc : queue'[c] # NoRequest => Exists(c)' /\ execution'[c].request = queue'[c]
    BY <1>1 DEF CleanInv, NoErrorInv, CutsKeepRecordsTogether, RowsStay, QueueStays
  <1>5. ASSUME NEW q \in Submitter, pc'[q] = "accepted" PROVE queue'[got'[q].calc] = want'[q].request
    <2>1. pc'[q] \in Holding
      BY <1>5 DEF Holding, Control
    <2>2. CASE q = p
      BY <1>1, <1>5, <2>1, <2>2 DEF Arrives
    <2>3. CASE q # p
      <3>1. queue[got[q].calc] = want[q].request /\ got[q].calc \in AnyCalc /\ want[q].request # NoRequest
        BY <1>1, <1>5, <2>1, <2>3, SubmissionAssumption
           DEF CleanInv, CutsKeepRecordsTogether, Bystanders, FencingInv, HoldsOwnRequest
      <3> QED BY <2>3, <3>1 DEF Bystanders, QueueStays
    <2> QED BY <2>2, <2>3
  <1>6. CutsKeepRecordsTogether'
    BY <1>4, <1>5 DEF CutsKeepRecordsTogether
  <1>7. ASSUME NEW q \in Submitter, pc'[q] = "complete_stage" \/ (pc'[q] = "register_job" /\ got'[q].created)
        PROVE  execution'[got'[q].calc].stage # "none"
    <2>1. CASE q = p
      BY <1>7, <2>1 DEF Arrives
    <2>2. CASE q # p
      <3>1. pc[q] \in Holding /\ (pc[q] = "complete_stage" \/ (pc[q] = "register_job" /\ got[q].created))
        BY <1>7, <2>2 DEF Bystanders, Holding, Control
      <3> QED BY <1>1, <2>2, <3>1 DEF CleanInv, NoErrorInv, StageWork, Bystanders, RowsStay
    <2> QED BY <2>1, <2>2
  <1>8. ASSUME cutoffs' = 0, NEW c \in AnyCalc, Due(c)', execution'[c].stage # "complete"
        PROVE  \E q \in Submitter : Settling(q)' /\ got'[q].calc = c
    <2>1. CASE Settling(p)' /\ got'[p].calc = c
      BY <2>1
    <2>2. CASE Due(c) /\ execution[c].stage # "complete" /\ ~(Settling(p) /\ got[p].calc = c)
      <3>1. PICK q \in Submitter : Settling(q) /\ got[q].calc = c
        BY <1>8, <2>2 DEF CleanInv, StageWork, Due
      <3>2. q # p /\ Settling(q)' /\ got'[q].calc = c
        BY <2>2, <3>1 DEF Bystanders, Settling
      <3> QED BY <3>2
    <2> QED BY <1>8, <2>1, <2>2 DEF StageStays
  <1>9. StageWork'
    BY <1>7, <1>8 DEF StageWork, Due
  <1> QED BY <1>3, <1>6, <1>9 DEF CleanInv

\* Moves that leave the rows and the queue alone.
LEMMA CleanMove ==
    ASSUME FencingInv, FencingInv', CleanInv, errors = 0, NEW p \in Submitter, NEW l, Goto(p, l),
           UNCHANGED <<execution, queue>>, Bystanders(p),
           l \notin Rollbacks,
           l \in Holding => \/ pc[p] \in Holding /\ got'[p] = got[p]
                            \/ Exists(got'[p].calc) /\ execution[got'[p].calc].request = got'[p].request,
           l = "accepted" => queue[got'[p].calc] = got'[p].request,
           l # "complete_stage", l = "register_job" => ~got'[p].created,
           cutoffs' = 0 => cutoffs = 0 /\ ~Settling(p)
    PROVE  CleanInv'
  <1>1. pc'[p] = l
    BY DEF Goto, FencingInv, TypeInv
  <1>2. RowsStay /\ QueueStays(p)
    BY DEF RowsStay, QueueStays, Exists, FencingInv, TypeInv, Execution, NoExecution
  <1>3. Arrives(p)
    BY <1>1 DEF Arrives, Exists, Holding
  <1>4. cutoffs' = 0 => StageStays(p)
    BY DEF StageStays, Due, Exists
  <1> QED BY <1>2, <1>3, <1>4, CleanStep

\* A move of p within the row that it holds: x replaces the row, and the job of
\* the row may be registered.
RowMove(p, l, x) ==
    /\ pc[p] \in Holding /\ Goto(p, l) /\ UNCHANGED <<want, got, cutoffs>> /\ l \notin Rollbacks
    /\ execution' = [execution EXCEPT ![got[p].calc] = x]
    /\ x.request = execution[got[p].calc].request /\ x.status # "none"
    /\ x.status = "settled" => execution[got[p].calc].status = "settled" \/ IsResolvedFirst(want[p])
    /\ execution[got[p].calc].stage # "none" => x.stage # "none"
    /\ \/ UNCHANGED queue
       \/ queue[got[p].calc] = NoRequest /\ queue' = [queue EXCEPT ![got[p].calc] = got[p].request]
    /\ l = "accepted" => queue'[got[p].calc] = got[p].request
    /\ l = "complete_stage" \/ (l = "register_job" /\ got[p].created) => x.stage # "none"
    /\ \/ x.stage = "complete"
       \/ l \in {"start_stage", "complete_stage", "promote_contract"}
       \/ l = "register_job" /\ got[p].created
       \/ ~Settling(p) /\ UNCHANGED queue /\ x.mode = execution[got[p].calc].mode
                       /\ x.stage = execution[got[p].calc].stage

LEMMA CleanRow ==
    ASSUME FencingInv, FencingInv', CleanInv, errors = 0, NEW p \in Submitter, NEW l, NEW x \in Execution,
           RowMove(p, l, x)
    PROVE  CleanInv'
  <1> USE DEF RowMove
  <1> DEFINE c == got[p].calc
  <1>1. pc'[p] = l /\ Bystanders(p)
    BY DEF Goto, Bystanders, FencingInv, TypeInv
  <1>2. /\ c \in AnyCalc /\ Exists(c) /\ execution[c].request = want[p].request
        /\ IsResolvedFirst(want[p]) => c \notin KeyedCalc
    BY HoldingTypes DEF CleanInv, NoErrorInv, FencingInv, HoldsOwnRequest
  <1>3. execution'[c] = x /\ \A d \in AnyCalc : d # c => execution'[d] = execution[d]
    BY <1>2 DEF FencingInv, TypeInv
  <1>4. \A d \in AnyCalc : queue'[d] = queue[d] \/ (d = c /\ queue[d] = NoRequest /\ queue'[d] = got[p].request)
    BY <1>2 DEF FencingInv, TypeInv
  <1>5. RowsStay
    BY <1>2, <1>3 DEF RowsStay, Exists, IsResolvedFirst
  <1>6. QueueStays(p)
    BY <1>4 DEF QueueStays
  <1>7. Arrives(p)
    BY <1>1, <1>3 DEF Arrives
  <1>8. StageStays(p)
    <2> SUFFICES ASSUME NEW d \in AnyCalc, Due(d)', execution'[d].stage # "complete",
                        ~(Settling(p)' /\ got'[p].calc = d)
                 PROVE  Due(d) /\ execution[d].stage # "complete" /\ ~(Settling(p) /\ got[p].calc = d)
      BY DEF StageStays
    <2>1. CASE d # c
      BY <1>3, <1>4, <2>1 DEF Due, Exists
    <2>2. CASE d = c
      BY <1>1, <1>2, <1>3, <2>2 DEF Due, Exists, Settling
    <2> QED BY <2>1, <2>2
  <1> QED BY <1>1, <1>5, <1>6, <1>7, <1>8, CleanStep

\* The creation of a row.
LEMMA CleanCreate ==
    ASSUME FencingInv, FencingInv', CleanInv, errors = 0, NEW p \in Submitter,
           RegisterExecution(p) \/ RegisterSync(p)
    PROVE  CleanInv'
  <1> DEFINE w == want[p]
  <1>1. /\ pc[p] \in {"register", "register_sync"} /\ w \in Want /\ ~Settling(p)
        /\ UNCHANGED <<queue, want, errors, cutoffs>>
    BY DEF RegisterExecution, RegisterSync, FencingInv, TypeInv, Settling
  <1>2. ASSUME NEW l \in {"lookup", "lookup_sync"}, Goto(p, l), UNCHANGED <<execution, got>>
        PROVE  CleanInv'
    <2>1. Bystanders(p)
      BY <1>1, <1>2 DEF Goto, Bystanders, FencingInv, TypeInv
    <2> QED BY <1>1, <1>2, <2>1, CleanMove DEF Rollbacks, Holding
  <1>3. ASSUME NEW x, NEW b \in BOOLEAN, NEW l \in {"start_stage", "resolve"}, Goto(p, l),
               ~Exists(w.calc), execution' = [execution EXCEPT ![w.calc] = x],
               x.request = w.request, x.status = "pending", x.mode = "async" => l = "start_stage",
               got' = [got EXCEPT ![p] = [calc |-> w.calc, request |-> w.request, created |-> b]]
        PROVE  CleanInv'
    <2>1. w.calc \in AnyCalc
      BY <1>1 DEF Want
    <2>2. Bystanders(p) /\ got'[p].calc = w.calc /\ got'[p].request = w.request /\ pc'[p] = l
      BY <1>1, <1>3 DEF Goto, Bystanders, FencingInv, TypeInv
    <2>3. execution'[w.calc] = x /\ \A d \in AnyCalc : d # w.calc => execution'[d] = execution[d]
      BY <1>3, <2>1 DEF FencingInv, TypeInv
    <2>4. RowsStay
      BY <1>3, <2>1, <2>3 DEF RowsStay, Exists, FencingInv, TypeInv, Execution, NoExecution
    <2>5. QueueStays(p) /\ Arrives(p)
      BY <1>1, <1>3, <2>2, <2>3 DEF QueueStays, Arrives, Exists, Rollbacks
    <2>6. queue[w.calc] = NoRequest
      BY <1>3, <2>1 DEF CleanInv, CutsKeepRecordsTogether
    <2>7. StageStays(p)
      BY <1>1, <1>3, <2>2, <2>3, <2>6 DEF StageStays, Due, Exists, Settling
    <2> QED BY <1>1, <2>2, <2>4, <2>5, <2>7, CleanStep
  <1>4. CASE RegisterExecution(p)
    <2> DEFINE x == [request |-> w.request, key |-> w.key, mode |-> "async", status |-> "pending", stage |-> "none"]
    <2>1. x.request = w.request /\ x.status = "pending"
      OBVIOUS
    <2> HIDE DEF x
    <2> QED BY <1>2, <1>3, <1>4, <2>1 DEF RegisterExecution, x
  <1>5. CASE RegisterSync(p)
    <2> DEFINE x == [request |-> w.request, key |-> NoKey, mode |-> "sync", status |-> "pending", stage |-> "none"]
    <2>1. x.request = w.request /\ x.status = "pending" /\ x.mode # "async"
      OBVIOUS
    <2> HIDE DEF x
    <2> QED BY <1>2, <1>3, <1>5, <2>1 DEF RegisterSync, x
  <1> QED BY <1>4, <1>5

\* The other actions.
LEMMA CleanAction ==
    ASSUME FencingInv, FencingInv', CleanInv, errors' = 0, NEW p \in Submitter,
           Begin(p) \/ CutOff(p) \/ Proceed(p)
    PROVE  CleanInv'
  <1> DEFINE c == got[p].calc
  <1>0. errors = 0
    BY SubmissionAssumption DEF Begin, CutOff, Proceed, Retry, RegisterExecution, LookupExecution, RegisterJob,
       RegisterJobRaises, Rollback, StartStage, CompleteStage, HealStage, FindPromoted, RegisterSync, LookupSync,
       Resolve, PromoteJob, PromoteContract, PromotionRaises, RecordFailure, FencingInv, TypeInv
  <1>1. pc[p] \in Holding =>
            /\ c \in AnyCalc /\ Exists(c) /\ execution[c].request = got[p].request
            /\ execution[c] \in Execution
            /\ (queue[c] # NoRequest => queue[c] = got[p].request)
    BY <1>0, HoldingTypes DEF CleanInv, NoErrorInv, CutsKeepRecordsTogether, FencingInv, TypeInv
  <1>2. CASE Begin(p) \/ Retry(p)
    <2>1. /\ Bystanders(p) /\ ~Settling(p) /\ UNCHANGED <<execution, queue, cutoffs>>
          /\ \E l \in {"register", "find_promoted"} : Goto(p, l)
      BY <1>2 DEF Begin, Retry, Send, Goto, Bystanders, Settling, AtRest, FencingInv, TypeInv
    <2> QED BY <1>0, <2>1, CleanMove DEF Rollbacks, Holding
  <1>3. CASE CutOff(p)
    <2>1. Bystanders(p) /\ cutoffs' # 0
      BY <1>3, SubmissionAssumption DEF CutOff, Goto, Bystanders, FencingInv, TypeInv
    <2> QED BY <1>0, <1>3, <2>1, CleanMove DEF CutOff, Rollbacks, Holding
  <1>4. CASE RegisterExecution(p) \/ RegisterSync(p)
    BY <1>0, <1>4, CleanCreate
  <1>5. CASE LookupExecution(p)
    <2>1. Bystanders(p) /\ ~Settling(p) /\ pc[p] = "lookup"
      BY <1>5 DEF LookupExecution, Goto, Bystanders, Settling, FencingInv, TypeInv
    <2>2. ASSUME NEW d \in Existing(want[p]), IsReplay(want[p], d),
                 got' = [got EXCEPT ![p] = [calc |-> d, request |-> execution[d].request, created |-> FALSE]],
                 NEW l \in {"accepted", "register_job"}, l = "accepted" => IsResolved(d), Goto(p, l)
          PROVE  CleanInv'
      <3>1. d \in AnyCalc /\ want[p] \in Want /\ got'[p].calc = d /\ got'[p].request = execution[d].request /\ ~got'[p].created
        BY <2>1, <2>2 DEF Existing, Want, FencingInv, TypeInv
      <3>2. execution[d].request = want[p].request /\ Exists(d)
        BY <2>2, <3>1, SubmissionAssumption DEF IsReplay, Exists, FencingInv, TypeInv, Execution, NoExecution, Want
      <3>3. d \in KeyedCalc \/ execution[d].request \notin StatefulRequest
        BY <2>1, <2>2, <3>1, <3>2 DEF FencingInv, Lanes, KeyedRows, AsyncOnly, IsResolvedFirst, IsReplay, Want
      <3>4. IsResolved(d) => queue[d] = execution[d].request
        BY <1>0, <3>1, <3>3 DEF IsResolved, CleanInv, NoErrorInv, CutsKeepRecordsTogether
      <3> QED BY <1>0, <1>5, <2>1, <2>2, <3>1, <3>2, <3>4, CleanMove DEF LookupExecution, Rollbacks
    <2>3. ASSUME NEW l \in {"error", "conflict"}, Goto(p, l) PROVE CleanInv'
      BY <1>0, <1>5, <2>1, <2>3, CleanMove DEF LookupExecution, Rollbacks, Holding
    <2> QED BY <1>5, <2>2, <2>3 DEF LookupExecution
  <1>6. CASE FindPromoted(p)
    <2>1. Bystanders(p) /\ ~Settling(p) /\ pc[p] = "find_promoted" /\ want[p] \in Want
      BY <1>6 DEF FindPromoted, Goto, Bystanders, Settling, FencingInv, TypeInv
    <2>2. ASSUME execution[want[p].calc].mode = "async", execution[want[p].calc].request = want[p].request,
                 got' = [got EXCEPT ![p] = [calc |-> want[p].calc, request |-> want[p].request, created |-> FALSE]],
                 Goto(p, "accepted")
          PROVE  CleanInv'
      <3>1. want[p].calc \in Calc /\ want[p].request \in StatefulRequest
        BY <2>1 DEF FencingInv, Lanes, StatefulOnly, IsResolvedFirst, CalcFor
      <3>2. queue[want[p].calc] = want[p].request
        BY <2>2, <3>1 DEF FencingInv, PromotedIsQueued
      <3>3. Exists(want[p].calc)
        BY <2>1, <2>2, <3>1, SubmissionAssumption DEF Exists, FencingInv, TypeInv, Execution, NoExecution, Want, AnyCalc
      <3>4. got'[p].calc = want[p].calc /\ got'[p].request = want[p].request
        BY <2>2 DEF FencingInv, TypeInv
      <3> QED BY <1>0, <1>6, <2>1, <2>2, <3>2, <3>3, <3>4, CleanMove DEF FindPromoted, Rollbacks
    <2>3. ASSUME Goto(p, "register_sync") PROVE CleanInv'
      BY <1>0, <1>6, <2>1, <2>3, CleanMove DEF FindPromoted, Rollbacks, Holding
    <2> QED BY <1>6, <2>2, <2>3 DEF FindPromoted
  <1>7. CASE LookupSync(p)
    <2>1. Bystanders(p) /\ ~Settling(p)
      BY <1>7 DEF LookupSync, Goto, Bystanders, Settling, FencingInv, TypeInv
    <2> QED BY <1>0, <1>7, <2>1, CleanMove DEF LookupSync, Rollbacks, Holding
  <1>8. CASE Rollback(p)
    BY <1>0, <1>8 DEF Rollback, CleanInv, NoErrorInv, Rollbacks
  <1>9. CASE RegisterJobRaises(p) \/ PromotionRaises(p)
    BY <1>0, <1>9 DEF RegisterJobRaises, PromotionRaises
  \* What follows moves within the row that p holds.
  <1>10. ASSUME pc[p] \in Holding, UNCHANGED execution
         PROVE  execution' = [execution EXCEPT ![c] = execution[c]]
    BY <1>1, <1>10 DEF FencingInv, TypeInv
  <1>11. CASE RegisterJob(p)
    <2>1. pc[p] = "register_job" /\ pc[p] \in Holding
      BY <1>11 DEF RegisterJob, Holding, Control
    <2>2. queue[c] \in {NoRequest, got[p].request}
      BY <1>1, <2>1
    <2>3. got[p].created => execution[c].stage # "none"
      BY <1>0, <2>1 DEF CleanInv, StageWork
    <2>4. ASSUME NEW l \in {"complete_stage", "start_stage"}, Goto(p, l), l = "complete_stage" => got[p].created,
                 \/ UNCHANGED queue
                 \/ queue[c] = NoRequest /\ queue' = [queue EXCEPT ![c] = got[p].request]
          PROVE  CleanInv'
      <3>1. RowMove(p, l, execution[c])
        BY <1>1, <1>10, <1>11, <2>1, <2>3, <2>4 DEF RegisterJob, Rollbacks, Exists, RowMove
      <3> QED BY <1>0, <1>1, <2>1, <3>1, CleanRow
    <2>5. ASSUME Goto(p, "heal_stage"), UNCHANGED queue, ~got[p].created
          PROVE  CleanInv'
      <3>1. ~Settling(p)
        BY <2>1, <2>5 DEF Settling
      <3>2. RowMove(p, "heal_stage", execution[c])
        BY <1>1, <1>10, <1>11, <2>1, <2>5, <3>1 DEF RegisterJob, Rollbacks, Exists, RowMove
      <3> QED BY <1>0, <1>1, <2>1, <3>2, CleanRow
    <2> QED BY <1>11, <2>2, <2>4, <2>5 DEF RegisterJob
  <1>12. CASE StartStage(p)
    <2>1. pc[p] = "start_stage" /\ pc[p] \in Holding
      BY <1>12 DEF StartStage, Holding, Control
    <2> DEFINE x == [execution[c] EXCEPT !.stage = "in_progress"]
    <2>2. x \in Execution /\ x.request = execution[c].request /\ x.status = execution[c].status /\ x.stage # "none"
          /\ execution[c].status # "none"
      BY <1>1, <2>1 DEF Execution, NoExecution, Exists
    <2>3. execution' = [execution EXCEPT ![c] = x]
      BY <1>1, <1>12, <2>1 DEF StartStage
    <2> HIDE DEF x
    <2>4. ASSUME NEW l \in {"register_job", "complete_stage"}, Goto(p, l), l = "register_job" => got[p].created
          PROVE  CleanInv'
      <3>1. RowMove(p, l, x)
        BY <1>12, <2>1, <2>2, <2>3, <2>4 DEF StartStage, Rollbacks, RowMove
      <3> QED BY <1>0, <2>2, <3>1, CleanRow
    <2> QED BY <1>1, <1>12, <2>1, <2>4 DEF StartStage
  <1>13. CASE CompleteStage(p) \/ HealStage(p)
    <2>1. pc[p] \in {"complete_stage", "heal_stage"} /\ pc[p] \in Holding
      BY <1>13 DEF CompleteStage, HealStage, Holding, Control
    <2>2. queue[c] = got[p].request
      BY <2>1 DEF FencingInv, JobFirst
    <2> DEFINE x == [execution[c] EXCEPT !.stage = "complete"]
    <2>3. x \in Execution /\ x.request = execution[c].request /\ x.status = execution[c].status /\ x.stage = "complete"
          /\ execution[c].status # "none"
      BY <1>1, <2>1 DEF Execution, NoExecution, Exists
    <2>4. ASSUME execution' = [execution EXCEPT ![c].stage = "complete"], Goto(p, "accepted") PROVE CleanInv'
      <3>1. execution' = [execution EXCEPT ![c] = x]
        BY <2>4
      <3> HIDE DEF x
      <3>2. RowMove(p, "accepted", x)
        BY <1>13, <2>1, <2>2, <2>3, <2>4, <3>1 DEF CompleteStage, HealStage, Rollbacks, RowMove
      <3> QED BY <1>0, <2>3, <3>2, CleanRow
    <2>5. ASSUME pc[p] = "heal_stage", UNCHANGED execution, Goto(p, "accepted") PROVE CleanInv'
      <3>1. ~Settling(p)
        BY <2>5 DEF Settling
      <3>2. RowMove(p, "accepted", execution[c])
        BY <1>1, <1>10, <1>13, <2>1, <2>2, <2>5, <3>1 DEF CompleteStage, HealStage, Rollbacks, Exists, RowMove
      <3> QED BY <1>0, <1>1, <2>1, <3>2, CleanRow
    <2>6. CompleteStage(p) => execution[c].stage # "none"
      BY <1>0 DEF CompleteStage, CleanInv, StageWork
    <2> QED BY <1>1, <1>13, <2>1, <2>4, <2>5, <2>6 DEF CompleteStage, HealStage
  <1>14. CASE Resolve(p) \/ RecordFailure(p)
    <2>1. pc[p] \in Holding /\ ~Settling(p) /\ IsResolvedFirst(want[p])
      BY <1>14 DEF Resolve, RecordFailure, Holding, Control, Settling, FencingInv, Lanes, StatefulOnly
    <2> DEFINE x == [execution[c] EXCEPT !.status = "settled"]
    <2>2. x \in Execution /\ x.request = execution[c].request /\ x.status = "settled" /\ x.stage = execution[c].stage
          /\ x.mode = execution[c].mode
      BY <1>1, <2>1 DEF Execution, NoExecution, Exists
    <2>3. ASSUME execution' = [execution EXCEPT ![c].status = "settled"],
                 NEW l \in {"answered", "conflict", "error"}, Goto(p, l)
          PROVE  CleanInv'
      <3>1. execution' = [execution EXCEPT ![c] = x]
        BY <2>3
      <3> HIDE DEF x
      <3>2. RowMove(p, l, x)
        BY <1>14, <2>1, <2>2, <2>3, <3>1 DEF Resolve, RecordFailure, Rollbacks, RowMove
      <3> QED BY <1>0, <2>2, <3>2, CleanRow
    <2>4. ASSUME UNCHANGED execution, NEW l \in {"promote_job", "fail_error"}, Goto(p, l) PROVE CleanInv'
      <3>1. RowMove(p, l, execution[c])
        BY <1>1, <1>10, <1>14, <2>1, <2>4 DEF Resolve, RecordFailure, Rollbacks, Exists, RowMove
      <3> QED BY <1>0, <1>1, <2>1, <3>1, CleanRow
    <2> QED BY <1>1, <1>14, <2>1, <2>3, <2>4 DEF Resolve, RecordFailure, Settle
  <1>15. CASE PromoteJob(p)
    <2>1. pc[p] \in Holding
      BY <1>15 DEF PromoteJob, Holding, Control
    <2>2. queue' = [queue EXCEPT ![c] = got[p].request] /\ Goto(p, "promote_contract")
          /\ UNCHANGED <<execution, want, got, cutoffs>>
      BY <1>1, <1>15, <2>1 DEF PromoteJob
    <2>3. UNCHANGED queue \/ queue[c] = NoRequest
      BY <1>1, <2>1, <2>2 DEF FencingInv, TypeInv
    <2>4. execution' = [execution EXCEPT ![c] = execution[c]]
      BY <1>10, <2>1, <2>2
    <2>5. RowMove(p, "promote_contract", execution[c])
      BY <1>1, <2>1, <2>2, <2>3, <2>4 DEF Rollbacks, Exists, RowMove
    <2> QED BY <1>0, <1>1, <2>1, <2>5, CleanRow
  <1>16. CASE PromoteContract(p)
    <2>1. pc[p] \in Holding
      BY <1>16 DEF PromoteContract, Holding, Control
    <2> DEFINE x == [execution[c] EXCEPT !.mode = "async"]
    <2>2. x \in Execution /\ x.request = execution[c].request /\ x.status = execution[c].status
          /\ x.stage = execution[c].stage /\ execution[c].status # "none"
      BY <1>1, <2>1 DEF Execution, NoExecution, Exists
    <2>3. execution' = [execution EXCEPT ![c] = x] /\ Goto(p, "start_stage") /\ UNCHANGED <<queue, want, got, cutoffs>>
      BY <1>1, <1>16, <2>1 DEF PromoteContract
    <2> HIDE DEF x
    <2>4. RowMove(p, "start_stage", x)
      BY <2>1, <2>2, <2>3 DEF Rollbacks, RowMove
    <2> QED BY <1>0, <2>2, <2>4, CleanRow
  <1> QED BY <1>2, <1>3, <1>4, <1>5, <1>6, <1>7, <1>8, <1>9, <1>11, <1>12, <1>13, <1>14, <1>15, <1>16 DEF Proceed

\* The executor settles an execution that has a job.
LEMMA CleanRunJob ==
    ASSUME FencingInv, FencingInv', CleanInv, errors = 0, NEW c \in AnyCalc, RunJob(c)
    PROVE  CleanInv'
  <1>1. UNCHANGED <<queue, pc, want, got, errors, cutoffs>>
    BY DEF RunJob
  <1>2. \A d \in AnyCalc :
            /\ Exists(d)' = Exists(d) /\ execution'[d].request = execution[d].request
            /\ execution'[d].stage = execution[d].stage /\ execution'[d].mode = execution[d].mode
            /\ execution'[d].status = execution[d].status \/ queue[d] # NoRequest
    BY DEF RunJob, FencingInv, TypeInv, Exists, Execution, NoExecution
  <1>3. \A q \in Submitter : pc[q] \in Holding => got[q].calc \in AnyCalc
    BY HoldingTypes
  <1>4. NoErrorInv'
    BY <1>1, <1>2, <1>3 DEF CleanInv, NoErrorInv, Exists
  <1>5. CutsKeepRecordsTogether'
    BY <1>1, <1>2 DEF CleanInv, CutsKeepRecordsTogether, Exists
  <1>6. \A q \in Submitter : Settling(q)' = Settling(q) /\ (Settling(q) => pc[q] \in Holding)
    BY <1>1 DEF Settling, Holding, Control
  <1>7. \A q \in Submitter : pc[q] = "complete_stage" \/ pc[q] = "register_job" => pc[q] \in Holding
    BY DEF Holding, Control
  <1>8. StageWork'
    BY <1>1, <1>2, <1>3, <1>6, <1>7 DEF CleanInv, StageWork, Exists
  <1> QED BY <1>4, <1>5, <1>8 DEF CleanInv

LEMMA CleanNext == FencingInv /\ FencingInv' /\ CleanInv /\ [Next]_vars => CleanInv'
  <1> SUFFICES ASSUME FencingInv, FencingInv', CleanInv, [Next]_vars PROVE CleanInv'
    OBVIOUS
  <1>1. CASE errors' # 0
    BY <1>1 DEF CleanInv, NoErrorInv, CutsKeepRecordsTogether, StageWork
  <1>2. ASSUME errors' = 0, NEW p \in Submitter, Begin(p) \/ CutOff(p) \/ Proceed(p) PROVE CleanInv'
    BY <1>2, CleanAction
  <1>3. ASSUME errors' = 0, NEW c \in AnyCalc, RunJob(c) PROVE CleanInv'
    BY <1>3, CleanRunJob DEF RunJob
  <1>4. CASE UNCHANGED vars
    BY <1>4 DEF vars, CleanInv, NoErrorInv, CutsKeepRecordsTogether, StageWork, Settling, Exists
  <1> QED BY <1>1, <1>2, <1>3, <1>4 DEF Next, Finished

LEMMA CleanInvariance == Spec => []CleanInv
  <1>1. Init => CleanInv
    BY DEF Init, CleanInv, NoErrorInv, CutsKeepRecordsTogether, StageWork, Settling, Exists, NoExecution,
           Rollbacks, Holding
  <1> QED BY <1>1, FencingInvariance, CleanNext, PTL DEF Spec

-----------------------------------------------------------------------------
(* The theorems.                                                           *)

\* Every record of the registry and of the queue is well formed, and a request
\* past register_execution knows its calculation.
THEOREM SubmissionTypeCorrect == Spec => []TypeOK
  <1>1. FencingInv => TypeOK
    BY DEF FencingInv, TypeInv, TypeOK, Want, Got, Holding
  <1> QED BY <1>1, FencingInvariance, PTL

\* register_execution fences an idempotency key: whoever is accepted under it
\* has the same calculation and sent the same request.
THEOREM KeyFencesCalculation == Spec => []KeyResolvesToOneCalculation
  <1>1. FencingInv => KeyResolvesToOneCalculation
    <2> SUFFICES ASSUME FencingInv, NEW p \in Submitter, NEW q \in Submitter,
                        pc[p] = "accepted", pc[q] = "accepted", want[p].key # NoKey, want[p].key = want[q].key
                 PROVE  got[p].calc = got[q].calc /\ want[p].request = want[q].request
      BY DEF KeyResolvesToOneCalculation
    <2>1. pc[p] \in Holding /\ pc[q] \in Holding
      BY DEF Holding, Control
    <2>2. got[p].calc \in AnyCalc /\ got[q].calc \in AnyCalc
      BY <2>1, HoldingTypes
    <2> QED BY <2>1, <2>2 DEF FencingInv, HoldsItsKey, KeyedRows
  <1> QED BY <1>1, FencingInvariance, PTL

\* Whoever is accepted under a key, or by a promotion, has the request queued,
\* whatever store errors, cuts and retries came between.
THEOREM AcceptedIsQueued == Spec => []AcceptedRequestIsQueued
  <1>1. FencingInv => AcceptedRequestIsQueued
    BY DEF FencingInv
  <1> QED BY <1>1, FencingInvariance, PTL

\* Requests that die between two writes never part a job from its execution:
\* only the rollback after a store error can.
THEOREM CutsAreHarmless == Spec => []CutsKeepRecordsTogether
  <1>1. CleanInv => CutsKeepRecordsTogether
    BY DEF CleanInv
  <1> QED BY <1>1, CleanInvariance, PTL

\* The submission stage is complete once all requests are answered, whichever
\* of them restarted it last.
THEOREM StageIsSettled == Spec => []StageSettled
  <1>1. CleanInv => StageSettled
    <2> SUFFICES ASSUME CleanInv, errors = 0, cutoffs = 0,
                        \A p \in Submitter : pc[p] \in AtRest \cup {"error"},
                        NEW c \in AnyCalc, Exists(c), execution[c].mode = "async" \/ queue[c] # NoRequest
                 PROVE  execution[c].stage = "complete"
      BY DEF StageSettled
    <2>1. \A p \in Submitter : ~Settling(p)
      BY DEF Settling, AtRest
    <2> QED BY <2>1 DEF CleanInv, StageWork
  <1> QED BY <1>1, CleanInvariance, PTL

=============================================================================
