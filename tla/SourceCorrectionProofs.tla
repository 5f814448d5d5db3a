------------------------ MODULE SourceCorrectionProofs ------------------------
(***************************************************************************)
(* What source corrections guarantee, for any number of requests,          *)
(* corrections, retained calculations and faults.                          *)
(*                                                                         *)
(* A request acts upon rows that it read earlier, so what it holds must    *)
(* stay true while others go on (Evolves): a revision once upstream stays  *)
(* so, the request of a row never changes, a complete or cancelled job     *)
(* stays so and an execution complete together with its job does.  The     *)
(* invariant says of the impacts in a row and of those that a request      *)
(* carries from one to another that they are Genuine and, once listed,     *)
(* that they cover what was due; each action shows it for what it writes.  *)
(***************************************************************************)
EXTENDS SourceCorrection, FiniteSetTheorems, SequenceTheorems, TLAPS

Waiting == {"none", "pending", "cancelled"}

\* The work of q will be, or was, done on sources that had the revision.
Sees(q, revision) == job[q] \in Waiting \/ revision \in saw[q]

\* Impacts f that the request r may list.
Genuine(f, r) ==
    /\ IsImpacts(f)
    /\ \A q \in DOMAIN f :
        /\ f[q] = "complete" => job[q] = "complete" /\ execution[q] = "complete"
        /\ Sees(q, r.revision)

\* What was due for correction c is among the calculations that f replaces, or
\* among those that are still to do.
CoversDue(f, c, todo) ==
    \A q \in due[c] : execution[q] = "complete" =>
        q \in todo \/ \E x \in DOMAIN f : q = Replaced(x)

\* The calculations that recalculate no further than the bound.
Bounded == {q \in Calculation : Len(q) <= MaxGeneration + 1}

Effective(r) == r \in Request /\ r.revision \in upstream

RowInv(c) == rows[c] # NoRow =>
    /\ IsRow(rows[c]) /\ rows[c].req.id = c
    /\ Effective(rows[c].req)
    /\ Genuine(rows[c].impacts, rows[c].req)
    /\ \/ rows[c].state = "superseded"
       \/ rows[c].state = "recalculation_pending" /\ rows[c].impacts = NoImpacts
       \/ CoversDue(rows[c].impacts, c, {})
    /\ rows[c].impacts # NoImpacts => CoversDue(rows[c].impacts, c, {})
    /\ rows[c].state = "cancelled" =>
            rows[c].impacts # NoImpacts /\ \A q \in DOMAIN rows[c].impacts : job[q] = "cancelled"
    /\ \A q \in due[c] : Overlap(rows[c].req.from, rows[c].req.to, Window[q[1]])

\* The scheduling loop; the whole of a request after register.
Looping == {"next", "start_stage", "register_job", "complete_stage"}
Scheduler == {"check_newer", "supersede", "list"} \cup Looping
Past == {"get", "reconcile", "write"} \cup Scheduler

\* What request k holds, by its control state.
ClientInv(k) ==
    LET v == local[k]
    IN  /\ pc[k] \in {"coalesce", "register"} \cup Past => Effective(v.req)
        /\ pc[k] = "coalesce" => \A y \in v.latest :
              IsRow(y) /\ \A q \in DOMAIN y.impacts : y.impacts[q] = "complete" => job[q] = "complete"
        /\ pc[k] = "register" =>
              Genuine(v.inherited.impacts, v.req) /\ v.inherited.from \in Day /\ v.inherited.to \in Day
        /\ pc[k] \in Past => v.req.id \in Correction /\ rows[v.req.id] # NoRow /\ rows[v.req.id].req = v.req
        /\ pc[k] \in Scheduler \cup {"write"} => Genuine(v.impacts, v.req)
        /\ pc[k] \in Looping => v.todo \subseteq Bounded /\ CoversDue(v.impacts, v.req.id, v.todo)
        /\ pc[k] \in Looping \ {"next"} => v.todo # {}
        /\ pc[k] = "complete_stage" => job[Replacement(v.req.id, Current(k))] # "none"
        /\ pc[k] = "reconcile" => Genuine(v.record.impacts, v.req) /\ CoversDue(v.record.impacts, v.req.id, {})
        /\ pc[k] = "write" => CoversDue(v.impacts, v.req.id, {})
        /\ pc[k] = "cancel_jobs" => v.batch \subseteq Calculation /\ v.todo \subseteq v.batch
        /\ pc[k] = "cancel_execution" => v.todo \subseteq v.batch
        /\ pc[k] \in {"cancel_execution", "cancel_publish"} =>
              v.batch \subseteq Calculation /\ \A q \in v.batch : job[q] = "cancelled"

\* The correction that a calculation was last recalculated for.
Reason(q) == q[Len(q)]

\* The work of the executors.
WorkInv ==
    /\ \A q \in Calculation : Len(q) > 1 /\ job[q] # "none" =>
          Reason(q) \in Correction /\ rows[Reason(q)] # NoRow /\ Sees(q, rows[Reason(q)].req.revision)
    /\ \A q \in Calculation :
          job[q] \in {"running", "complete"} \/ execution[q] = "complete" => q \in Bounded
    /\ \A c \in Correction : \A q \in due[c] : q \in Calculation /\ execution[q] \in {"complete", "failed"}
    /\ SubmittedMeansQueued

TypeInv ==
    /\ DOMAIN rows = Correction /\ DOMAIN saw = Calculation /\ DOMAIN due = Correction
    /\ DOMAIN local = Client
    /\ IsFiniteSet(Registered)
    /\ execution \in [Calculation -> {"none", "pending", "complete", "failed"}]
    /\ stage \in [Calculation -> {"none", "in_progress", "complete"}]
    /\ job \in [Calculation -> {"none", "pending", "running", "complete", "failed", "cancelled"}]
    /\ pc \in [Client -> Control]
    /\ calls \in 0..MaxCalls /\ faults \in 0..MaxFaults

CorrectionInv ==
    /\ TypeInv
    /\ \A c \in Correction : RowInv(c)
    /\ \A k \in Client : ClientInv(k)
    /\ WorkInv

-----------------------------------------------------------------------------
(* Calculations.                                                           *)

Tails == UNION {[1..n -> Correction] : n \in 0..(MaxGeneration + 1)}

LEMMA CalculationTails ==
  ASSUME NEW q
  PROVE  q \in Calculation <=> \E o \in Original : \E s \in Tails : q = <<o>> \o s
  <1>1. Calculation = {<<o>> \o s : o \in Original, s \in Tails}
    BY DEF Calculation, Tails
  <1> QED BY <1>1, SMT

LEMMA CalculationIsSeq ==
  ASSUME NEW q \in Calculation
  PROVE  \E o \in Original, n \in 0..(MaxGeneration + 1) : \E s \in [1..n -> Correction] :
            /\ q = <<o>> \o s
            /\ s \in Seq(Correction) /\ Len(s) = n
            /\ q \in Seq(Original \cup Correction) /\ Len(q) = n + 1
  <1>0. PICK o \in Original, t \in Tails : q = <<o>> \o t
    BY CalculationTails
  <1>1. PICK n \in 0..(MaxGeneration + 1) : t \in [1..n -> Correction]
    BY <1>0 DEF Tails
  <1>2. PICK s \in [1..n -> Correction] : q = <<o>> \o s
    BY <1>0, <1>1
  <1>3. n \in Nat /\ s \in Seq(Correction) /\ Len(s) = n
    BY SeqDef, LenProperties, CorrectionAssumption
  <1>4. s \in Seq(Original \cup Correction) /\ <<o>> \in Seq(Original \cup Correction) /\ Len(<<o>>) = 1
    BY <1>3, SeqMonotonic
  <1>5. q \in Seq(Original \cup Correction) /\ Len(q) = n + 1
    BY <1>2, <1>3, <1>4, ConcatProperties
  <1> QED BY <1>2, <1>3, <1>5

\* A replacement is a calculation, names its correction and what it replaces.
LEMMA Replacing ==
  ASSUME NEW q \in Bounded, NEW c \in Correction
  PROVE  /\ Replacement(c, q) \in Calculation
         /\ Len(Replacement(c, q)) > 1
         /\ Reason(Replacement(c, q)) = c
         /\ Replaced(Replacement(c, q)) = q
  <1> DEFINE S == Original \cup Correction
  <1>1. PICK o \in Original, n \in 0..(MaxGeneration + 1) : \E s \in [1..n -> Correction] :
            /\ q = <<o>> \o s
            /\ s \in Seq(Correction) /\ Len(s) = n
            /\ q \in Seq(S) /\ Len(q) = n + 1
    BY CalculationIsSeq DEF Bounded
  <1>2. PICK s \in [1..n -> Correction] :
            /\ q = <<o>> \o s
            /\ s \in Seq(Correction) /\ Len(s) = n
            /\ q \in Seq(S) /\ Len(q) = n + 1
    BY <1>1
  <1>3. n \in Nat /\ n + 1 <= MaxGeneration + 1 /\ MaxGeneration \in Nat
    BY <1>2, CorrectionAssumption DEF Bounded
  <1>4. /\ Append(q, c) \in Seq(S) /\ Len(Append(q, c)) = n + 2 /\ Append(q, c)[n + 2] = c
        /\ \A i \in 1..(n + 1) : Append(q, c)[i] = q[i]
    BY <1>2, <1>3, AppendProperties
  <1>5. Append(q, c) = <<o>> \o Append(s, c)
    BY <1>2, <1>3
  <1>6. Append(s, c) \in [1..(n + 1) -> Correction]
    <2>1. Append(s, c) \in Seq(Correction) /\ Len(Append(s, c)) = n + 1
      BY <1>2, <1>3, AppendProperties
    <2> QED BY <2>1, LenProperties
  <1>7. Append(q, c) \in Calculation
    <2>1. n + 1 \in 0..(MaxGeneration + 1)
      BY <1>3
    <2>2. Append(s, c) \in Tails
      BY <1>6, <2>1 DEF Tails
    <2> QED BY <1>5, <2>2, CalculationTails
  <1>8. SubSeq(Append(q, c), 1, n + 1) = q
    BY <1>2, <1>3, <1>4
  <1> QED BY <1>3, <1>4, <1>7, <1>8 DEF Replacement, Reason, Replaced

-----------------------------------------------------------------------------
(* What a step does to the stores, and what is kept under it.              *)

Evolves ==
    /\ upstream \subseteq upstream'
    /\ \A c \in Correction : rows[c] # NoRow =>
          rows'[c] # NoRow /\ rows'[c].req = rows[c].req /\ due'[c] = due[c]
    /\ \A q \in Calculation :
          /\ job[q] \in {"complete", "cancelled"} => job'[q] = job[q]
          /\ job[q] # "none" => job'[q] # "none"
          /\ job'[q] \in Waiting \/ saw'[q] = upstream \/ (saw'[q] = saw[q] /\ job[q] \notin Waiting)
          /\ execution[q] = "failed" => execution'[q] = "failed"
          /\ execution[q] = "complete" => execution'[q] \in {"complete", "failed"}
          /\ execution[q] = "complete" /\ job[q] = "complete" => execution'[q] = "complete"

\* A step that queues nothing and admits nothing.
Quiet ==
    /\ due' = due
    /\ \A q \in Calculation :
          /\ job'[q] # "none" => job[q] # "none"
          /\ job'[q] \in {"running", "complete"} => job[q] \in {"running", "complete"} \/ q \in Bounded
          /\ execution'[q] = "complete" => execution[q] = "complete" \/ q \in Bounded
          /\ stage'[q] = "complete" => stage[q] = "complete" \/ job[q] # "none"

Spares(j) == pc'[j] = pc[j] /\ local'[j] = local[j]

LEMMA SeesKept ==
  ASSUME Evolves, NEW q \in Calculation, NEW revision, revision \in upstream, Sees(q, revision)
  PROVE  Sees(q, revision)'
  BY DEF Evolves, Sees

LEMMA GenuineKept ==
  ASSUME Evolves, NEW f, NEW r, Effective(r), Genuine(f, r)
  PROVE  Genuine(f, r)'
  <1>1. IsImpacts(f) /\ \A q \in DOMAIN f : q \in Calculation
    BY DEF Genuine, IsImpacts
  <1>2. \A q \in DOMAIN f : Sees(q, r.revision)'
    BY <1>1, SeesKept DEF Genuine, Effective
  <1>3. \A q \in DOMAIN f : f[q] = "complete" => job'[q] = "complete" /\ execution'[q] = "complete"
    BY <1>1 DEF Genuine, Evolves
  <1>4. IsImpacts(f)'
    BY <1>1 DEF IsImpacts
  <1> QED BY <1>2, <1>3, <1>4 DEF Genuine

LEMMA CoversKept ==
  ASSUME Evolves, WorkInv, NEW f, NEW c \in Correction, NEW todo, rows[c] # NoRow, CoversDue(f, c, todo)
  PROVE  CoversDue(f, c, todo)'
  BY DEF Evolves, WorkInv, CoversDue, Replaced

LEMMA RowKept ==
  ASSUME Evolves, WorkInv, NEW c \in Correction, RowInv(c), rows'[c] = rows[c]
  PROVE  RowInv(c)'
  <1>1. CASE rows[c] = NoRow
    BY <1>1 DEF RowInv
  <1>2. CASE rows[c] # NoRow
    <2>1. PICK x : x = rows[c] /\ rows'[c] = x
      OBVIOUS
    <2>2. IsRow(x) /\ x.req.id = c /\ Effective(x.req) /\ Genuine(x.impacts, x.req)
      BY <1>2, <2>1 DEF RowInv
    <2>3. IsRow(x)' /\ Effective(x.req)'
      BY <2>2 DEF IsRow, IsImpacts, Effective, Evolves
    <2>4. Genuine(x.impacts, x.req)'
      BY <2>2, GenuineKept
    <2>5. CoversDue(x.impacts, c, {}) => CoversDue(x.impacts, c, {})'
      BY <1>2, CoversKept
    <2>6. x.state = "cancelled" =>
            x.impacts # NoImpacts /\ \A q \in DOMAIN x.impacts : job'[q] = "cancelled"
      BY <1>2, <2>1, <2>2 DEF RowInv, IsRow, IsImpacts, Evolves
    <2>7. due'[c] = due[c]
      BY <1>2 DEF Evolves
    <2>8. \/ x.state = "superseded"
          \/ x.state = "recalculation_pending" /\ x.impacts = NoImpacts
          \/ CoversDue(x.impacts, c, {})'
      BY <1>2, <2>1, <2>5 DEF RowInv
    <2>9. x.impacts # NoImpacts => CoversDue(x.impacts, c, {})'
      BY <1>2, <2>1, <2>5 DEF RowInv
    <2>10. \A q \in due'[c] : Overlap(x.req.from, x.req.to, Window[q[1]])
      BY <1>2, <2>1, <2>7 DEF RowInv
    <2> QED BY <2>1, <2>2, <2>3, <2>4, <2>6, <2>8, <2>9, <2>10 DEF RowInv
  <1> QED BY <1>1, <1>2

LEMMA ClientKept ==
  ASSUME Evolves, WorkInv, NEW k \in Client, ClientInv(k), Spares(k)
  PROVE  ClientInv(k)'
  <1>1. PICK v : v = local[k] /\ local'[k] = v /\ pc'[k] = pc[k]
    BY DEF Spares
  <1>2. Effective(v.req) => Effective(v.req)'
    BY DEF Effective, Evolves
  <1>3. \A f : Effective(v.req) /\ Genuine(f, v.req) => Genuine(f, v.req)'
    BY GenuineKept
  <1>4. v.req.id \in Correction /\ rows[v.req.id] # NoRow =>
          \A f, todo : CoversDue(f, v.req.id, todo) => CoversDue(f, v.req.id, todo)'
    BY CoversKept
  <1>5. v.req.id \in Correction /\ rows[v.req.id] # NoRow /\ rows[v.req.id].req = v.req =>
          rows'[v.req.id] # NoRow /\ rows'[v.req.id].req = v.req
    BY DEF Evolves
  <1>6. /\ pc[k] \in {"coalesce", "register"} \cup Past => Effective(v.req)
        /\ pc[k] \in Past => v.req.id \in Correction /\ rows[v.req.id] # NoRow /\ rows[v.req.id].req = v.req
    BY <1>1 DEF ClientInv
  <1>7. Scheduler \cup {"write", "reconcile"} \cup Looping \subseteq Past
    BY DEF Past, Scheduler
  <1>8. pc[k] = "coalesce" => \A y \in v.latest :
          IsRow(y)' /\ \A q \in DOMAIN y.impacts : y.impacts[q] = "complete" => job'[q] = "complete"
    <2> SUFFICES ASSUME pc[k] = "coalesce", NEW y \in v.latest
                 PROVE  IsRow(y)' /\ \A q \in DOMAIN y.impacts : y.impacts[q] = "complete" => job'[q] = "complete"
      OBVIOUS
    <2>1. IsRow(y) /\ \A q \in DOMAIN y.impacts : y.impacts[q] = "complete" => job[q] = "complete"
      BY <1>1 DEF ClientInv
    <2>2. IsRow(y)'
      BY <2>1 DEF IsRow, IsImpacts
    <2> QED BY <2>1, <2>2 DEF IsRow, IsImpacts, Evolves
  <1>9. pc[k] = "register" => Genuine(v.inherited.impacts, v.req)'
          /\ v.inherited.from \in Day /\ v.inherited.to \in Day
    BY <1>1, <1>3, <1>6 DEF ClientInv
  <1>10. /\ pc[k] \in Scheduler \cup {"write"} => Genuine(v.impacts, v.req)'
         /\ pc[k] = "reconcile" => Genuine(v.record.impacts, v.req)'
    BY <1>1, <1>3, <1>6, <1>7 DEF ClientInv
  <1>11. /\ pc[k] \in Looping => v.todo \subseteq Bounded /\ CoversDue(v.impacts, v.req.id, v.todo)'
         /\ pc[k] = "reconcile" => CoversDue(v.record.impacts, v.req.id, {})'
         /\ pc[k] = "write" => CoversDue(v.impacts, v.req.id, {})'
    BY <1>1, <1>4, <1>6, <1>7 DEF ClientInv
  <1>12. pc[k] = "complete_stage" => job'[Replacement(v.req.id, CHOOSE q \in v.todo : TRUE)] # "none"
    <2> SUFFICES ASSUME pc[k] = "complete_stage"
                 PROVE  job'[Replacement(v.req.id, CHOOSE q \in v.todo : TRUE)] # "none"
      OBVIOUS
    <2>1. v.todo \subseteq Bounded /\ v.todo # {} /\ v.req.id \in Correction
          /\ job[Replacement(v.req.id, CHOOSE q \in v.todo : TRUE)] # "none"
      BY <1>1, <1>6 DEF ClientInv, Looping, Past, Scheduler, Current
    <2>2. PICK q : q = CHOOSE x \in v.todo : TRUE
      OBVIOUS
    <2>3. q \in Bounded
      BY <2>1, <2>2
    <2>4. Replacement(v.req.id, q) \in Calculation
      BY <2>1, <2>3, Replacing
    <2> QED BY <2>1, <2>2, <2>4 DEF Evolves
  <1>13. /\ pc[k] \in Looping \ {"next"} => v.todo # {}
         /\ pc[k] = "cancel_jobs" => v.batch \subseteq Calculation /\ v.todo \subseteq v.batch
         /\ pc[k] = "cancel_execution" => v.todo \subseteq v.batch
         /\ pc[k] \in {"cancel_execution", "cancel_publish"} =>
              v.batch \subseteq Calculation /\ \A q \in v.batch : job'[q] = "cancelled"
    BY <1>1 DEF ClientInv, Evolves
  <1> QED BY <1>1, <1>2, <1>5, <1>6, <1>8, <1>9, <1>10, <1>11, <1>12, <1>13 DEF ClientInv, Current

LEMMA WorkKept ==
  ASSUME Evolves, WorkInv, Quiet, \A c \in Correction : RowInv(c)
  PROVE  WorkInv'
  <1>1. ASSUME NEW q \in Calculation, Len(q) > 1, job'[q] # "none"
        PROVE  Reason(q) \in Correction /\ rows'[Reason(q)] # NoRow /\ Sees(q, rows[Reason(q)].req.revision)'
    <2>1. Reason(q) \in Correction /\ rows[Reason(q)] # NoRow /\ Sees(q, rows[Reason(q)].req.revision)
      BY <1>1 DEF WorkInv, Quiet
    <2>2. PICK r : r = rows[Reason(q)].req /\ rows'[Reason(q)].req = r
      BY <2>1 DEF Evolves
    <2>3. r.revision \in upstream
      BY <2>1, <2>2 DEF RowInv, Effective
    <2>4. Sees(q, r.revision)'
      BY <2>1, <2>2, <2>3, SeesKept
    <2> QED BY <2>1, <2>2, <2>4 DEF Evolves, Sees
  <1>2. \A q \in Calculation :
          job'[q] \in {"running", "complete"} \/ execution'[q] = "complete" => q \in Bounded
    BY DEF WorkInv, Quiet
  <1>3. \A c \in Correction : \A q \in due'[c] : q \in Calculation /\ execution'[q] \in {"complete", "failed"}
    BY DEF WorkInv, Quiet, Evolves
  <1>4. SubmittedMeansQueued'
    BY DEF WorkInv, Quiet, Evolves, SubmittedMeansQueued
  <1> QED BY <1>1, <1>2, <1>3, <1>4 DEF WorkInv, Reason, Bounded

-----------------------------------------------------------------------------
(* The parts that steps of a request share.                                *)

\* What a step of request k has to show.
Sound(k) ==
    /\ TypeInv'
    /\ Evolves
    /\ WorkInv'
    /\ \A c \in Correction : RowInv(c)'
    /\ ClientInv(k)'
    /\ \A j \in Client : j # k => Spares(j)

LEMMA Move ==
  ASSUME TypeInv, NEW k \in Client, NEW l \in Control, NEW x,
         Goto(k, l), local' = [local EXCEPT ![k] = x]
  PROVE  /\ pc' \in [Client -> Control] /\ DOMAIN local' = Client
         /\ pc'[k] = l /\ local'[k] = x
         /\ \A j \in Client : j # k => Spares(j)
  BY DEF TypeInv, Goto, Spares

LEMMA Idle ==
  ASSUME NEW k \in Client, pc'[k] = "idle"
  PROVE  ClientInv(k)'
  BY DEF ClientInv, Past, Scheduler, Looping

LEMMA Answered ==
  ASSUME TypeInv, NEW k \in Client, Answer(k)
  PROVE  /\ pc' \in [Client -> Control] /\ DOMAIN local' = Client
         /\ pc'[k] = "idle" /\ ClientInv(k)'
         /\ \A j \in Client : j # k => Spares(j)
  <1>1. Goto(k, "idle") /\ local' = [local EXCEPT ![k] = NoLocal] /\ "idle" \in Control
    BY DEF Answer, Control
  <1> QED BY <1>1, Move, Idle

\* A step that leaves the stores alone.
LEMMA StillStep ==
  ASSUME CorrectionInv, NEW k \in Client, UNCHANGED stores, upstream \subseteq upstream',
         pc' \in [Client -> Control], DOMAIN local' = Client,
         calls' \in 0..MaxCalls, faults' \in 0..MaxFaults,
         ClientInv(k)', \A j \in Client : j # k => Spares(j)
  PROVE  Sound(k)
  <1>1. TypeInv /\ WorkInv /\ \A c \in Correction : RowInv(c) /\ rows'[c] = rows[c]
    BY DEF CorrectionInv, stores
  <1>2. Evolves
    BY <1>1 DEF Evolves, stores, Waiting
  <1>3. Quiet
    BY DEF Quiet, stores
  <1>4. WorkInv' /\ \A c \in Correction : RowInv(c)'
    BY <1>1, <1>2, <1>3, WorkKept, RowKept
  <1>5. Registered' = Registered
    BY DEF Registered, stores
  <1>6. TypeInv'
    BY <1>1, <1>5 DEF TypeInv, stores
  <1> QED BY <1>2, <1>4, <1>6 DEF Sound

LEMMA BoundsKept ==
  ASSUME CorrectionInv
  PROVE  /\ UNCHANGED bounds => calls' \in 0..MaxCalls /\ faults' \in 0..MaxFaults
         /\ calls < MaxCalls /\ calls' = calls + 1 => calls' \in 0..MaxCalls
         /\ Fault => faults' \in 0..MaxFaults
         /\ UNCHANGED calls => calls' \in 0..MaxCalls
         /\ UNCHANGED faults => faults' \in 0..MaxFaults
  BY CorrectionAssumption DEF CorrectionInv, TypeInv, bounds, Fault

LEMMA NothingIsGenuine ==
  ASSUME NEW r
  PROVE  Genuine(NoImpacts, r) /\ DOMAIN NoImpacts = {}
  BY DEF NoImpacts, Genuine, IsImpacts

-----------------------------------------------------------------------------
(* Submission up to register.                                              *)

LEMMA SubmitSound ==
  ASSUME CorrectionInv, NEW k \in Client, NEW r \in Request, Submit(k, r)
  PROVE  Sound(k)
  <1> DEFINE x == [req |-> r, latest |-> LatestForScope]
  <1>1. /\ calls < MaxCalls /\ calls' = calls + 1 /\ upstream' = upstream \cup {r.revision}
        /\ Goto(k, "coalesce") /\ local' = [local EXCEPT ![k] = x] /\ UNCHANGED <<stores, faults>>
    BY DEF Submit
  <1>2. TypeInv /\ "coalesce" \in Control
    BY DEF CorrectionInv, Control
  <1>3. x.req = r /\ x.latest = LatestForScope
    OBVIOUS
  <1>4. \A y \in LatestForScope :
          IsRow(y) /\ \A q \in DOMAIN y.impacts : y.impacts[q] = "complete" => job[q] = "complete"
    BY DEF LatestForScope, Registered, CorrectionInv, RowInv, Genuine
  <1> HIDE DEF x
  <1>5. /\ pc' \in [Client -> Control] /\ DOMAIN local' = Client
        /\ pc'[k] = "coalesce" /\ local'[k] = x
        /\ \A j \in Client : j # k => Spares(j)
    BY <1>1, <1>2, Move
  <1>6. calls' \in 0..MaxCalls /\ faults' \in 0..MaxFaults
    BY <1>1, BoundsKept
  <1>7. \A y \in x.latest :
          IsRow(y)' /\ \A q \in DOMAIN y.impacts : y.impacts[q] = "complete" => job'[q] = "complete"
    BY <1>1, <1>3, <1>4 DEF IsRow, IsImpacts, stores
  <1>8. ClientInv(k)'
    BY <1>1, <1>3, <1>5, <1>7 DEF ClientInv, Effective, Past, Scheduler, Looping
  <1> QED BY <1>1, <1>5, <1>6, <1>8, StillStep

LEMMA CoalescedSound ==
  ASSUME NEW r, Effective(r), NEW latest,
         \A y \in latest :
            IsRow(y) /\ \A q \in DOMAIN y.impacts : y.impacts[q] = "complete" => job[q] = "complete"
  PROVE  /\ Genuine(Coalesced(r, latest).impacts, r)
         /\ Coalesced(r, latest).from \in Day /\ Coalesced(r, latest).to \in Day
  <1> DEFINE own == [impacts |-> NoImpacts, from |-> r.from, to |-> r.to]
             y == CHOOSE z \in latest : TRUE
             Lo(a, b) == IF a < b THEN a ELSE b
             Hi(a, b) == IF a < b THEN b ELSE a
             joint == [impacts |-> y.impacts, from |-> Lo(y.from, r.from), to |-> Hi(y.to, r.to)]
             again == [impacts |-> NoImpacts, from |-> y.from, to |-> y.to]
  <1>1. r.from \in Day /\ r.to \in Day
    BY CorrectionAssumption DEF Effective
  <1>2. CASE Coalesced(r, latest) = own
    BY <1>1, <1>2, NothingIsGenuine
  <1>3. CASE latest # {} /\ Coalesced(r, latest) = again
    <2>1. y.from \in Day /\ y.to \in Day
      BY <1>3 DEF IsRow
    <2> QED BY <1>3, <2>1, NothingIsGenuine
  <1>4. CASE latest # {} /\ Coalesced(r, latest) = joint /\ AllImpactsPending(y.impacts)
    <2>1. y \in latest
      BY <1>4
    <2> HIDE DEF y
    <2>2. y.from \in Day /\ y.to \in Day /\ IsImpacts(y.impacts)
      BY <2>1 DEF IsRow
    <2>3. Genuine(y.impacts, r)
      BY <1>4, <2>1, <2>2 DEF Genuine, AllImpactsPending, Sees, Waiting
    <2> QED BY <1>1, <1>4, <2>2, <2>3 DEF Day
  <1>5. latest = {} => Coalesced(r, latest) = own
    BY DEF Coalesced
  <1>6. latest # {} =>
          \/ Coalesced(r, latest) = own
          \/ Coalesced(r, latest) = again
          \/ Coalesced(r, latest) = joint /\ AllImpactsPending(y.impacts)
    BY DEF Coalesced
  <1> QED BY <1>2, <1>3, <1>4, <1>5, <1>6

LEMMA CoalesceSound ==
  ASSUME CorrectionInv, NEW k \in Client, Coalesce(k)
  PROVE  Sound(k)
  <1> DEFINE g == Coalesced(local[k].req, local[k].latest)
             x == [req |-> local[k].req, inherited |-> g]
  <1>1. /\ pc[k] = "coalesce" /\ Goto(k, "register") /\ local' = [local EXCEPT ![k] = x]
        /\ UNCHANGED <<upstream, stores, bounds>>
    BY DEF Coalesce
  <1>2. TypeInv /\ "register" \in Control /\ ClientInv(k)
    BY DEF CorrectionInv, Control
  <1>3. /\ Effective(local[k].req)
        /\ Genuine(g.impacts, local[k].req) /\ g.from \in Day /\ g.to \in Day
    BY <1>1, <1>2, CoalescedSound DEF ClientInv
  <1>4. x.req = local[k].req /\ x.inherited = g
    OBVIOUS
  <1> HIDE DEF x, g
  <1>5. /\ pc' \in [Client -> Control] /\ DOMAIN local' = Client
        /\ pc'[k] = "register" /\ local'[k] = x
        /\ \A j \in Client : j # k => Spares(j)
    BY <1>1, <1>2, Move
  <1>6. ClientInv(k)'
    <2>1. Effective(local[k].req)' /\ Genuine(x.inherited.impacts, x.req)
      BY <1>3, <1>4, <1>5, <1>1 DEF Effective
    <2>2. Genuine(local[k].inherited.impacts, local[k].req)'
      BY <2>1, <1>1, <1>5 DEF Genuine, Sees, IsImpacts, stores
    <2> QED BY <2>1, <2>2, <1>3, <1>4, <1>5 DEF ClientInv, Past, Scheduler, Looping
  <1> QED BY <1>1, <1>5, <1>6, StillStep, BoundsKept

LEMMA RegisterSound ==
  ASSUME CorrectionInv, NEW k \in Client, Register(k)
  PROVE  Sound(k)
  <1>1. PICK r : r = local[k].req
    OBVIOUS
  <1>2. PICK h : h = local[k].inherited
    OBVIOUS
  <1> DEFINE v(x) == [req |-> r, impacts |-> h.impacts, record |-> x]
             Continue(x) == Goto(k, "check_newer") /\ local' = [local EXCEPT ![k] = v(x)]
             new == Row(r, Cardinality(Registered), h.from, h.to, "recalculation_pending", NoImpacts)
  <1>3. /\ pc[k] = "register" /\ UNCHANGED <<upstream, execution, stage, job, saw, bounds>>
        /\ \/ Answer(k) /\ UNCHANGED <<rows, due>>
           \/ /\ rows[r.id] # NoRow /\ rows[r.id].req = r /\ Continue(rows[r.id])
              /\ UNCHANGED <<rows, due>>
           \/ /\ rows[r.id] = NoRow /\ rows' = [rows EXCEPT ![r.id] = new] /\ Continue(new)
              /\ due' = [due EXCEPT ![r.id] = Impacted(r)]
    BY <1>1, <1>2 DEF Register
  <1>4. /\ TypeInv /\ WorkInv /\ "check_newer" \in Control /\ Effective(r) /\ Genuine(h.impacts, r)
        /\ h.from \in Day /\ h.to \in Day /\ \A c \in Correction : RowInv(c)
    BY <1>1, <1>2, <1>3 DEF CorrectionInv, ClientInv, Control
  <1>5. r \in Request /\ r.id \in Correction /\ r.revision \in upstream
    BY <1>4, CorrectionAssumption DEF Effective
  <1>6. \A x : v(x).req = r /\ v(x).impacts = h.impacts
    OBVIOUS
  <1>7. calls' \in 0..MaxCalls /\ faults' \in 0..MaxFaults
    BY <1>3, BoundsKept
  <1> HIDE DEF v
  <1>8. CASE Answer(k) /\ UNCHANGED <<rows, due>>
    BY <1>3, <1>4, <1>7, <1>8, Answered, StillStep DEF stores
  <1>9. ASSUME Evolves, rows'[r.id] # NoRow, rows'[r.id].req = r, NEW x, Continue(x)
        PROVE  /\ pc' \in [Client -> Control] /\ DOMAIN local' = Client /\ ClientInv(k)'
               /\ \A j \in Client : j # k => Spares(j)
    <2>1. /\ pc' \in [Client -> Control] /\ DOMAIN local' = Client
          /\ pc'[k] = "check_newer" /\ local'[k] = v(x)
          /\ \A j \in Client : j # k => Spares(j)
      BY <1>4, <1>9, Move
    <2>2. local'[k].req = r /\ local'[k].impacts = h.impacts
      BY <2>1, <1>6
    <2>3. Effective(r)' /\ Genuine(h.impacts, r)'
      BY <1>4, <1>9, GenuineKept DEF Effective, Evolves
    <2>4. Effective(local[k].req)' /\ Genuine(local[k].impacts, local[k].req)'
      BY <2>2, <2>3 DEF Effective, Genuine, Sees, IsImpacts
    <2>5. ClientInv(k)'
      BY <1>5, <1>9, <2>1, <2>2, <2>4 DEF ClientInv, Past, Scheduler, Looping
    <2> QED BY <2>1, <2>5
  <1>10. CASE rows[r.id] # NoRow /\ rows[r.id].req = r /\ Continue(rows[r.id]) /\ UNCHANGED <<rows, due>>
    <2>1. Evolves /\ rows'[r.id] # NoRow /\ rows'[r.id].req = r
      BY <1>3, <1>10 DEF Evolves, Waiting
    <2>2. /\ pc' \in [Client -> Control] /\ DOMAIN local' = Client /\ ClientInv(k)'
          /\ \A j \in Client : j # k => Spares(j)
      BY <1>9, <1>10, <2>1
    <2> QED BY <1>3, <1>7, <1>10, <2>2, StillStep DEF stores
  <1>11. CASE /\ rows[r.id] = NoRow /\ rows' = [rows EXCEPT ![r.id] = new] /\ Continue(new)
              /\ due' = [due EXCEPT ![r.id] = Impacted(r)]
    <2>1. Cardinality(Registered) \in Nat /\ IsFiniteSet(Registered \cup {r.id})
      BY <1>4, FS_CardinalityType, FS_AddElement DEF TypeInv
    <2>2. /\ new.req = r /\ new.created \in Nat /\ new.from \in Day /\ new.to \in Day
          /\ new.state = "recalculation_pending" /\ new.impacts = NoImpacts
      BY <1>4, <2>1 DEF Row
    <2>3. new # NoRow /\ IsRow(new)
      <3>1. new.state # NoRow.state
        BY <2>2 DEF NoRow
      <3> QED BY <1>5, <2>2, <3>1, NothingIsGenuine DEF IsRow, RowState, Genuine
    <2> HIDE DEF new
    <2>4. /\ rows'[r.id] = new /\ due'[r.id] = Impacted(r)
          /\ \A c \in Correction : c # r.id => rows'[c] = rows[c] /\ due'[c] = due[c]
          /\ DOMAIN rows' = Correction /\ DOMAIN due' = Correction
      BY <1>4, <1>5, <1>11 DEF TypeInv
    <2>5. Evolves
      BY <1>3, <1>11, <2>4 DEF Evolves, Waiting
    <2>6. /\ pc' \in [Client -> Control] /\ DOMAIN local' = Client /\ ClientInv(k)'
          /\ \A j \in Client : j # k => Spares(j)
      BY <1>9, <1>11, <2>2, <2>3, <2>4, <2>5
    <2>7. RowInv(r.id)'
      <3>1. PICK n : n = new /\ rows'[r.id] = n
        BY <2>4
      <3>2. n.req = r /\ n.state = "recalculation_pending" /\ n.impacts = NoImpacts /\ IsRow(n)
        BY <2>2, <2>3, <3>1
      <3>3. Effective(r)' /\ Genuine(NoImpacts, r)'
        BY <1>4, <2>5, NothingIsGenuine, GenuineKept DEF Effective, Evolves
      <3>4. IsRow(n)'
        BY <3>2 DEF IsRow, IsImpacts
      <3>5. \A q \in due'[r.id] : Overlap(r.from, r.to, Window[q[1]])
        BY <2>4 DEF Impacted
      <3>6. IsRow(rows[r.id])' /\ Effective(rows[r.id].req)' /\ Genuine(rows[r.id].impacts, rows[r.id].req)'
        BY <3>1, <3>2, <3>3, <3>4 DEF IsRow, IsImpacts, Effective, Genuine, Sees
      <3> QED BY <3>1, <3>2, <3>5, <3>6 DEF RowInv
    <2>8. \A c \in Correction : RowInv(c)'
      BY <1>4, <2>4, <2>5, <2>7, RowKept
    <2>9. WorkInv'
      <3>1. ASSUME NEW q \in Calculation, Len(q) > 1, job'[q] # "none"
            PROVE  Reason(q) \in Correction /\ rows'[Reason(q)] # NoRow
                    /\ Sees(q, rows[Reason(q)].req.revision)'
        <4>1. Reason(q) \in Correction /\ rows[Reason(q)] # NoRow /\ Sees(q, rows[Reason(q)].req.revision)
          BY <1>3, <1>4, <3>1 DEF WorkInv
        <4>2. rows'[Reason(q)] = rows[Reason(q)]
          BY <1>11, <2>4, <4>1
        <4> QED BY <1>3, <4>1, <4>2 DEF Sees
      <3>2. \A c \in Correction : \A q \in due'[c] :
              q \in Calculation /\ execution'[q] \in {"complete", "failed"}
        BY <1>3, <1>4, <2>4 DEF WorkInv, Impacted
      <3> QED BY <1>3, <1>4, <3>1, <3>2 DEF WorkInv, SubmittedMeansQueued, Reason, Bounded
    <2>10. Registered' = Registered \cup {r.id}
      BY <1>5, <2>3, <2>4 DEF Registered
    <2>11. TypeInv'
      BY <1>3, <1>4, <1>7, <2>1, <2>4, <2>6, <2>10 DEF TypeInv
    <2> QED BY <2>5, <2>6, <2>8, <2>9, <2>11 DEF Sound
  <1> QED BY <1>3, <1>8, <1>10, <1>11

\* The request is past register: what its next control state needs.
LEMMA CheckNewerSound ==
  ASSUME CorrectionInv, NEW k \in Client, CheckNewer(k)
  PROVE  Sound(k)
  <1> DEFINE x == [req |-> local[k].req, impacts |-> local[k].impacts]
  <1>1. /\ pc[k] = "check_newer" /\ local' = [local EXCEPT ![k] = x]
        /\ UNCHANGED <<upstream, stores, bounds>>
        /\ \E l \in {"get", "supersede", "list"} : Goto(k, l)
    BY DEF CheckNewer
  <1>2. PICK l \in {"get", "supersede", "list"} : Goto(k, l)
    BY <1>1
  <1>3. TypeInv /\ l \in Control /\ ClientInv(k)
    BY DEF CorrectionInv, Control
  <1>4. x.req = local[k].req /\ x.impacts = local[k].impacts
    OBVIOUS
  <1> HIDE DEF x
  <1>5. /\ pc' \in [Client -> Control] /\ DOMAIN local' = Client
        /\ pc'[k] = l /\ local'[k] = x
        /\ \A j \in Client : j # k => Spares(j)
    BY <1>1, <1>2, <1>3, Move
  <1>6. /\ Effective(local[k].req) /\ Genuine(local[k].impacts, local[k].req)
        /\ local[k].req.id \in Correction /\ rows[local[k].req.id] # NoRow
        /\ rows[local[k].req.id].req = local[k].req
    BY <1>1, <1>3 DEF ClientInv, Past, Scheduler
  <1>7. ClientInv(k)'
    <2>1. Effective(local[k].req)' /\ Genuine(local[k].impacts, local[k].req)'
      BY <1>1, <1>4, <1>5, <1>6 DEF Effective, Genuine, Sees, IsImpacts, stores
    <2>2. rows'[local'[k].req.id] # NoRow /\ rows'[local'[k].req.id].req = local'[k].req
          /\ local'[k].req.id \in Correction
      BY <1>1, <1>4, <1>5, <1>6 DEF stores
    <2> QED BY <2>1, <2>2, <1>5 DEF ClientInv, Past, Scheduler, Looping
  <1> QED BY <1>1, <1>5, <1>7, StillStep, BoundsKept

-----------------------------------------------------------------------------
(* The rows.                                                               *)

LEMMA UpdateRow ==
  ASSUME CorrectionInv, NEW c \in Correction, rows[c] # NoRow, NEW state \in RowState \ {"cancelled"},
         NEW f, Genuine(f, rows[c].req), state = "superseded" \/ CoversDue(f, c, {}),
         f # NoImpacts => CoversDue(f, c, {}), Update(c, state, f),
         UNCHANGED <<upstream, execution, stage, job, saw, due>>
  PROVE  /\ Evolves /\ WorkInv' /\ \A d \in Correction : RowInv(d)'
         /\ IsFiniteSet(Registered') /\ DOMAIN rows' = Correction
         /\ rows'[c] # NoRow /\ rows'[c].req = rows[c].req
  <1> DEFINE x == Row(rows[c].req, rows[c].created, rows[c].from, rows[c].to, state, f)
  <1>1. TypeInv /\ WorkInv /\ \A d \in Correction : RowInv(d)
    BY DEF CorrectionInv
  <1>2. x.req = rows[c].req /\ x.created = rows[c].created /\ x.from = rows[c].from /\ x.to = rows[c].to
        /\ x.state = state /\ x.impacts = f
    BY DEF Row
  <1>3. rows' = [rows EXCEPT ![c] = x]
    BY DEF Update
  <1>4. IsRow(x) /\ x # NoRow
    <2>1. x.state # NoRow.state
      BY <1>2 DEF NoRow, RowState
    <2> QED BY <1>1, <1>2, <2>1 DEF RowInv, IsRow, Genuine
  <1> HIDE DEF x
  <1>5. /\ rows'[c] = x /\ DOMAIN rows' = Correction
        /\ \A d \in Correction : d # c => rows'[d] = rows[d]
    BY <1>1, <1>3 DEF TypeInv
  <1>6. Evolves
    BY <1>2, <1>4, <1>5 DEF Evolves, Waiting
  <1>7. Quiet
    BY DEF Quiet
  <1>8. RowInv(c)'
    <2>1. /\ rows[c].req.id = c /\ Effective(rows[c].req)
          /\ \A q \in due[c] : Overlap(rows[c].req.from, rows[c].req.to, Window[q[1]])
      BY <1>1 DEF RowInv
    <2>2. IsRow(rows[c])' /\ Genuine(rows[c].impacts, rows[c].req)' /\ Effective(rows[c].req)'
      BY <1>2, <1>4, <1>5, <2>1 DEF IsRow, Genuine, IsImpacts, Sees, Effective
    <2>3. CoversDue(f, c, {}) => CoversDue(rows[c].impacts, c, {})'
      BY <1>2, <1>5 DEF CoversDue, Replaced
    <2> QED BY <1>2, <1>5, <2>1, <2>2, <2>3 DEF RowInv
  <1>9. \A d \in Correction : RowInv(d)'
    BY <1>1, <1>5, <1>6, <1>8, RowKept
  <1>10. WorkInv'
    BY <1>1, <1>6, <1>7, WorkKept
  <1>11. Registered' = Registered
    BY <1>4, <1>5 DEF Registered
  <1> QED BY <1>1, <1>2, <1>4, <1>5, <1>6, <1>9, <1>10, <1>11 DEF TypeInv

LEMMA SupersedeSound ==
  ASSUME CorrectionInv, NEW k \in Client, Supersede(k)
  PROVE  Sound(k)
  <1>1. PICK c : c = local[k].req.id
    OBVIOUS
  <1>2. /\ pc[k] = "supersede" /\ Update(c, "superseded", NoImpacts) /\ Answer(k)
        /\ UNCHANGED <<upstream, execution, stage, job, saw, due, bounds>>
    BY <1>1 DEF Supersede
  <1>3. TypeInv /\ c \in Correction /\ rows[c] # NoRow
    BY <1>1, <1>2 DEF CorrectionInv, ClientInv, Past, Scheduler
  <1>4. /\ Evolves /\ WorkInv' /\ \A d \in Correction : RowInv(d)'
        /\ IsFiniteSet(Registered') /\ DOMAIN rows' = Correction
    BY <1>2, <1>3, UpdateRow, NothingIsGenuine DEF RowState
  <1>5. /\ pc' \in [Client -> Control] /\ DOMAIN local' = Client /\ ClientInv(k)'
        /\ \A j \in Client : j # k => Spares(j)
    BY <1>2, <1>3, Answered
  <1>6. TypeInv'
    BY <1>2, <1>3, <1>4, <1>5, BoundsKept DEF TypeInv
  <1> QED BY <1>4, <1>5, <1>6 DEF Sound

LEMMA WriteSound ==
  ASSUME CorrectionInv, NEW k \in Client, Write(k)
  PROVE  Sound(k)
  <1>1. PICK c, f : c = local[k].req.id /\ f = local[k].impacts
    OBVIOUS
  <1>2. /\ pc[k] = "write" /\ Update(c, ReconciledState(f), f) /\ Answer(k)
        /\ UNCHANGED <<upstream, execution, stage, job, saw, due, bounds>>
    BY <1>1 DEF Write
  <1>3. /\ TypeInv /\ c \in Correction /\ rows[c] # NoRow /\ Genuine(f, rows[c].req) /\ CoversDue(f, c, {})
    BY <1>1, <1>2 DEF CorrectionInv, ClientInv, Past
  <1>4. ReconciledState(f) \in RowState \ {"cancelled"}
    BY DEF ReconciledState, RowState
  <1>5. /\ Evolves /\ WorkInv' /\ \A d \in Correction : RowInv(d)'
        /\ IsFiniteSet(Registered') /\ DOMAIN rows' = Correction
    BY <1>2, <1>3, <1>4, UpdateRow
  <1>6. /\ pc' \in [Client -> Control] /\ DOMAIN local' = Client /\ ClientInv(k)'
        /\ \A j \in Client : j # k => Spares(j)
    BY <1>2, <1>3, Answered
  <1>7. TypeInv'
    BY <1>2, <1>3, <1>5, <1>6, BoundsKept DEF TypeInv
  <1> QED BY <1>5, <1>6, <1>7 DEF Sound

-----------------------------------------------------------------------------
(* The scheduling loop.                                                    *)

LEMMA ListSound ==
  ASSUME CorrectionInv, NEW k \in Client, List(k)
  PROVE  Sound(k)
  <1>1. PICK r, f : r = local[k].req /\ f = local[k].impacts
    OBVIOUS
  <1> DEFINE todo == Candidates(r, f)
  <1>2. PICK x : x = Scheduling(r, f, todo, FALSE)
    OBVIOUS
  <1>3. /\ pc[k] = "list" /\ local' = [local EXCEPT ![k] = x] /\ Goto(k, "next")
        /\ UNCHANGED <<upstream, stores, bounds>>
    BY <1>1, <1>2 DEF List
  <1>4. /\ TypeInv /\ WorkInv /\ "next" \in Control
        /\ Effective(r) /\ Genuine(f, r) /\ r.id \in Correction /\ rows[r.id] # NoRow /\ rows[r.id].req = r
        /\ RowInv(r.id)
    BY <1>1, <1>3 DEF CorrectionInv, ClientInv, Past, Scheduler, Control
  <1>5. x.req = r /\ x.impacts = f /\ x.todo = todo
    BY <1>2 DEF Scheduling
  <1>6. todo \subseteq Bounded
    BY <1>4 DEF Candidates, Impacted, WorkInv
  <1>7. CoversDue(f, r.id, todo)
    BY <1>4 DEF CoversDue, Candidates, Impacted, RowInv, WorkInv
  <1> HIDE DEF todo
  <1>8. /\ pc' \in [Client -> Control] /\ DOMAIN local' = Client
        /\ pc'[k] = "next" /\ local'[k] = x
        /\ \A j \in Client : j # k => Spares(j)
    BY <1>3, <1>4, Move
  <1>9. ClientInv(k)'
    <2>1. Effective(local[k].req)' /\ Genuine(local[k].impacts, local[k].req)'
      BY <1>3, <1>4, <1>5, <1>8 DEF Effective, Genuine, Sees, IsImpacts, stores
    <2>2. CoversDue(local[k].impacts, local[k].req.id, local[k].todo)'
      BY <1>3, <1>5, <1>7, <1>8 DEF CoversDue, stores
    <2>3. rows'[local'[k].req.id] # NoRow /\ rows'[local'[k].req.id].req = local'[k].req
          /\ local'[k].req.id \in Correction /\ local'[k].todo \subseteq Bounded
      BY <1>3, <1>4, <1>5, <1>6, <1>8 DEF stores
    <2> QED BY <2>1, <2>2, <2>3, <1>8 DEF ClientInv, Past, Scheduler, Looping
  <1> QED BY <1>3, <1>8, <1>9, StillStep, BoundsKept

\* What a request holds in the loop.
LEMMA InLoop ==
  ASSUME CorrectionInv, NEW k \in Client, pc[k] \in Looping
  PROVE  /\ Effective(local[k].req) /\ Genuine(local[k].impacts, local[k].req)
         /\ local[k].req.id \in Correction /\ rows[local[k].req.id] # NoRow
         /\ rows[local[k].req.id].req = local[k].req
         /\ local[k].todo \subseteq Bounded
         /\ CoversDue(local[k].impacts, local[k].req.id, local[k].todo)
  BY DEF CorrectionInv, ClientInv, Past, Scheduler

\* The current candidate and its replacement.
LEMMA CurrentReplacement ==
  ASSUME CorrectionInv, NEW k \in Client, pc[k] \in Looping, local[k].todo # {}
  PROVE  /\ Current(k) \in local[k].todo /\ Current(k) \in Bounded
         /\ Replacement(local[k].req.id, Current(k)) \in Calculation
         /\ Len(Replacement(local[k].req.id, Current(k))) > 1
         /\ Reason(Replacement(local[k].req.id, Current(k))) = local[k].req.id
         /\ Replaced(Replacement(local[k].req.id, Current(k))) = Current(k)
  <1>1. Current(k) \in local[k].todo
    BY DEF Current
  <1>2. Current(k) \in Bounded /\ local[k].req.id \in Correction
    BY <1>1, InLoop
  <1> QED BY <1>1, <1>2, Replacing

\* The request goes on in the loop with the same candidate.
LEMMA LoopsOn ==
  ASSUME CorrectionInv, Evolves, NEW k \in Client, pc[k] \in Looping, local[k].todo # {},
         NEW l \in Looping \ {"next"}, pc'[k] = l,
         local'[k].req = local[k].req, local'[k].impacts = local[k].impacts, local'[k].todo = local[k].todo,
         l = "complete_stage" => job'[Replacement(local[k].req.id, Current(k))] # "none"
  PROVE  ClientInv(k)'
  <1>1. PICK r, f, todo : r = local[k].req /\ f = local[k].impacts /\ todo = local[k].todo
    OBVIOUS
  <1>2. Effective(r)' /\ Genuine(f, r)' /\ CoversDue(f, r.id, todo)'
    BY <1>1, InLoop, GenuineKept, CoversKept DEF Effective, Evolves, CorrectionInv
  <1>3. /\ Effective(local[k].req)' /\ Genuine(local[k].impacts, local[k].req)'
        /\ CoversDue(local[k].impacts, local[k].req.id, local[k].todo)'
    BY <1>1, <1>2 DEF Effective, Genuine, Sees, IsImpacts, CoversDue
  <1>4. rows'[r.id] # NoRow /\ rows'[r.id].req = r /\ r.id \in Correction /\ todo \subseteq Bounded
    BY <1>1, InLoop DEF Evolves
  <1>5. Current(k)' = Current(k)
    BY DEF Current
  <1> QED BY <1>1, <1>3, <1>4, <1>5 DEF ClientInv, Past, Scheduler, Looping

LEMMA ScheduleNextSound ==
  ASSUME CorrectionInv, NEW k \in Client, ScheduleNext(k)
  PROVE  Sound(k)
  <1>1. pc[k] = "next" /\ UNCHANGED <<upstream, stage, job, saw, due, bounds>>
    BY DEF ScheduleNext
  <1>2. /\ TypeInv /\ WorkInv /\ pc[k] \in Looping /\ \A c \in Correction : RowInv(c)
        /\ calls' \in 0..MaxCalls /\ faults' \in 0..MaxFaults
    BY <1>1, BoundsKept DEF CorrectionInv, Looping
  <1>3. CASE local[k].todo # {}
    <2>1. PICK q : q = Replacement(local[k].req.id, Current(k))
      OBVIOUS
    <2>2. q \in Calculation
      BY <1>2, <1>3, <2>1, CurrentReplacement
    <2>3. /\ \E l \in {"start_stage", "register_job"} : Goto(k, l)
          /\ UNCHANGED rows
          /\ \E b \in BOOLEAN : local' = [local EXCEPT ![k] =
                Scheduling(local[k].req, local[k].impacts, local[k].todo, b)]
          /\ \/ /\ execution[q] = "none"
                /\ execution' = [execution EXCEPT ![q] = "pending"]
             \/ UNCHANGED execution
      BY <1>3, <2>1 DEF ScheduleNext
    <2>31. PICK l \in {"start_stage", "register_job"} : Goto(k, l)
      BY <2>3
    <2>4. PICK b \in BOOLEAN : local' = [local EXCEPT ![k] =
                Scheduling(local[k].req, local[k].impacts, local[k].todo, b)]
      BY <2>3
    <2>5. PICK x : x = Scheduling(local[k].req, local[k].impacts, local[k].todo, b)
      OBVIOUS
    <2>6. x.req = local[k].req /\ x.impacts = local[k].impacts /\ x.todo = local[k].todo
      BY <2>5 DEF Scheduling
    <2>7. /\ pc' \in [Client -> Control] /\ DOMAIN local' = Client
          /\ pc'[k] = l /\ local'[k] = x
          /\ \A j \in Client : j # k => Spares(j)
      BY <1>2, <2>31, <2>4, <2>5, Move DEF Control
    <2>8. /\ \A p \in Calculation : execution'[p] = execution[p]
                                    \/ (execution[p] = "none" /\ execution'[p] = "pending")
          /\ execution' \in [Calculation -> {"none", "pending", "complete", "failed"}]
      BY <1>2, <2>2, <2>3 DEF TypeInv
    <2>9. Evolves /\ Quiet
      BY <1>1, <2>3, <2>8 DEF Evolves, Quiet, Waiting
    <2>10. WorkInv' /\ \A c \in Correction : RowInv(c)'
      BY <1>2, <2>3, <2>9, WorkKept, RowKept
    <2>11. ClientInv(k)'
      BY <1>2, <1>3, <2>6, <2>7, <2>9, LoopsOn DEF Looping
    <2>12. Registered' = Registered
      BY <2>3 DEF Registered
    <2>13. TypeInv'
      BY <1>1, <1>2, <2>3, <2>7, <2>8, <2>12 DEF TypeInv
    <2> QED BY <2>7, <2>9, <2>10, <2>11, <2>13 DEF Sound
  <1>4. CASE local[k].todo = {}
    <2>1. PICK r, f : r = local[k].req /\ f = local[k].impacts
      OBVIOUS
    <2>2. PICK state : state = IF f = NoImpacts THEN "no_effect" ELSE "recalculation_pending"
      OBVIOUS
    <2>3. PICK x : x = [req |-> r]
      OBVIOUS
    <2>4. /\ Update(r.id, state, f) /\ Goto(k, "get") /\ local' = [local EXCEPT ![k] = x]
          /\ UNCHANGED execution
      BY <1>4, <2>1, <2>2, <2>3 DEF ScheduleNext
    <2>5. /\ Effective(r) /\ Genuine(f, r) /\ r.id \in Correction /\ rows[r.id] # NoRow /\ rows[r.id].req = r
          /\ CoversDue(f, r.id, {}) /\ state \in RowState \ {"cancelled"}
      BY <1>2, <1>4, <2>1, <2>2, InLoop DEF RowState
    <2>6. /\ Evolves /\ WorkInv' /\ \A d \in Correction : RowInv(d)'
          /\ IsFiniteSet(Registered') /\ DOMAIN rows' = Correction
          /\ rows'[r.id] # NoRow /\ rows'[r.id].req = r
      BY <1>1, <2>4, <2>5, UpdateRow
    <2>7. /\ pc' \in [Client -> Control] /\ DOMAIN local' = Client
          /\ pc'[k] = "get" /\ local'[k] = x
          /\ \A j \in Client : j # k => Spares(j)
      BY <1>2, <2>4, Move DEF Control
    <2>8. ClientInv(k)'
      BY <2>3, <2>5, <2>6, <2>7 DEF ClientInv, Past, Scheduler, Looping, Effective, Evolves
    <2>9. TypeInv'
      BY <1>1, <1>2, <2>4, <2>6, <2>7 DEF TypeInv
    <2> QED BY <2>6, <2>7, <2>8, <2>9 DEF Sound
  <1> QED BY <1>3, <1>4

LEMMA StartStageSound ==
  ASSUME CorrectionInv, NEW k \in Client, StartStage(k)
  PROVE  Sound(k)
  <1>1. pc[k] = "start_stage" /\ UNCHANGED <<upstream, rows, execution, job, saw, due, local, bounds>>
    BY DEF StartStage
  <1>2. /\ TypeInv /\ WorkInv /\ pc[k] \in Looping /\ local[k].todo # {}
        /\ \A c \in Correction : RowInv(c)
        /\ calls' \in 0..MaxCalls /\ faults' \in 0..MaxFaults
    BY <1>1, BoundsKept DEF CorrectionInv, ClientInv, Looping
  <1>3. PICK q : q = Replacement(local[k].req.id, Current(k))
    OBVIOUS
  <1>4. stage' = [stage EXCEPT ![q] = "in_progress"] /\ Goto(k, "register_job")
    BY <1>3 DEF StartStage
  <1>5. /\ pc' \in [Client -> Control] /\ DOMAIN local' = Client
        /\ pc'[k] = "register_job" /\ local'[k] = local[k]
        /\ \A j \in Client : j # k => Spares(j)
    BY <1>1, <1>2, <1>4 DEF TypeInv, Goto, Control, Spares
  <1>6. /\ \A p \in Calculation : stage'[p] = "complete" => stage[p] = "complete"
        /\ stage' \in [Calculation -> {"none", "in_progress", "complete"}]
    BY <1>2, <1>4 DEF TypeInv
  <1>7. Evolves /\ Quiet
    BY <1>1, <1>6 DEF Evolves, Quiet, Waiting
  <1>8. WorkInv' /\ \A c \in Correction : RowInv(c)'
    BY <1>1, <1>2, <1>7, WorkKept, RowKept
  <1>9. ClientInv(k)'
    BY <1>2, <1>5, <1>7, LoopsOn DEF Looping
  <1>10. Registered' = Registered
    BY <1>1 DEF Registered
  <1>11. TypeInv'
    BY <1>1, <1>2, <1>5, <1>6, <1>10 DEF TypeInv
  <1> QED BY <1>5, <1>7, <1>8, <1>9, <1>11 DEF Sound

\* The impact of the candidate is noted: its job exists.
LEMMA ScheduledStep ==
  ASSUME CorrectionInv, Evolves, WorkInv', NEW k \in Client, pc[k] \in {"register_job", "complete_stage"},
         job'[Replacement(local[k].req.id, Current(k))] # "none", Scheduled(k)
  PROVE  /\ pc' \in [Client -> Control] /\ DOMAIN local' = Client /\ ClientInv(k)'
         /\ \A j \in Client : j # k => Spares(j)
  <1>1. pc[k] \in Looping /\ local[k].todo # {} /\ TypeInv /\ "next" \in Control /\ WorkInv
    BY DEF Looping, CorrectionInv, ClientInv, Control
  <1>2. PICK r, f, p : r = local[k].req /\ f = local[k].impacts /\ p = Current(k)
    OBVIOUS
  <1>3. PICK q : q = Replacement(r.id, p)
    OBVIOUS
  <1>4. PICK g : g = Extended(f, q)
    OBVIOUS
  <1>5. PICK todo : todo = local[k].todo \ {p}
    OBVIOUS
  <1>6. PICK x : x = Scheduling(r, g, todo, FALSE)
    OBVIOUS
  <1>7. x.req = r /\ x.impacts = g /\ x.todo = todo
    BY <1>6 DEF Scheduling
  <1>8. Goto(k, "next") /\ local' = [local EXCEPT ![k] = x]
    BY <1>2, <1>3, <1>4, <1>5, <1>6 DEF Scheduled
  <1>9. /\ pc' \in [Client -> Control] /\ DOMAIN local' = Client
        /\ pc'[k] = "next" /\ local'[k] = x
        /\ \A j \in Client : j # k => Spares(j)
    BY <1>1, <1>8, Move
  <1>10. /\ Effective(r) /\ Genuine(f, r) /\ r.id \in Correction /\ rows[r.id] # NoRow /\ rows[r.id].req = r
         /\ local[k].todo \subseteq Bounded /\ CoversDue(f, r.id, local[k].todo)
    BY <1>1, <1>2, InLoop
  <1>11. q \in Calculation /\ Len(q) > 1 /\ Reason(q) = r.id /\ Replaced(q) = p
    BY <1>1, <1>2, <1>3, CurrentReplacement
  <1>12. rows'[r.id] # NoRow /\ rows'[r.id].req = r /\ Effective(r)'
    BY <1>10 DEF Evolves, Effective
  <1>13. Sees(q, r.revision)'
    <2>1. job'[q] # "none"
      BY <1>2, <1>3
    <2>2. Sees(q, rows[Reason(q)].req.revision)'
      BY <1>11, <2>1 DEF WorkInv
    <2> QED BY <1>11, <1>12, <2>2 DEF Sees, Reason
  <1>14. DOMAIN g = DOMAIN f \cup {q} /\ g[q] = "pending" /\ \A y \in DOMAIN f : y # q => g[y] = f[y]
    BY <1>4 DEF Extended
  <1>15. Genuine(g, r)'
    <2>1. Genuine(f, r)'
      BY <1>10, GenuineKept
    <2>2. IsImpacts(g)'
      BY <2>1, <1>11, <1>14 DEF Genuine, IsImpacts, ImpactState
    <2> QED BY <1>13, <1>14, <2>1, <2>2 DEF Genuine
  <1>16. \A y \in due'[r.id] : execution'[y] = "complete" =>
            y \in todo \/ \E z \in DOMAIN g : y = Replaced(z)
    <2>1. PICK t : t = local[k].todo
      OBVIOUS
    <2>2. CoversDue(f, r.id, t)'
      BY <1>1, <1>10, <2>1, CoversKept
    <2>3. \A y \in due'[r.id] : execution'[y] = "complete" =>
            y \in t \/ \E z \in DOMAIN f : y = Replaced(z)
      BY <2>2 DEF CoversDue
    <2> QED BY <2>1, <2>3, <1>5, <1>11, <1>14
  <1>17. /\ Effective(local[k].req)' /\ Genuine(local[k].impacts, local[k].req)'
         /\ CoversDue(local[k].impacts, local[k].req.id, local[k].todo)'
    BY <1>7, <1>9, <1>12, <1>15, <1>16 DEF Effective, Genuine, Sees, IsImpacts, CoversDue
  <1>18. todo \subseteq Bounded
    BY <1>5, <1>10
  <1>19. ClientInv(k)'
    BY <1>7, <1>9, <1>10, <1>12, <1>17, <1>18 DEF ClientInv, Past, Scheduler, Looping
  <1> QED BY <1>9, <1>19

LEMMA RegisterJobSound ==
  ASSUME CorrectionInv, NEW k \in Client, RegisterJob(k)
  PROVE  Sound(k)
  <1>1. PICK q : q = Replacement(local[k].req.id, Current(k))
    OBVIOUS
  <1>2. /\ pc[k] = "register_job" /\ UNCHANGED <<upstream, rows, execution, stage, saw, due, bounds>>
        /\ job' = [job EXCEPT ![q] = IF job[q] = "none" THEN "pending" ELSE job[q]]
        /\ \/ Goto(k, "complete_stage") /\ UNCHANGED local
           \/ Scheduled(k)
    BY <1>1 DEF RegisterJob
  <1>3. /\ TypeInv /\ WorkInv /\ pc[k] \in Looping /\ \A c \in Correction : RowInv(c)
        /\ local[k].todo # {} /\ calls' \in 0..MaxCalls /\ faults' \in 0..MaxFaults
    BY <1>2, BoundsKept DEF CorrectionInv, ClientInv, Looping
  <1>4. q \in Calculation /\ Len(q) > 1 /\ Reason(q) = local[k].req.id
    BY <1>1, <1>3, CurrentReplacement
  <1>5. /\ \A p \in Calculation : job'[p] = job[p] \/ (p = q /\ job[p] = "none" /\ job'[p] = "pending")
        /\ job'[q] # "none"
        /\ job' \in [Calculation -> {"none", "pending", "running", "complete", "failed", "cancelled"}]
    BY <1>2, <1>3, <1>4 DEF TypeInv
  <1>6. Evolves
    BY <1>2, <1>5 DEF Evolves, Waiting
  <1>7. \A c \in Correction : RowInv(c)'
    BY <1>2, <1>3, <1>6, RowKept
  <1>8. WorkInv'
    <2>1. ASSUME NEW p \in Calculation, Len(p) > 1, job'[p] # "none"
          PROVE  Reason(p) \in Correction /\ rows'[Reason(p)] # NoRow
                  /\ Sees(p, rows[Reason(p)].req.revision)'
      <3>1. CASE job[p] # "none"
        BY <3>1, <2>1, <1>2, <1>3, <1>5 DEF WorkInv, Sees
      <3>2. CASE job[p] = "none"
        <4>1. p = q /\ job'[p] = "pending"
          BY <2>1, <3>2, <1>5
        <4>2. local[k].req.id \in Correction /\ rows[local[k].req.id] # NoRow
          BY <1>3, InLoop
        <4> QED BY <4>1, <4>2, <1>2, <1>4 DEF Sees, Waiting
      <3> QED BY <3>1, <3>2
    <2> QED BY <1>2, <1>3, <1>5, <2>1 DEF WorkInv, SubmittedMeansQueued, Reason, Bounded
  <1>9. /\ pc' \in [Client -> Control] /\ DOMAIN local' = Client /\ ClientInv(k)'
        /\ \A j \in Client : j # k => Spares(j)
    <2>1. CASE Scheduled(k)
      BY <2>1, <1>1, <1>2, <1>5, <1>6, <1>8, ScheduledStep
    <2>2. CASE Goto(k, "complete_stage") /\ UNCHANGED local
      <3>1. /\ pc' \in [Client -> Control] /\ DOMAIN local' = Client /\ pc'[k] = "complete_stage"
            /\ \A j \in Client : j # k => Spares(j)
        BY <2>2, <1>3 DEF TypeInv, Goto, Control, Spares
      <3>2. ClientInv(k)'
        BY <2>2, <3>1, <1>1, <1>3, <1>5, <1>6, LoopsOn DEF Looping
      <3> QED BY <3>1, <3>2
    <2> QED BY <2>1, <2>2, <1>2
  <1>10. Registered' = Registered
    BY <1>2 DEF Registered
  <1>11. TypeInv'
    BY <1>2, <1>3, <1>5, <1>9, <1>10 DEF TypeInv
  <1> QED BY <1>6, <1>7, <1>8, <1>9, <1>11 DEF Sound

LEMMA CompleteStageSound ==
  ASSUME CorrectionInv, NEW k \in Client, CompleteStage(k)
  PROVE  Sound(k)
  <1>1. PICK q : q = Replacement(local[k].req.id, Current(k))
    OBVIOUS
  <1>2. /\ pc[k] = "complete_stage" /\ UNCHANGED <<upstream, rows, execution, job, saw, due, bounds>>
        /\ stage' = [stage EXCEPT ![q] = "complete"] /\ Scheduled(k)
    BY <1>1 DEF CompleteStage
  <1>3. /\ TypeInv /\ WorkInv /\ \A c \in Correction : RowInv(c)
        /\ job[q] # "none" /\ calls' \in 0..MaxCalls /\ faults' \in 0..MaxFaults
    BY <1>1, <1>2, BoundsKept DEF CorrectionInv, ClientInv
  <1>4. /\ \A p \in Calculation : stage'[p] = "complete" => stage[p] = "complete" \/ job[p] # "none"
        /\ stage' \in [Calculation -> {"none", "in_progress", "complete"}]
    BY <1>2, <1>3 DEF TypeInv
  <1>5. Evolves /\ Quiet
    BY <1>2, <1>4 DEF Evolves, Quiet, Waiting
  <1>6. WorkInv' /\ \A c \in Correction : RowInv(c)'
    BY <1>2, <1>3, <1>5, WorkKept, RowKept
  <1>7. /\ pc' \in [Client -> Control] /\ DOMAIN local' = Client /\ ClientInv(k)'
        /\ \A j \in Client : j # k => Spares(j)
    BY <1>1, <1>2, <1>3, <1>5, <1>6, ScheduledStep
  <1>8. Registered' = Registered
    BY <1>2 DEF Registered
  <1>9. TypeInv'
    BY <1>2, <1>3, <1>4, <1>7, <1>8 DEF TypeInv
  <1> QED BY <1>5, <1>6, <1>7, <1>9 DEF Sound

-----------------------------------------------------------------------------
(* Reconciliation.                                                         *)

\* What a request that reads row c for reconciliation holds.
LEMMA ReadStep ==
  ASSUME CorrectionInv, NEW k \in Client, NEW c \in Correction, rows[c] # NoRow,
         ReadsForReconciliation(k, rows[c]), UNCHANGED <<upstream, stores>>
  PROVE  /\ pc' \in [Client -> Control] /\ DOMAIN local' = Client /\ ClientInv(k)'
         /\ \A j \in Client : j # k => Spares(j)
  <1>1. PICK y : y = rows[c]
    OBVIOUS
  <1>2. PICK x : x = [req |-> y.req, record |-> y]
    OBVIOUS
  <1>3. y.impacts # NoImpacts /\ Goto(k, "reconcile") /\ local' = [local EXCEPT ![k] = x]
    BY <1>1, <1>2 DEF ReadsForReconciliation
  <1>4. /\ TypeInv /\ "reconcile" \in Control /\ y.req.id = c /\ Effective(y.req)
        /\ Genuine(y.impacts, y.req) /\ CoversDue(y.impacts, c, {})
    BY <1>1, <1>3 DEF CorrectionInv, RowInv, Control
  <1>5. /\ pc' \in [Client -> Control] /\ DOMAIN local' = Client
        /\ pc'[k] = "reconcile" /\ local'[k] = x
        /\ \A j \in Client : j # k => Spares(j)
    BY <1>3, <1>4, Move
  <1>6. x.req = y.req /\ x.record = y
    BY <1>2
  <1>7. /\ Effective(local[k].req)' /\ Genuine(local[k].record.impacts, local[k].req)'
        /\ CoversDue(local[k].record.impacts, local[k].req.id, {})'
    BY <1>4, <1>5, <1>6 DEF Effective, Genuine, Sees, IsImpacts, CoversDue, stores
  <1>8. rows'[c] # NoRow /\ rows'[c].req = y.req
    BY <1>1 DEF stores
  <1>9. ClientInv(k)'
    BY <1>4, <1>5, <1>6, <1>7, <1>8 DEF ClientInv, Past, Scheduler, Looping
  <1> QED BY <1>5, <1>9

LEMMA PollSound ==
  ASSUME CorrectionInv, NEW k \in Client, NEW c \in Correction, Poll(k, c)
  PROVE  Sound(k)
  <1>1. /\ calls < MaxCalls /\ calls' = calls + 1 /\ rows[c] # NoRow /\ ReadsForReconciliation(k, rows[c])
        /\ UNCHANGED <<upstream, stores, faults>>
    BY DEF Poll
  <1> QED BY <1>1, ReadStep, StillStep, BoundsKept

LEMMA GetSound ==
  ASSUME CorrectionInv, NEW k \in Client, Get(k)
  PROVE  Sound(k)
  <1>1. PICK c : c = local[k].req.id
    OBVIOUS
  <1>2. /\ pc[k] = "get" /\ UNCHANGED <<upstream, stores, bounds>>
        /\ ReadsForReconciliation(k, rows[c]) \/ Answer(k)
    BY <1>1 DEF Get
  <1>3. TypeInv /\ c \in Correction /\ rows[c] # NoRow
    BY <1>1, <1>2 DEF CorrectionInv, ClientInv, Past
  <1> QED BY <1>2, <1>3, ReadStep, Answered, StillStep, BoundsKept

LEMMA ReconciledComplete ==
  ASSUME NEW q, ReconciledImpact(q) = "complete"
  PROVE  job[q] = "complete" /\ execution[q] = "complete"
  BY DEF ReconciledImpact

LEMMA ReconciledType ==
  ASSUME NEW q
  PROVE  ReconciledImpact(q) \in ImpactState
  BY DEF ReconciledImpact, ImpactState

LEMMA ReconcileSound ==
  ASSUME CorrectionInv, NEW k \in Client, Reconcile(k)
  PROVE  Sound(k)
  <1>1. PICK y, r : y = local[k].record /\ r = local[k].req
    OBVIOUS
  <1>2. PICK f : f = [q \in DOMAIN y.impacts |-> ReconciledImpact(q)]
    OBVIOUS
  <1>3. PICK x : x = [req |-> r, impacts |-> f]
    OBVIOUS
  <1>4. /\ pc[k] = "reconcile" /\ UNCHANGED <<upstream, stores, bounds>>
        /\ \/ Answer(k)
           \/ Goto(k, "write") /\ local' = [local EXCEPT ![k] = x]
    BY <1>1, <1>2, <1>3 DEF Reconcile
  <1>5. /\ TypeInv /\ "write" \in Control
        /\ Effective(r) /\ Genuine(y.impacts, r) /\ r.id \in Correction /\ rows[r.id] # NoRow
        /\ rows[r.id].req = r /\ CoversDue(y.impacts, r.id, {})
    BY <1>1, <1>4 DEF CorrectionInv, ClientInv, Past, Control
  <1>6. CASE Answer(k)
    BY <1>4, <1>5, <1>6, Answered, StillStep, BoundsKept
  <1>7. CASE Goto(k, "write") /\ local' = [local EXCEPT ![k] = x]
    <2>1. /\ pc' \in [Client -> Control] /\ DOMAIN local' = Client
          /\ pc'[k] = "write" /\ local'[k] = x
          /\ \A j \in Client : j # k => Spares(j)
      BY <1>5, <1>7, Move
    <2>2. x.req = r /\ x.impacts = f
      BY <1>3
    <2>3. DOMAIN f = DOMAIN y.impacts /\ \A q \in DOMAIN f : f[q] = ReconciledImpact(q)
      BY <1>2
    <2>4. Genuine(f, r)
      BY <1>5, <2>3, ReconciledComplete, ReconciledType DEF Genuine, IsImpacts
    <2>5. CoversDue(f, r.id, {})
      BY <1>5, <2>3 DEF CoversDue
    <2>6. /\ Effective(local[k].req)' /\ Genuine(local[k].impacts, local[k].req)'
          /\ CoversDue(local[k].impacts, local[k].req.id, {})'
      BY <1>4, <1>5, <2>1, <2>2, <2>4, <2>5 DEF Effective, Genuine, Sees, IsImpacts, CoversDue, stores
    <2>7. rows'[r.id] # NoRow /\ rows'[r.id].req = r
      BY <1>4, <1>5 DEF stores
    <2>8. ClientInv(k)'
      BY <1>5, <2>1, <2>2, <2>6, <2>7 DEF ClientInv, Past, Scheduler, Looping
    <2> QED BY <1>4, <2>1, <2>8, StillStep, BoundsKept
  <1> QED BY <1>4, <1>6, <1>7

-----------------------------------------------------------------------------
(* Cancellation.                                                           *)

LEMMA CancelSound ==
  ASSUME CorrectionInv, NEW k \in Client, NEW c \in Correction, Cancel(k, c)
  PROVE  Sound(k)
  <1>1. PICK batch : batch = DOMAIN rows[c].impacts
    OBVIOUS
  <1>2. PICK x : x = Cancelling(rows[c].req, batch, batch)
    OBVIOUS
  <1>3. /\ rows[c] # NoRow /\ calls < MaxCalls /\ calls' = calls + 1 /\ Goto(k, "cancel_jobs")
        /\ local' = [local EXCEPT ![k] = x] /\ UNCHANGED <<upstream, stores, faults>>
    BY <1>1, <1>2 DEF Cancel
  <1>4. TypeInv /\ "cancel_jobs" \in Control /\ batch \subseteq Calculation
    BY <1>1, <1>3 DEF CorrectionInv, RowInv, IsRow, IsImpacts, Control
  <1>5. x.batch = batch /\ x.todo = batch
    BY <1>2 DEF Cancelling
  <1>6. /\ pc' \in [Client -> Control] /\ DOMAIN local' = Client
        /\ pc'[k] = "cancel_jobs" /\ local'[k] = x
        /\ \A j \in Client : j # k => Spares(j)
    BY <1>3, <1>4, Move
  <1>7. ClientInv(k)'
    BY <1>4, <1>5, <1>6 DEF ClientInv, Past, Scheduler, Looping
  <1> QED BY <1>3, <1>6, <1>7, StillStep, BoundsKept

LEMMA CancelJobsSound ==
  ASSUME CorrectionInv, NEW k \in Client, CancelJobs(k)
  PROVE  Sound(k)
  <1>1. PICK batch : batch = local[k].batch
    OBVIOUS
  <1>2. /\ pc[k] = "cancel_jobs" /\ UNCHANGED <<upstream, rows, execution, stage, saw, due, bounds>>
        /\ \/ /\ \A q \in batch : job[q] = "pending"
              /\ job' = [q \in Calculation |-> IF q \in batch THEN "cancelled" ELSE job[q]]
              /\ Goto(k, "cancel_execution") /\ UNCHANGED local
           \/ Answer(k) /\ UNCHANGED job
    BY <1>1 DEF CancelJobs
  <1>3. /\ TypeInv /\ WorkInv /\ \A c \in Correction : RowInv(c)
        /\ batch \subseteq Calculation /\ local[k].todo \subseteq batch
        /\ calls' \in 0..MaxCalls /\ faults' \in 0..MaxFaults
    BY <1>1, <1>2, BoundsKept DEF CorrectionInv, ClientInv
  <1>4. CASE Answer(k) /\ UNCHANGED job
    BY <1>2, <1>3, <1>4, Answered, StillStep DEF stores
  <1>5. CASE /\ \A q \in batch : job[q] = "pending"
             /\ job' = [q \in Calculation |-> IF q \in batch THEN "cancelled" ELSE job[q]]
             /\ Goto(k, "cancel_execution") /\ UNCHANGED local
    <2>1. /\ \A q \in Calculation : job'[q] = job[q] \/ (job[q] = "pending" /\ job'[q] = "cancelled")
          /\ \A q \in batch : job'[q] = "cancelled"
          /\ job' \in [Calculation -> {"none", "pending", "running", "complete", "failed", "cancelled"}]
      BY <1>3, <1>5 DEF TypeInv
    <2>2. Evolves /\ Quiet
      BY <1>2, <2>1 DEF Evolves, Quiet, Waiting
    <2>3. WorkInv' /\ \A c \in Correction : RowInv(c)'
      BY <1>2, <1>3, <2>2, WorkKept, RowKept
    <2>4. /\ pc' \in [Client -> Control] /\ DOMAIN local' = Client /\ pc'[k] = "cancel_execution"
          /\ \A j \in Client : j # k => Spares(j)
      BY <1>3, <1>5 DEF TypeInv, Goto, Control, Spares
    <2>5. ClientInv(k)'
      BY <1>1, <1>3, <1>5, <2>1, <2>4 DEF ClientInv, Past, Scheduler, Looping
    <2>6. Registered' = Registered
      BY <1>2 DEF Registered
    <2>7. TypeInv'
      BY <1>2, <1>3, <2>1, <2>4, <2>6 DEF TypeInv
    <2> QED BY <2>2, <2>3, <2>4, <2>5, <2>7 DEF Sound
  <1> QED BY <1>2, <1>4, <1>5

LEMMA CancelExecutionSound ==
  ASSUME CorrectionInv, NEW k \in Client, CancelExecution(k)
  PROVE  Sound(k)
  <1>1. PICK v : v = local[k]
    OBVIOUS
  <1>2. PICK q : q = Current(k)
    OBVIOUS
  <1>3. PICK x : x = Cancelling(v.req, v.batch, v.todo \ {q})
    OBVIOUS
  <1>4. /\ pc[k] = "cancel_execution" /\ UNCHANGED <<upstream, rows, stage, job, saw, due, bounds>>
        /\ \/ /\ v.todo # {} /\ execution' = [execution EXCEPT ![q] = "failed"]
              /\ local' = [local EXCEPT ![k] = x] /\ UNCHANGED pc
           \/ Goto(k, "cancel_publish") /\ UNCHANGED <<execution, local>>
    BY <1>1, <1>2, <1>3 DEF CancelExecution
  <1>5. /\ TypeInv /\ WorkInv /\ \A c \in Correction : RowInv(c)
        /\ v.batch \subseteq Calculation /\ v.todo \subseteq v.batch /\ \A p \in v.batch : job[p] = "cancelled"
        /\ calls' \in 0..MaxCalls /\ faults' \in 0..MaxFaults
    BY <1>1, <1>4, BoundsKept DEF CorrectionInv, ClientInv
  <1>6. CASE /\ v.todo # {} /\ execution' = [execution EXCEPT ![q] = "failed"]
             /\ local' = [local EXCEPT ![k] = x] /\ UNCHANGED pc
    <2>1. q \in v.todo
      BY <1>1, <1>2, <1>6 DEF Current
    <2>2. /\ \A p \in Calculation : execution'[p] = execution[p]
                                    \/ (job[p] = "cancelled" /\ execution'[p] = "failed")
          /\ execution' \in [Calculation -> {"none", "pending", "complete", "failed"}]
      BY <1>5, <1>6, <2>1 DEF TypeInv
    <2>3. Evolves /\ Quiet
      BY <1>4, <2>2 DEF Evolves, Quiet, Waiting
    <2>4. WorkInv' /\ \A c \in Correction : RowInv(c)'
      BY <1>4, <1>5, <2>3, WorkKept, RowKept
    <2>5. /\ DOMAIN local' = Client /\ local'[k] = x /\ pc'[k] = "cancel_execution"
          /\ \A j \in Client : j # k => Spares(j)
      BY <1>4, <1>5, <1>6 DEF TypeInv, Spares
    <2>6. x.batch = v.batch /\ x.todo = v.todo \ {q}
      BY <1>3 DEF Cancelling
    <2>7. ClientInv(k)'
      BY <1>4, <1>5, <2>5, <2>6 DEF ClientInv, Past, Scheduler, Looping
    <2>8. Registered' = Registered
      BY <1>4 DEF Registered
    <2>9. TypeInv'
      BY <1>4, <1>5, <1>6, <2>2, <2>5, <2>8 DEF TypeInv
    <2> QED BY <2>3, <2>4, <2>5, <2>7, <2>9 DEF Sound
  <1>7. CASE Goto(k, "cancel_publish") /\ UNCHANGED <<execution, local>>
    <2>1. /\ pc' \in [Client -> Control] /\ DOMAIN local' = Client /\ pc'[k] = "cancel_publish"
          /\ \A j \in Client : j # k => Spares(j)
      BY <1>5, <1>7 DEF TypeInv, Goto, Control, Spares
    <2>2. ClientInv(k)'
      BY <1>1, <1>4, <1>5, <1>7, <2>1 DEF ClientInv, Past, Scheduler, Looping
    <2> QED BY <1>4, <1>5, <1>7, <2>1, <2>2, StillStep DEF stores
  <1> QED BY <1>4, <1>6, <1>7

\* A row of which impacts of a cancelled batch fail.
LEMMA CancelledRowStep ==
  ASSUME NEW x, NEW batch, IsRow(x), DOMAIN x.impacts \cap batch # {}
  PROVE  /\ CancelledRow(x, batch).req = x.req /\ IsRow(CancelledRow(x, batch))
         /\ CancelledRow(x, batch) # NoRow
         /\ DOMAIN CancelledRow(x, batch).impacts = DOMAIN x.impacts
         /\ \A q \in DOMAIN x.impacts :
              CancelledRow(x, batch).impacts[q] = IF q \in batch THEN "failed" ELSE x.impacts[q]
         /\ CancelledRow(x, batch).state \in {"cancelled", "partial_failure"}
         /\ CancelledRow(x, batch).state = "cancelled" => DOMAIN x.impacts \subseteq batch
         /\ CancelledRow(x, batch).impacts # NoImpacts
  <1> DEFINE state == IF DOMAIN x.impacts \subseteq batch THEN "cancelled" ELSE "partial_failure"
             f == FailedIn(x.impacts, batch)
             y == Row(x.req, x.created, x.from, x.to, state, f)
  <1>1. CancelledRow(x, batch) = y
    BY DEF CancelledRow
  <1>2. y.req = x.req /\ y.created = x.created /\ y.from = x.from /\ y.to = x.to
        /\ y.state = state /\ y.impacts = f
    BY DEF Row
  <1>3. DOMAIN f = DOMAIN x.impacts
        /\ \A q \in DOMAIN x.impacts : f[q] = IF q \in batch THEN "failed" ELSE x.impacts[q]
    BY DEF FailedIn
  <1>4. state \in {"cancelled", "partial_failure"} /\ (state = "cancelled" => DOMAIN x.impacts \subseteq batch)
    OBVIOUS
  <1> HIDE DEF y, f, state
  <1>5. IsRow(y)
    BY <1>2, <1>3, <1>4 DEF IsRow, IsImpacts, RowState, ImpactState
  <1>6. y # NoRow
    <2>1. y.state # NoRow.state
      BY <1>2, <1>4 DEF NoRow
    <2> QED BY <2>1
  <1>7. f # NoImpacts
    BY <1>3 DEF NoImpacts
  <1> QED BY <1>1, <1>2, <1>3, <1>4, <1>5, <1>6, <1>7

LEMMA CancelPublishSound ==
  ASSUME CorrectionInv, NEW k \in Client, CancelPublish(k)
  PROVE  Sound(k)
  <1>1. PICK batch : batch = local[k].batch
    OBVIOUS
  <1>2. /\ pc[k] = "cancel_publish" /\ Answer(k)
        /\ rows' = [c \in Correction |-> IF rows[c] = NoRow THEN NoRow ELSE CancelledRow(rows[c], batch)]
        /\ UNCHANGED <<upstream, execution, stage, job, saw, due, bounds>>
    BY <1>1 DEF CancelPublish
  <1>3. /\ TypeInv /\ WorkInv /\ \A c \in Correction : RowInv(c)
        /\ \A q \in batch : job[q] = "cancelled"
        /\ calls' \in 0..MaxCalls /\ faults' \in 0..MaxFaults
    BY <1>1, <1>2, BoundsKept DEF CorrectionInv, ClientInv
  <1>4. /\ DOMAIN rows' = Correction
        /\ \A c \in Correction : rows'[c] = IF rows[c] = NoRow THEN NoRow ELSE CancelledRow(rows[c], batch)
    BY <1>2
  <1>5. \A c \in Correction : rows[c] # NoRow => IsRow(rows[c])
    BY <1>3 DEF RowInv
  <1>6. \A c \in Correction : rows[c] = NoRow \/ DOMAIN rows[c].impacts \cap batch = {} => rows'[c] = rows[c]
    BY <1>4 DEF CancelledRow
  <1>7. \A c \in Correction : rows[c] # NoRow => rows'[c] # NoRow /\ rows'[c].req = rows[c].req
    BY <1>4, <1>5, <1>6, CancelledRowStep
  <1>8. Evolves /\ Quiet
    BY <1>2, <1>7 DEF Evolves, Quiet, Waiting
  <1>9. ASSUME NEW c \in Correction, rows[c] # NoRow, DOMAIN rows[c].impacts \cap batch # {}
        PROVE  RowInv(c)'
    <2>1. PICK x, y : x = rows[c] /\ y = CancelledRow(x, batch) /\ rows'[c] = y
      BY <1>4, <1>9
    <2>2. /\ y.req = x.req /\ IsRow(y) /\ y # NoRow /\ DOMAIN y.impacts = DOMAIN x.impacts
          /\ \A q \in DOMAIN x.impacts : y.impacts[q] = IF q \in batch THEN "failed" ELSE x.impacts[q]
          /\ y.state \in {"cancelled", "partial_failure"}
          /\ y.state = "cancelled" => DOMAIN x.impacts \subseteq batch
          /\ y.impacts # NoImpacts
      BY <1>5, <1>9, <2>1, CancelledRowStep
    <2>3. /\ x.req.id = c /\ Effective(x.req) /\ Genuine(x.impacts, x.req)
          /\ \A q \in due[c] : Overlap(x.req.from, x.req.to, Window[q[1]])
          /\ x.impacts # NoImpacts => CoversDue(x.impacts, c, {})
      BY <1>3, <1>9, <2>1 DEF RowInv
    <2>4. x.impacts # NoImpacts
      BY <1>9, <2>1 DEF NoImpacts
    <2>5. Genuine(y.impacts, y.req)
      BY <2>2, <2>3 DEF Genuine, IsRow
    <2>6. CoversDue(y.impacts, c, {})
      BY <2>2, <2>3, <2>4 DEF CoversDue
    <2>7. /\ IsRow(rows[c])' /\ Effective(rows[c].req)' /\ Genuine(rows[c].impacts, rows[c].req)'
          /\ CoversDue(rows[c].impacts, c, {})'
      BY <1>2, <2>1, <2>2, <2>3, <2>5, <2>6 DEF IsRow, IsImpacts, Effective, Genuine, Sees, CoversDue
    <2>8. y.state = "cancelled" => \A q \in DOMAIN y.impacts : job'[q] = "cancelled"
      BY <1>2, <1>3, <2>2
    <2> QED BY <1>2, <2>1, <2>2, <2>3, <2>7, <2>8 DEF RowInv
  <1>10. \A c \in Correction : RowInv(c)'
    BY <1>3, <1>6, <1>8, <1>9, RowKept
  <1>11. WorkInv'
    BY <1>3, <1>8, WorkKept
  <1>12. Registered' = Registered
    BY <1>6, <1>7 DEF Registered
  <1>13. /\ pc' \in [Client -> Control] /\ DOMAIN local' = Client /\ ClientInv(k)'
         /\ \A j \in Client : j # k => Spares(j)
    BY <1>2, <1>3, Answered
  <1>14. TypeInv'
    BY <1>2, <1>3, <1>4, <1>12, <1>13 DEF TypeInv
  <1> QED BY <1>8, <1>10, <1>11, <1>13, <1>14 DEF Sound

LEMMA CrashSound ==
  ASSUME CorrectionInv, NEW k \in Client, Crash(k)
  PROVE  Sound(k)
  <1>1. Fault /\ Answer(k) /\ UNCHANGED <<upstream, stores, calls>> /\ TypeInv
    BY DEF Crash, CorrectionInv
  <1> QED BY <1>1, Answered, StillStep, BoundsKept

-----------------------------------------------------------------------------
(* The executors.                                                          *)

LEMMA WorkSound ==
  ASSUME CorrectionInv, NEW q \in Calculation, Work(q)
  PROVE  CorrectionInv' /\ Evolves
  <1>1. /\ TypeInv /\ WorkInv /\ \A c \in Correction : RowInv(c)
        /\ \A k \in Client : ClientInv(k)
    BY DEF CorrectionInv
  <1>2. UNCHANGED <<upstream, rows, stage, due, pc, local>> /\ calls' \in 0..MaxCalls /\ faults' \in 0..MaxFaults
    BY BoundsKept DEF Work, StartJob, CompleteJob, FailJob, CompleteExecution, FailExecution, bounds
  <1>3. \/ /\ job[q] = "pending" /\ Len(q) <= MaxGeneration + 1 /\ UNCHANGED execution
           /\ job' = [job EXCEPT ![q] = "running"] /\ saw' = [saw EXCEPT ![q] = upstream]
        \/ /\ job[q] = "running" /\ UNCHANGED <<execution, saw>>
           /\ \E s \in {"complete", "failed", "pending"} : job' = [job EXCEPT ![q] = s]
        \/ /\ execution[q] = "pending" /\ job[q] \in {"running", "complete"} /\ UNCHANGED <<job, saw>>
           /\ execution' = [execution EXCEPT ![q] = "complete"]
        \/ /\ execution[q] = "pending" /\ UNCHANGED <<job, saw>>
           /\ execution' = [execution EXCEPT ![q] = "failed"]
    BY DEF Work, StartJob, CompleteJob, FailJob, CompleteExecution, FailExecution
  <1>4. /\ job' \in [Calculation -> {"none", "pending", "running", "complete", "failed", "cancelled"}]
        /\ execution' \in [Calculation -> {"none", "pending", "complete", "failed"}]
        /\ DOMAIN saw' = Calculation
    BY <1>1, <1>3 DEF TypeInv
  <1>5. Evolves
    BY <1>1, <1>2, <1>3 DEF Evolves, TypeInv, Waiting
  <1>6. Quiet
    <2>1. \A p \in Calculation : job'[p] # "none" => job[p] # "none"
      BY <1>1, <1>3 DEF TypeInv
    <2>2. \A p \in Calculation :
            job'[p] \in {"running", "complete"} => job[p] \in {"running", "complete"} \/ p \in Bounded
      BY <1>1, <1>3 DEF TypeInv, Bounded
    <2>3. \A p \in Calculation : execution'[p] = "complete" => execution[p] = "complete" \/ p \in Bounded
      BY <1>1, <1>3 DEF TypeInv, WorkInv
    <2> QED BY <1>2, <2>1, <2>2, <2>3 DEF Quiet
  <1>7. WorkInv' /\ \A c \in Correction : RowInv(c)'
    BY <1>1, <1>2, <1>5, <1>6, WorkKept, RowKept
  <1>8. \A k \in Client : ClientInv(k)'
    BY <1>1, <1>2, <1>5, ClientKept DEF Spares
  <1>9. Registered' = Registered
    BY <1>2 DEF Registered
  <1>10. TypeInv'
    BY <1>1, <1>2, <1>4, <1>9 DEF TypeInv
  <1> QED BY <1>5, <1>7, <1>8, <1>10 DEF CorrectionInv

-----------------------------------------------------------------------------
(* Every step.                                                             *)

LEMMA RequestSound ==
  ASSUME CorrectionInv, NEW k \in Client, Begin(k) \/ Proceed(k) \/ Crash(k)
  PROVE  Sound(k)
  <1>1. CASE Begin(k)
    BY <1>1, SubmitSound, PollSound, CancelSound DEF Begin
  <1>2. CASE Proceed(k)
    BY <1>2, CoalesceSound, RegisterSound, CheckNewerSound, SupersedeSound, ListSound, ScheduleNextSound,
       StartStageSound,
       RegisterJobSound, CompleteStageSound, GetSound, ReconcileSound, WriteSound, CancelJobsSound,
       CancelExecutionSound, CancelPublishSound DEF Proceed
  <1>3. CASE Crash(k)
    BY <1>3, CrashSound
  <1> QED BY <1>1, <1>2, <1>3

LEMMA CorrectionNext == CorrectionInv /\ [Next]_vars => CorrectionInv' /\ Evolves
  <1> SUFFICES ASSUME CorrectionInv, [Next]_vars PROVE CorrectionInv' /\ Evolves
    OBVIOUS
  <1>1. ASSUME NEW k \in Client, Begin(k) \/ Proceed(k) \/ Crash(k) PROVE CorrectionInv' /\ Evolves
    <2>1. Sound(k)
      BY <1>1, RequestSound
    <2>2. \A j \in Client : ClientInv(j)'
      BY <2>1, ClientKept DEF Sound, CorrectionInv
    <2> QED BY <2>1, <2>2 DEF Sound, CorrectionInv
  <1>2. ASSUME NEW q \in Calculation, Work(q) PROVE CorrectionInv' /\ Evolves
    BY <1>2, WorkSound
  <1>3. CASE UNCHANGED vars
    <2>1. /\ Evolves
          /\ \A c \in Correction : rows'[c] = rows[c]
          /\ \A k \in Client : Spares(k)
      BY <1>3 DEF vars, Evolves, Spares, Waiting
    <2>2. Quiet
      BY <1>3 DEF vars, Quiet
    <2>3. Registered' = Registered
      BY <1>3 DEF vars, Registered
    <2>4. TypeInv'
      BY <1>3, <2>3 DEF vars, TypeInv, CorrectionInv
    <2> QED BY <2>1, <2>2, <2>4, RowKept, ClientKept, WorkKept DEF CorrectionInv
  <1> QED BY <1>1, <1>2, <1>3 DEF Next

LEMMA CorrectionInit == Init => CorrectionInv
  <1> SUFFICES ASSUME Init PROVE CorrectionInv
    OBVIOUS
  <1>1. Registered = {}
    BY DEF Init, Registered
  <1>2. TypeInv
    BY <1>1, FS_EmptySet, CorrectionAssumption DEF Init, TypeInv, Control
  <1>3. \A c \in Correction : RowInv(c)
    BY DEF Init, RowInv
  <1>4. \A k \in Client : ClientInv(k)
    BY DEF Init, ClientInv, Past, Scheduler, Looping
  <1>5. WorkInv
    <2>1. \A q \in Calculation : Len(q) > 1 => job[q] = "none"
      <3> SUFFICES ASSUME NEW q \in Calculation, Len(q) > 1 PROVE job[q] = "none"
        OBVIOUS
      <3>1. \E n \in 0..(MaxGeneration + 1) : Len(q) = n + 1
        BY CalculationIsSeq
      <3>2. PICK n \in Nat : n = Len(q)
        BY <3>1, CorrectionAssumption
      <3>3. n # 1
        BY <3>2
      <3> QED BY <3>2, <3>3 DEF Init
    <2>2. \A q \in Calculation : job[q] \in {"running", "complete"} \/ execution[q] = "complete" => Len(q) = 1
      BY DEF Init
    <2>3. 1 <= MaxGeneration + 1
      BY CorrectionAssumption
    <2> QED BY <2>1, <2>2, <2>3 DEF Init, WorkInv, Bounded, SubmittedMeansQueued
  <1> QED BY <1>2, <1>3, <1>4, <1>5 DEF CorrectionInv

LEMMA CorrectionInvariance == Spec => []CorrectionInv
  BY CorrectionInit, CorrectionNext, PTL DEF Spec

-----------------------------------------------------------------------------
(* The chain of revisions.  A correction is admitted only if it extends the *)
(* latest one or came late, and a row never changes its request or its      *)
(* place in the order.                                                      *)

\* A correction is observed after the revision that it supersedes was.
Chronological ==
    \A r, q \in Request :
        r.supersedes = q.revision /\ r.revision # r.supersedes => q.observed < r.observed

IsLatest(d) == \A e \in Registered \ {d} : Newer(rows[d], rows[e])

ChainInv ==
    /\ \A c \in Registered : rows[c].created < Cardinality(Registered)
    /\ Registered # {} => \E d \in Registered : IsLatest(d)
    /\ SingleSuccessor

\* A step that admits no correction.
Rewrites ==
    /\ Registered' = Registered
    /\ \A c \in Registered : rows'[c].req = rows[c].req /\ rows'[c].created = rows[c].created

\* A step that admits the request r.
Admits(r) ==
    /\ r \in Request /\ r.id \notin Registered /\ ~BreaksRevisionChain(r)
    /\ Registered' = Registered \cup {r.id}
    /\ rows'[r.id].req = r /\ rows'[r.id].created = Cardinality(Registered)
    /\ \A c \in Registered : rows'[c] = rows[c]

LEMMA UpdateRewrites ==
  ASSUME CorrectionInv, NEW k \in Client, pc[k] \in Past, NEW state, state # "none", NEW impacts,
         Update(local[k].req.id, state, impacts)
  PROVE  Rewrites
  <1>1. PICK c, x : /\ c = local[k].req.id
                    /\ x = Row(rows[c].req, rows[c].created, rows[c].from, rows[c].to, state, impacts)
    OBVIOUS
  <1>2. rows' = [rows EXCEPT ![c] = x]
    BY <1>1 DEF Update
  <1>3. DOMAIN rows = Correction /\ c \in Correction /\ rows[c] # NoRow
    BY <1>1 DEF CorrectionInv, TypeInv, ClientInv
  <1>4. x.req = rows[c].req /\ x.created = rows[c].created /\ x.state = state
    BY <1>1 DEF Row
  <1>5. x # NoRow
    <2>1. x.state # NoRow.state
      BY <1>4 DEF NoRow
    <2> QED BY <2>1
  <1>6. \A d \in Correction : rows'[d] = IF d = c THEN x ELSE rows[d]
    BY <1>2, <1>3
  <1>7. Registered' = Registered
    BY <1>3, <1>5, <1>6 DEF Registered
  <1> QED BY <1>3, <1>4, <1>6, <1>7 DEF Rewrites, Registered

LEMMA CancelRewrites ==
  ASSUME CorrectionInv, NEW k \in Client, CancelPublish(k)
  PROVE  Rewrites
  <1>1. PICK batch : batch = local[k].batch
    OBVIOUS
  <1>2. \A c \in Correction : rows'[c] = IF rows[c] = NoRow THEN NoRow ELSE CancelledRow(rows[c], batch)
    BY <1>1 DEF CancelPublish
  <1>3. ASSUME NEW c \in Correction, rows[c] # NoRow
        PROVE  rows'[c] # NoRow /\ rows'[c].req = rows[c].req /\ rows'[c].created = rows[c].created
    <2>1. PICK x : x = rows[c] /\ rows'[c] = CancelledRow(x, batch) /\ IsRow(x)
      BY <1>2, <1>3 DEF CorrectionInv, RowInv
    <2>2. CASE DOMAIN x.impacts \cap batch = {}
      BY <1>3, <2>1, <2>2 DEF CancelledRow
    <2>3. CASE DOMAIN x.impacts \cap batch # {}
      <3>1. CancelledRow(x, batch) # NoRow /\ CancelledRow(x, batch).req = x.req
        BY <2>1, <2>3, CancelledRowStep
      <3>2. CancelledRow(x, batch).created = x.created
        BY <2>3 DEF CancelledRow, Row
      <3> QED BY <2>1, <3>1, <3>2
    <2> QED BY <2>2, <2>3
  <1>4. Registered' = Registered
    BY <1>2, <1>3 DEF Registered
  <1> QED BY <1>3, <1>4 DEF Rewrites, Registered

LEMMA RegisterAdmits ==
  ASSUME CorrectionInv, NEW k \in Client, Register(k)
  PROVE  Rewrites \/ \E r \in Request : Admits(r)
  <1>1. PICK r, n : r = local[k].req /\ n = Cardinality(Registered)
    OBVIOUS
  <1>2. r \in Request /\ r.id \in Correction /\ DOMAIN rows = Correction
    BY <1>1, CorrectionAssumption DEF Register, CorrectionInv, ClientInv, Effective, TypeInv
  <1>3. CASE rows' = rows
    BY <1>3 DEF Rewrites, Registered
  <1>4. CASE rows' # rows
    <2>1. PICK x : /\ rows[r.id] = NoRow /\ ~BreaksRevisionChain(r)
                   /\ x = Row(r, n, local[k].inherited.from, local[k].inherited.to,
                              "recalculation_pending", NoImpacts)
                   /\ rows' = [rows EXCEPT ![r.id] = x]
      BY <1>1, <1>4 DEF Register
    <2>2. x.req = r /\ x.created = n /\ x.state = "recalculation_pending"
      BY <2>1 DEF Row
    <2>3. x # NoRow
      <3>1. x.state # NoRow.state
        BY <2>2 DEF NoRow
      <3> QED BY <3>1
    <2>4. \A c \in Correction : rows'[c] = IF c = r.id THEN x ELSE rows[c]
      BY <1>2, <2>1
    <2>5. r.id \notin Registered /\ Registered' = Registered \cup {r.id}
      BY <1>2, <2>1, <2>3, <2>4 DEF Registered
    <2>6. \A c \in Registered : rows'[c] = rows[c]
      BY <2>4, <2>5 DEF Registered
    <2>7. Admits(r)
      BY <1>1, <1>2, <2>1, <2>2, <2>4, <2>5, <2>6 DEF Admits
    <2> QED BY <1>2, <2>7
  <1> QED BY <1>3, <1>4

LEMMA ChangesOfRows ==
  ASSUME CorrectionInv, [Next]_vars
  PROVE  Rewrites \/ \E r \in Request : Admits(r)
  <1>1. CASE rows' = rows
    BY <1>1 DEF Rewrites, Registered
  <1>2. CASE rows' # rows
    <2>1. PICK k \in Client :
            Register(k) \/ Supersede(k) \/ ScheduleNext(k) \/ Write(k) \/ CancelPublish(k)
      BY <1>2 DEF Next, vars, stores, Begin, Submit, Poll, Cancel, Proceed, Coalesce, CheckNewer, List,
         StartStage, RegisterJob, CompleteStage, Get, Reconcile, CancelJobs, CancelExecution, Crash,
         Work, StartJob, CompleteJob, FailJob, CompleteExecution, FailExecution
    <2>2. CASE Register(k)
      BY <2>2, RegisterAdmits
    <2>3. CASE Supersede(k)
      BY <2>3, UpdateRewrites DEF Supersede, Past, Scheduler
    <2>4. CASE ScheduleNext(k)
      <3>1. pc[k] \in Past
        BY <2>4 DEF ScheduleNext, Past, Scheduler, Looping
      <3>2. \E state \in {"no_effect", "recalculation_pending"} :
              Update(local[k].req.id, state, local[k].impacts)
        BY <1>2, <2>4 DEF ScheduleNext
      <3> QED BY <3>1, <3>2, UpdateRewrites
    <2>5. CASE Write(k)
      <3>1. pc[k] \in Past /\ Update(local[k].req.id, ReconciledState(local[k].impacts), local[k].impacts)
        BY <2>5 DEF Write, Past
      <3>2. ReconciledState(local[k].impacts) # "none"
        BY DEF ReconciledState
      <3> QED BY <3>1, <3>2, UpdateRewrites
    <2>6. CASE CancelPublish(k)
      BY <2>6, CancelRewrites
    <2> QED BY <2>1, <2>2, <2>3, <2>4, <2>5, <2>6
  <1> QED BY <1>1, <1>2

\* What a registered row holds of the order.
LEMMA RowOrder ==
  ASSUME CorrectionInv, NEW c \in Registered
  PROVE  rows[c].req \in Request /\ rows[c].req.observed \in Nat /\ rows[c].created \in Nat
  BY CorrectionAssumption DEF CorrectionInv, RowInv, IsRow, Registered

LEMMA RewritesChain ==
  ASSUME ChainInv, Rewrites
  PROVE  ChainInv'
  <1>1. \A c \in Registered' : rows'[c].created < Cardinality(Registered')
    BY DEF ChainInv, Rewrites
  <1>2. \A d \in Registered : IsLatest(d) => IsLatest(d)'
    BY DEF Rewrites, IsLatest, Newer
  <1>3. SingleSuccessor'
    BY DEF ChainInv, Rewrites, SingleSuccessor
  <1> QED BY <1>1, <1>2, <1>3 DEF ChainInv, Rewrites

\* The new row comes last in the order of creation, so it is the latest unless
\* the latest was observed after it.
LEMMA AdmitsOrder ==
  ASSUME CorrectionInv, ChainInv, NEW r \in Request, Admits(r)
  PROVE  /\ \A c \in Registered' : rows'[c].created < Cardinality(Registered')
         /\ \E d \in Registered' : IsLatest(d)'
  <1>1. PICK n \in Nat : n = Cardinality(Registered) /\ Cardinality(Registered') = n + 1
    <2>1. IsFiniteSet(Registered) /\ r.id \notin Registered /\ Registered' = Registered \cup {r.id}
      BY DEF CorrectionInv, TypeInv, Admits
    <2> QED BY <2>1, FS_CardinalityType, FS_AddElement
  <1>2. /\ Registered' = Registered \cup {r.id} /\ r.id \notin Registered
        /\ rows'[r.id].req = r /\ rows'[r.id].created = n
        /\ \A c \in Registered : rows'[c] = rows[c]
    BY <1>1 DEF Admits
  <1>3. \A c \in Registered : /\ rows[c].created \in Nat /\ rows[c].created < n
                              /\ rows[c].req.observed \in Nat
    BY <1>1, RowOrder DEF ChainInv
  <1>4. r.observed \in Nat
    BY CorrectionAssumption
  <1>5. \A c \in Registered' : rows'[c].created < Cardinality(Registered')
    BY <1>1, <1>2, <1>3
  <1>6. CASE \A c \in Registered : rows[c].req.observed <= r.observed
    <2>1. \A e \in Registered : Newer(rows'[r.id], rows'[e])
      BY <1>2, <1>3, <1>4, <1>6 DEF Newer
    <2>2. IsLatest(r.id)'
      BY <1>2, <2>1 DEF IsLatest
    <2> QED BY <1>2, <1>5, <2>2
  <1>7. CASE \E c \in Registered : rows[c].req.observed > r.observed
    <2>1. PICK d \in Registered : IsLatest(d)
      BY <1>7 DEF ChainInv
    <2>2. PICK c \in Registered : rows[c].req.observed > r.observed
      BY <1>7
    <2>3. rows[d].req.observed >= rows[c].req.observed
      BY <1>3, <2>1 DEF IsLatest, Newer
    <2>4. Newer(rows'[d], rows'[r.id])
      BY <1>2, <1>3, <1>4, <2>2, <2>3 DEF Newer
    <2>5. \A e \in Registered \ {d} : Newer(rows'[d], rows'[e])
      BY <1>2, <2>1 DEF IsLatest
    <2>6. IsLatest(d)'
      BY <1>2, <2>4, <2>5 DEF IsLatest
    <2> QED BY <1>2, <1>5, <2>6
  <1> QED BY <1>3, <1>4, <1>6, <1>7

\* A request that is admitted in order extends the latest revision, which
\* nothing admitted before it can have done.
LEMMA AdmitsSuccessor ==
  ASSUME Chronological, CorrectionInv, ChainInv, NEW r \in Request, Admits(r),
         NEW c \in Registered, rows[c].req.supersedes = r.supersedes,
         rows[c].req.revision # rows[c].req.supersedes
  PROVE  \E e \in Registered : rows[e].req.observed > r.observed
  <1>1. PICK d \in Registered : IsLatest(d)
    BY DEF ChainInv
  <1>2. rows[d] \in LatestForScope
    BY <1>1 DEF LatestForScope, IsLatest
  <1>3. ~(r.observed >= rows[d].req.observed /\ r.supersedes # rows[d].req.revision)
    BY <1>2 DEF Admits, BreaksRevisionChain
  <1>4. /\ rows[d].req \in Request /\ rows[d].req.observed \in Nat
        /\ rows[c].req \in Request /\ rows[c].req.observed \in Nat /\ r.observed \in Nat
    BY RowOrder, CorrectionAssumption
  <1>5. CASE r.observed < rows[d].req.observed
    BY <1>4, <1>5
  <1>6. CASE r.supersedes = rows[d].req.revision
    <2>1. rows[d].req.observed < rows[c].req.observed
      BY <1>4, <1>6 DEF Chronological
    <2>2. d # c /\ Newer(rows[d], rows[c])
      BY <1>1, <1>4, <2>1 DEF IsLatest
    <2> QED BY <1>4, <2>1, <2>2 DEF Newer
  <1> QED BY <1>3, <1>4, <1>5, <1>6

LEMMA AdmitsChain ==
  ASSUME Chronological, CorrectionInv, ChainInv, NEW r \in Request, Admits(r)
  PROVE  ChainInv'
  <1>1. PICK n : n = Cardinality(Registered)
    OBVIOUS
  <1>2. /\ Registered' = Registered \cup {r.id} /\ r.id \notin Registered
        /\ rows'[r.id].req = r /\ rows'[r.id].created = n
        /\ \A c \in Registered : rows'[c] = rows[c]
    BY <1>1 DEF Admits
  <1>3. n \in Nat /\ \A c \in Registered : rows[c].created \in Nat /\ rows[c].created < n
    BY <1>1, RowOrder, FS_CardinalityType DEF ChainInv, CorrectionInv, TypeInv
  <1>4. ASSUME NEW c \in Registered', NEW d \in Registered', rows'[c].created < rows'[d].created,
               rows'[c].req.supersedes = rows'[d].req.supersedes,
               rows'[c].req.revision # rows'[c].req.supersedes
        PROVE  \E e \in Registered' : /\ rows'[e].created < rows'[d].created
                                      /\ rows'[e].req.observed > rows'[d].req.observed
    <2>1. c \in Registered
      BY <1>2, <1>3, <1>4
    <2>2. CASE d = r.id
      <3>1. PICK e \in Registered : rows[e].req.observed > r.observed
        BY <1>2, <1>4, <2>1, <2>2, AdmitsSuccessor
      <3> QED BY <1>2, <1>3, <2>2, <3>1
    <2>3. CASE d \in Registered
      <3>1. PICK e \in Registered : rows[e].created < rows[d].created
                                    /\ rows[e].req.observed > rows[d].req.observed
        BY <1>2, <1>4, <2>1, <2>3 DEF ChainInv, SingleSuccessor
      <3> QED BY <1>2, <2>3, <3>1
    <2> QED BY <1>2, <2>2, <2>3
  <1>5. SingleSuccessor'
    BY <1>4 DEF SingleSuccessor
  <1> QED BY <1>5, AdmitsOrder DEF ChainInv

LEMMA ChainInvariance == ASSUME Chronological PROVE Spec => []ChainInv
  <1>1. Init => ChainInv
    BY DEF Init, ChainInv, Registered, SingleSuccessor
  <1>2. CorrectionInv /\ ChainInv /\ [Next]_vars => ChainInv'
    BY ChangesOfRows, RewritesChain, AdmitsChain
  <1> QED BY <1>1, <1>2, CorrectionInvariance, PTL DEF Spec

-----------------------------------------------------------------------------
(* The theorems.                                                           *)

\* Every row, execution, job and request is well formed.
THEOREM CorrectionTypeCorrect == Spec => []TypeOK
  <1>1. CorrectionInv => TypeOK
    BY DEF CorrectionInv, TypeInv, RowInv, TypeOK
  <1> QED BY <1>1, CorrectionInvariance, PTL

\* A recalculation reported complete has read its sources with the corrected
\* revision, whoever scheduled it first and whichever correction took it over.
THEOREM CorrectionIsSeen == Spec => []RecalculationSeesCorrection
  <1>1. CorrectionInv => RecalculationSeesCorrection
    BY DEF CorrectionInv, RecalculationSeesCorrection, Registered, RowInv, Genuine, Sees, Waiting
  <1> QED BY <1>1, CorrectionInvariance, PTL

\* What a correction affected when it was admitted is listed by it, although
\* the row is overwritten as a whole by requests that read it at other times.
THEOREM ImpactsAreKept == Spec => []NoImpactLost
  <1>1. CorrectionInv => NoImpactLost
    <2> SUFFICES ASSUME CorrectionInv, NEW c \in Registered, rows[c].state # "superseded",
                        ~(rows[c].state = "recalculation_pending" /\ rows[c].impacts = NoImpacts),
                        NEW q \in due[c], execution[q] = "complete"
                 PROVE  q \in {Replaced(x) : x \in DOMAIN rows[c].impacts}
      BY DEF NoImpactLost
    <2>1. CoversDue(rows[c].impacts, c, {})
      BY DEF CorrectionInv, RowInv, Registered
    <2>2. PICK x \in DOMAIN rows[c].impacts : q = Replaced(x)
      BY <2>1 DEF CoversDue
    <2> QED BY <2>2
  <1> QED BY <1>1, CorrectionInvariance, PTL

\* An impact is reported complete only while both stores say so: no later step
\* takes it back.
THEOREM CompleteIsRecalculated == Spec => []CompleteMeansRecalculated
  <1>1. CorrectionInv => CompleteMeansRecalculated
    BY DEF CorrectionInv, CompleteMeansRecalculated, Registered, RowInv, Genuine
  <1> QED BY <1>1, CorrectionInvariance, PTL

\* A cancelled correction has all of its jobs cancelled.
THEOREM CancelledAsAWhole == Spec => []CancelledMeansWholeBatch
  <1>1. CorrectionInv => CancelledMeansWholeBatch
    BY DEF CorrectionInv, CancelledMeansWholeBatch, Registered, RowInv
  <1> QED BY <1>1, CorrectionInvariance, PTL

\* A completed submission stage has a job, wherever requests crash.
THEOREM SubmittedIsQueued == Spec => []SubmittedMeansQueued
  <1>1. CorrectionInv => SubmittedMeansQueued
    BY DEF CorrectionInv, WorkInv
  <1> QED BY <1>1, CorrectionInvariance, PTL

\* No replay or worker revives a cancelled job.
THEOREM CancellationIsFinal == Spec => CancelledStaysCancelled
  <1>1. CorrectionInv /\ [Next]_vars =>
          [\A q \in Calculation : job[q] = "cancelled" => job'[q] = "cancelled"]_vars
    BY CorrectionNext DEF Evolves
  <1> QED BY <1>1, CorrectionInvariance, PTL DEF Spec, CancelledStaysCancelled

\* As long as a correction is observed after the revision that it supersedes,
\* no two corrections that were admitted in order extend the same revision,
\* however their registrations interleave (BreaksRevisionChain under the lock
\* of the scope).
THEOREM RevisionsDoNotFork == ASSUME Chronological PROVE Spec => []SingleSuccessor
  <1>1. ChainInv => SingleSuccessor
    BY DEF ChainInv
  <1> QED BY <1>1, ChainInvariance, PTL

=============================================================================
