------------------------- MODULE LineageQueueProofs -------------------------
(***************************************************************************)
(* Theorems about LineageQueue, for every number of lineage workers, inline*)
(* materializers, calculations, captures, attempts and faults.             *)
(*                                                                         *)
(* Everything is said of one calculation at a time (CalcInv, BudgetInv): a *)
(* step disturbs the rows of the calculations it works on, and leaves the  *)
(* rows and the holders of every other one as they are (Frame).            *)
(***************************************************************************)
EXTENDS LineageQueue, TLAPS

\* The worker has the calculation in its batch or is at work on it.
Holds(w, c) == c \in batch[w] \/ cur[w] = c

\* Behind mark_complete, and on the way to mark_pending.
Closing == {"finish", "confirm", "delete", "flush_delete"}
Requeueing == {"requeue", "flush_requeue"}

\* What the worker that holds c may count on while no other one can.
HolderInv(w, c) ==
    /\ record[c] = "pending" => payload[c].lease \in {"live", "expired"}
    /\ payload[c].lease = "live" => payload[c].owner = w
    /\ overruns = 0 => payload[c].lease # "expired"
    /\ record[c] = "complete" => cur[w] = c /\ pc[w] \in Closing
    /\ cur[w] = c /\ pc[w] \in Closing =>
          record[c] = "complete" \/ (record[c] = "failed" /\ cancel[c] # "none")
    /\ cur[w] = c /\ pc[w] = "fail_exec" => record[c] = "failed"

\* The manifest is written before the record is completed.
EvidenceInv(c) ==
    /\ record[c] = "complete" => disk[c] = "manifest"
    /\ \A w \in Worker : cur[w] = c /\ pc[w] = "complete" => disk[c] = "manifest"

\* A calculation somebody loaded or holds has its record.
RecordInv(c) ==
    /\ seen[c].payload # NoPayload => record[c] # "none"
    /\ seen[c].record # "none" => record[c] # "none"
    /\ \A w \in Worker : Holds(w, c) => record[c] # "none" /\ (c \in SummaryCalc \/ w \in Poller)

\* Cancellation waits for the capture, and no capture follows it.
CancelInv(c) ==
    /\ cancel[c] # "none" => capture[c] = "idle" /\ exec[c] = "failed"
    /\ cancel[c] \in {"lineage", "done"} => stage[c] # "in_progress"

\* There is no record before the first capture is flushed.
CaptureInv(c) ==
    /\ captures[c] = 0 => capture[c] = "idle"
    /\ captures[c] <= 1 /\ (captures[c] = 0 \/ capture[c] # "idle") => record[c] = "none"

\* Where two holders are excluded there is one, and it finds the payload it
\* is about to requeue.
OneHolderInv(c) ==
    /\ \A w, v \in Worker : Holds(w, c) /\ Holds(v, c) => w = v
    /\ \A w \in Worker : cur[w] = c /\ pc[w] \in Requeueing => HasPayload(c)

SoleInv(c) ==
    /\ exec[c] = "complete" => record[c] = "complete"
    /\ \A w \in Worker : Holds(w, c) => HolderInv(w, c)

CalcInv(c) ==
    /\ EvidenceInv(c) /\ RecordInv(c) /\ CancelInv(c) /\ CaptureInv(c)
    /\ OneHolder(c) => OneHolderInv(c)
    /\ SoleHolder(c) => SoleInv(c)

\* A worker that polls holds nothing, and works on nothing it has still to do.
HandInv ==
    \A w \in Worker : /\ pc[w] = "poll" => batch[w] = {}
                      /\ cur[w] \notin batch[w]

\* The attempts of a payload: one is still to be spent before the budget is
\* exceeded whenever the payload may be claimed.
BudgetInv(c) ==
    /\ payload[c].attempts <= MaxAttempts + overruns + faults
    /\ record[c] = "pending" /\ (\A w \in Worker : ~Holds(w, c)) =>
          payload[c].attempts < MaxAttempts + overruns + faults
    /\ \A w \in Worker :
          /\ Holds(w, c) /\ payload[c].lease = "expired" =>
                payload[c].attempts < MaxAttempts + overruns + faults
          /\ cur[w] = c /\ pc[w] \in Requeueing => payload[c].attempts < MaxAttempts

AllOne == \A d \in Calc : OneHolder(d)

LineageInv ==
    /\ TypeOK /\ HandInv
    /\ \A c \in Calc : CalcInv(c)
    /\ AllOne => \A c \in Calc : SoleHolder(c) => BudgetInv(c)

-----------------------------------------------------------------------------
(* What a step leaves alone.                                               *)

SameRow(d) ==
    /\ record'[d] = record[d] /\ payload'[d] = payload[d] /\ disk'[d] = disk[d]
    /\ exec'[d] = exec[d] /\ stage'[d] = stage[d]
    /\ capture'[d] = capture[d] /\ cancel'[d] = cancel[d] /\ captures'[d] = captures[d]
    /\ seen'[d] = seen[d]

SameHand(w, d) ==
    /\ Holds(w, d)' <=> Holds(w, d)
    /\ cur'[w] = d <=> cur[w] = d
    /\ cur[w] = d => pc'[w] = pc[w]

\* Neither the bounds nor the captures go back.
Later ==
    /\ overruns \in Nat /\ faults \in Nat /\ overruns' \in Nat /\ faults' \in Nat
    /\ overruns <= overruns' /\ faults <= faults'
    /\ \A d \in Calc : captures[d] \in Nat /\ captures'[d] \in Nat /\ captures[d] <= captures'[d]

\* Holders that are excluded after a step were excluded before it.
LEMMA StillSole ==
    ASSUME Later
    PROVE  /\ \A d \in Calc : OneHolder(d)' => OneHolder(d)
           /\ \A d \in Calc : SoleHolder(d)' => SoleHolder(d)
           /\ AllOne' => AllOne
<1>1. \A d \in Calc : OneHolder(d)' => OneHolder(d)
  BY DEF Later, OneHolder
<1>2. \A d \in Calc : SoleHolder(d)' => SoleHolder(d)
  BY <1>1 DEF Later, SoleHolder
<1>3. QED
  BY <1>1, <1>2 DEF AllOne

\* A calculation whose rows stay, and whose holders stay or let go of it.
LEMMA Frame ==
    ASSUME NEW d \in Calc, CalcInv(d), SameRow(d), Later,
           \A w \in Worker : SameHand(w, d) \/ ~Holds(w, d)'
    PROVE  CalcInv(d)'
<1>1. /\ \A w \in Worker : Holds(w, d)' => Holds(w, d)
      /\ \A w \in Worker : Holds(w, d)' => (cur'[w] = d <=> cur[w] = d)
      /\ \A w \in Worker : cur'[w] = d => cur[w] = d /\ pc'[w] = pc[w] /\ Holds(w, d)
  BY DEF SameHand, Holds
<1>2. EvidenceInv(d)' /\ RecordInv(d)' /\ CancelInv(d)' /\ CaptureInv(d)'
  BY <1>1 DEF CalcInv, EvidenceInv, RecordInv, CancelInv, CaptureInv, SameRow
<1>3. OneHolder(d)' => OneHolderInv(d)'
  BY <1>1, StillSole DEF CalcInv, OneHolderInv, SameRow, HasPayload
<1>4. ASSUME SoleHolder(d)' PROVE SoleInv(d)'
  <2>1. SoleInv(d)
    BY <1>4, StillSole DEF CalcInv
  <2>2. overruns' = 0 => overruns = 0
    BY DEF Later
  <2>3. ASSUME NEW w \in Worker, Holds(w, d)' PROVE HolderInv(w, d)'
    <3>1. HolderInv(w, d) /\ Holds(w, d)
      BY <2>1, <2>3, <1>1 DEF SoleInv
    <3>2. (cur'[w] = d <=> cur[w] = d) /\ (cur[w] = d => pc'[w] = pc[w])
      BY <1>1, <2>3
    <3>3. QED
      BY <3>1, <3>2, <2>2 DEF HolderInv, SameRow
  <2>4. QED
    BY <2>1, <2>3 DEF SoleInv, SameRow
<1>5. QED
  BY <1>2, <1>3, <1>4 DEF CalcInv

\* The budget of a payload that keeps its rows and its holders.
LEMMA BudgetFrame ==
    ASSUME NEW d \in Calc, BudgetInv(d), SameRow(d), Later, payload[d].attempts \in Nat,
           \A w \in Worker : SameHand(w, d)
    PROVE  BudgetInv(d)'
<1>1. MaxAttempts \in Nat
  BY LineageAssumption
<1>2. /\ overruns \in Nat /\ faults \in Nat /\ overruns' \in Nat /\ faults' \in Nat
      /\ overruns <= overruns' /\ faults <= faults'
  BY DEF Later
<1>3. PICK n \in Nat, m \in Nat, k \in Nat :
         /\ n = payload[d].attempts
         /\ m = MaxAttempts + overruns + faults
         /\ k = MaxAttempts + overruns' + faults'
         /\ m <= k
  BY <1>1, <1>2
<1>5. /\ n <= m
      /\ record[d] = "pending" /\ (\A w \in Worker : ~Holds(w, d)) => n < m
      /\ \A w \in Worker :
            /\ Holds(w, d) /\ payload[d].lease = "expired" => n < m
            /\ cur[w] = d /\ pc[w] \in Requeueing => n < MaxAttempts
  BY <1>3 DEF BudgetInv
<1>6. (n <= m => n <= k) /\ (n < m => n < k)
  BY <1>3
<1>7. /\ n <= k
      /\ record'[d] = "pending" /\ (\A w \in Worker : ~Holds(w, d)') => n < k
      /\ \A w \in Worker :
            /\ Holds(w, d)' /\ payload'[d].lease = "expired" => n < k
            /\ cur'[w] = d /\ pc'[w] \in Requeueing => n < MaxAttempts
  <2>1. \A w \in Worker : (Holds(w, d)' <=> Holds(w, d)) /\ (cur'[w] = d => cur[w] = d /\ pc'[w] = pc[w])
    BY DEF SameHand
  <2>2. QED
    BY <1>5, <1>6, <2>1 DEF SameRow
<1>8. QED
  BY <1>3, <1>7 DEF BudgetInv, SameRow

\* A fault or an overrun pays for one more attempt, whoever lets go.
LEMMA BudgetPaid ==
    ASSUME NEW d \in Calc, BudgetInv(d), SameRow(d), Later, payload[d].attempts \in Nat,
           overruns' + faults' = overruns + faults + 1,
           \A w \in Worker : SameHand(w, d) \/ ~Holds(w, d)'
    PROVE  BudgetInv(d)'
<1>1. /\ payload[d].attempts <= MaxAttempts + overruns + faults
      /\ MaxAttempts \in Nat
  BY LineageAssumption DEF BudgetInv
<1>2. payload'[d].attempts < MaxAttempts + overruns' + faults'
  BY <1>1 DEF SameRow, Later
<1>3. \A w \in Worker : cur'[w] = d /\ pc'[w] \in Requeueing => payload'[d].attempts < MaxAttempts
  BY DEF BudgetInv, SameHand, SameRow, Holds
<1>4. payload'[d].attempts <= MaxAttempts + overruns' + faults'
  BY <1>1 DEF SameRow, Later
<1>5. QED
  BY <1>2, <1>3, <1>4 DEF BudgetInv

-----------------------------------------------------------------------------
(* A step of a worker on the calculation it is at work on.                 *)

Works(w, l) ==
    /\ pc' = [pc EXCEPT ![w] = l]
    /\ cur' = cur \/ cur' = [cur EXCEPT ![w] = NoCalc]
    /\ UNCHANGED <<batch, capture, cancel, captures, overruns>>
    /\ faults' = faults \/ faults' = faults + 1
    /\ \A d \in Calc : seen'[d] = seen[d]
    /\ \A d \in Calc \ {cur[w]} :
          /\ record'[d] = record[d] /\ payload'[d] = payload[d] /\ disk'[d] = disk[d]
          /\ exec'[d] = exec[d] /\ stage'[d] = stage[d]

LEMMA WorkFrame ==
    ASSUME TypeOK, NEW w \in Worker, NEW c \in Calc, cur[w] = c, NEW l, Works(w, l)
    PROVE  /\ pc'[w] = l /\ batch'[w] = batch[w] /\ (cur'[w] = c \/ cur'[w] = NoCalc)
           /\ \A v \in Worker \ {w} : \A d \in Calc : SameHand(v, d)
           /\ \A d \in Calc \ {c} : SameRow(d) /\ \A v \in Worker : SameHand(v, d)
           /\ Later
           /\ OneHolder(c)' <=> OneHolder(c)
           /\ SoleHolder(c)' <=> SoleHolder(c)
<1>1. /\ pc'[w] = l /\ batch'[w] = batch[w] /\ (cur'[w] = c \/ cur'[w] = NoCalc)
      /\ \A v \in Worker \ {w} : pc'[v] = pc[v] /\ cur'[v] = cur[v]
      /\ NoCalc \notin Calc
  BY LineageAssumption DEF TypeOK, Works
<1>2. \A v \in Worker \ {w} : \A d \in Calc : SameHand(v, d)
  BY <1>1 DEF SameHand, Holds, Works
<1>3. \A d \in Calc \ {c} : SameRow(d)
  BY DEF SameRow, Works
<1>4. \A d \in Calc \ {c} : SameHand(w, d)
  BY <1>1 DEF SameHand, Holds
<1>5. Later
  BY LineageAssumption DEF Later, TypeOK, Works
<1>6. (OneHolder(c)' <=> OneHolder(c)) /\ (SoleHolder(c)' <=> SoleHolder(c))
  BY DEF OneHolder, SoleHolder, Works
<1>7. QED
  BY <1>1, <1>2, <1>3, <1>4, <1>5, <1>6

LEMMA AttemptsType == TypeOK => \A d \in Calc : payload[d].attempts \in Nat
BY DEF TypeOK, Payload, NoPayload

\* Only the calculation at work is left to show.
LEMMA WorkSound ==
    ASSUME LineageInv, NEW w \in Worker, NEW c \in Calc, cur[w] = c,
           NEW l, l # "poll", Works(w, l),
           TypeOK', CalcInv(c)',
           AllOne /\ SoleHolder(c) /\ BudgetInv(c) => BudgetInv(c)'
    PROVE  LineageInv'
<1>1. TypeOK /\ HandInv /\ (\A d \in Calc : CalcInv(d))
  BY DEF LineageInv
<1>2. /\ pc'[w] = l /\ batch'[w] = batch[w] /\ (cur'[w] = c \/ cur'[w] = NoCalc)
      /\ \A d \in Calc \ {c} : SameRow(d) /\ \A v \in Worker : SameHand(v, d)
      /\ Later
  BY <1>1, WorkFrame
<1>3. HandInv'
  <2>1. ASSUME NEW v \in Worker, v # w
        PROVE  pc'[v] = pc[v] /\ batch'[v] = batch[v] /\ cur'[v] = cur[v]
    BY <1>1, <2>1 DEF TypeOK, Works
  <2>2. batch'[w] \subseteq Calc /\ NoCalc \notin Calc
    BY LineageAssumption DEF TypeOK
  <2>3. QED
    BY <1>1, <1>2, <2>1, <2>2 DEF HandInv
<1>4. \A d \in Calc : CalcInv(d)'
  BY <1>1, <1>2, Frame
<1>5. ASSUME AllOne', NEW d \in Calc, SoleHolder(d)' PROVE BudgetInv(d)'
  <2>1. AllOne /\ SoleHolder(d)
    BY <1>2, <1>5, StillSole
  <2>2. BudgetInv(d)
    BY <2>1 DEF LineageInv
  <2>3. CASE d = c
    BY <2>1, <2>2, <2>3
  <2>4. CASE d # c
    BY <1>1, <1>2, <2>2, <2>4, AttemptsType, BudgetFrame
  <2>5. QED
    BY <2>3, <2>4
<1>6. QED
  BY <1>3, <1>4, <1>5 DEF LineageInv

\* What a worker may write of the execution and of the disk.
Writes(c) ==
    /\ disk[c] = "manifest" => disk'[c] = "manifest"
    /\ cancel[c] # "none" => exec'[c] = "failed"
    /\ stage'[c] = "in_progress" => stage[c] = "in_progress"
    /\ SoleHolder(c) /\ exec'[c] = "complete" => record'[c] = "complete"

\* What a step that changes no row writes of them is nothing.
LEMMA SameWrites ==
    ASSUME LineageInv, NEW c \in Calc, SameRow(c)
    PROVE  Writes(c)
BY DEF LineageInv, CalcInv, CancelInv, SoleInv, SameRow, Writes

\* The worker lets go of the calculation, whose record it may set back.
LEMMA LeftCalc ==
    ASSUME LineageInv, NEW w \in Worker, NEW c \in Calc, cur[w] = c, NEW l, Works(w, l),
           cur' = [cur EXCEPT ![w] = NoCalc], Writes(c),
           record'[c] # "none",
           record'[c] = "complete" => record[c] = "complete"
    PROVE  CalcInv(c)'
<1>1. TypeOK /\ HandInv /\ CalcInv(c)
  BY DEF LineageInv
<1>2. ~Holds(w, c)'
  <2>1. cur'[w] = NoCalc /\ batch'[w] = batch[w] /\ c \notin batch[w] /\ NoCalc # c
    BY <1>1, LineageAssumption DEF TypeOK, HandInv, Works
  <2>2. QED
    BY <2>1 DEF Holds
<1>3. /\ \A v \in Worker \ {w} : SameHand(v, c)
      /\ Later
      /\ OneHolder(c)' <=> OneHolder(c)
      /\ SoleHolder(c)' <=> SoleHolder(c)
  BY <1>1, WorkFrame
<1>4. /\ \A v \in Worker : Holds(v, c)' => Holds(v, c)
      /\ \A v \in Worker : cur'[v] = c => v # w /\ cur[v] = c /\ pc'[v] = pc[v] /\ Holds(v, c)'
  BY <1>2, <1>3 DEF SameHand, Holds
<1>5. record[c] # "none" /\ Holds(w, c)
  BY <1>1 DEF CalcInv, RecordInv, Holds
<1>6. EvidenceInv(c)' /\ RecordInv(c)' /\ CancelInv(c)' /\ CaptureInv(c)'
  BY <1>1, <1>4, <1>5 DEF CalcInv, EvidenceInv, RecordInv, CancelInv, CaptureInv, Works, Writes
<1>7. ASSUME OneHolder(c)', NEW v \in Worker PROVE ~Holds(v, c)'
  BY <1>1, <1>2, <1>3, <1>4, <1>5, <1>7 DEF CalcInv, OneHolderInv
<1>8. OneHolder(c)' => OneHolderInv(c)'
  BY <1>4, <1>7 DEF OneHolderInv
<1>9. ASSUME SoleHolder(c)' PROVE SoleInv(c)'
  <2>1. OneHolder(c)'
    BY <1>9 DEF SoleHolder
  <2>2. QED
    BY <1>3, <1>7, <1>9, <2>1 DEF SoleInv, Writes
<1>10. QED
  BY <1>6, <1>8, <1>9 DEF CalcInv

\* The worker goes on with the calculation, whose record and payload stay.
LEMMA MovedCalc ==
    ASSUME LineageInv, NEW w \in Worker, NEW c \in Calc, cur[w] = c, NEW l, Works(w, l),
           cur' = cur, record'[c] = record[c], payload'[c] = payload[c], Writes(c),
           l = "complete" => disk'[c] = "manifest",
           l # "fail_exec",
           l \in Requeueing /\ OneHolder(c) => HasPayload(c),
           l \in Closing <=> pc[w] \in Closing
    PROVE  CalcInv(c)'
<1>1. TypeOK /\ HandInv /\ CalcInv(c)
  BY DEF LineageInv
<1>2. /\ pc'[w] = l /\ cur'[w] = c /\ batch'[w] = batch[w]
      /\ \A v \in Worker \ {w} : SameHand(v, c)
      /\ Later
      /\ SoleHolder(c)' <=> SoleHolder(c)
  BY <1>1, WorkFrame
<1>3. /\ \A v \in Worker : (Holds(v, c)' <=> Holds(v, c)) /\ (cur'[v] = c <=> cur[v] = c)
      /\ \A v \in Worker \ {w} : cur[v] = c => pc'[v] = pc[v]
  BY <1>2 DEF SameHand, Holds
<1>4. EvidenceInv(c)' /\ RecordInv(c)' /\ CancelInv(c)' /\ CaptureInv(c)'
  BY <1>1, <1>2, <1>3 DEF CalcInv, EvidenceInv, RecordInv, CancelInv, CaptureInv, Works, Writes
<1>5. OneHolder(c)' => OneHolderInv(c)'
  BY <1>1, <1>2, <1>3, StillSole DEF CalcInv, OneHolderInv, HasPayload
<1>6. ASSUME SoleHolder(c)' PROVE SoleInv(c)'
  <2>1. SoleInv(c)
    BY <1>1, <1>2, <1>6 DEF CalcInv
  <2>2. overruns' = overruns /\ cancel' = cancel
    BY DEF Works
  <2>3. ASSUME NEW v \in Worker, Holds(v, c)' PROVE HolderInv(v, c)'
    <3>1. HolderInv(v, c)
      BY <2>1, <2>3, <1>3 DEF SoleInv
    <3>2. CASE v = w
      BY <3>1, <3>2, <2>2, <1>2 DEF HolderInv
    <3>3. CASE v # w
      BY <3>1, <3>3, <2>2, <1>3 DEF HolderInv
    <3>4. QED
      BY <3>2, <3>3
  <2>4. QED
    BY <2>3, <1>2, <1>6 DEF SoleInv, Writes
<1>7. QED
  BY <1>4, <1>5, <1>6 DEF CalcInv

\* The budget of a calculation whose row stays: the worker goes on with it,
\* or lets go of it when it is not pending any more or its lease has expired.
LEMMA MovedBudget ==
    ASSUME LineageInv, NEW w \in Worker, NEW c \in Calc, cur[w] = c, NEW l, Works(w, l),
           payload'[c] = payload[c], BudgetInv(c),
           \/ /\ cur' = cur
              /\ l \in Requeueing => payload[c].attempts < MaxAttempts
           \/ /\ cur' = [cur EXCEPT ![w] = NoCalc]
              /\ \/ record'[c] # "pending"
                 \/ payload[c].lease = "expired"
                 \/ payload[c].attempts < MaxAttempts
    PROVE  BudgetInv(c)'
<1>1. TypeOK /\ HandInv /\ CalcInv(c) /\ Holds(w, c)
  BY DEF LineageInv, Holds
<1>2. /\ pc'[w] = l /\ batch'[w] = batch[w]
      /\ \A v \in Worker \ {w} : SameHand(v, c)
      /\ Later
  BY <1>1, WorkFrame
<1>3. MaxAttempts \in Nat /\ payload[c].attempts \in Nat
  BY <1>1, LineageAssumption, AttemptsType
<1>4. /\ overruns \in Nat /\ faults \in Nat /\ overruns' \in Nat /\ faults' \in Nat
      /\ overruns <= overruns' /\ faults <= faults'
  BY <1>2 DEF Later
<1>5. PICK n \in Nat, m \in Nat, k \in Nat :
         /\ n = payload[c].attempts
         /\ m = MaxAttempts + overruns + faults
         /\ k = MaxAttempts + overruns' + faults'
         /\ m <= k /\ MaxAttempts <= m
  BY <1>3, <1>4
<1>6. /\ n <= m
      /\ \A v \in Worker :
            /\ Holds(v, c) /\ payload[c].lease = "expired" => n < m
            /\ cur[v] = c /\ pc[v] \in Requeueing => n < MaxAttempts
  BY <1>5 DEF BudgetInv
<1>7. (n <= m => n <= k) /\ (n < m => n < k) /\ (n < MaxAttempts => n < k)
  BY <1>5, <1>3
<1>8. /\ n <= k
      /\ \A v \in Worker :
            /\ Holds(v, c)' /\ payload'[c].lease = "expired" => n < k
            /\ cur'[v] = c /\ pc'[v] \in Requeueing => n < MaxAttempts
  <2>1. \A v \in Worker : Holds(v, c)' => Holds(v, c)
    BY <1>1, <1>2 DEF SameHand
  <2>2. \A v \in Worker \ {w} : cur'[v] = c => cur[v] = c /\ pc'[v] = pc[v]
    BY <1>2 DEF SameHand
  <2>3. cur'[w] = c /\ pc'[w] \in Requeueing => n < MaxAttempts
    BY <1>1, <1>2, <1>5, LineageAssumption DEF TypeOK
  <2>4. QED
    BY <1>6, <1>7, <2>1, <2>2, <2>3
<1>9. ASSUME record'[c] = "pending", \A v \in Worker : ~Holds(v, c)' PROVE n < k
  <2>1. cur' # cur
    BY <1>9 DEF Holds
  <2>2. payload[c].lease = "expired" \/ n < MaxAttempts
    BY <1>9, <2>1, <1>5
  <2>3. QED
    BY <1>1, <1>6, <1>7, <2>2
<1>10. QED
  BY <1>5, <1>8, <1>9 DEF BudgetInv

-----------------------------------------------------------------------------
(* Steps of a worker that change no row.                                   *)

\* A worker beyond its batch is at work on a calculation.
LEMMA AtWorkCalc ==
    ASSUME TypeOK, NEW w \in Worker, pc[w] \notin {"poll", "next"}
    PROVE  cur[w] \in Calc
BY DEF TypeOK

\* Leaving a calculation keeps the control state well typed.
LEMMA LeaveTypes ==
    ASSUME TypeOK, NEW w \in Worker, Leave(w)
    PROVE  /\ pc' \in [Worker -> Control] /\ cur' \in [Worker -> Calc \cup {NoCalc}]
           /\ \A v \in Worker : (cur'[v] = NoCalc) <=> pc'[v] \in {"poll", "next"}
BY LineageAssumption DEF TypeOK, Control, Leave, Goto

LEMMA MaterializationFailsSound ==
    ASSUME LineageInv, NEW w \in Worker, MaterializationFails(w)
    PROVE  LineageInv'
<1> USE DEF MaterializationFails, Goto, durable, api
<1>1. TypeOK
  BY DEF LineageInv
<1>2. PICK c \in Calc : c = cur[w]
  BY <1>1, AtWorkCalc
<1>3. Works(w, "retry") /\ SameRow(c) /\ cur' = cur
  BY DEF Works, SameRow
<1>4. TypeOK'
  BY <1>1 DEF TypeOK, Control
<1>5. CalcInv(c)'
  BY <1>2, <1>3, SameWrites, MovedCalc DEF Closing, Requeueing, SameRow
<1>6. BudgetInv(c) => BudgetInv(c)'
  BY <1>2, <1>3, MovedBudget DEF Requeueing, SameRow
<1>7. QED
  BY <1>2, <1>3, <1>4, <1>5, <1>6, WorkSound

LEMMA FinishSwallowedSound ==
    ASSUME LineageInv, NEW w \in Worker, FinishSwallowed(w)
    PROVE  LineageInv'
<1> USE DEF FinishSwallowed, AfterFinish, Goto, durable, api
<1>1. TypeOK
  BY DEF LineageInv
<1>2. PICK c \in Calc : c = cur[w]
  BY <1>1, AtWorkCalc
<1>3. PICK l \in {"confirm", "delete"} : pc' = [pc EXCEPT ![w] = l]
  OBVIOUS
<1>4. Works(w, l) /\ SameRow(c) /\ cur' = cur
  BY <1>3 DEF Works, SameRow
<1>5. TypeOK'
  BY <1>1, <1>3, LineageAssumption DEF TypeOK, Control
<1>6. CalcInv(c)'
  BY <1>2, <1>4, SameWrites, MovedCalc DEF Closing, Requeueing, SameRow
<1>7. BudgetInv(c) => BudgetInv(c)'
  BY <1>2, <1>4, MovedBudget DEF Requeueing, SameRow
<1>8. QED
  BY <1>2, <1>4, <1>5, <1>6, <1>7, WorkSound

\* What the holder may count on.
LEMMA HeldFacts ==
    ASSUME LineageInv, NEW w \in Worker, NEW c \in Calc, cur[w] = c
    PROVE  /\ TypeOK /\ CalcInv(c) /\ Holds(w, c) /\ record[c] # "none"
           /\ OneHolder(c) => OneHolderInv(c)
           /\ SoleHolder(c) => SoleInv(c) /\ HolderInv(w, c) /\ OneHolderInv(c)
           /\ SoleHolder(c) => OneHolder(c)
BY DEF LineageInv, CalcInv, RecordInv, Holds, SoleInv, SoleHolder

\* A closing worker may let go: the record is not pending any more.
LEMMA ClosingLeaves ==
    ASSUME LineageInv, NEW w \in Worker, NEW c \in Calc, c = cur[w],
           pc[w] \in Closing, Works(w, "next"), TypeOK',
           cur' = [cur EXCEPT ![w] = NoCalc], SameRow(c)
    PROVE  LineageInv'
<1>1. CalcInv(c)'
  BY HeldFacts, SameWrites, LeftCalc DEF SameRow
<1>2. SoleHolder(c) /\ BudgetInv(c) => BudgetInv(c)'
  <2>1. SoleHolder(c) => record'[c] # "pending"
    BY HeldFacts DEF HolderInv, SameRow
  <2>2. QED
    BY <2>1, MovedBudget DEF SameRow
<1>3. QED
  BY <1>1, <1>2, WorkSound

\* A closing worker goes on closing.
LEMMA ClosingMoves ==
    ASSUME LineageInv, NEW w \in Worker, NEW c \in Calc, c = cur[w],
           pc[w] \in Closing, NEW l \in Closing, Works(w, l), TypeOK', cur' = cur, SameRow(c)
    PROVE  LineageInv'
<1>1. CalcInv(c)'
  BY SameWrites, MovedCalc DEF Closing, Requeueing, SameRow
<1>2. BudgetInv(c) => BudgetInv(c)'
  BY MovedBudget DEF Closing, Requeueing, SameRow
<1>3. QED
  BY <1>1, <1>2, WorkSound DEF Closing

LEMMA ConfirmTerminalSound ==
    ASSUME LineageInv, NEW w \in Worker, ConfirmTerminal(w)
    PROVE  LineageInv'
<1> USE DEF ConfirmTerminal, Goto, Leave, durable, api
<1>1. TypeOK
  BY DEF LineageInv
<1>2. PICK c \in Calc : c = cur[w]
  BY <1>1, AtWorkCalc
<1>3. pc[w] \in Closing /\ SameRow(c)
  BY DEF Closing, SameRow
<1>4. CASE pc' = [pc EXCEPT ![w] = "delete"] /\ cur' = cur
  <2>1. Works(w, "delete")
    BY <1>4 DEF Works
  <2>2. TypeOK'
    BY <1>1, <1>4 DEF TypeOK, Control
  <2>3. QED
    BY <1>2, <1>3, <1>4, <2>1, <2>2, ClosingMoves DEF Closing
<1>5. CASE pc' = [pc EXCEPT ![w] = "next"] /\ cur' = [cur EXCEPT ![w] = NoCalc]
  <2>1. Works(w, "next")
    BY <1>5 DEF Works
  <2>2. TypeOK'
    BY <1>1, <1>5, LineageAssumption DEF TypeOK, Control
  <2>3. QED
    BY <1>2, <1>3, <1>5, <2>1, <2>2, ClosingLeaves
<1>6. QED
  BY <1>4, <1>5

LEMMA LoadDeleteSound ==
    ASSUME LineageInv, NEW w \in Worker, LoadDelete(w)
    PROVE  LineageInv'
<1> USE DEF LoadDelete, Goto, Leave, durable, api
<1>1. TypeOK
  BY DEF LineageInv
<1>2. PICK c \in Calc : c = cur[w]
  BY <1>1, AtWorkCalc
<1>3. pc[w] \in Closing /\ SameRow(c)
  BY DEF Closing, SameRow
<1>4. CASE pc' = [pc EXCEPT ![w] = "flush_delete"] /\ cur' = cur
  <2>1. Works(w, "flush_delete")
    BY <1>4 DEF Works
  <2>2. TypeOK'
    BY <1>1, <1>4 DEF TypeOK, Control
  <2>3. QED
    BY <1>2, <1>3, <1>4, <2>1, <2>2, ClosingMoves DEF Closing
<1>5. CASE pc' = [pc EXCEPT ![w] = "next"] /\ cur' = [cur EXCEPT ![w] = NoCalc]
  <2>1. Works(w, "next")
    BY <1>5 DEF Works
  <2>2. TypeOK'
    BY <1>1, <1>5, LineageAssumption DEF TypeOK, Control
  <2>3. QED
    BY <1>2, <1>3, <1>5, <2>1, <2>2, ClosingLeaves
<1>6. QED
  BY <1>4, <1>5

\* The attempts that are left are decided on the payload as it is.
LEMMA DecideRetrySound ==
    ASSUME LineageInv, NEW w \in Worker, DecideRetry(w)
    PROVE  LineageInv'
<1> USE DEF DecideRetry, Goto, Leave, durable, api
<1>1. TypeOK
  BY DEF LineageInv
<1>2. PICK c \in Calc : c = cur[w]
  BY <1>1, AtWorkCalc
<1>3. SameRow(c) /\ payload[c].attempts \in Nat /\ MaxAttempts \in Nat \ {0}
  BY <1>1, AttemptsType, LineageAssumption DEF SameRow
<1>4. CASE ~HasPayload(c) /\ pc' = [pc EXCEPT ![w] = "next"] /\ cur' = [cur EXCEPT ![w] = NoCalc]
  <2>1. Works(w, "next")
    BY <1>4 DEF Works
  <2>2. TypeOK'
    BY <1>1, <1>4, LineageAssumption DEF TypeOK, Control
  <2>3. CalcInv(c)'
    BY <1>2, <1>3, <1>4, <2>1, HeldFacts, SameWrites, LeftCalc DEF SameRow
  <2>4. payload[c].attempts < MaxAttempts
    BY <1>3, <1>4 DEF HasPayload, NoPayload
  <2>5. BudgetInv(c) => BudgetInv(c)'
    BY <1>2, <1>3, <1>4, <2>1, <2>4, MovedBudget DEF SameRow
  <2>6. QED
    BY <1>2, <2>1, <2>2, <2>3, <2>5, WorkSound
<1>5. CASE /\ HasPayload(c) /\ cur' = cur
           /\ pc' = [pc EXCEPT ![w] = IF payload[c].attempts >= MaxAttempts
                                      THEN "fail" ELSE "requeue"]
  <2>1. PICK l \in {"fail", "requeue"} :
           /\ pc' = [pc EXCEPT ![w] = l]
           /\ l = "requeue" => payload[c].attempts < MaxAttempts
    <3>1. CASE payload[c].attempts >= MaxAttempts
      BY <1>5, <3>1
    <3>2. CASE ~(payload[c].attempts >= MaxAttempts)
      <4>1. payload[c].attempts < MaxAttempts
        BY <1>3, <3>2
      <4>2. QED
        BY <1>5, <3>2, <4>1
    <3>3. QED
      BY <3>1, <3>2
  <2>2. Works(w, l)
    BY <1>5, <2>1 DEF Works
  <2>3. TypeOK'
    BY <1>1, <1>5, <2>1 DEF TypeOK, Control
  <2>4. CalcInv(c)'
    BY <1>2, <1>3, <1>5, <2>2, SameWrites, MovedCalc DEF Closing, Requeueing, SameRow
  <2>5. BudgetInv(c) => BudgetInv(c)'
    BY <1>2, <1>3, <1>5, <2>1, <2>2, MovedBudget DEF Requeueing, SameRow
  <2>6. QED
    BY <1>2, <2>2, <2>3, <2>4, <2>5, WorkSound
<1>6. QED
  BY <1>2, <1>4, <1>5

LEMMA LoadRequeueSound ==
    ASSUME LineageInv, NEW w \in Worker, LoadRequeue(w)
    PROVE  LineageInv'
<1> USE DEF LoadRequeue, Goto, durable, api
<1>1. TypeOK
  BY DEF LineageInv
<1>2. PICK c \in Calc : c = cur[w]
  BY <1>1, AtWorkCalc
<1>3. \A d \in Calc : seen'[d] = seen[d]
  BY <1>1, LineageAssumption DEF TypeOK, Worker
<1>4. Works(w, "flush_requeue") /\ SameRow(c) /\ cur' = cur
  BY <1>3 DEF Works, SameRow
<1>5. TypeOK'
  BY <1>1, <1>2 DEF TypeOK, Control
<1>6. OneHolder(c) => HasPayload(c)
  BY <1>2, HeldFacts DEF OneHolderInv, Requeueing
<1>7. BudgetInv(c) => BudgetInv(c)'
  BY <1>2, <1>4, MovedBudget DEF BudgetInv, Requeueing, SameRow
<1>8. CalcInv(c)'
  BY <1>2, <1>4, <1>6, SameWrites, MovedCalc DEF Closing, Requeueing, SameRow
<1>9. QED
  BY <1>2, <1>4, <1>5, <1>7, <1>8, WorkSound

-----------------------------------------------------------------------------
(* Rows keep their type.                                                   *)

LEMMA PayloadTypes ==
    /\ NoPayload \notin Payload /\ FreshPayload \in Payload
    /\ \A row \in Payload \cup {NoPayload} :
          /\ Released(row) \in Payload \cup {NoPayload}
          /\ Released(row) = NoPayload <=> row = NoPayload
          /\ Released(row).attempts = row.attempts
          /\ row \in Payload => Released(row).lease = "none"
    /\ \A row \in Payload, w \in Worker :
          /\ Claimed(row, w) \in Payload
          /\ Claimed(row, w).attempts = row.attempts + 1
          /\ Claimed(row, w).owner = w /\ Claimed(row, w).lease = "live"
<1>1. NoPayload \notin Payload /\ FreshPayload \in Payload
  BY DEF Payload, NoPayload, FreshPayload
<1>2. ASSUME NEW row \in Payload
      PROVE  /\ Released(row) \in Payload
             /\ Released(row).attempts = row.attempts /\ Released(row).lease = "none"
  BY <1>1, <1>2 DEF Payload, Released
<1>3. Released(NoPayload) = NoPayload
  BY DEF Released
<1>4. ASSUME NEW row \in Payload, NEW w \in Worker
      PROVE  /\ Claimed(row, w) \in Payload
             /\ Claimed(row, w).attempts = row.attempts + 1
             /\ Claimed(row, w).owner = w /\ Claimed(row, w).lease = "live"
  BY DEF Payload, Claimed
<1>5. QED
  BY <1>1, <1>2, <1>3, <1>4

LEMMA FlushTypes ==
    ASSUME NEW current \in Payload, NEW loaded \in Payload, NEW intended \in Payload
    PROVE  /\ FlushPayload(current, loaded, intended) \in Payload
           /\ loaded.attempts = intended.attempts =>
                 FlushPayload(current, loaded, intended).attempts = current.attempts
BY DEF FlushPayload, Written, Payload

-----------------------------------------------------------------------------
(* Steps of a worker that write the artifacts and the execution.           *)

\* The artifacts are written before the manifest, and a manifest stays.
LEMMA WriteSound ==
    ASSUME LineageInv, NEW w \in Worker, WriteArtifacts(w) \/ WriteManifest(w)
    PROVE  LineageInv'
<1> USE DEF WriteArtifacts, WriteManifest, Goto, durable, api
<1>1. TypeOK /\ pc[w] \in {"write", "manifest"} /\ cur' = cur
  BY DEF LineageInv
<1>2. PICK c \in Calc : c = cur[w]
  BY <1>1, AtWorkCalc
<1>3. PICK l \in {"manifest", "complete"}, k \in {"none", "files", "manifest"} :
         /\ pc' = [pc EXCEPT ![w] = l]
         /\ disk' = [disk EXCEPT ![c] = k]
         /\ disk[c] = "manifest" => k = "manifest"
         /\ l = "complete" => k = "manifest"
  <2>1. CASE WriteArtifacts(w)
    <3>1. PICK k \in {"none", "files", "manifest"} : k = IF disk[c] = "none" THEN "files" ELSE disk[c]
      BY <1>1 DEF TypeOK
    <3>2. disk' = [disk EXCEPT ![c] = k] /\ (disk[c] = "manifest" => k = "manifest")
      BY <1>2, <2>1, <3>1
    <3>3. pc' = [pc EXCEPT ![w] = "manifest"]
      BY <2>1
    <3>4. QED
      BY <3>2, <3>3
  <2>2. CASE WriteManifest(w)
    BY <1>2, <2>2
  <2>3. QED
    BY <2>1, <2>2
<1>4. disk'[c] = k /\ \A d \in Calc \ {c} : disk'[d] = disk[d]
  BY <1>1, <1>3 DEF TypeOK
<1>5. Works(w, l)
  BY <1>1, <1>2, <1>3, <1>4 DEF Works
<1>6. TypeOK'
  BY <1>1, <1>2, <1>3 DEF TypeOK, Control
<1>7. Writes(c)
  BY <1>3, <1>4 DEF LineageInv, CalcInv, CancelInv, SoleInv, Writes
<1>8. CalcInv(c)'
  BY <1>1, <1>2, <1>3, <1>4, <1>5, <1>7, MovedCalc DEF Closing, Requeueing
<1>9. BudgetInv(c) => BudgetInv(c)'
  BY <1>1, <1>2, <1>5, MovedBudget DEF Requeueing
<1>10. QED
  BY <1>2, <1>5, <1>6, <1>8, <1>9, WorkSound

\* A failed execution is not completed, and a sole holder that completes it
\* has completed the record.
LEMMA FinishExecutionSound ==
    ASSUME LineageInv, NEW w \in Worker, FinishExecution(w)
    PROVE  LineageInv'
<1> USE DEF FinishExecution, AfterFinish, Goto, durable, api
<1>1. TypeOK /\ cur' = cur
  BY DEF LineageInv
<1>2. PICK c \in Calc : c = cur[w]
  BY <1>1, AtWorkCalc
<1>3. PICK l \in {"confirm", "delete"} : pc' = [pc EXCEPT ![w] = l]
  OBVIOUS
<1>4. /\ \A d \in Calc \ {c} : exec'[d] = exec[d] /\ stage'[d] = stage[d]
      /\ exec[c] = "failed" => exec'[c] = "failed"
      /\ exec[c] # "failed" => exec'[c] = "complete"
      /\ stage'[c] = "in_progress" => stage[c] = "in_progress"
  BY <1>1, <1>2 DEF TypeOK
<1>5. Works(w, l)
  BY <1>1, <1>2, <1>3, <1>4 DEF Works
<1>6. TypeOK'
  <2>1. /\ exec' \in [Calc -> {"running", "complete", "failed"}]
        /\ stage' \in [Calc -> {"none", "in_progress", "complete", "failed"}]
    <3>1. /\ exec \in [Calc -> {"running", "complete", "failed"}]
          /\ stage \in [Calc -> {"none", "in_progress", "complete", "failed"}]
      BY <1>1 DEF TypeOK
    <3>2. \/ exec' = exec /\ stage' = stage
          \/ /\ exec' = [exec EXCEPT ![c] = "complete"]
             /\ stage' = [stage EXCEPT ![c] = "complete"]
      BY <1>2
    <3>3. QED
      BY <3>1, <3>2
  <2>2. /\ pc' \in [Worker -> Control]
        /\ \A v \in Worker : (cur'[v] = NoCalc) <=> pc'[v] \in {"poll", "next"}
    BY <1>1, <1>3 DEF TypeOK, Control
  <2>3. QED
    BY <1>1, <2>1, <2>2 DEF TypeOK
<1>7. Writes(c)
  <2>1. cancel[c] # "none" => exec[c] = "failed"
    BY DEF LineageInv, CalcInv, CancelInv
  <2>2. ASSUME SoleHolder(c), exec'[c] = "complete" PROVE record[c] = "complete"
    <3>1. HolderInv(w, c)
      BY <1>2, <2>2, HeldFacts
    <3>2. QED
      BY <1>2, <1>4, <2>1, <2>2, <3>1 DEF HolderInv, Closing
  <2>3. QED
    BY <1>4, <2>1, <2>2 DEF Writes
<1>8. CalcInv(c)'
  BY <1>1, <1>2, <1>5, <1>7, MovedCalc DEF Closing, Requeueing
<1>9. BudgetInv(c) => BudgetInv(c)'
  BY <1>1, <1>2, <1>5, MovedBudget DEF Requeueing
<1>10. QED
  BY <1>2, <1>5, <1>6, <1>8, <1>9, WorkSound

\* The execution of a failed record fails, or stays when the registry raises.
LEMMA FailExecutionSound ==
    ASSUME LineageInv, NEW w \in Worker, FailExecution(w) \/ FailSwallowed(w)
    PROVE  LineageInv'
<1> USE DEF FailExecution, FailSwallowed, Leave, Goto, durable, api
<1>1. TypeOK /\ pc[w] = "fail_exec" /\ payload' = payload /\ record' = record
  BY DEF LineageInv
<1>2. PICK c \in Calc : c = cur[w]
  BY <1>1, AtWorkCalc
<1>3. PICK e \in {exec[c], "failed"} : exec' = [exec EXCEPT ![c] = e]
  BY <1>2
<1>4. stage' = stage \/ stage' = [stage EXCEPT ![c] = "failed"]
  BY <1>2
<1>5. /\ \A d \in Calc \ {c} : exec'[d] = exec[d] /\ stage'[d] = stage[d]
      /\ exec'[c] \in {exec[c], "failed"}
      /\ stage'[c] = "in_progress" => stage[c] = "in_progress"
  BY <1>1, <1>3, <1>4 DEF TypeOK
<1>6. Works(w, "next") /\ cur' = [cur EXCEPT ![w] = NoCalc]
  BY <1>2, <1>5 DEF Works
<1>7. TypeOK'
  <2>1. /\ exec' \in [Calc -> {"running", "complete", "failed"}]
        /\ stage' \in [Calc -> {"none", "in_progress", "complete", "failed"}]
    BY <1>1, <1>3, <1>4 DEF TypeOK
  <2>2. faults' \in 0..MaxFaults
    BY <1>1, LineageAssumption DEF TypeOK
  <2>3. QED
    <3>1. /\ pc' \in [Worker -> Control] /\ cur' \in [Worker -> Calc \cup {NoCalc}]
          /\ \A v \in Worker : (cur'[v] = NoCalc) <=> pc'[v] \in {"poll", "next"}
      BY <1>1, LeaveTypes
    <3>2. QED
      BY <1>1, <2>1, <2>2, <3>1 DEF TypeOK
<1>8. Writes(c)
  BY <1>1, <1>5, <1>6 DEF LineageInv, CalcInv, CancelInv, SoleInv, Writes, Works
<1>9. CalcInv(c)'
  BY <1>1, <1>2, <1>6, <1>8, HeldFacts, LeftCalc
<1>10. SoleHolder(c) /\ BudgetInv(c) => BudgetInv(c)'
  <2>1. SoleHolder(c) => record'[c] # "pending"
    BY <1>1, <1>2, HeldFacts DEF HolderInv
  <2>2. QED
    BY <1>1, <1>2, <1>6, <2>1, MovedBudget
<1>11. QED
  BY <1>2, <1>6, <1>7, <1>9, <1>10, WorkSound

-----------------------------------------------------------------------------
(* Steps of a worker that write the record or the payload.                 *)

\* mark_complete: only the owner of a live lease completes the record, with
\* the manifest behind it; another worker leaves the payload.
LEMMA MarkCompleteSound ==
    ASSUME LineageInv, NEW w \in Worker, MarkComplete(w)
    PROVE  LineageInv'
<1> USE DEF MarkComplete, Goto, durable, api
<1>1. TypeOK /\ HandInv /\ pc[w] = "complete" /\ payload' = payload
  BY DEF LineageInv
<1>2. PICK c \in Calc : c = cur[w]
  BY <1>1, AtWorkCalc
<1>3. CalcInv(c) /\ Holds(w, c)
  BY <1>2, HeldFacts
<1>4. CASE /\ record[c] # "failed" /\ OwnsLease(w, c)
           /\ record' = [record EXCEPT ![c] = "complete"]
           /\ pc' = [pc EXCEPT ![w] = "finish"] /\ cur' = cur
  <2>1. record'[c] = "complete" /\ \A d \in Calc \ {c} : record'[d] = record[d]
    BY <1>1, <1>4 DEF TypeOK
  <2>2. Works(w, "finish")
    BY <1>2, <1>4, <2>1 DEF Works
  <2>3. TypeOK'
    BY <1>1, <1>2, <1>4 DEF TypeOK, Control, RecordStatus
  <2>4. /\ pc'[w] = "finish" /\ cur'[w] = c /\ batch'[w] = batch[w]
        /\ \A v \in Worker \ {w} : SameHand(v, c)
        /\ OneHolder(c)' <=> OneHolder(c)
        /\ SoleHolder(c)' <=> SoleHolder(c)
    BY <1>1, <1>2, <1>4, <2>2, WorkFrame
  <2>5. /\ \A v \in Worker : (Holds(v, c)' <=> Holds(v, c)) /\ (cur'[v] = c <=> cur[v] = c)
        /\ \A v \in Worker \ {w} : cur[v] = c => pc'[v] = pc[v]
    BY <1>2, <2>4 DEF SameHand, Holds
  <2>6. EvidenceInv(c)' /\ RecordInv(c)' /\ CancelInv(c)'
    BY <1>1, <1>2, <1>3, <2>1, <2>4, <2>5 DEF CalcInv, EvidenceInv, RecordInv, CancelInv
  <2>7. CaptureInv(c)'
    BY <1>2, <1>3 DEF CalcInv, RecordInv, CaptureInv
  <2>8. OneHolder(c)' => OneHolderInv(c)'
    BY <1>1, <1>3, <2>4, <2>5 DEF CalcInv, OneHolderInv, HasPayload, Requeueing
  <2>9. ASSUME SoleHolder(c)' PROVE SoleInv(c)'
    <3>1. SoleInv(c) /\ OneHolderInv(c)
      BY <1>2, <2>4, <2>9, HeldFacts
    <3>2. ASSUME NEW v \in Worker, Holds(v, c)' PROVE HolderInv(v, c)'
      <4>1. v = w /\ HolderInv(w, c)
        BY <1>3, <2>5, <3>1, <3>2 DEF OneHolderInv, SoleInv
      <4>2. QED
        BY <1>1, <2>1, <2>4, <4>1 DEF HolderInv, Closing
    <3>3. QED
      BY <2>1, <3>2 DEF SoleInv
  <2>10. CalcInv(c)'
    BY <2>6, <2>7, <2>8, <2>9 DEF CalcInv
  <2>11. BudgetInv(c) => BudgetInv(c)'
    BY <1>1, <1>2, <1>4, <2>2, MovedBudget DEF Requeueing
  <2>12. QED
    BY <1>2, <2>2, <2>3, <2>10, <2>11, WorkSound
<1>5. CASE /\ record[c] = "failed" \/ ~OwnsLease(w, c)
           /\ Leave(w) /\ record' = record
  <2>1. Works(w, "next") /\ SameRow(c) /\ cur' = [cur EXCEPT ![w] = NoCalc]
    BY <1>5 DEF Works, SameRow, Leave
  <2>2. TypeOK'
    BY <1>1, <1>5, LeaveTypes DEF TypeOK
  <2>3. CalcInv(c)'
    BY <1>2, <2>1, HeldFacts, SameWrites, LeftCalc DEF SameRow
  <2>4. ASSUME SoleHolder(c), BudgetInv(c) PROVE BudgetInv(c)'
    <3>1. record[c] # "pending" \/ payload[c].lease = "expired"
      BY <1>2, <1>5, <2>4, HeldFacts DEF HolderInv, OwnsLease
    <3>2. QED
      BY <1>2, <2>1, <2>4, <3>1, MovedBudget DEF SameRow
  <2>5. QED
    BY <1>2, <2>1, <2>2, <2>3, <2>4, WorkSound
<1>6. QED
  BY <1>2, <1>4, <1>5

\* A payload without a row has no attempts.
LEMMA AbsentBudget ==
    ASSUME NEW c \in Calc, payload'[c] = NoPayload, overruns' \in Nat, faults' \in Nat
    PROVE  BudgetInv(c)'
<1>1. payload'[c].attempts = 0 /\ payload'[c].lease # "expired" /\ MaxAttempts \in Nat \ {0}
  BY LineageAssumption DEF NoPayload
<1>2. PICK o \in Nat, f \in Nat : o = overruns' /\ f = faults'
  OBVIOUS
<1>3. 0 <= MaxAttempts + o + f /\ 0 < MaxAttempts + o + f /\ 0 < MaxAttempts
  BY <1>1
<1>4. 0 <= MaxAttempts + overruns' + faults' /\ 0 < MaxAttempts + overruns' + faults'
  BY <1>2, <1>3, Zenon
<1>5. QED
  BY <1>1, <1>3, <1>4 DEF BudgetInv

\* delete_payload.
LEMMA FlushDeleteSound ==
    ASSUME LineageInv, NEW w \in Worker, FlushDelete(w)
    PROVE  LineageInv'
<1> USE DEF FlushDelete, durable, api
<1>1. TypeOK /\ pc[w] = "flush_delete"
  BY DEF LineageInv
<1>2. PICK c \in Calc : c = cur[w]
  BY <1>1, AtWorkCalc
<1>3. payload'[c] = NoPayload /\ \A d \in Calc \ {c} : payload'[d] = payload[d]
  BY <1>1, <1>2 DEF TypeOK
<1>4. Works(w, "next") /\ cur' = [cur EXCEPT ![w] = NoCalc]
  BY <1>2, <1>3 DEF Works, Leave, Goto
<1>5. TypeOK'
  BY <1>1, <1>2, LeaveTypes DEF TypeOK
<1>6. Writes(c)
  BY DEF LineageInv, CalcInv, CancelInv, SoleInv, Writes
<1>7. CalcInv(c)'
  BY <1>2, <1>4, <1>6, HeldFacts, LeftCalc
<1>8. BudgetInv(c)'
  <2>1. overruns' \in Nat /\ faults' \in Nat
    BY <1>5, LineageAssumption DEF TypeOK
  <2>2. QED
    BY <1>3, <2>1, AbsentBudget
<1>9. QED
  BY <1>2, <1>4, <1>5, <1>7, <1>8, WorkSound

\* mark_failed: a sole holder that gives up has not completed the record.
LEMMA MarkFailedSound ==
    ASSUME LineageInv, NEW w \in Worker, MarkFailed(w)
    PROVE  LineageInv'
<1> USE DEF MarkFailed, Goto, durable, api
<1>1. TypeOK /\ HandInv /\ pc[w] = "fail" /\ cur' = cur
  BY DEF LineageInv
<1>2. PICK c \in Calc : c = cur[w]
  BY <1>1, AtWorkCalc
<1>3. CalcInv(c) /\ Holds(w, c)
  BY <1>2, HeldFacts
<1>4. PICK row \in Payload \cup {NoPayload} :
         /\ row = Released(payload[c])
         /\ row.attempts = payload[c].attempts
         /\ row.lease \notin {"live", "expired"}
         /\ payload' = [payload EXCEPT ![c] = row]
         /\ row = NoPayload <=> payload[c] = NoPayload
  <2>1. payload[c] \in Payload \cup {NoPayload}
    BY <1>1 DEF TypeOK
  <2>2. CASE payload[c] = NoPayload
    BY <1>2, <2>2, PayloadTypes DEF Released, NoPayload
  <2>3. CASE payload[c] \in Payload
    BY <1>2, <2>3, PayloadTypes
  <2>4. QED
    BY <2>1, <2>2, <2>3
<1>5. /\ record'[c] = "failed" /\ payload'[c] = row
      /\ \A d \in Calc \ {c} : record'[d] = record[d] /\ payload'[d] = payload[d]
  BY <1>1, <1>2, <1>4 DEF TypeOK
<1>6. Works(w, "fail_exec")
  BY <1>1, <1>2, <1>5 DEF Works
<1>7. TypeOK'
  <2>1. record' \in [Calc -> RecordStatus] /\ payload' \in [Calc -> Payload \cup {NoPayload}]
    BY <1>1, <1>2, <1>4 DEF TypeOK, RecordStatus
  <2>2. \A d \in Calc : payload'[d] # NoPayload => record'[d] # "none"
    BY <1>1, <1>5 DEF TypeOK
  <2>3. /\ pc' \in [Worker -> Control]
        /\ \A v \in Worker : (cur'[v] = NoCalc) <=> pc'[v] \in {"poll", "next"}
    BY <1>1, <1>2 DEF TypeOK, Control
  <2>4. QED
    BY <1>1, <2>1, <2>2, <2>3 DEF TypeOK
<1>8. /\ pc'[w] = "fail_exec" /\ cur'[w] = c /\ batch'[w] = batch[w]
      /\ \A v \in Worker \ {w} : SameHand(v, c)
      /\ OneHolder(c)' <=> OneHolder(c)
      /\ SoleHolder(c)' <=> SoleHolder(c)
      /\ Later
  BY <1>1, <1>2, <1>6, WorkFrame
<1>9. /\ \A v \in Worker : (Holds(v, c)' <=> Holds(v, c)) /\ (cur'[v] = c <=> cur[v] = c)
      /\ \A v \in Worker \ {w} : cur[v] = c => pc'[v] = pc[v]
  BY <1>2, <1>8 DEF SameHand, Holds
<1>10. EvidenceInv(c)' /\ RecordInv(c)' /\ CancelInv(c)'
  BY <1>1, <1>3, <1>5, <1>8, <1>9 DEF CalcInv, EvidenceInv, RecordInv, CancelInv
<1>11. CaptureInv(c)'
  BY <1>2, <1>3 DEF CalcInv, RecordInv, CaptureInv
<1>12. OneHolder(c)' => OneHolderInv(c)'
  BY <1>3, <1>4, <1>5, <1>8, <1>9 DEF CalcInv, OneHolderInv, HasPayload, Requeueing
<1>13. ASSUME SoleHolder(c)' PROVE SoleInv(c)'
  <2>1. SoleInv(c) /\ OneHolderInv(c) /\ HolderInv(w, c)
    BY <1>2, <1>8, <1>13, HeldFacts
  <2>2. ASSUME NEW v \in Worker, Holds(v, c)' PROVE HolderInv(v, c)'
    <3>1. v = w
      BY <1>3, <1>9, <2>1, <2>2 DEF OneHolderInv
    <3>2. QED
      BY <1>4, <1>5, <1>8, <3>1 DEF HolderInv, Closing
  <2>3. exec[c] # "complete"
    BY <1>1, <2>1 DEF SoleInv, HolderInv, Closing
  <2>4. QED
    BY <2>2, <2>3 DEF SoleInv
<1>14. CalcInv(c)'
  BY <1>10, <1>11, <1>12, <1>13 DEF CalcInv
<1>15. ASSUME SoleHolder(c), BudgetInv(c) PROVE BudgetInv(c)'
  <2>1. overruns' = overruns /\ faults' = faults
    OBVIOUS
  <2>2. \A v \in Worker : cur'[v] = c /\ pc'[v] \in Requeueing => row.attempts < MaxAttempts
    BY <1>4, <1>8, <1>9, <1>15 DEF BudgetInv, Requeueing
  <2>3. QED
    BY <1>4, <1>5, <1>15, <2>1, <2>2 DEF BudgetInv
<1>16. QED
  BY <1>2, <1>6, <1>7, <1>14, <1>15, WorkSound

\* mark_pending: a sole holder finds its payload, has an attempt left, and
\* lets go of the calculation as it queues it again.
LEMMA RequeuedSound ==
    ASSUME LineageInv, NEW w \in Worker, FlushRequeue(w), pc'[w] # "poll"
    PROVE  LineageInv'
<1>1. TypeOK /\ HandInv /\ pc[w] = "flush_requeue"
  BY DEF LineageInv, FlushRequeue
<1>2. PICK c \in Calc : c = cur[w]
  BY <1>1, AtWorkCalc
<1>3. PICK loaded \in [record : RecordStatus, payload : Payload \cup {NoPayload}] : loaded = seen[w]
  BY <1>1 DEF TypeOK
<1>4. /\ record' = [record EXCEPT ![c] = Written(@, loaded.record, "pending")]
      /\ payload' = [payload EXCEPT ![c] =
                        IF ~HasPayload(c) THEN @
                        ELSE FlushPayload(@, loaded.payload, Released(loaded.payload))]
      /\ Leave(w) /\ batch' = batch
      /\ seen' = [seen EXCEPT ![w] = NotSeen]
      /\ UNCHANGED <<disk, exec, stage, api, overruns, faults>>
  BY <1>1, <1>2, <1>3 DEF FlushRequeue, TypeOK, Goto
<1> USE DEF api
<1>5. PICK row \in Payload \cup {NoPayload} :
         /\ payload' = [payload EXCEPT ![c] = row]
         /\ row.attempts = payload[c].attempts
         /\ row = NoPayload <=> payload[c] = NoPayload
  <2>1. payload[c] \in Payload \cup {NoPayload}
    BY <1>1 DEF TypeOK
  <2>2. CASE ~HasPayload(c)
    BY <1>4, <2>1, <2>2
  <2>3. CASE HasPayload(c) /\ loaded.payload = NoPayload
    <3>1. payload[c] \in Payload
      BY <2>1, <2>3 DEF HasPayload
    <3>2. FlushPayload(payload[c], NoPayload, NoPayload) = payload[c]
      BY <3>1 DEF FlushPayload, Written, Payload
    <3>3. Released(NoPayload) = NoPayload
      BY DEF Released
    <3>4. payload' = [payload EXCEPT ![c] = payload[c]]
      BY <1>4, <2>3, <3>2, <3>3
    <3>5. QED
      BY <3>1, <3>4
  <2>4. CASE HasPayload(c) /\ loaded.payload \in Payload
    <3>1. payload[c] \in Payload
      BY <2>1, <2>4 DEF HasPayload
    <3>2. Released(loaded.payload) \in Payload /\ Released(loaded.payload).attempts = loaded.payload.attempts
      BY <2>4, PayloadTypes
    <3>3. PICK row \in Payload :
             /\ row = FlushPayload(payload[c], loaded.payload, Released(loaded.payload))
             /\ row.attempts = payload[c].attempts
      BY <2>4, <3>1, <3>2, FlushTypes
    <3>4. payload' = [payload EXCEPT ![c] = row]
      BY <1>4, <2>4, <3>3
    <3>5. row # NoPayload /\ payload[c] # NoPayload
      BY <3>1, <3>3, PayloadTypes
    <3>6. QED
      BY <3>3, <3>4, <3>5
  <2>5. QED
    BY <2>2, <2>3, <2>4
<1>6. record[c] \in RecordStatus /\ record[c] # "none"
  BY <1>1, <1>2, HeldFacts DEF TypeOK
<1>7. PICK st \in {"pending", record[c]} : record' = [record EXCEPT ![c] = st]
  BY <1>4 DEF Written
<1>8. /\ record'[c] = st /\ payload'[c] = row
      /\ \A d \in Calc \ {c} : record'[d] = record[d] /\ payload'[d] = payload[d]
  BY <1>1, <1>5, <1>7 DEF TypeOK
<1>9. Works(w, "next") /\ cur' = [cur EXCEPT ![w] = NoCalc]
  <2>1. \A d \in Calc : seen'[d] = seen[d]
    BY <1>1, <1>4, LineageAssumption DEF TypeOK, Worker
  <2>2. QED
    BY <1>2, <1>4, <1>8, <2>1 DEF Works, Leave, Goto
<1>10. TypeOK'
  <2>1. record' \in [Calc -> RecordStatus] /\ payload' \in [Calc -> Payload \cup {NoPayload}]
    BY <1>1, <1>5, <1>6, <1>7 DEF TypeOK, RecordStatus
  <2>2. \A d \in Calc : payload'[d] # NoPayload => record'[d] # "none"
    BY <1>1, <1>6, <1>7, <1>8 DEF TypeOK
  <2>3. seen' \in [Worker \cup Calc -> [record : RecordStatus, payload : Payload \cup {NoPayload}]]
    BY <1>1, <1>4 DEF TypeOK, NotSeen, RecordStatus
  <2>4. QED
    BY <1>1, <1>4, <2>1, <2>2, <2>3, LeaveTypes DEF TypeOK
<1>11. Writes(c)
  <2>1. SoleHolder(c) => exec[c] # "complete"
    BY <1>1, <1>2, HeldFacts DEF SoleInv, HolderInv, Closing
  <2>2. QED
    BY <1>4, <2>1 DEF LineageInv, CalcInv, CancelInv, Writes
<1>12. CalcInv(c)'
  <2>1. record'[c] # "none" /\ (record'[c] = "complete" => record[c] = "complete")
    BY <1>6, <1>7, <1>8
  <2>2. QED
    BY <1>2, <1>9, <1>11, <2>1, LeftCalc
<1>13. ASSUME BudgetInv(c) PROVE BudgetInv(c)'
  <2>1. payload[c].attempts < MaxAttempts
    BY <1>1, <1>2, <1>13 DEF BudgetInv, Requeueing
  <2>2. /\ payload[c].attempts \in Nat /\ MaxAttempts \in Nat
        /\ overruns' \in Nat /\ faults' \in Nat
    BY <1>1, <1>10, AttemptsType, LineageAssumption DEF TypeOK
  <2>3. PICK n \in Nat : n = row.attempts /\ n < MaxAttempts
    BY <1>5, <2>1, <2>2
  <2>4. n <= MaxAttempts + overruns' + faults' /\ n < MaxAttempts + overruns' + faults'
    BY <2>2, <2>3
  <2>5. QED
    BY <1>8, <2>3, <2>4 DEF BudgetInv
<1>14. QED
  BY <1>2, <1>9, <1>10, <1>12, <1>13, WorkSound

-----------------------------------------------------------------------------
(* A worker gives up its batch.                                            *)

\* The control state of a worker that starts over.
LEMMA DropTypes ==
    ASSUME TypeOK, NEW w \in Worker,
           pc' = [pc EXCEPT ![w] = "poll"],
           batch' = [batch EXCEPT ![w] = {}],
           cur' = [cur EXCEPT ![w] = NoCalc]
    PROVE  /\ pc' \in [Worker -> Control] /\ cur' \in [Worker -> Calc \cup {NoCalc}]
           /\ batch' \in [Worker -> SUBSET Calc]
           /\ \A v \in Worker : (cur'[v] = NoCalc) <=> pc'[v] \in {"poll", "next"}
BY LineageAssumption DEF TypeOK, Control

\* What it held may cost one more attempt, so it must be paid for by a fault
\* where the budget counts.
LEMMA DropSound ==
    ASSUME LineageInv, NEW w \in Worker, TypeOK',
           pc' = [pc EXCEPT ![w] = "poll"],
           batch' = [batch EXCEPT ![w] = {}],
           cur' = [cur EXCEPT ![w] = NoCalc],
           \A d \in Calc : seen'[d] = seen[d],
           UNCHANGED <<durable, api, overruns>>,
           faults' = faults \/ faults' = faults + 1,
           AllOne => faults' = faults + 1
    PROVE  LineageInv'
<1> USE DEF durable, api
<1>1. TypeOK /\ HandInv /\ (\A d \in Calc : CalcInv(d)) /\ NoCalc \notin Calc
  BY LineageAssumption DEF LineageInv
<1>2. /\ pc'[w] = "poll" /\ batch'[w] = {} /\ cur'[w] = NoCalc
      /\ \A v \in Worker \ {w} : pc'[v] = pc[v] /\ batch'[v] = batch[v] /\ cur'[v] = cur[v]
  BY <1>1 DEF TypeOK
<1>3. HandInv'
  BY <1>1, <1>2 DEF HandInv
<1>4. \A d \in Calc, v \in Worker : SameHand(v, d) \/ ~Holds(v, d)'
  BY <1>1, <1>2 DEF SameHand, Holds
<1>5. \A d \in Calc : SameRow(d)
  BY DEF SameRow
<1>6. Later
  BY <1>1, LineageAssumption DEF Later, TypeOK
<1>7. \A d \in Calc : CalcInv(d)'
  BY <1>1, <1>4, <1>5, <1>6, Frame
<1>8. ASSUME AllOne', NEW d \in Calc, SoleHolder(d)' PROVE BudgetInv(d)'
  <2>1. AllOne /\ SoleHolder(d)
    BY <1>6, <1>8, StillSole
  <2>2. BudgetInv(d)
    BY <2>1 DEF LineageInv
  <2>3. overruns' + faults' = overruns + faults + 1
    <3>1. overruns' = overruns /\ faults' = faults + 1 /\ overruns \in Nat /\ faults \in Nat
      BY <1>6, <2>1 DEF Later
    <3>2. overruns + (faults + 1) = overruns + faults + 1
      BY <3>1
    <3>3. QED
      BY <3>1, <3>2, Zenon
  <2>4. QED
    BY <1>1, <1>4, <1>5, <1>6, <2>2, <2>3, AttemptsType, BudgetPaid
<1>9. QED
  BY <1>3, <1>7, <1>8 DEF LineageInv

LEMMA CrashSound ==
    ASSUME LineageInv, NEW w \in Worker, Crash(w)
    PROVE  LineageInv'
<1> USE DEF Crash, Goto, durable, api
<1>1. TypeOK
  BY DEF LineageInv
<1>2. \A d \in Calc : seen'[d] = seen[d]
  BY <1>1, LineageAssumption DEF TypeOK, Worker
<1>3. TypeOK'
  <2>1. seen' \in [Worker \cup Calc -> [record : RecordStatus, payload : Payload \cup {NoPayload}]]
    BY <1>1 DEF TypeOK, NotSeen, RecordStatus
  <2>2. faults' \in 0..MaxFaults
    BY <1>1, LineageAssumption DEF TypeOK
  <2>3. QED
    BY <1>1, <2>1, <2>2, DropTypes DEF TypeOK
<1>4. QED
  BY <1>2, <1>3, DropSound

\* The update of a deleted payload raises; where every payload has one holder
\* that cannot happen.
LEMMA FlushRequeueSound ==
    ASSUME LineageInv, NEW w \in Worker, FlushRequeue(w)
    PROVE  LineageInv'
<1>1. TypeOK /\ pc[w] = "flush_requeue"
  BY DEF LineageInv, FlushRequeue
<1>2. PICK c \in Calc : c = cur[w]
  BY <1>1, AtWorkCalc
<1>3. CASE pc'[w] # "poll"
  BY <1>3, RequeuedSound
<1>4. CASE pc'[w] = "poll"
  <2>1. /\ ~HasPayload(c)
        /\ pc' = [pc EXCEPT ![w] = "poll"]
        /\ cur' = [cur EXCEPT ![w] = NoCalc]
        /\ batch' = [batch EXCEPT ![w] = {}]
        /\ seen' = [seen EXCEPT ![w] = NotSeen]
        /\ UNCHANGED <<durable, api, overruns, faults>>
    BY <1>1, <1>2, <1>4 DEF FlushRequeue, Leave, Goto, TypeOK, durable
  <2>2. \A d \in Calc : seen'[d] = seen[d]
    BY <1>1, <2>1, LineageAssumption DEF TypeOK, Worker
  <2>3. TypeOK'
    <3>1. seen' \in [Worker \cup Calc -> [record : RecordStatus, payload : Payload \cup {NoPayload}]]
      BY <1>1, <2>1 DEF TypeOK, NotSeen, RecordStatus
    <3>2. QED
      BY <1>1, <2>1, <3>1, DropTypes DEF TypeOK, durable, api
  <2>4. ~AllOne
    BY <1>1, <1>2, <2>1, HeldFacts DEF AllOne, OneHolderInv, Requeueing
  <2>5. QED
    BY <2>1, <2>2, <2>3, <2>4, DropSound
<1>5. QED
  BY <1>3, <1>4

-----------------------------------------------------------------------------
(* Steps that concern one calculation.                                     *)

LEMMA OneCalcSound ==
    ASSUME LineageInv, TypeOK', HandInv', Later, NEW c \in Calc,
           \A d \in Calc \ {c} : SameRow(d) /\ \A v \in Worker : SameHand(v, d),
           CalcInv(c)',
           SoleHolder(c)' /\ SoleHolder(c) /\ BudgetInv(c) => BudgetInv(c)'
    PROVE  LineageInv'
<1>1. TypeOK /\ \A d \in Calc : CalcInv(d)
  BY DEF LineageInv
<1>2. \A d \in Calc : CalcInv(d)'
  BY <1>1, Frame
<1>3. ASSUME AllOne', NEW d \in Calc, SoleHolder(d)' PROVE BudgetInv(d)'
  <2>1. AllOne /\ SoleHolder(d)
    BY <1>3, StillSole
  <2>2. BudgetInv(d)
    BY <2>1 DEF LineageInv
  <2>3. CASE d = c
    BY <1>3, <2>1, <2>2, <2>3
  <2>4. CASE d # c
    BY <1>1, <2>2, <2>4, AttemptsType, BudgetFrame
  <2>5. QED
    BY <2>3, <2>4
<1>4. QED
  BY <1>2, <1>3 DEF LineageInv

LEMMA EndBatchSound ==
    ASSUME LineageInv, NEW w \in Worker, EndBatch(w)
    PROVE  LineageInv'
<1> USE DEF EndBatch, Goto, durable, api
<1>1. TypeOK /\ HandInv /\ cur[w] = NoCalc /\ NoCalc \notin Calc
  BY LineageAssumption DEF LineageInv, TypeOK
<1>2. TypeOK'
  BY <1>1 DEF TypeOK, Control
<1>3. HandInv'
  BY <1>1 DEF HandInv, TypeOK
<1>4. \A d \in Calc : SameRow(d) /\ \A v \in Worker : SameHand(v, d)
  BY <1>1 DEF SameRow, SameHand, Holds, TypeOK
<1>5. Later
  BY <1>1, LineageAssumption DEF Later, TypeOK
<1>6. \A d \in Calc : CalcInv(d)'
  BY <1>4, <1>5, Frame DEF LineageInv
<1>7. ASSUME AllOne', NEW d \in Calc, SoleHolder(d)' PROVE BudgetInv(d)'
  <2>1. BudgetInv(d)
    BY <1>5, <1>7, StillSole DEF LineageInv
  <2>2. QED
    BY <1>1, <1>4, <1>5, <2>1, AttemptsType, BudgetFrame
<1>8. QED
  BY <1>2, <1>3, <1>6, <1>7 DEF LineageInv

\* ensure_active_payload_lease_owner: a sole holder skips a payload only when
\* its lease has expired or the record is settled.
LEMMA EnsureOwnerSound ==
    ASSUME LineageInv, NEW w \in Worker, NEW c \in Calc, EnsureOwner(w, c)
    PROVE  LineageInv'
<1> USE DEF EnsureOwner, Goto, durable, api
<1>1. /\ TypeOK /\ HandInv /\ CalcInv(c) /\ cur[w] = NoCalc /\ NoCalc \notin Calc
      /\ Holds(w, c) /\ pc[w] = "next" /\ c \in batch[w]
  BY LineageAssumption DEF LineageInv, TypeOK, Holds
<1>2. /\ SameRow(c) /\ Later /\ overruns' = overruns /\ faults' = faults
      /\ batch'[w] = batch[w] \ {c}
      /\ \A v \in Worker \ {w} : pc'[v] = pc[v] /\ batch'[v] = batch[v] /\ cur'[v] = cur[v]
      /\ \A d \in Calc : SameRow(d)
  BY <1>1, LineageAssumption DEF SameRow, Later, TypeOK
<1>3. \/ /\ cur'[w] = c /\ pc'[w] = "write"
      \/ /\ cur'[w] = NoCalc /\ pc'[w] = "next" /\ ~OwnsLease(w, c)
  BY <1>1 DEF TypeOK
<1>4. \A d \in Calc \ {c} : SameRow(d) /\ \A v \in Worker : SameHand(v, d)
  BY <1>1, <1>2, <1>3 DEF SameHand, Holds
<1>5. \A v \in Worker \ {w} : SameHand(v, c)
  BY <1>2 DEF SameHand, Holds
<1>6. TypeOK'
  <2>1. /\ batch' \in [Worker -> SUBSET Calc]
        /\ pc' \in [Worker -> Control]
        /\ cur' \in [Worker -> Calc \cup {NoCalc}]
    <3>1. batch' \in [Worker -> SUBSET Calc]
      BY <1>1 DEF TypeOK
    <3>2. CASE pc' = [pc EXCEPT ![w] = "write"] /\ cur' = [cur EXCEPT ![w] = c]
      BY <1>1, <3>1, <3>2 DEF TypeOK, Control
    <3>3. CASE pc' = pc /\ cur' = cur
      BY <1>1, <3>1, <3>3 DEF TypeOK
    <3>4. QED
      BY <3>2, <3>3
  <2>2. \A v \in Worker : (cur'[v] = NoCalc) <=> pc'[v] \in {"poll", "next"}
    BY <1>1, <1>2, <1>3 DEF TypeOK
  <2>3. QED
    BY <1>1, <2>1, <2>2 DEF TypeOK
<1>7. HandInv'
  BY <1>1, <1>2, <1>3 DEF HandInv
<1>8. CASE cur'[w] = c /\ pc'[w] = "write"
  <2>1. /\ \A v \in Worker : Holds(v, c)' <=> Holds(v, c)
        /\ \A v \in Worker \ {w} : (cur'[v] = c <=> cur[v] = c) /\ pc'[v] = pc[v]
    BY <1>1, <1>2, <1>5, <1>8 DEF SameHand, Holds
  <2>2. EvidenceInv(c)' /\ RecordInv(c)' /\ CancelInv(c)' /\ CaptureInv(c)'
    BY <1>1, <1>2, <1>8, <2>1 DEF CalcInv, EvidenceInv, RecordInv, CancelInv, CaptureInv, SameRow
  <2>3. OneHolder(c)' => OneHolderInv(c)'
    BY <1>1, <1>2, <1>8, <2>1, StillSole DEF CalcInv, OneHolderInv, SameRow, HasPayload, Requeueing
  <2>4. ASSUME SoleHolder(c)' PROVE SoleInv(c)'
    <3>1. SoleInv(c)
      BY <1>1, <1>2, <2>4, StillSole DEF CalcInv
    <3>2. ASSUME NEW v \in Worker, Holds(v, c)' PROVE HolderInv(v, c)'
      <4>1. HolderInv(v, c)
        BY <3>1, <3>2, <2>1 DEF SoleInv
      <4>2. CASE v = w
        BY <1>1, <1>2, <1>8, <4>1, <4>2 DEF HolderInv, SameRow, Closing
      <4>3. CASE v # w
        BY <1>2, <2>1, <4>1, <4>3 DEF HolderInv, SameRow
      <4>4. QED
        BY <4>2, <4>3
    <3>3. QED
      BY <1>2, <3>1, <3>2 DEF SoleInv, SameRow
  <2>5. CalcInv(c)'
    BY <2>2, <2>3, <2>4 DEF CalcInv
  <2>6. BudgetInv(c) => BudgetInv(c)'
    BY <1>1, <1>2, <1>8, <2>1 DEF BudgetInv, SameRow, Requeueing
  <2>7. QED
    BY <1>2, <1>4, <1>6, <1>7, <2>5, <2>6, OneCalcSound
<1>9. CASE cur'[w] = NoCalc /\ pc'[w] = "next" /\ ~OwnsLease(w, c)
  <2>1. ~Holds(w, c)'
    BY <1>1, <1>2, <1>9 DEF Holds
  <2>2. CalcInv(c)'
    BY <1>1, <1>2, <1>5, <2>1, Frame
  <2>3. ASSUME SoleHolder(c), BudgetInv(c) PROVE BudgetInv(c)'
    <3>1. record[c] # "pending" \/ payload[c].lease = "expired"
      BY <1>1, <1>9, <2>3 DEF CalcInv, SoleInv, HolderInv, OwnsLease
    <3>2. \A v \in Worker : (Holds(v, c)' => Holds(v, c)) /\ (cur'[v] = c => cur[v] = c /\ pc'[v] = pc[v])
      BY <1>5, <2>1 DEF SameHand, Holds
    <3>3. QED
      BY <1>1, <1>2, <2>3, <3>1, <3>2 DEF BudgetInv, SameRow
  <2>4. QED
    BY <1>2, <1>4, <1>6, <1>7, <2>2, <2>3, OneCalcSound
<1>10. QED
  BY <1>3, <1>8, <1>9

-----------------------------------------------------------------------------
(* Leasing.                                                                *)

\* Nobody holds what a worker may claim, where two holders are excluded.
LEMMA ClaimableIsFree ==
    ASSUME LineageInv, NEW w \in Worker, pc[w] = "poll", NEW c \in Calc, IsClaimable(c),
           c \in SummaryCalc \/ w \in Poller, OneHolder(c), NEW v \in Worker
    PROVE  ~Holds(v, c)
<1> SUFFICES ASSUME Holds(v, c) PROVE FALSE
  OBVIOUS
<1>1. TypeOK /\ HandInv /\ CalcInv(c) /\ NoCalc \notin Calc
  BY LineageAssumption DEF LineageInv
<1>2. ~Holds(w, c)
  BY <1>1 DEF TypeOK, HandInv, Holds
<1>3. CASE c \notin SummaryCalc /\ \A p, q \in Poller : p = q
  BY <1>1, <1>2, <1>3 DEF CalcInv, RecordInv
<1>4. CASE captures[c] <= 1 /\ overruns = 0
  <2>1. HolderInv(v, c)
    BY <1>1, <1>4 DEF CalcInv, SoleHolder, SoleInv
  <2>2. QED
    BY <1>4, <2>1 DEF HolderInv, IsClaimable
<1>5. QED
  BY <1>3, <1>4 DEF OneHolder

LEMMA ClaimSound ==
    ASSUME LineageInv, NEW w \in Worker, pc[w] = "poll", NEW S \in SUBSET Calc,
           \A c \in S : IsClaimable(c) /\ (c \in SummaryCalc \/ w \in Poller),
           Claim(w, S),
           UNCHANGED <<disk, exec, stage, api, cur, seen, overruns, faults>>
    PROVE  LineageInv'
<1> USE DEF api
<1>1. /\ TypeOK /\ HandInv /\ (\A d \in Calc : CalcInv(d)) /\ NoCalc \notin Calc
      /\ cur[w] = NoCalc /\ batch[w] = {}
  BY LineageAssumption DEF LineageInv, TypeOK, HandInv
<1>2. /\ pc'[w] = "next" /\ cur'[w] = NoCalc /\ batch'[w] = S \ CorruptCalc
      /\ \A v \in Worker \ {w} : pc'[v] = pc[v] /\ batch'[v] = batch[v] /\ cur'[v] = cur[v]
  BY <1>1 DEF Claim, Goto, TypeOK
<1>3. ASSUME NEW c \in S PROVE payload[c] \in Payload
  <2>1. payload[c] \in Payload \cup {NoPayload}
    BY <1>1 DEF TypeOK
  <2>2. payload[c].lease # "absent"
    BY DEF IsClaimable
  <2>3. QED
    BY <2>1, <2>2 DEF NoPayload
<1>4. ASSUME NEW c \in S
      PROVE  /\ payload'[c] \in Payload
             /\ payload'[c].attempts = payload[c].attempts + 1
             /\ c \in CorruptCalc => record'[c] = "failed" /\ payload'[c].lease = "none"
             /\ c \notin CorruptCalc =>
                   /\ record'[c] = "pending"
                   /\ payload'[c].owner = w /\ payload'[c].lease = "live"
  <2>1. PICK row \in Payload : /\ row = Claimed(payload[c], w)
                               /\ row.attempts = payload[c].attempts + 1
                               /\ row.owner = w /\ row.lease = "live"
    BY <1>3, PayloadTypes
  <2>2. /\ Released(row) \in Payload /\ Released(row).attempts = row.attempts
        /\ Released(row).lease = "none"
    BY <2>1, PayloadTypes
  <2>3. record[c] = "pending"
    BY DEF IsClaimable
  <2>4. CASE c \in CorruptCalc
    <3>1. payload'[c] = Released(row) /\ record'[c] = "failed"
      BY <2>1, <2>4 DEF Claim
    <3>2. QED
      BY <2>1, <2>2, <2>4, <3>1
  <2>5. CASE c \notin CorruptCalc
    <3>1. payload'[c] = row /\ record'[c] = "pending"
      BY <2>1, <2>3, <2>5 DEF Claim
    <3>2. QED
      BY <2>1, <2>5, <3>1
  <2>6. QED
    BY <2>4, <2>5
<1>5. \A d \in Calc \ S : record'[d] = record[d] /\ payload'[d] = payload[d]
  BY DEF Claim
<1>6. TypeOK'
  <2>1. record' \in [Calc -> RecordStatus]
    BY <1>1 DEF Claim, TypeOK, RecordStatus
  <2>2. payload' \in [Calc -> Payload \cup {NoPayload}]
    <3>1. DOMAIN payload' = Calc /\ payload' = [c \in Calc |-> payload'[c]]
      BY DEF Claim
    <3>2. \A d \in Calc : payload'[d] \in Payload \cup {NoPayload}
      BY <1>1, <1>4, <1>5 DEF TypeOK
    <3>3. QED
      BY <3>1, <3>2
  <2>3. \A d \in Calc : payload'[d] # NoPayload => record'[d] # "none"
    BY <1>1, <1>4, <1>5 DEF TypeOK
  <2>4. /\ batch' \in [Worker -> SUBSET Calc] /\ pc' \in [Worker -> Control]
        /\ \A v \in Worker : (cur'[v] = NoCalc) <=> pc'[v] \in {"poll", "next"}
    BY <1>1, <1>2 DEF Claim, Goto, TypeOK, Control
  <2>5. QED
    BY <1>1, <2>1, <2>2, <2>3, <2>4 DEF TypeOK
<1>7. HandInv'
  BY <1>1, <1>2 DEF HandInv
<1>8. Later
  BY <1>1, LineageAssumption DEF Later, TypeOK
<1>9. \A d \in Calc \ S : SameRow(d) /\ \A v \in Worker : SameHand(v, d)
  BY <1>1, <1>2, <1>5 DEF SameRow, SameHand, Holds
<1>10. ASSUME NEW c \in S PROVE CalcInv(c)'
  <2>1. /\ CalcInv(c) /\ IsClaimable(c) /\ record[c] = "pending" /\ ~Holds(w, c)
        /\ c \in SummaryCalc \/ w \in Poller
    BY <1>1 DEF IsClaimable, Holds
  <2>2. record'[c] \in {"pending", "failed"}
    BY <1>4
  <2>3. \A v \in Worker \ {w} : SameHand(v, c)
    BY <1>2 DEF SameHand, Holds
  <2>4. EvidenceInv(c)' /\ CancelInv(c)' /\ CaptureInv(c)'
    BY <1>1, <1>2, <2>1, <2>2, <2>3 DEF CalcInv, EvidenceInv, CancelInv, CaptureInv, SameHand
  <2>5. RecordInv(c)'
    BY <2>1, <2>2, <2>3 DEF CalcInv, RecordInv, SameHand
  <2>6. ASSUME OneHolder(c)', NEW v \in Worker, Holds(v, c)' PROVE v = w /\ c \notin CorruptCalc
    <3>1. OneHolder(c)
      BY <1>8, <2>6, StillSole
    <3>2. \A u \in Worker : ~Holds(u, c)
      BY <2>1, <3>1, ClaimableIsFree
    <3>3. v = w
      BY <2>3, <2>6, <3>2 DEF SameHand
    <3>4. QED
      BY <1>1, <1>2, <2>6, <3>3 DEF Holds
  <2>7. OneHolder(c)' => OneHolderInv(c)'
    <3>1. \A v \in Worker : cur'[v] = c => Holds(v, c)' /\ v # w
      BY <1>1, <1>2 DEF Holds
    <3>2. QED
      BY <2>6, <3>1 DEF OneHolderInv
  <2>8. ASSUME SoleHolder(c)' PROVE SoleInv(c)'
    <3>1. SoleInv(c) /\ OneHolder(c)'
      BY <1>8, <2>1, <2>8, StillSole DEF CalcInv, SoleHolder
    <3>2. exec'[c] # "complete"
      BY <2>1, <3>1 DEF SoleInv
    <3>3. ASSUME NEW v \in Worker, Holds(v, c)' PROVE HolderInv(v, c)'
      <4>1. v = w /\ c \notin CorruptCalc
        BY <2>6, <3>1, <3>3
      <4>2. record'[c] = "pending" /\ payload'[c].owner = w /\ payload'[c].lease = "live"
        BY <1>4, <4>1
      <4>3. QED
        BY <1>1, <1>2, <4>1, <4>2 DEF HolderInv
    <3>4. QED
      BY <3>2, <3>3 DEF SoleInv
  <2>9. QED
    BY <2>4, <2>5, <2>7, <2>8 DEF CalcInv
<1>11. \A d \in Calc : CalcInv(d)'
  <2>1. ASSUME NEW d \in Calc \ S PROVE CalcInv(d)'
    BY <1>1, <1>8, <1>9, Frame
  <2>2. QED
    BY <1>10, <2>1
<1>12. ASSUME AllOne', NEW c \in Calc, SoleHolder(c)' PROVE BudgetInv(c)'
  <2>1. OneHolder(c) /\ SoleHolder(c) /\ BudgetInv(c)
    BY <1>8, <1>12, StillSole DEF LineageInv, AllOne
  <2>2. CASE c \notin S
    BY <1>1, <1>8, <1>9, <2>1, <2>2, AttemptsType, BudgetFrame
  <2>3. CASE c \in S
    <3>1. \A v \in Worker : ~Holds(v, c)
      BY <2>1, <2>3, ClaimableIsFree
    <3>2. record[c] = "pending"
      BY <2>3 DEF IsClaimable
    <3>3. payload[c].attempts < MaxAttempts + overruns + faults
      BY <2>1, <3>1, <3>2 DEF BudgetInv
    <3>4. /\ payload[c].attempts \in Nat /\ MaxAttempts \in Nat
          /\ overruns \in Nat /\ faults \in Nat
      BY <1>1, <1>8, AttemptsType, LineageAssumption DEF Later
    <3>5. PICK n \in Nat : n = payload'[c].attempts /\ n <= MaxAttempts + overruns + faults
      BY <1>4, <2>3, <3>3, <3>4
    <3>6. payload'[c].lease # "expired"
      BY <1>4, <2>3
    <3>7. \A v \in Worker : cur'[v] # c
      BY <1>1, <1>2, <3>1 DEF Holds
    <3>8. record'[c] = "pending" => Holds(w, c)'
      BY <1>2, <1>4, <2>3 DEF Holds
    <3>9. QED
      BY <3>5, <3>6, <3>7, <3>8 DEF BudgetInv
  <2>4. QED
    BY <2>2, <2>3
<1>13. QED
  BY <1>6, <1>7, <1>11, <1>12 DEF LineageInv

LEMMA LeaseSound ==
    ASSUME LineageInv, NEW w \in Worker,
           LeasePayloads(w) \/ \E c \in Calc : LeaseInline(w, c)
    PROVE  LineageInv'
<1>1. CASE LeasePayloads(w)
  <2>1. PICK S \in SUBSET {c \in Calc : IsClaimable(c)} : Claim(w, S)
    BY <1>1 DEF LeasePayloads
  <2>2. S \in SUBSET Calc /\ \A c \in S : IsClaimable(c)
    OBVIOUS
  <2>3. QED
    BY <1>1, <2>1, <2>2, ClaimSound DEF LeasePayloads
<1>2. ASSUME NEW c \in Calc, LeaseInline(w, c) PROVE LineageInv'
  <2>1. {c} \in SUBSET Calc /\ \A d \in {c} : IsClaimable(d) /\ (d \in SummaryCalc \/ w \in Poller)
    BY <1>2 DEF LeaseInline
  <2>2. QED
    BY <1>2, <2>1, ClaimSound DEF LeaseInline
<1>3. QED
  BY <1>1, <1>2

-----------------------------------------------------------------------------
(* Captures, cancellations and the clock.                                  *)

\* The steps of the API and of the clock leave the workers alone.
LEMMA HandsStay ==
    ASSUME LineageInv, UNCHANGED local
    PROVE  /\ \A v \in Worker, d \in Calc : SameHand(v, d)
           /\ \A v \in Worker, d \in Calc : Holds(v, d)' <=> Holds(v, d)
           /\ HandInv'
BY DEF LineageInv, HandInv, SameHand, Holds, local

\* While the first capture is not flushed nobody holds the calculation.
LEMMA UncapturedIsFree ==
    ASSUME LineageInv, NEW c \in Calc, captures[c] <= 1, captures[c] = 0 \/ capture[c] # "idle"
    PROVE  /\ record[c] = "none" /\ payload[c] = NoPayload
           /\ \A v \in Worker : ~Holds(v, c)
           /\ seen[c].payload = NoPayload /\ seen[c].record = "none"
BY DEF LineageInv, TypeOK, CalcInv, CaptureInv, RecordInv

LEMMA BeginCaptureSound ==
    ASSUME LineageInv, NEW c \in Calc, BeginCapture(c)
    PROVE  LineageInv'
<1> USE DEF BeginCapture
<1>1. TypeOK /\ CalcInv(c) /\ captures[c] \in Nat /\ MaxCaptures \in Nat \ {0}
  BY LineageAssumption DEF LineageInv, TypeOK
<1>2. /\ captures'[c] = captures[c] + 1 /\ exec'[c] = "running" /\ capture'[c] = "start_stage"
      /\ \A d \in Calc \ {c} : SameRow(d)
  BY <1>1 DEF TypeOK, SameRow
<1>3. TypeOK'
  <2>1. captures[c] + 1 \in 0..MaxCaptures
    BY <1>1
  <2>2. captures' \in [Calc -> 0..MaxCaptures]
    BY <1>1, <2>1 DEF TypeOK
  <2>3. QED
    BY <1>1, <2>2 DEF TypeOK, local
<1>4. Later
  BY <1>1, <1>2, <1>3, LineageAssumption DEF Later, TypeOK, SameRow
<1>5. HandInv' /\ \A v \in Worker, d \in Calc : SameHand(v, d) /\ (Holds(v, d)' <=> Holds(v, d))
  BY HandsStay
<1>6. captures'[c] <= 1 => captures[c] = 0
  BY <1>1, <1>2
<1>7. captures'[c] <= 1 => /\ record[c] = "none" /\ \A v \in Worker : ~Holds(v, c)
  BY <1>1, <1>6, UncapturedIsFree
<1>8. EvidenceInv(c)' /\ RecordInv(c)' /\ CancelInv(c)'
  BY <1>1, <1>2, <1>5 DEF CalcInv, EvidenceInv, RecordInv, CancelInv, local
<1>9. CaptureInv(c)'
  BY <1>1, <1>2, <1>7 DEF CaptureInv
<1>10. OneHolder(c)' => OneHolderInv(c)'
  BY <1>1, <1>4, <1>5, StillSole DEF CalcInv, OneHolderInv, HasPayload, local
<1>11. SoleHolder(c)' => SoleInv(c)'
  BY <1>2, <1>5, <1>7 DEF SoleHolder, SoleInv
<1>12. CalcInv(c)'
  BY <1>8, <1>9, <1>10, <1>11 DEF CalcInv
<1>13. BudgetInv(c) => BudgetInv(c)'
  BY <1>5 DEF BudgetInv, local
<1>14. QED
  BY <1>2, <1>3, <1>4, <1>5, <1>12, <1>13, OneCalcSound

LEMMA StartStageSound ==
    ASSUME LineageInv, NEW c \in Calc, StartStage(c)
    PROVE  LineageInv'
<1> USE DEF StartStage
<1>1. TypeOK /\ CalcInv(c)
  BY DEF LineageInv
<1>2. /\ stage'[c] = "in_progress" /\ capture'[c] = "enqueue"
      /\ \A d \in Calc \ {c} : SameRow(d)
  BY <1>1 DEF TypeOK, SameRow
<1>3. TypeOK'
  BY <1>1 DEF TypeOK, local
<1>4. Later
  BY <1>1, LineageAssumption DEF Later, TypeOK
<1>5. HandInv' /\ \A v \in Worker, d \in Calc : SameHand(v, d) /\ (Holds(v, d)' <=> Holds(v, d))
  BY HandsStay
<1>6. EvidenceInv(c)' /\ RecordInv(c)' /\ CancelInv(c)' /\ CaptureInv(c)'
  BY <1>1, <1>2, <1>5 DEF CalcInv, EvidenceInv, RecordInv, CancelInv, CaptureInv, local
<1>7. OneHolder(c)' => OneHolderInv(c)'
  BY <1>1, <1>4, <1>5, StillSole DEF CalcInv, OneHolderInv, HasPayload, local
<1>8. SoleHolder(c)' => SoleInv(c)'
  BY <1>1, <1>4, <1>5, StillSole DEF CalcInv, SoleInv, HolderInv, local
<1>9. CalcInv(c)'
  BY <1>6, <1>7, <1>8 DEF CalcInv
<1>10. BudgetInv(c) => BudgetInv(c)'
  BY <1>5 DEF BudgetInv, local
<1>11. QED
  BY <1>2, <1>3, <1>4, <1>5, <1>9, <1>10, OneCalcSound

LEMMA LoadCaptureSound ==
    ASSUME LineageInv, NEW c \in Calc, LoadCapture(c)
    PROVE  LineageInv'
<1> USE DEF LoadCapture, durable
<1>1. TypeOK /\ CalcInv(c)
  BY DEF LineageInv
<1>2. /\ seen'[c].record = record[c] /\ seen'[c].payload = payload[c] /\ capture'[c] = "flush"
      /\ \A d \in Calc \ {c} : SameRow(d)
  BY <1>1 DEF TypeOK, SameRow
<1>3. TypeOK'
  <2>1. [record |-> record[c], payload |-> payload[c]]
           \in [record : RecordStatus, payload : Payload \cup {NoPayload}]
    BY <1>1 DEF TypeOK
  <2>2. seen' \in [Worker \cup Calc -> [record : RecordStatus, payload : Payload \cup {NoPayload}]]
    BY <1>1, <2>1 DEF TypeOK
  <2>3. QED
    BY <1>1, <2>2 DEF TypeOK, local
<1>4. Later
  BY <1>1, LineageAssumption DEF Later, TypeOK
<1>5. HandInv' /\ \A v \in Worker, d \in Calc : SameHand(v, d) /\ (Holds(v, d)' <=> Holds(v, d))
  BY HandsStay
<1>6. EvidenceInv(c)' /\ RecordInv(c)' /\ CancelInv(c)' /\ CaptureInv(c)'
  BY <1>1, <1>2, <1>5 DEF CalcInv, EvidenceInv, RecordInv, CancelInv, CaptureInv, local, TypeOK
<1>7. OneHolder(c)' => OneHolderInv(c)'
  BY <1>1, <1>4, <1>5, StillSole DEF CalcInv, OneHolderInv, HasPayload, local
<1>8. SoleHolder(c)' => SoleInv(c)'
  BY <1>1, <1>4, <1>5, StillSole DEF CalcInv, SoleInv, HolderInv, local
<1>9. CalcInv(c)'
  BY <1>6, <1>7, <1>8 DEF CalcInv
<1>10. BudgetInv(c) => BudgetInv(c)'
  BY <1>5 DEF BudgetInv, local
<1>11. QED
  BY <1>2, <1>3, <1>4, <1>5, <1>9, <1>10, OneCalcSound

\* A flush that finds the loaded payload gone does not happen; the first
\* flush inserts both rows.
LEMMA FlushCaptureSound ==
    ASSUME LineageInv, NEW c \in Calc, FlushCapture(c)
    PROVE  LineageInv'
<1> USE DEF FlushCapture
<1>1. TypeOK /\ CalcInv(c) /\ capture[c] = "flush"
  BY DEF LineageInv
<1>2. PICK loaded \in [record : RecordStatus, payload : Payload \cup {NoPayload}] : loaded = seen[c]
  BY <1>1 DEF TypeOK
<1>3. /\ loaded.payload # NoPayload => record[c] # "none"
      /\ loaded.record # "none" => record[c] # "none"
  BY <1>1, <1>2 DEF CalcInv, RecordInv
<1>4. PICK st \in RecordStatus \ {"none"} :
         /\ st \in {"pending", record[c]}
         /\ record' = [record EXCEPT ![c] = st]
         /\ loaded.record = "none" => st = "pending"
  <2>1. CASE loaded.record = "pending"
    <3>1. record[c] \in RecordStatus \ {"none"} /\ record' = [record EXCEPT ![c] = record[c]]
      BY <1>1, <1>2, <1>3, <2>1 DEF Written, TypeOK
    <3>2. QED
      BY <2>1, <3>1
  <2>2. CASE loaded.record # "pending"
    <3>1. record' = [record EXCEPT ![c] = "pending"]
      BY <1>1, <1>2, <2>2 DEF Written
    <3>2. QED
      BY <3>1 DEF RecordStatus
  <2>3. QED
    BY <2>1, <2>2
<1>5. PICK row \in Payload :
         /\ payload' = [payload EXCEPT ![c] = row]
         /\ loaded.payload = NoPayload => row = FreshPayload
  <2>1. CASE loaded.payload = NoPayload
    BY <1>2, <2>1, PayloadTypes
  <2>2. CASE loaded.payload # NoPayload
    <3>1. loaded.payload \in Payload /\ payload[c] \in Payload
      BY <1>1, <1>2, <2>2 DEF TypeOK, HasPayload
    <3>2. PICK row \in Payload : row = FlushPayload(payload[c], loaded.payload, FreshPayload)
      BY <3>1, PayloadTypes, FlushTypes
    <3>3. payload' = [payload EXCEPT ![c] = row]
      BY <1>2, <2>2, <3>2
    <3>4. QED
      BY <2>2, <3>3
  <2>3. QED
    BY <2>1, <2>2
<1>6. /\ record'[c] = st /\ payload'[c] = row /\ row # NoPayload
      /\ seen'[c] = NotSeen /\ capture'[c] = "idle"
      /\ \A d \in Calc \ {c} : SameRow(d)
  BY <1>1, <1>4, <1>5, PayloadTypes DEF TypeOK, SameRow
<1>7. TypeOK'
  <2>1. record' \in [Calc -> RecordStatus] /\ payload' \in [Calc -> Payload \cup {NoPayload}]
    BY <1>1, <1>4, <1>5 DEF TypeOK
  <2>2. \A d \in Calc : payload'[d] # NoPayload => record'[d] # "none"
    BY <1>1, <1>4, <1>6 DEF TypeOK, SameRow
  <2>3. seen' \in [Worker \cup Calc -> [record : RecordStatus, payload : Payload \cup {NoPayload}]]
    BY <1>1 DEF TypeOK, NotSeen, RecordStatus
  <2>4. QED
    BY <1>1, <2>1, <2>2, <2>3 DEF TypeOK, local
<1>8. Later
  BY <1>1, LineageAssumption DEF Later, TypeOK
<1>9. HandInv' /\ \A v \in Worker, d \in Calc : SameHand(v, d) /\ (Holds(v, d)' <=> Holds(v, d))
  BY HandsStay
<1>10. EvidenceInv(c)' /\ RecordInv(c)' /\ CancelInv(c)' /\ CaptureInv(c)'
  BY <1>1, <1>4, <1>6, <1>9
  DEF CalcInv, EvidenceInv, RecordInv, CancelInv, CaptureInv, local, NotSeen
<1>11. OneHolder(c)' => OneHolderInv(c)'
  BY <1>1, <1>6, <1>8, <1>9, StillSole DEF CalcInv, OneHolderInv, HasPayload, local
<1>12. SoleHolder(c) => /\ record[c] = "none" /\ (\A v \in Worker : ~Holds(v, c))
                        /\ loaded.payload = NoPayload
  BY <1>1, <1>2, UncapturedIsFree DEF SoleHolder
<1>13. SoleHolder(c)' => SoleInv(c)'
  BY <1>1, <1>8, <1>9, <1>12, StillSole DEF CalcInv, SoleInv
<1>14. CalcInv(c)'
  BY <1>10, <1>11, <1>13 DEF CalcInv
<1>15. ASSUME SoleHolder(c) PROVE BudgetInv(c)'
  <2>1. payload'[c].attempts = 0 /\ \A v \in Worker : ~Holds(v, c)' /\ cur'[v] # c
    BY <1>5, <1>6, <1>9, <1>12, <1>15 DEF FreshPayload, Holds
  <2>2. MaxAttempts \in Nat \ {0} /\ overruns \in Nat /\ faults \in Nat
    BY <1>8, LineageAssumption DEF Later
  <2>3. 0 <= MaxAttempts + overruns + faults /\ 0 < MaxAttempts + overruns + faults
    BY <2>2
  <2>4. QED
    BY <2>1, <2>3 DEF BudgetInv
<1>16. QED
  BY <1>6, <1>7, <1>8, <1>9, <1>14, <1>15, OneCalcSound

LEMMA CaptureFailsSound ==
    ASSUME LineageInv, NEW c \in Calc, CaptureFails(c)
    PROVE  LineageInv'
<1> USE DEF CaptureFails
<1>1. TypeOK /\ CalcInv(c)
  BY DEF LineageInv
<1>2. /\ exec'[c] = "failed" /\ stage'[c] = "failed" /\ seen'[c] = NotSeen /\ capture'[c] = "idle"
      /\ \A d \in Calc \ {c} : SameRow(d)
  BY <1>1 DEF TypeOK, SameRow
<1>3. TypeOK'
  <2>1. seen' \in [Worker \cup Calc -> [record : RecordStatus, payload : Payload \cup {NoPayload}]]
    BY <1>1 DEF TypeOK, NotSeen, RecordStatus
  <2>2. QED
    BY <1>1, <2>1 DEF TypeOK, local
<1>4. Later
  BY <1>1, LineageAssumption DEF Later, TypeOK
<1>5. HandInv' /\ \A v \in Worker, d \in Calc : SameHand(v, d) /\ (Holds(v, d)' <=> Holds(v, d))
  BY HandsStay
<1>6. EvidenceInv(c)' /\ RecordInv(c)' /\ CancelInv(c)' /\ CaptureInv(c)'
  BY <1>1, <1>2, <1>5
  DEF CalcInv, EvidenceInv, RecordInv, CancelInv, CaptureInv, local, NotSeen
<1>7. OneHolder(c)' => OneHolderInv(c)'
  BY <1>1, <1>4, <1>5, StillSole DEF CalcInv, OneHolderInv, HasPayload, local
<1>8. SoleHolder(c)' => SoleInv(c)'
  BY <1>1, <1>2, <1>4, <1>5, StillSole DEF CalcInv, SoleInv, HolderInv, local
<1>9. CalcInv(c)'
  BY <1>6, <1>7, <1>8 DEF CalcInv
<1>10. BudgetInv(c) => BudgetInv(c)'
  BY <1>5 DEF BudgetInv, local
<1>11. QED
  BY <1>2, <1>3, <1>4, <1>5, <1>9, <1>10, OneCalcSound

\* The cancellation fails the execution before it touches anything else.
LEMMA CancelSound ==
    ASSUME LineageInv, NEW c \in Calc, CancelExecution(c) \/ CancelStages(c)
    PROVE  LineageInv'
<1> USE DEF CancelExecution, CancelStages
<1>1. TypeOK /\ CalcInv(c)
  BY DEF LineageInv
<1>2. /\ exec'[c] = "failed" /\ cancel'[c] \in {"stages", "lineage"} /\ capture[c] = "idle"
      /\ cancel'[c] = "lineage" => stage'[c] # "in_progress"
      /\ \A d \in Calc \ {c} : SameRow(d)
      /\ UNCHANGED <<record, payload, disk, capture, captures, local, seen, overruns, faults>>
  <2>1. CASE CancelExecution(c)
    BY <1>1, <2>1 DEF TypeOK, SameRow
  <2>2. CASE CancelStages(c)
    <3>1. exec[c] = "failed" /\ capture[c] = "idle" /\ exec' = exec
      BY <1>1, <2>2 DEF CalcInv, CancelInv
    <3>2. QED
      BY <1>1, <2>2, <3>1 DEF TypeOK, SameRow
  <2>3. QED
    BY <2>1, <2>2
<1>3. TypeOK'
  <2>1. /\ exec' \in [Calc -> {"running", "complete", "failed"}]
        /\ stage' \in [Calc -> {"none", "in_progress", "complete", "failed"}]
        /\ cancel' \in [Calc -> {"none", "stages", "lineage", "done"}]
    <3>1. CASE CancelExecution(c)
      BY <1>1, <3>1 DEF TypeOK
    <3>2. CASE CancelStages(c)
      BY <1>1, <3>2 DEF TypeOK
    <3>3. QED
      BY <3>1, <3>2
  <2>2. QED
    BY <1>1, <1>2, <2>1 DEF TypeOK, local
<1>4. Later
  BY <1>1, <1>2, LineageAssumption DEF Later, TypeOK
<1>5. HandInv' /\ \A v \in Worker, d \in Calc : SameHand(v, d) /\ (Holds(v, d)' <=> Holds(v, d))
  BY <1>2, HandsStay
<1>6. EvidenceInv(c)' /\ RecordInv(c)' /\ CancelInv(c)' /\ CaptureInv(c)'
  BY <1>1, <1>2, <1>5 DEF CalcInv, EvidenceInv, RecordInv, CancelInv, CaptureInv, local
<1>7. OneHolder(c)' => OneHolderInv(c)'
  BY <1>1, <1>2, <1>4, <1>5, StillSole DEF CalcInv, OneHolderInv, HasPayload, local
<1>8. SoleHolder(c)' => SoleInv(c)'
  BY <1>1, <1>2, <1>4, <1>5, StillSole DEF CalcInv, SoleInv, HolderInv, local
<1>9. CalcInv(c)'
  BY <1>6, <1>7, <1>8 DEF CalcInv
<1>10. BudgetInv(c) => BudgetInv(c)'
  BY <1>2, <1>5 DEF BudgetInv, local
<1>11. QED
  BY <1>2, <1>3, <1>4, <1>5, <1>9, <1>10, OneCalcSound

\* mark_failed_if_present takes the lease from whoever has it, and leaves a
\* record nobody claims.
LEMMA CancelLineageSound ==
    ASSUME LineageInv, NEW c \in Calc, CancelLineage(c)
    PROVE  LineageInv'
<1> USE DEF CancelLineage
<1>1. TypeOK /\ CalcInv(c) /\ cancel[c] = "lineage"
  BY DEF LineageInv
<1>2. PICK row \in Payload \cup {NoPayload} :
         /\ row.attempts = payload[c].attempts
         /\ row.lease \notin {"live", "expired"}
         /\ payload' = [payload EXCEPT ![c] = row]
         /\ row = NoPayload <=> payload[c] = NoPayload
  <2>1. payload[c] \in Payload \cup {NoPayload}
    BY <1>1 DEF TypeOK
  <2>2. CASE payload[c] = NoPayload
    BY <2>2, PayloadTypes DEF Released, NoPayload
  <2>3. CASE payload[c] \in Payload
    BY <2>3, PayloadTypes
  <2>4. QED
    BY <2>1, <2>2, <2>3
<1>3. PICK st \in {"none", "failed"} :
         /\ record' = [record EXCEPT ![c] = st]
         /\ st = "none" <=> record[c] = "none"
  <2>1. CASE record[c] = "none"
    BY <2>1
  <2>2. CASE record[c] # "none"
    BY <2>2
  <2>3. QED
    BY <2>1, <2>2
<1>4. /\ record'[c] = st /\ payload'[c] = row /\ cancel'[c] = "done"
      /\ \A d \in Calc \ {c} : SameRow(d)
  BY <1>1, <1>2, <1>3 DEF TypeOK, SameRow
<1>5. TypeOK'
  <2>1. record' \in [Calc -> RecordStatus] /\ payload' \in [Calc -> Payload \cup {NoPayload}]
    BY <1>1, <1>2, <1>3 DEF TypeOK, RecordStatus
  <2>2. \A d \in Calc : payload'[d] # NoPayload => record'[d] # "none"
    BY <1>1, <1>2, <1>3, <1>4 DEF TypeOK, SameRow
  <2>3. QED
    BY <1>1, <2>1, <2>2 DEF TypeOK, local
<1>6. Later
  BY <1>1, LineageAssumption DEF Later, TypeOK
<1>7. HandInv' /\ \A v \in Worker, d \in Calc : SameHand(v, d) /\ (Holds(v, d)' <=> Holds(v, d))
  BY HandsStay
<1>8. EvidenceInv(c)' /\ RecordInv(c)' /\ CancelInv(c)' /\ CaptureInv(c)'
  BY <1>1, <1>3, <1>4, <1>7
  DEF CalcInv, EvidenceInv, RecordInv, CancelInv, CaptureInv, local
<1>9. OneHolder(c)' => OneHolderInv(c)'
  BY <1>1, <1>2, <1>4, <1>6, <1>7, StillSole DEF CalcInv, OneHolderInv, HasPayload, local
<1>10. ASSUME SoleHolder(c)' PROVE SoleInv(c)'
  <2>1. exec'[c] = "failed"
    BY <1>1 DEF CalcInv, CancelInv
  <2>2. ASSUME NEW v \in Worker, Holds(v, c)' PROVE HolderInv(v, c)'
    <3>1. record'[c] = "failed"
      BY <1>1, <1>3, <1>4, <1>7, <2>2 DEF CalcInv, RecordInv
    <3>2. QED
      BY <1>2, <1>4, <3>1 DEF HolderInv
  <2>3. QED
    BY <2>1, <2>2 DEF SoleInv
<1>11. CalcInv(c)'
  BY <1>8, <1>9, <1>10 DEF CalcInv
<1>12. BudgetInv(c) => BudgetInv(c)'
  BY <1>2, <1>3, <1>4, <1>7 DEF BudgetInv, local
<1>13. QED
  BY <1>4, <1>5, <1>6, <1>7, <1>11, <1>12, OneCalcSound

\* The row of an expired lease.
LEMMA ExpiredRow ==
    ASSUME TypeOK, NEW c \in Calc, payload[c].lease = "live", Expired(c)
    PROVE  /\ payload' \in [Calc -> Payload \cup {NoPayload}]
           /\ payload'[c].lease = "expired" /\ payload'[c].attempts = payload[c].attempts
           /\ payload[c] # NoPayload /\ payload'[c] # NoPayload
           /\ \A d \in Calc \ {c} : payload'[d] = payload[d]
<1>1. payload[c] \in Payload
  BY DEF TypeOK, NoPayload
<1>2. PICK row : row = [payload[c] EXCEPT !.lease = "expired"]
  OBVIOUS
<1>3. row \in Payload /\ row.lease = "expired" /\ row.attempts = payload[c].attempts
  BY <1>1, <1>2 DEF Payload
<1>4. payload' = [payload EXCEPT ![c] = row]
  BY <1>2 DEF Expired
<1>5. QED
  BY <1>1, <1>3, <1>4, PayloadTypes DEF TypeOK

\* A lease lapses only when no sole holder has the payload in hand.
LEMMA LeaseLapsesSound ==
    ASSUME LineageInv, NEW c \in Calc, LeaseLapses(c)
    PROVE  LineageInv'
<1> USE DEF LeaseLapses, api
<1>1. TypeOK /\ CalcInv(c) /\ payload[c].lease = "live"
  BY DEF LineageInv
<1>2. /\ payload' \in [Calc -> Payload \cup {NoPayload}]
      /\ payload'[c].lease = "expired" /\ payload'[c].attempts = payload[c].attempts
      /\ payload[c] # NoPayload /\ payload'[c] # NoPayload
      /\ \A d \in Calc \ {c} : payload'[d] = payload[d]
  BY <1>1, ExpiredRow
<1>3. \A d \in Calc \ {c} : SameRow(d)
  BY <1>2 DEF SameRow
<1>4. TypeOK'
  <2>1. \A d \in Calc : payload'[d] # NoPayload => record'[d] # "none"
    BY <1>1, <1>2 DEF TypeOK
  <2>2. QED
    BY <1>1, <1>2, <2>1 DEF TypeOK, local
<1>5. Later
  BY <1>1, LineageAssumption DEF Later, TypeOK
<1>6. HandInv' /\ \A v \in Worker, d \in Calc : SameHand(v, d) /\ (Holds(v, d)' <=> Holds(v, d))
  BY HandsStay
<1>7. EvidenceInv(c)' /\ RecordInv(c)' /\ CancelInv(c)' /\ CaptureInv(c)'
  BY <1>1, <1>6 DEF CalcInv, EvidenceInv, RecordInv, CancelInv, CaptureInv, local
<1>8. OneHolder(c)' => OneHolderInv(c)'
  BY <1>1, <1>2, <1>5, <1>6, StillSole DEF CalcInv, OneHolderInv, HasPayload, local
<1>9. ASSUME SoleHolder(c) PROVE \A v \in Worker : ~Holds(v, c)
  BY <1>1, <1>9 DEF CalcInv, SoleInv, HolderInv, AtWork, Holds
<1>10. SoleHolder(c)' => SoleInv(c)'
  BY <1>1, <1>5, <1>6, <1>9, StillSole DEF CalcInv, SoleInv
<1>11. CalcInv(c)'
  BY <1>7, <1>8, <1>10 DEF CalcInv
<1>12. SoleHolder(c) /\ BudgetInv(c) => BudgetInv(c)'
  BY <1>2, <1>6, <1>9 DEF BudgetInv, local
<1>13. QED
  BY <1>3, <1>4, <1>5, <1>6, <1>11, <1>12, OneCalcSound

\* A worker that outlives its lease is still the only one where one poller
\* takes the payload; the overrun pays for the attempt.
LEMMA LeaseOverrunSound ==
    ASSUME LineageInv, NEW c \in Calc, LeaseOverrun(c)
    PROVE  LineageInv'
<1> USE DEF LeaseOverrun, api
<1>1. TypeOK /\ CalcInv(c) /\ payload[c].lease = "live" /\ overruns \in Nat /\ faults \in Nat
  BY LineageAssumption DEF LineageInv, TypeOK
<1>2. /\ payload' \in [Calc -> Payload \cup {NoPayload}]
      /\ payload'[c].lease = "expired" /\ payload'[c].attempts = payload[c].attempts
      /\ payload[c] # NoPayload /\ payload'[c] # NoPayload
      /\ \A d \in Calc \ {c} : payload'[d] = payload[d]
  BY <1>1, ExpiredRow
<1>3. \A d \in Calc \ {c} : SameRow(d)
  BY <1>2 DEF SameRow
<1>4. TypeOK'
  <2>1. \A d \in Calc : payload'[d] # NoPayload => record'[d] # "none"
    BY <1>1, <1>2 DEF TypeOK
  <2>2. overruns' \in 0..MaxOverruns
    BY <1>1, LineageAssumption DEF TypeOK
  <2>3. QED
    BY <1>1, <1>2, <2>1, <2>2 DEF TypeOK, local
<1>5. Later
  BY <1>1, LineageAssumption DEF Later, TypeOK
<1>6. HandInv' /\ \A v \in Worker, d \in Calc : SameHand(v, d) /\ (Holds(v, d)' <=> Holds(v, d))
  BY HandsStay
<1>7. EvidenceInv(c)' /\ RecordInv(c)' /\ CancelInv(c)' /\ CaptureInv(c)'
  BY <1>1, <1>6 DEF CalcInv, EvidenceInv, RecordInv, CancelInv, CaptureInv, local
<1>8. OneHolder(c)' => OneHolderInv(c)'
  BY <1>1, <1>2, <1>5, <1>6, StillSole DEF CalcInv, OneHolderInv, HasPayload, local
<1>9. ASSUME SoleHolder(c)' PROVE SoleInv(c)'
  <2>1. SoleInv(c)
    BY <1>1, <1>5, <1>9, StillSole DEF CalcInv
  <2>2. overruns' # 0
    BY <1>1
  <2>3. ASSUME NEW v \in Worker, Holds(v, c)' PROVE HolderInv(v, c)'
    <3>1. HolderInv(v, c)
      BY <1>6, <2>1, <2>3 DEF SoleInv
    <3>2. QED
      BY <1>2, <2>2, <3>1 DEF HolderInv, local
  <2>4. QED
    BY <2>1, <2>3 DEF SoleInv
<1>10. CalcInv(c)'
  BY <1>7, <1>8, <1>9 DEF CalcInv
<1>11. ASSUME BudgetInv(c) PROVE BudgetInv(c)'
  <2>1. payload[c].attempts \in Nat /\ MaxAttempts \in Nat
    BY <1>1, AttemptsType, LineageAssumption
  <2>2. PICK n \in Nat : n = payload[c].attempts /\ n <= MaxAttempts + overruns + faults
    BY <1>11, <2>1 DEF BudgetInv
  <2>3. n <= MaxAttempts + (overruns + 1) + faults /\ n < MaxAttempts + (overruns + 1) + faults
    BY <1>1, <2>1, <2>2
  <2>4. n <= MaxAttempts + overruns' + faults' /\ n < MaxAttempts + overruns' + faults'
    <3>1. overruns' = overruns + 1 /\ faults' = faults
      OBVIOUS
    <3>2. QED
      BY <2>3, <3>1, Zenon
  <2>5. \A v \in Worker : cur'[v] = c /\ pc'[v] \in Requeueing => n < MaxAttempts
    BY <1>11, <2>2 DEF BudgetInv, local
  <2>6. QED
    BY <1>2, <2>2, <2>4, <2>5 DEF BudgetInv
<1>12. QED
  BY <1>3, <1>4, <1>5, <1>6, <1>10, <1>11, OneCalcSound

-----------------------------------------------------------------------------
(* The invariant.                                                          *)

LEMMA LineageInit == Init => LineageInv
<1> SUFFICES ASSUME Init PROVE LineageInv
  OBVIOUS
<1> USE DEF Init
<1>1. TypeOK
  BY LineageAssumption DEF TypeOK, Control, RecordStatus, NotSeen
<1>2. HandInv
  BY LineageAssumption DEF HandInv
<1>3. \A c \in Calc, w \in Worker : ~Holds(w, c) /\ cur[w] # c
  BY LineageAssumption DEF Holds
<1>4. \A c \in Calc : CalcInv(c)
  BY <1>3 DEF CalcInv, EvidenceInv, RecordInv, CancelInv, CaptureInv, OneHolderInv, SoleInv, NotSeen
<1>5. \A c \in Calc : BudgetInv(c)
  <2>1. MaxAttempts \in Nat \ {0}
    BY LineageAssumption
  <2>2. 0 <= MaxAttempts + 0 + 0 /\ 0 < MaxAttempts + 0 + 0
    BY <2>1
  <2>3. QED
    BY <1>3, <2>2 DEF BudgetInv, NoPayload
<1>6. QED
  BY <1>1, <1>2, <1>4, <1>5 DEF LineageInv

LEMMA LineageStutter == LineageInv /\ UNCHANGED vars => LineageInv'
<1> SUFFICES ASSUME LineageInv, UNCHANGED vars PROVE LineageInv'
  OBVIOUS
<1> USE DEF vars, durable, api, local
<1>1. TypeOK' /\ HandInv'
  BY DEF LineageInv, TypeOK, HandInv
<1>2. \A d \in Calc : SameRow(d) /\ \A v \in Worker : SameHand(v, d)
  BY DEF SameRow, SameHand, Holds
<1>3. Later /\ TypeOK
  BY LineageAssumption DEF LineageInv, TypeOK, Later
<1>4. \A d \in Calc : CalcInv(d)'
  BY <1>2, <1>3, Frame DEF LineageInv
<1>5. ASSUME AllOne', NEW d \in Calc, SoleHolder(d)' PROVE BudgetInv(d)'
  <2>1. BudgetInv(d)
    BY <1>3, <1>5, StillSole DEF LineageInv
  <2>2. QED
    BY <1>2, <1>3, <2>1, AttemptsType, BudgetFrame
<1>6. QED
  BY <1>1, <1>4, <1>5 DEF LineageInv

LEMMA LineageNext == LineageInv /\ [Next]_vars => LineageInv'
<1> SUFFICES ASSUME LineageInv, [Next]_vars PROVE LineageInv'
  OBVIOUS
<1>1. ASSUME NEW w \in Worker, Step(w) PROVE LineageInv'
  BY <1>1, LeaseSound, EndBatchSound, EnsureOwnerSound, WriteSound, MaterializationFailsSound,
     MarkCompleteSound, FinishExecutionSound, FinishSwallowedSound, ConfirmTerminalSound,
     LoadDeleteSound, FlushDeleteSound, DecideRetrySound, MarkFailedSound, FailExecutionSound,
     LoadRequeueSound, FlushRequeueSound
  DEF Step
<1>2. ASSUME NEW w \in Worker, Crash(w) PROVE LineageInv'
  BY <1>2, CrashSound
<1>3. ASSUME NEW c \in Calc, Capture(c) PROVE LineageInv'
  BY <1>3, BeginCaptureSound, StartStageSound, LoadCaptureSound, FlushCaptureSound, CaptureFailsSound
  DEF Capture
<1>4. ASSUME NEW c \in Calc, Cancellation(c) PROVE LineageInv'
  BY <1>4, CancelSound, CancelLineageSound DEF Cancellation
<1>5. ASSUME NEW c \in Calc, LeaseLapses(c) \/ LeaseOverrun(c) PROVE LineageInv'
  BY <1>5, LeaseLapsesSound, LeaseOverrunSound
<1>6. QED
  BY <1>1, <1>2, <1>3, <1>4, <1>5, LineageStutter DEF Next

LEMMA LineageInvariant == Spec => []LineageInv
BY LineageInit, LineageNext, PTL DEF Spec

\* The rows, the workers and the bounds keep their shape; a payload always has
\* its record, a busy worker its payload.
THEOREM LineageTypeCorrect == Spec => []TypeOK
<1>1. LineageInv => TypeOK
  BY DEF LineageInv
<1>2. QED
  BY <1>1, LineageInvariant, PTL

\* A complete record has its manifest on disk however many workers take the
\* payload; a complete execution has its complete record wherever neither a
\* second capture nor a second worker interferes.
THEOREM CompletionHasEvidence == Spec => []CompleteMeansEvidence
<1>1. LineageInv => CompleteMeansEvidence
  BY DEF LineageInv, CalcInv, EvidenceInv, SoleInv, CompleteMeansEvidence
<1>2. QED
  BY <1>1, LineageInvariant, PTL

\* An execution its caller has cancelled stays failed, and its lineage stage
\* is not in progress any more, whatever the lineage workers do.
THEOREM CancellationHolds == Spec => []CancelledStaysFailed
<1>1. LineageInv => CancelledStaysFailed
  BY DEF LineageInv, CalcInv, CancelInv, CancelledStaysFailed
<1>2. QED
  BY <1>1, LineageInvariant, PTL

\* A payload is not leased more often than the budget allows, but for the
\* attempts that crashes and outlived leases cost.
THEOREM LineageRetryBudget == Spec => []PayloadAttemptBudget
<1>1. LineageInv => PayloadAttemptBudget
  BY DEF LineageInv, AllOne, BudgetInv, PayloadAttemptBudget
<1>2. QED
  BY <1>1, LineageInvariant, PTL

=============================================================================
