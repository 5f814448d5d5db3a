------------------------ MODULE RuntimeRetentionProofs ------------------------
(***************************************************************************)
(* What retention cleanup guarantees, for any number of overlapping        *)
(* cleanups, calculations, holds, correction references and faults.        *)
(*                                                                         *)
(* A record only ever goes from open to settled to gone, and settles above *)
(* the cutoff of every cleanup under way.  So what a cleanup has listed is *)
(* all that its phases can find, whatever the others delete meanwhile; the *)
(* facts a cleanup collects about its targets persist, phase by phase      *)
(* (CleanupInv), and a record that goes is a target of a cleanup in a      *)
(* deletion phase (Removal), from which the action properties follow.      *)
(***************************************************************************)
EXTENDS RuntimeRetention, TLAPS

Applying == {"publish_start", "publish_end", "publish_failure"} \cup Deleting
Decided == {"publish_plan"} \cup Applying
Guarded == {"corrections"} \cup Decided
Collected == {"custody"} \cup Guarded
Begun == {"list"} \cup Collected

\* The cutoff lies a retention window back.
WindowOf(k) ==
    /\ clean[k].cutoff < now
    /\ clean[k].cutoff > 0 => clean[k].cutoff + Retention <= now

\* The lists hold what is older than the cutoff and no composite original,
\* and what was and is gone.
ListedOf(k) ==
    \A s \in Store, c \in Calculation :
        /\ c \in clean[k].listed[s] => rows[s][c] <= clean[k].cutoff /\ ~Kept(s, c)
        /\ rows[s][c] \in 1..clean[k].cutoff /\ ~Kept(s, c) => c \in clean[k].listed[s]

\* A source calculation is protected, without its lineage record, or eligible
\* as a whole.
CustodyOf(k) ==
    \A c \in custody : c \in clean[k].protected \/ rows["lineage"][c] = Absent
                        \/ \A s \in Store : rows[s][c] = Absent \/ c \in clean[k].listed[s]

AnnouncedOf(k) ==
    /\ evidence[k]["apply"].status = "in_progress"
    /\ evidence[k]["apply"].targets = Targets(k)

GoneOf(k, s) == \A c \in Targets(k)[s] : rows[s][c] = Absent
ClearOf(k) == Targets(k)["lineage"] \cap artifacts = {}

AppliedOf(k) ==
    evidence[k]["apply"].status = "applied" =>
        \A s \in Store : \A c \in evidence[k]["apply"].targets[s] : rows[s][c] = Absent

\* What a cleanup knows, by its control state.
CleanupInv(k) ==
    /\ cpc[k] \in Begun => WindowOf(k)
    /\ cpc[k] \in Collected => ListedOf(k)
    /\ cpc[k] \in Guarded => CustodyOf(k)
    /\ cpc[k] \in {"list", "custody", "corrections"} => shield[k] \subseteq clean[k].protected \cup referenced
    /\ cpc[k] \in Decided => shield[k] \subseteq clean[k].protected
    /\ cpc[k] \in Applying => clean[k].mode = "apply"
    /\ cpc[k] \in Deleting \cup {"publish_end"} => AnnouncedOf(k)
    /\ cpc[k] \in {"delete_result", "delete_artifacts", "delete_lineage", "delete_execution", "publish_end"}
            => GoneOf(k, "job")
    /\ cpc[k] \in {"delete_artifacts", "delete_lineage", "delete_execution", "publish_end"}
            => GoneOf(k, "result")
    /\ cpc[k] = "delete_lineage" => ClearOf(k)
    /\ cpc[k] \in {"delete_execution", "publish_end"} => GoneOf(k, "lineage")
    /\ cpc[k] = "publish_end" => GoneOf(k, "execution")
    /\ AppliedOf(k)

\* Once a record of a source calculation is gone, none of the others is younger
\* than the retention window.
GroupInv ==
    \A c \in custody : (\E s \in Store : rows[s][c] = Absent)
        => \A t \in Store : rows[t][c] + Retention <= now

TypeInv == TypeOK /\ now > 0

RetentionInv ==
    /\ TypeInv
    /\ \A k \in Cleaner : CleanupInv(k)
    /\ GroupInv
    /\ ArtifactsHaveRecords

\* What a step does to the records of all stores.
Evolves ==
    /\ \A s \in Store, c \in Calculation :
        \/ rows'[s][c] = rows[s][c]
        \/ rows'[s][c] = Absent
        \/ rows[s][c] = Open /\ rows'[s][c] = now
    /\ \A c \in artifacts' : c \in artifacts \/ rows["lineage"][c] = Open
    /\ custody' = custody /\ composite' = composite
    /\ referenced \subseteq referenced'
    /\ now <= now' /\ now' \in Nat

\* What a step that is not k's leaves alone.
Spares(k) == cpc'[k] = cpc[k] /\ clean'[k] = clean[k] /\ evidence'[k] = evidence[k] /\ shield'[k] = shield[k]

-----------------------------------------------------------------------------
(* Types.                                                                  *)

LEMMA TypeInit == Init => TypeInv
  BY RetentionAssumption
  DEF Init, TypeInv, TypeOK, NoEvidence, Evidence, NoCleanup, Cleanup, NoTargets, Control, Mode, Store,
      Open, Absent

LEMMA WorldTypes ==
  ASSUME TypeInv,
         \/ Tick
         \/ \E c \in Calculation :
              PlaceHold(c) \/ ReferToCorrection(c) \/ \E s \in Store : Settle(s, c)
  PROVE  TypeInv'
  <1> USE RetentionAssumption DEF TypeInv, TypeOK, Environment, Open
  <1>1. CASE Tick
    BY <1>1 DEF Tick
  <1>2. ASSUME NEW c \in Calculation, PlaceHold(c) PROVE TypeInv'
    BY <1>2 DEF PlaceHold
  <1>3. ASSUME NEW c \in Calculation, ReferToCorrection(c) PROVE TypeInv'
    BY <1>3 DEF ReferToCorrection
  <1>4. ASSUME NEW c \in Calculation, NEW s \in Store, Settle(s, c) PROVE TypeInv'
    <2>1. artifacts' \in SUBSET Calculation
      BY <1>4 DEF Settle
    <2>2. rows' \in [Store -> [Calculation -> 0..Open]]
      BY <1>4 DEF Settle
    <2> QED BY <1>4, <2>1, <2>2 DEF Settle
  <1> QED BY <1>1, <1>2, <1>3, <1>4

\* The types of the parts of a cleanup.
LEMMA CleanTypes ==
  ASSUME TypeInv, NEW k \in Cleaner
  PROVE  /\ clean[k] \in Cleanup
         /\ clean[k].mode \in Mode
         /\ clean[k].correlation \in Correlation \cup {"none"}
         /\ clean[k].at \in 0..MaxTime
         /\ clean[k].cutoff \in 0..MaxTime
         /\ clean[k].listed \in [Store -> SUBSET Calculation]
         /\ clean[k].protected \in SUBSET Calculation
         /\ Targets(k) \in [Store -> SUBSET Calculation]
  <1>1. clean[k] \in Cleanup
    BY DEF TypeInv, TypeOK
  <1>2. /\ clean[k].listed \in [Store -> SUBSET Calculation]
        /\ clean[k].protected \in SUBSET Calculation
    BY <1>1 DEF Cleanup
  <1>3. Targets(k) \in [Store -> SUBSET Calculation]
    BY <1>2 DEF Targets
  <1> QED BY <1>1, <1>2, <1>3 DEF Cleanup

LEMMA GotoTypes ==
  ASSUME TypeInv, NEW k \in Cleaner, NEW l \in Control, Goto(k, l)
  PROVE  /\ cpc' \in [Cleaner -> Control]
         /\ cpc'[k] = l
         /\ \A j \in Cleaner : j # k => cpc'[j] = cpc[j]
  BY DEF TypeInv, TypeOK, Goto

LEMMA LocalsTypes ==
  ASSUME TypeInv, NEW k \in Cleaner, NEW r \in Cleanup, Locals(k, r)
  PROVE  /\ clean' \in [Cleaner -> Cleanup]
         /\ clean'[k] = r
         /\ \A j \in Cleaner : j # k => clean'[j] = clean[j]
  BY DEF TypeInv, TypeOK, Locals

LEMMA EndTypes ==
  ASSUME TypeInv, NEW k \in Cleaner, NEW l \in Control, End(k, l)
  PROVE  /\ cpc' \in [Cleaner -> Control]
         /\ clean' \in [Cleaner -> Cleanup]
         /\ shield' \in [Cleaner -> SUBSET Calculation]
         /\ cpc'[k] = l
         /\ \A j \in Cleaner : j # k => cpc'[j] = cpc[j] /\ clean'[j] = clean[j] /\ shield'[j] = shield[j]
  <1>1. NoCleanup \in Cleanup
    BY RetentionAssumption DEF NoCleanup, Cleanup, Mode, NoTargets
  <1>2. Goto(k, l) /\ Locals(k, NoCleanup) /\ shield' = [shield EXCEPT ![k] = {}]
    BY DEF End
  <1>3. shield' \in [Cleaner -> SUBSET Calculation] /\ \A j \in Cleaner : j # k => shield'[j] = shield[j]
    BY <1>2 DEF TypeInv, TypeOK
  <1> QED BY <1>1, <1>2, <1>3, GotoTypes, LocalsTypes

LEMMA PublishTypes ==
  ASSUME TypeInv, NEW k \in Cleaner, NEW status \in {"planned", "in_progress", "applied", "failed"},
         NEW at \in 0..MaxTime, NEW targets \in [Store -> SUBSET Calculation],
         Publish(k, status, at, targets)
  PROVE  /\ evidence' \in [Cleaner -> [Mode -> Evidence]]
         /\ evidence'[k][clean[k].mode].status = status
         /\ evidence'[k][clean[k].mode].targets = targets
         /\ \A m \in Mode : m # clean[k].mode => evidence'[k][m] = evidence[k][m]
         /\ \A j \in Cleaner : j # k => evidence'[j] = evidence[j]
  <1> DEFINE e == [status |-> status, correlation |-> clean[k].correlation,
                   at |-> at, targets |-> targets]
  <1>1. e \in Evidence /\ e.status = status /\ e.targets = targets
    BY CleanTypes DEF Evidence
  <1>2. evidence' = [evidence EXCEPT ![k][clean[k].mode] = e]
    BY DEF Publish
  <1>3. clean[k].mode \in Mode /\ evidence \in [Cleaner -> [Mode -> Evidence]]
    BY CleanTypes DEF TypeInv, TypeOK
  <1> HIDE DEF e
  <1> QED BY <1>1, <1>2, <1>3

-----------------------------------------------------------------------------
(* What a cleanup knows persists while records evolve.                     *)

LEMMA TargetsKept ==
  ASSUME TypeInv, NEW k \in Cleaner, clean'[k] = clean[k]
  PROVE  Targets(k)' = Targets(k)
  BY DEF Targets

LEMMA Persist ==
  ASSUME TypeInv, Evolves, NEW k \in Cleaner, clean'[k] = clean[k]
  PROVE  /\ WindowOf(k) => WindowOf(k)'
         /\ WindowOf(k) /\ ListedOf(k) => ListedOf(k)'
         /\ CustodyOf(k) => CustodyOf(k)'
         /\ \A s \in Store : GoneOf(k, s) => GoneOf(k, s)'
         /\ WindowOf(k) /\ ListedOf(k) /\ ClearOf(k) => ClearOf(k)'
  <1> USE CleanTypes, RetentionAssumption
  <1>1. now \in Nat /\ now' >= now /\ rows \in [Store -> [Calculation -> 0..Open]] /\ now < Open
    BY DEF TypeInv, TypeOK, Evolves, Open
  <1>2. Open # Absent /\ Open \in Nat /\ custody' = custody /\ custody \subseteq Calculation
    BY DEF Open, Absent, TypeInv, TypeOK, Evolves
  <1>3. \A s \in Store, c \in Calculation :
          rows'[s][c] = rows[s][c] \/ rows'[s][c] = Absent \/ (rows[s][c] = Open /\ rows'[s][c] = now)
    BY DEF Evolves
  <1>4. clean[k].cutoff \in Nat
    OBVIOUS
  <1>5. now' \in Nat /\ (WindowOf(k) => WindowOf(k)')
    BY <1>1, <1>4 DEF WindowOf, Evolves
  <1>6. ASSUME WindowOf(k), ListedOf(k) PROVE ListedOf(k)'
    <2>1. \A s \in Store, c \in Calculation : Kept(s, c)' <=> Kept(s, c)
      BY DEF Evolves, Kept
    <2> QED BY <1>6, <1>1, <1>2, <1>3, <1>4, <2>1 DEF WindowOf, ListedOf, Absent
  <1>7. ASSUME CustodyOf(k) PROVE CustodyOf(k)'
    BY <1>7, <1>2, <1>3 DEF CustodyOf, Store
  <1>8. ASSUME NEW s \in Store, GoneOf(k, s) PROVE GoneOf(k, s)'
    BY <1>8, <1>2, <1>3, TargetsKept DEF GoneOf
  <1>9. ASSUME WindowOf(k), ListedOf(k), ClearOf(k) PROVE ClearOf(k)'
    <2>1. \A c \in Targets(k)["lineage"] : c \in Calculation /\ rows["lineage"][c] # Open
      BY <1>9, <1>1, <1>4 DEF WindowOf, ListedOf, Targets, Store
    <2> QED BY <2>1, <1>9, TargetsKept DEF ClearOf, Evolves
  <1> QED BY <1>5, <1>6, <1>7, <1>8, <1>9

LEMMA AppliedPersists ==
  ASSUME TypeInv, Evolves, NEW k \in Cleaner, evidence'[k]["apply"] = evidence[k]["apply"], AppliedOf(k)
  PROVE  AppliedOf(k)'
  <1>1. evidence[k]["apply"].targets \in [Store -> SUBSET Calculation]
    BY DEF TypeInv, TypeOK, Evidence, Mode
  <1>2. Open # Absent
    BY RetentionAssumption DEF Open, Absent
  <1> QED BY <1>1, <1>2 DEF AppliedOf, Evolves

\* The step of another actor.
LEMMA SparedKeeps ==
  ASSUME TypeInv, Evolves, NEW k \in Cleaner, Spares(k), CleanupInv(k)
  PROVE  CleanupInv(k)'
  <1>1. clean'[k] = clean[k] /\ cpc'[k] = cpc[k] /\ evidence'[k] = evidence[k] /\ shield'[k] = shield[k]
        /\ referenced \subseteq referenced'
    BY DEF Spares, Evolves
  <1>2. AnnouncedOf(k) => AnnouncedOf(k)'
    BY <1>1, TargetsKept DEF AnnouncedOf
  <1>3. AppliedOf(k)'
    BY <1>1, AppliedPersists DEF CleanupInv
  <1>4. cpc[k] \in Collected => cpc[k] \in Begun
    BY DEF Begun
  <1>5. cpc[k] = "delete_lineage" => cpc[k] \in Collected
    BY DEF Collected, Guarded, Decided, Applying, Deleting
  <1> QED BY <1>1, <1>2, <1>3, <1>4, <1>5, Persist DEF CleanupInv, Store

LEMMA WorldEvolves ==
  ASSUME TypeInv,
         \/ Tick
         \/ \E c \in Calculation :
              PlaceHold(c) \/ ReferToCorrection(c) \/ \E s \in Store : Settle(s, c)
  PROVE  /\ Evolves
         /\ \A k \in Cleaner : Spares(k)
         /\ \A s \in Store, c \in Calculation : ~Removed(s, c)
         /\ \A c \in artifacts' : c \in artifacts \/ rows'["lineage"][c] = now
  <1> USE RetentionAssumption DEF TypeInv, TypeOK, Evolves, Spares, Environment, Open, Absent, Removed
  <1>1. CASE Tick
    BY <1>1 DEF Tick
  <1>2. CASE \E c \in Calculation : PlaceHold(c)
    BY <1>2 DEF PlaceHold
  <1>3. CASE \E c \in Calculation : ReferToCorrection(c)
    BY <1>3 DEF ReferToCorrection
  <1>4. CASE \E c \in Calculation, s \in Store : Settle(s, c)
    <2>1. PICK c \in Calculation, s \in Store : Settle(s, c)
      BY <1>4
    <2>2. /\ rows[s][c] = Open
          /\ rows'[s][c] = now
          /\ \A t \in Store, d \in Calculation : t # s \/ d # c => rows'[t][d] = rows[t][d]
      BY <2>1 DEF Settle
    <2>3. \A d \in artifacts' : d \in artifacts \/ (s = "lineage" /\ d = c)
      BY <2>1 DEF Settle
    <2>4. UNCHANGED <<custody, composite, evidence, cpc, clean, shield, faults, hold, referenced, now>>
      BY <2>1 DEF Settle
    <2>5. \A t \in Store, d \in Calculation : ~Removed(t, d)
      BY <2>2
    <2>6. \A d \in artifacts' : d \in artifacts \/ (rows["lineage"][d] = Open /\ rows'["lineage"][d] = now)
      BY <2>2, <2>3
    <2>7. \A t \in Store, d \in Calculation :
            rows'[t][d] = rows[t][d] \/ (rows[t][d] = Open /\ rows'[t][d] = now)
      BY <2>2
    <2> QED BY <2>4, <2>5, <2>6, <2>7
  <1> QED BY <1>1, <1>2, <1>3, <1>4

\* A step that leaves the records alone.
LEMMA StillEvolves ==
  ASSUME TypeInv, UNCHANGED world
  PROVE  Evolves /\ \A s \in Store, c \in Calculation : ~Removed(s, c)
  BY DEF world, Evolves, Removed, TypeInv, TypeOK

-----------------------------------------------------------------------------
(* The steps of a cleanup that delete nothing.                             *)

\* What each step of cleanup k has to show.
Sound(k) ==
    /\ TypeInv'
    /\ Evolves
    /\ CleanupInv(k)'
    /\ \A j \in Cleaner : j # k => Spares(j)

LEMMA RequestSound ==
  ASSUME RetentionInv, NEW k \in Operator, NEW m \in Mode, NEW x \in Correlation, Request(k, m, x)
  PROVE  Sound(k)
  <1> DEFINE r == [NoCleanup EXCEPT !.mode = m, !.correlation = x]
  <1>1. r \in Cleanup
    <2>1. NoCleanup \in Cleanup
      BY RetentionAssumption DEF NoCleanup, Cleanup, Mode, NoTargets
    <2> QED BY <2>1 DEF Cleanup
  <1>2. TypeInv /\ k \in Cleaner /\ CleanupInv(k)
    BY DEF RetentionInv, Cleaner
  <1>3. Goto(k, "requested") /\ Locals(k, r) /\ UNCHANGED <<world, evidence, shield, faults>>
    BY DEF Request
  <1> HIDE DEF r
  <1>4. /\ clean' \in [Cleaner -> Cleanup]
        /\ \A j \in Cleaner : j # k => clean'[j] = clean[j]
    BY <1>1, <1>2, <1>3, LocalsTypes
  <1>5. /\ cpc' \in [Cleaner -> Control] /\ cpc'[k] = "requested"
        /\ \A j \in Cleaner : j # k => cpc'[j] = cpc[j]
    BY <1>2, <1>3, GotoTypes DEF Control
  <1>6. Evolves
    BY <1>2, <1>3, StillEvolves
  <1>7. AppliedOf(k)'
    BY <1>2, <1>3, <1>6, AppliedPersists DEF CleanupInv
  <1>8. CleanupInv(k)'
    BY <1>5, <1>7 DEF CleanupInv, Begun, Collected, Guarded, Decided, Applying, Deleting
  <1> QED BY <1>2, <1>3, <1>4, <1>5, <1>6, <1>8 DEF Sound, TypeInv, TypeOK, Spares, world

LEMMA BeginSound ==
  ASSUME RetentionInv, NEW k \in Cleaner, Begin(k)
  PROVE  Sound(k)
  <1> DEFINE r == [clean[k] EXCEPT !.mode = IF k = Worker THEN "apply" ELSE clean[k].mode,
                                   !.at = now, !.cutoff = Cutoff, !.protected = hold]
  <1>1. TypeInv /\ CleanupInv(k)
    BY DEF RetentionInv
  <1>2. /\ Cutoff \in 0..MaxTime
        /\ Cutoff < now
        /\ Cutoff > 0 => Cutoff + Retention <= now
    BY <1>1, RetentionAssumption DEF Cutoff, TypeInv, TypeOK
  <1>3. r \in Cleanup /\ r.cutoff = Cutoff /\ r.protected = hold
    BY <1>1, <1>2, CleanTypes DEF TypeInv, TypeOK, Cleanup, Mode
  <1>4. /\ Goto(k, "list") /\ Locals(k, r) /\ UNCHANGED <<world, evidence, faults>>
        /\ shield' = [shield EXCEPT ![k] = hold \cup referenced]
    BY DEF Begin
  <1> HIDE DEF r
  <1>5. /\ clean' \in [Cleaner -> Cleanup] /\ clean'[k] = r
        /\ \A j \in Cleaner : j # k => clean'[j] = clean[j]
    BY <1>1, <1>3, <1>4, LocalsTypes
  <1>6. /\ cpc' \in [Cleaner -> Control] /\ cpc'[k] = "list"
        /\ \A j \in Cleaner : j # k => cpc'[j] = cpc[j]
    BY <1>1, <1>4, GotoTypes DEF Control
  <1>7. /\ shield' \in [Cleaner -> SUBSET Calculation] /\ shield'[k] = hold \cup referenced
        /\ \A j \in Cleaner : j # k => shield'[j] = shield[j]
    BY <1>1, <1>4 DEF TypeInv, TypeOK
  <1>8. Evolves
    BY <1>1, <1>4, StillEvolves
  <1>9. AppliedOf(k)'
    BY <1>1, <1>4, <1>8, AppliedPersists DEF CleanupInv
  <1>10. WindowOf(k)'
    BY <1>2, <1>3, <1>4, <1>5 DEF WindowOf, world
  <1>11. shield'[k] \subseteq clean'[k].protected \cup referenced'
    BY <1>3, <1>4, <1>5, <1>7 DEF world
  <1>12. CleanupInv(k)'
    BY <1>6, <1>9, <1>10, <1>11 DEF CleanupInv, Begun, Collected, Guarded, Decided, Applying, Deleting
  <1> QED BY <1>1, <1>4, <1>5, <1>6, <1>7, <1>8, <1>12 DEF Sound, TypeInv, TypeOK, Spares, world

LEMMA ListSound ==
  ASSUME RetentionInv, NEW k \in Cleaner, List(k)
  PROVE  Sound(k)
  <1> DEFINE g == [s \in Store |-> Older(s, clean[k].cutoff)]
             r == [clean[k] EXCEPT !.listed = g]
  <1>1. TypeInv /\ CleanupInv(k) /\ cpc[k] = "list"
    BY DEF RetentionInv, List
  <1>2. g \in [Store -> SUBSET Calculation]
    BY DEF Older
  <1>3. /\ r \in Cleanup /\ r.cutoff = clean[k].cutoff /\ r.listed = g
        /\ r.protected = clean[k].protected
    BY <1>1, <1>2, CleanTypes DEF Cleanup
  <1>4. Goto(k, "custody") /\ Locals(k, r) /\ UNCHANGED <<world, evidence, shield, faults>>
    BY DEF List
  <1>5. \A s \in Store, c \in Calculation :
           c \in g[s] <=> rows[s][c] \in 1..clean[k].cutoff /\ ~Kept(s, c)
    BY DEF Older
  <1> HIDE DEF r, g
  <1>6. /\ clean' \in [Cleaner -> Cleanup] /\ clean'[k] = r
        /\ \A j \in Cleaner : j # k => clean'[j] = clean[j]
    BY <1>1, <1>3, <1>4, LocalsTypes
  <1>7. /\ cpc' \in [Cleaner -> Control] /\ cpc'[k] = "custody"
        /\ \A j \in Cleaner : j # k => cpc'[j] = cpc[j]
    BY <1>1, <1>4, GotoTypes DEF Control
  <1>8. Evolves
    BY <1>1, <1>4, StillEvolves
  <1>9. AppliedOf(k)'
    BY <1>1, <1>4, <1>8, AppliedPersists DEF CleanupInv
  <1>10. WindowOf(k)' /\ ListedOf(k)' /\ shield'[k] \subseteq clean'[k].protected \cup referenced'
    <2>1. WindowOf(k) /\ shield[k] \subseteq clean[k].protected \cup referenced
      BY <1>1 DEF CleanupInv, Begun
    <2>2. WindowOf(k)' /\ shield'[k] \subseteq clean'[k].protected \cup referenced'
      BY <2>1, <1>3, <1>4, <1>6 DEF WindowOf, world
    <2>3. ListedOf(k)'
      BY <1>1, <1>3, <1>4, <1>5, <1>6, CleanTypes DEF ListedOf, Kept, world, TypeInv, TypeOK
    <2> QED BY <2>2, <2>3
  <1>11. CleanupInv(k)'
    BY <1>7, <1>9, <1>10 DEF CleanupInv, Begun, Collected, Guarded, Decided, Applying, Deleting
  <1> QED BY <1>1, <1>4, <1>6, <1>7, <1>8, <1>11 DEF Sound, TypeInv, TypeOK, Spares, world

\* A read adds to the protected calculations.
LEMMA ProtectStep ==
  ASSUME RetentionInv, NEW k \in Cleaner, cpc[k] \in {"custody", "corrections"},
         NEW more \in SUBSET Calculation, NEW l \in Control,
         Locals(k, [clean[k] EXCEPT !.protected = @ \cup more]), Goto(k, l),
         UNCHANGED <<world, evidence, shield, faults>>
  PROVE  /\ TypeInv'
         /\ Evolves
         /\ \A j \in Cleaner : j # k => Spares(j)
         /\ cpc'[k] = l
         /\ clean'[k].mode = clean[k].mode
         /\ clean'[k].listed = clean[k].listed
         /\ clean'[k].protected = clean[k].protected \cup more
         /\ WindowOf(k)' /\ ListedOf(k)' /\ AppliedOf(k)'
  <1> DEFINE r == [clean[k] EXCEPT !.protected = @ \cup more]
  <1>1. TypeInv /\ CleanupInv(k)
    BY DEF RetentionInv
  <1>2. /\ r \in Cleanup /\ r.cutoff = clean[k].cutoff /\ r.listed = clean[k].listed
        /\ r.protected = clean[k].protected \cup more /\ r.mode = clean[k].mode
    BY <1>1, CleanTypes DEF Cleanup
  <1>3. Locals(k, r)
    OBVIOUS
  <1> HIDE DEF r
  <1>4. /\ clean' \in [Cleaner -> Cleanup] /\ clean'[k] = r
        /\ \A j \in Cleaner : j # k => clean'[j] = clean[j]
    BY <1>1, <1>2, <1>3, LocalsTypes
  <1>5. /\ cpc' \in [Cleaner -> Control] /\ cpc'[k] = l
        /\ \A j \in Cleaner : j # k => cpc'[j] = cpc[j]
    BY <1>1, GotoTypes
  <1>6. Evolves
    BY <1>1, StillEvolves
  <1>7. AppliedOf(k)'
    BY <1>1, <1>6, AppliedPersists DEF CleanupInv
  <1>8. WindowOf(k) /\ ListedOf(k)
    BY <1>1 DEF CleanupInv, Begun, Collected, Guarded
  <1>9. WindowOf(k)' /\ ListedOf(k)'
    BY <1>8, <1>2, <1>4 DEF WindowOf, ListedOf, Kept, world
  <1> QED BY <1>1, <1>2, <1>4, <1>5, <1>6, <1>7, <1>9 DEF TypeInv, TypeOK, Spares, world

LEMMA ReadCustodySound ==
  ASSUME RetentionInv, NEW k \in Cleaner, ReadCustody(k)
  PROVE  Sound(k)
  <1>0. PICK leased \in SUBSET custody :
           Locals(k, [clean[k] EXCEPT
                         !.protected = @ \cup SourceProtection(clean[k].listed) \cup leased])
    BY DEF ReadCustody
  <1> DEFINE more == SourceProtection(clean[k].listed) \cup leased
  <1>1. /\ more \in SUBSET Calculation
        /\ custody \subseteq Calculation
        /\ \A c \in custody : c \notin more => rows["lineage"][c] = Absent
                \/ \A s \in Store : rows[s][c] = Absent \/ c \in clean[k].listed[s]
    BY DEF SourceProtection, RetentionInv, TypeInv, TypeOK
  <1>2. /\ Locals(k, [clean[k] EXCEPT !.protected = @ \cup more]) /\ Goto(k, "corrections")
        /\ UNCHANGED <<world, evidence, shield, faults>> /\ cpc[k] = "custody"
    <2>1. clean[k].protected \cup SourceProtection(clean[k].listed) \cup leased
            = clean[k].protected \cup more
      OBVIOUS
    <2> HIDE DEF more
    <2> QED BY <1>0, <2>1 DEF ReadCustody
  <1> HIDE DEF more
  <1>3. /\ TypeInv'
        /\ Evolves
        /\ \A j \in Cleaner : j # k => Spares(j)
        /\ cpc'[k] = "corrections"
        /\ clean'[k].listed = clean[k].listed
        /\ clean'[k].protected = clean[k].protected \cup more
        /\ WindowOf(k)' /\ ListedOf(k)' /\ AppliedOf(k)'
    BY <1>1, <1>2, ProtectStep DEF Control
  <1>4. CustodyOf(k)'
    BY <1>1, <1>2, <1>3 DEF CustodyOf, world
  <1>5. shield'[k] \subseteq clean'[k].protected \cup referenced'
    BY <1>2, <1>3 DEF RetentionInv, CleanupInv, world
  <1>6. CleanupInv(k)'
    BY <1>3, <1>4, <1>5 DEF CleanupInv, Begun, Collected, Guarded, Decided, Applying, Deleting
  <1> QED BY <1>3, <1>6 DEF Sound

LEMMA ReadCorrectionsSound ==
  ASSUME RetentionInv, NEW k \in Cleaner, ReadCorrections(k)
  PROVE  Sound(k)
  <1> DEFINE l == IF clean[k].mode = "apply" THEN "publish_start" ELSE "publish_plan"
  <1>1. /\ referenced \in SUBSET Calculation
        /\ l \in Control
        /\ l \in {"publish_start", "publish_plan"}
        /\ l = "publish_start" => clean[k].mode = "apply"
    BY DEF RetentionInv, TypeInv, TypeOK, Control
  <1>2. /\ Locals(k, [clean[k] EXCEPT !.protected = @ \cup referenced]) /\ Goto(k, l)
        /\ UNCHANGED <<world, evidence, shield, faults>> /\ cpc[k] = "corrections"
    BY DEF ReadCorrections
  <1> HIDE DEF l
  <1>3. /\ TypeInv'
        /\ Evolves
        /\ \A j \in Cleaner : j # k => Spares(j)
        /\ cpc'[k] = l
        /\ clean'[k].mode = clean[k].mode
        /\ clean'[k].listed = clean[k].listed
        /\ clean'[k].protected = clean[k].protected \cup referenced
        /\ WindowOf(k)' /\ ListedOf(k)' /\ AppliedOf(k)'
    BY <1>1, <1>2, ProtectStep
  <1>4. CustodyOf(k)'
    BY <1>2, <1>3 DEF CustodyOf, world, RetentionInv, CleanupInv, Guarded
  <1>5. shield'[k] \subseteq clean'[k].protected
    BY <1>2, <1>3 DEF RetentionInv, CleanupInv, world
  <1>6. CleanupInv(k)'
    BY <1>1, <1>3, <1>4, <1>5 DEF CleanupInv, Begun, Collected, Guarded, Decided, Applying, Deleting
  <1> QED BY <1>3, <1>6 DEF Sound

-----------------------------------------------------------------------------
(* Evidence and the end of a cleanup.                                      *)

\* A cleanup that ends knows nothing any more; its evidence stays.
LEMMA EndStep ==
  ASSUME TypeInv, NEW k \in Cleaner, NEW l \in {"idle", "dead"}, End(k, l), UNCHANGED world,
         AppliedOf(k)', evidence' \in [Cleaner -> [Mode -> Evidence]], faults' \in 0..MaxFaults,
         \A j \in Cleaner : j # k => evidence'[j] = evidence[j]
  PROVE  Sound(k)
  <1>1. /\ cpc' \in [Cleaner -> Control]
        /\ clean' \in [Cleaner -> Cleanup]
        /\ shield' \in [Cleaner -> SUBSET Calculation]
        /\ cpc'[k] = l
        /\ \A j \in Cleaner : j # k => cpc'[j] = cpc[j] /\ clean'[j] = clean[j] /\ shield'[j] = shield[j]
    BY EndTypes DEF Control
  <1>2. CleanupInv(k)'
    BY <1>1 DEF CleanupInv, Begun, Collected, Guarded, Decided, Applying, Deleting
  <1>3. Evolves
    BY StillEvolves
  <1> QED BY <1>1, <1>2, <1>3 DEF Sound, TypeInv, TypeOK, Spares, world

LEMMA PublishPlanSound ==
  ASSUME RetentionInv, NEW k \in Cleaner, PublishPlan(k)
  PROVE  Sound(k)
  <1>1. TypeInv /\ CleanupInv(k) /\ UNCHANGED <<world, faults>> /\ End(k, "idle")
        /\ Publish(k, "planned", clean[k].at, NoTargets)
    BY DEF PublishPlan, RetentionInv
  <1>2. NoTargets \in [Store -> SUBSET Calculation] /\ clean[k].at \in 0..MaxTime /\ clean[k].mode \in Mode
    BY <1>1, CleanTypes DEF NoTargets
  <1>3. /\ evidence' \in [Cleaner -> [Mode -> Evidence]]
        /\ evidence'[k][clean[k].mode].status = "planned"
        /\ \A m \in Mode : m # clean[k].mode => evidence'[k][m] = evidence[k][m]
        /\ \A j \in Cleaner : j # k => evidence'[j] = evidence[j]
    BY <1>1, <1>2, PublishTypes
  <1>4. Evolves
    BY <1>1, StillEvolves
  <1>5. AppliedOf(k)'
    <2>1. CASE clean[k].mode = "apply"
      BY <2>1, <1>3 DEF AppliedOf
    <2>2. CASE clean[k].mode # "apply"
      BY <2>2, <1>1, <1>3, <1>4, AppliedPersists DEF Mode, CleanupInv
    <2> QED BY <2>1, <2>2
  <1>6. faults' \in 0..MaxFaults
    BY <1>1 DEF TypeInv, TypeOK
  <1> QED BY <1>1, <1>3, <1>5, <1>6, EndStep

LEMMA PublishStartSound ==
  ASSUME RetentionInv, NEW k \in Cleaner, PublishStart(k)
  PROVE  Sound(k)
  <1>1. TypeInv /\ CleanupInv(k) /\ UNCHANGED <<world, clean, shield, faults>> /\ Goto(k, "delete_job")
        /\ Publish(k, "in_progress", 0, Targets(k)) /\ cpc[k] = "publish_start"
    BY DEF PublishStart, RetentionInv
  <1>2. clean[k].mode = "apply" /\ Targets(k) \in [Store -> SUBSET Calculation] /\ 0 \in 0..MaxTime
    BY <1>1, CleanTypes, RetentionAssumption DEF CleanupInv, Applying
  <1>3. /\ evidence' \in [Cleaner -> [Mode -> Evidence]]
        /\ evidence'[k]["apply"].status = "in_progress"
        /\ evidence'[k]["apply"].targets = Targets(k)
        /\ \A j \in Cleaner : j # k => evidence'[j] = evidence[j]
    BY <1>1, <1>2, PublishTypes
  <1>4. /\ cpc' \in [Cleaner -> Control] /\ cpc'[k] = "delete_job"
        /\ \A j \in Cleaner : j # k => cpc'[j] = cpc[j]
    BY <1>1, GotoTypes DEF Control, Deleting
  <1>5. Evolves /\ clean'[k] = clean[k] /\ shield'[k] = shield[k]
    BY <1>1, StillEvolves
  <1>6. AnnouncedOf(k)' /\ AppliedOf(k)'
    BY <1>1, <1>3, <1>5, TargetsKept DEF AnnouncedOf, AppliedOf
  <1>7. WindowOf(k)' /\ ListedOf(k)' /\ CustodyOf(k)' /\ shield[k] \subseteq clean[k].protected
    BY <1>1, <1>5, Persist DEF CleanupInv, Begun, Collected, Guarded, Decided, Applying
  <1>8. CleanupInv(k)'
    BY <1>2, <1>4, <1>5, <1>6, <1>7 DEF CleanupInv, Begun, Collected, Guarded, Decided, Applying, Deleting
  <1> QED BY <1>1, <1>3, <1>4, <1>5, <1>8 DEF Sound, TypeInv, TypeOK, Spares, world

LEMMA PublishEndSound ==
  ASSUME RetentionInv, NEW k \in Cleaner, PublishEnd(k)
  PROVE  Sound(k)
  <1>1. TypeInv /\ CleanupInv(k) /\ UNCHANGED <<world, faults>> /\ End(k, "idle")
        /\ Publish(k, "applied", 0, Targets(k)) /\ cpc[k] = "publish_end"
    BY DEF PublishEnd, RetentionInv
  <1>2. clean[k].mode = "apply" /\ Targets(k) \in [Store -> SUBSET Calculation] /\ 0 \in 0..MaxTime
    BY <1>1, CleanTypes, RetentionAssumption DEF CleanupInv, Applying
  <1>3. /\ evidence' \in [Cleaner -> [Mode -> Evidence]]
        /\ evidence'[k]["apply"].targets = Targets(k)
        /\ \A j \in Cleaner : j # k => evidence'[j] = evidence[j]
    BY <1>1, <1>2, PublishTypes
  <1>4. \A s \in Store : GoneOf(k, s)
    BY <1>1 DEF CleanupInv, Store
  <1>5. AppliedOf(k)'
    BY <1>1, <1>3, <1>4 DEF AppliedOf, GoneOf, world
  <1>6. faults' \in 0..MaxFaults
    BY <1>1 DEF TypeInv, TypeOK
  <1> QED BY <1>1, <1>3, <1>5, <1>6, EndStep

LEMMA PublishFailureSound ==
  ASSUME RetentionInv, NEW k \in Cleaner, PublishFailure(k)
  PROVE  Sound(k)
  <1> DEFINE l == IF k = Worker THEN "dead" ELSE "idle"
  <1>1. TypeInv /\ CleanupInv(k) /\ UNCHANGED <<world, faults>> /\ End(k, l)
        /\ Publish(k, "failed", 0, NoTargets) /\ cpc[k] = "publish_failure" /\ l \in {"idle", "dead"}
    BY DEF PublishFailure, RetentionInv, Raise
  <1> HIDE DEF l
  <1>2. clean[k].mode = "apply" /\ NoTargets \in [Store -> SUBSET Calculation] /\ 0 \in 0..MaxTime
    BY <1>1, RetentionAssumption DEF CleanupInv, Applying, NoTargets
  <1>3. /\ evidence' \in [Cleaner -> [Mode -> Evidence]]
        /\ evidence'[k]["apply"].status = "failed"
        /\ \A j \in Cleaner : j # k => evidence'[j] = evidence[j]
    BY <1>1, <1>2, PublishTypes
  <1>4. AppliedOf(k)'
    BY <1>3 DEF AppliedOf
  <1>5. faults' \in 0..MaxFaults
    BY <1>1 DEF TypeInv, TypeOK
  <1> QED BY <1>1, <1>3, <1>4, <1>5, EndStep

\* CollectionFails and Crash.
LEMMA RaiseSound ==
  ASSUME RetentionInv, NEW k \in Cleaner, Fault, Raise(k), UNCHANGED <<world, evidence>>
  PROVE  Sound(k)
  <1> DEFINE l == IF k = Worker THEN "dead" ELSE "idle"
  <1>1. TypeInv /\ CleanupInv(k) /\ UNCHANGED world /\ End(k, l) /\ l \in {"idle", "dead"}
    BY DEF RetentionInv, Raise
  <1> HIDE DEF l
  <1>2. evidence' \in [Cleaner -> [Mode -> Evidence]] /\ faults' \in 0..MaxFaults
    BY <1>1, RetentionAssumption DEF TypeInv, TypeOK, Fault
  <1>3. AppliedOf(k)'
    BY <1>1, StillEvolves, AppliedPersists DEF CleanupInv
  <1> QED BY <1>1, <1>2, <1>3, EndStep

LEMMA PhaseFailsSound ==
  ASSUME RetentionInv, NEW k \in Cleaner, PhaseFails(k)
  PROVE  Sound(k)
  <1>1. TypeInv /\ CleanupInv(k) /\ UNCHANGED <<world, evidence, clean, shield>>
        /\ Goto(k, "publish_failure") /\ cpc[k] \in Deleting /\ Fault
    BY DEF PhaseFails, RetentionInv
  <1>2. /\ cpc' \in [Cleaner -> Control] /\ cpc'[k] = "publish_failure"
        /\ \A j \in Cleaner : j # k => cpc'[j] = cpc[j]
    BY <1>1, GotoTypes DEF Control
  <1>3. Evolves /\ clean'[k] = clean[k] /\ shield'[k] = shield[k]
    BY <1>1, StillEvolves
  <1>4. AppliedOf(k)'
    BY <1>1, <1>3, AppliedPersists DEF CleanupInv
  <1>5. /\ WindowOf(k)' /\ ListedOf(k)' /\ CustodyOf(k)' /\ shield[k] \subseteq clean[k].protected
        /\ clean[k].mode = "apply"
    BY <1>1, <1>3, Persist DEF CleanupInv, Begun, Collected, Guarded, Decided, Applying
  <1>6. CleanupInv(k)'
    BY <1>2, <1>3, <1>4, <1>5 DEF CleanupInv, Begun, Collected, Guarded, Decided, Applying, Deleting
  <1>7. faults' \in 0..MaxFaults
    BY <1>1, RetentionAssumption DEF TypeInv, TypeOK, Fault
  <1> QED BY <1>1, <1>2, <1>3, <1>6, <1>7 DEF Sound, TypeInv, TypeOK, Spares, world

-----------------------------------------------------------------------------
(* Deletion.                                                               *)

LEMMA RemoveTypes ==
  ASSUME TypeInv, NEW s \in Store, NEW ids, Remove(s, ids)
  PROVE  /\ rows' \in [Store -> [Calculation -> 0..Open]]
         /\ \A c \in Calculation : rows'[s][c] = IF c \in ids THEN Absent ELSE rows[s][c]
         /\ \A t \in Store, c \in Calculation : t # s => rows'[t][c] = rows[t][c]
  BY RetentionAssumption DEF Remove, TypeInv, TypeOK, Open, Absent

\* A phase deletes the targets of a store and goes on to the next.
Phase(k, s, l) ==
    /\ cpc[k] \in Deleting
    /\ l # cpc[k]
    /\ rows' \in [Store -> [Calculation -> 0..Open]]
    /\ \A c \in Calculation : rows'[s][c] = rows[s][c] \/ (rows'[s][c] = Absent /\ c \in Targets(k)[s])
    /\ \A c \in Targets(k)[s] : rows'[s][c] = Absent
    /\ \A t \in Store, c \in Calculation : t # s => rows'[t][c] = rows[t][c]
    /\ Goto(k, l)
    /\ UNCHANGED <<custody, composite, artifacts, hold, referenced, now, evidence, clean, shield, faults>>

LEMMA DeleteOlderPhase ==
  ASSUME RetentionInv, NEW k \in Cleaner, DeleteOlder(k)
  PROVE  \/ cpc[k] = "delete_job" /\ Phase(k, "job", "delete_result")
         \/ cpc[k] = "delete_result" /\ Phase(k, "result", "delete_artifacts")
  <1> DEFINE s == IF cpc[k] = "delete_job" THEN "job" ELSE "result"
             ids == Older(s, clean[k].cutoff) \ (clean[k].listed[s] \cap clean[k].protected)
  <1>1. /\ cpc[k] \in {"delete_job", "delete_result"} /\ Remove(s, ids) /\ Goto(k, NextPhase[cpc[k]])
        /\ UNCHANGED <<custody, composite, artifacts, hold, referenced, now, evidence, clean, shield, faults>>
    BY DEF DeleteOlder
  <1>2. TypeInv /\ ListedOf(k) /\ s \in Store
    BY <1>1 DEF RetentionInv, CleanupInv, Collected, Guarded, Decided, Applying, Deleting, Store
  <1>3. /\ \A c \in Calculation :
              c \in ids <=> (rows[s][c] \in 1..clean[k].cutoff /\ c \in Targets(k)[s])
        /\ \A c \in Targets(k)[s] : c \in Calculation /\ (rows[s][c] = Absent \/ c \in ids)
    <2>1. /\ clean[k].cutoff \in Nat /\ clean[k].listed[s] \subseteq Calculation
          /\ \A c \in Calculation : rows[s][c] \in Nat
          /\ Targets(k)[s] = clean[k].listed[s] \ clean[k].protected
      BY <1>2, CleanTypes, RetentionAssumption DEF TypeInv, TypeOK, Open, Targets
    <2>2. \A c \in Calculation : rows[s][c] \in 1..clean[k].cutoff /\ ~Kept(s, c)
                                    => c \in clean[k].listed[s]
      BY <1>2 DEF ListedOf
    <2>3. \A c \in clean[k].listed[s] :
             ~Kept(s, c) /\ (rows[s][c] = Absent \/ rows[s][c] \in 1..clean[k].cutoff)
      BY <1>2, <2>1 DEF ListedOf, Absent
    <2>4. \A c : c \in ids <=> (c \in Calculation /\ rows[s][c] \in 1..clean[k].cutoff
                                /\ ~Kept(s, c)
                                /\ ~(c \in clean[k].listed[s] /\ c \in clean[k].protected))
      BY DEF Older
    <2> HIDE DEF ids, s
    <2> QED BY <2>1, <2>2, <2>3, <2>4
  <1>4. \/ cpc[k] = "delete_job" /\ s = "job" /\ NextPhase[cpc[k]] = "delete_result"
        \/ cpc[k] = "delete_result" /\ s = "result" /\ NextPhase[cpc[k]] = "delete_artifacts"
    BY <1>1 DEF NextPhase
  <1> HIDE DEF ids, s
  <1>5. /\ rows' \in [Store -> [Calculation -> 0..Open]]
        /\ \A c \in Calculation : rows'[s][c] = IF c \in ids THEN Absent ELSE rows[s][c]
        /\ \A t \in Store, c \in Calculation : t # s => rows'[t][c] = rows[t][c]
    BY <1>1, <1>2, RemoveTypes
  <1>6. Phase(k, s, NextPhase[cpc[k]])
    BY <1>1, <1>3, <1>4, <1>5 DEF Phase, Deleting
  <1> QED BY <1>4, <1>6

LEMMA DeleteListedPhase ==
  ASSUME RetentionInv, NEW k \in Cleaner, DeleteListed(k)
  PROVE  \/ cpc[k] = "delete_lineage" /\ Phase(k, "lineage", "delete_execution")
         \/ cpc[k] = "delete_execution" /\ Phase(k, "execution", "publish_end")
  <1> DEFINE s == IF cpc[k] = "delete_lineage" THEN "lineage" ELSE "execution"
  <1>1. /\ cpc[k] \in {"delete_lineage", "delete_execution"} /\ Remove(s, Targets(k)[s])
        /\ Goto(k, NextPhase[cpc[k]])
        /\ UNCHANGED <<custody, composite, artifacts, hold, referenced, now, evidence, clean, shield, faults>>
    BY DEF DeleteListed
  <1>2. TypeInv /\ s \in Store
    BY <1>1 DEF RetentionInv, Store
  <1>3. \/ cpc[k] = "delete_lineage" /\ s = "lineage" /\ NextPhase[cpc[k]] = "delete_execution"
        \/ cpc[k] = "delete_execution" /\ s = "execution" /\ NextPhase[cpc[k]] = "publish_end"
    BY <1>1 DEF NextPhase
  <1> HIDE DEF s
  <1>4. /\ rows' \in [Store -> [Calculation -> 0..Open]]
        /\ \A c \in Calculation : rows'[s][c] = IF c \in Targets(k)[s] THEN Absent ELSE rows[s][c]
        /\ \A t \in Store, c \in Calculation : t # s => rows'[t][c] = rows[t][c]
    BY <1>1, <1>2, RemoveTypes
  <1>5. Targets(k)[s] \subseteq Calculation
    BY <1>2, CleanTypes
  <1>6. Phase(k, s, NextPhase[cpc[k]])
    BY <1>1, <1>3, <1>4, <1>5 DEF Phase, Deleting
  <1> QED BY <1>3, <1>6

\* What a phase leaves: all that the cleanup knew, and the store without its
\* targets.
LEMMA PhaseStep ==
  ASSUME RetentionInv, NEW k \in Cleaner, NEW s \in Store,
         NEW l \in Deleting \cup {"publish_end"}, Phase(k, s, l)
  PROVE  /\ TypeInv'
         /\ Evolves
         /\ \A j \in Cleaner : j # k => Spares(j)
         /\ cpc'[k] = l
         /\ clean'[k] = clean[k] /\ shield'[k] = shield[k]
         /\ shield[k] \subseteq clean[k].protected /\ clean[k].mode = "apply"
         /\ WindowOf(k)' /\ ListedOf(k)' /\ CustodyOf(k)' /\ AnnouncedOf(k)' /\ AppliedOf(k)'
         /\ \A t \in Store : GoneOf(k, t) => GoneOf(k, t)'
         /\ GoneOf(k, s)'
         /\ ClearOf(k) => ClearOf(k)'
  <1>1. /\ TypeInv /\ WindowOf(k) /\ ListedOf(k) /\ CustodyOf(k) /\ AnnouncedOf(k) /\ AppliedOf(k)
        /\ shield[k] \subseteq clean[k].protected /\ clean[k].mode = "apply"
    BY DEF Phase, RetentionInv, CleanupInv, Begun, Collected, Guarded, Decided, Applying
  <1>2. /\ cpc' \in [Cleaner -> Control] /\ cpc'[k] = l
        /\ \A j \in Cleaner : j # k => cpc'[j] = cpc[j]
    BY <1>1, GotoTypes DEF Phase, Control
  <1>3. UNCHANGED <<custody, composite, artifacts, hold, referenced, now, evidence, clean, shield, faults>>
    BY DEF Phase
  <1>4. Evolves
    BY <1>1, <1>3 DEF Evolves, Phase, TypeInv, TypeOK
  <1>5. TypeInv'
    BY <1>1, <1>2, <1>3 DEF TypeInv, TypeOK, Phase
  <1>6. GoneOf(k, s)'
    BY <1>1, <1>3, TargetsKept DEF GoneOf, Phase
  <1>7. AnnouncedOf(k)' /\ AppliedOf(k)'
    BY <1>1, <1>3, <1>4, TargetsKept, AppliedPersists DEF AnnouncedOf
  <1> QED BY <1>1, <1>2, <1>3, <1>4, <1>5, <1>6, <1>7, Persist DEF Spares

LEMMA DeletePhaseSound ==
  ASSUME RetentionInv, NEW k \in Cleaner, DeleteOlder(k) \/ DeleteListed(k)
  PROVE  Sound(k)
  <1>1. CleanupInv(k)
    BY DEF RetentionInv
  <1> USE <1>1 DEF CleanupInv, Deleting
  <1>2. CASE cpc[k] = "delete_job" /\ Phase(k, "job", "delete_result")
    BY <1>2, PhaseStep DEF Sound, Store
  <1>3. CASE cpc[k] = "delete_result" /\ Phase(k, "result", "delete_artifacts")
    BY <1>3, PhaseStep DEF Sound, Store
  <1>4. CASE cpc[k] = "delete_lineage" /\ Phase(k, "lineage", "delete_execution")
    BY <1>4, PhaseStep DEF Sound, Store
  <1>5. CASE cpc[k] = "delete_execution" /\ Phase(k, "execution", "publish_end")
    BY <1>5, PhaseStep DEF Sound, Store
  <1> QED BY <1>2, <1>3, <1>4, <1>5, DeleteOlderPhase, DeleteListedPhase

LEMMA DeleteArtifactsSound ==
  ASSUME RetentionInv, NEW k \in Cleaner, DeleteArtifacts(k)
  PROVE  Sound(k)
  <1> DEFINE left == Targets(k)["lineage"] \cap artifacts
  <1>1. /\ cpc[k] = "delete_artifacts"
        /\ \/ \E c \in left : artifacts' = artifacts \ {c} /\ UNCHANGED cpc
           \/ left = {} /\ Goto(k, "delete_lineage") /\ UNCHANGED artifacts
        /\ UNCHANGED <<rows, custody, composite, hold, referenced, now, evidence, clean, shield, faults>>
    BY DEF DeleteArtifacts, NextPhase
  <1>2. /\ TypeInv /\ WindowOf(k) /\ ListedOf(k) /\ CustodyOf(k) /\ AnnouncedOf(k) /\ AppliedOf(k)
        /\ shield[k] \subseteq clean[k].protected /\ clean[k].mode = "apply"
        /\ GoneOf(k, "job") /\ GoneOf(k, "result") /\ CleanupInv(k)
    BY <1>1 DEF RetentionInv, CleanupInv, Begun, Collected, Guarded, Decided, Applying, Deleting
  <1>3. Evolves /\ artifacts' \subseteq artifacts
    BY <1>1, <1>2 DEF Evolves, TypeInv, TypeOK
  <1>4. CASE UNCHANGED cpc
    <2>1. Spares(k) /\ \A j \in Cleaner : j # k => Spares(j)
      BY <1>1, <1>4 DEF Spares
    <2>2. TypeInv'
      BY <1>1, <1>2, <1>3, <1>4 DEF TypeInv, TypeOK
    <2> QED BY <2>1, <2>2, <1>2, <1>3, SparedKeeps DEF Sound
  <1>5. CASE left = {} /\ Goto(k, "delete_lineage") /\ UNCHANGED artifacts
    <2>1. /\ cpc' \in [Cleaner -> Control] /\ cpc'[k] = "delete_lineage"
          /\ \A j \in Cleaner : j # k => cpc'[j] = cpc[j]
      BY <1>2, <1>5, GotoTypes DEF Control, Deleting
    <2>2. AnnouncedOf(k)' /\ AppliedOf(k)' /\ ClearOf(k)'
      BY <1>1, <1>2, <1>3, <1>5, TargetsKept, AppliedPersists DEF AnnouncedOf, ClearOf
    <2>3. WindowOf(k)' /\ ListedOf(k)' /\ CustodyOf(k)' /\ GoneOf(k, "job")' /\ GoneOf(k, "result")'
      BY <1>1, <1>2, <1>3, Persist DEF Store
    <2>4. CleanupInv(k)'
      BY <1>1, <1>2, <2>1, <2>2, <2>3 DEF CleanupInv
    <2>5. TypeInv'
      BY <1>1, <1>2, <1>5, <2>1 DEF TypeInv, TypeOK
    <2> QED BY <1>1, <1>3, <2>1, <2>4, <2>5 DEF Sound, Spares
  <1> QED BY <1>1, <1>4, <1>5

-----------------------------------------------------------------------------
(* Every step.                                                             *)

\* A record that goes is a target of a cleanup in a deletion phase.
Removal ==
    \A s \in Store, c \in Calculation : Removed(s, c) =>
        \E k \in Cleaner : cpc[k] \in Deleting /\ cpc'[k] # cpc[k] /\ c \in Targets(k)[s]

LEMMA PhaseRemoves ==
  ASSUME RetentionInv, NEW k \in Cleaner, NEW s \in Store,
         NEW l \in Deleting \cup {"publish_end"}, Phase(k, s, l)
  PROVE  Removal
  <1>1. cpc'[k] = l
    BY PhaseStep
  <1> QED BY <1>1 DEF Phase, Removal, Removed

LEMMA NextRemoves == RetentionInv /\ [Next]_vars => Removal
  <1> SUFFICES ASSUME RetentionInv, [Next]_vars PROVE Removal
    OBVIOUS
  <1>1. TypeInv
    BY DEF RetentionInv
  <1>2. CASE UNCHANGED <<rows, custody>>
    BY <1>2 DEF Removal, Removed
  <1>3. CASE \/ Tick
             \/ \E c \in Calculation :
                  PlaceHold(c) \/ ReferToCorrection(c) \/ \E s \in Store : Settle(s, c)
    BY <1>1, <1>3, WorldEvolves DEF Removal
  <1>4. ASSUME NEW k \in Cleaner, DeleteOlder(k) \/ DeleteListed(k) PROVE Removal
    BY <1>4, PhaseRemoves, DeleteOlderPhase, DeleteListedPhase DEF Store, Deleting
  <1>5. ASSUME NEW k \in Cleaner,
               \/ Step(k) /\ ~DeleteOlder(k) /\ ~DeleteListed(k)
               \/ CollectionFails(k) \/ PhaseFails(k) \/ Crash(k)
        PROVE  UNCHANGED <<rows, custody>>
    BY <1>5 DEF Step, CollectionFails, PhaseFails, Crash, world, Begin, List, ReadCustody, ReadCorrections,
                PublishPlan, PublishStart, DeleteArtifacts, PublishEnd, PublishFailure
  <1>6. ASSUME NEW p \in Operator, NEW m \in Mode, NEW x \in Correlation, Request(p, m, x)
        PROVE  UNCHANGED <<rows, custody>>
    BY <1>6 DEF Request, world
  <1>7. CASE UNCHANGED vars
    BY <1>7, <1>2 DEF vars
  <1> QED BY <1>2, <1>3, <1>4, <1>5, <1>6, <1>7 DEF Next

LEMMA StepSound ==
  ASSUME RetentionInv, NEW k \in Cleaner, Step(k) \/ CollectionFails(k) \/ PhaseFails(k) \/ Crash(k)
  PROVE  Sound(k)
  <1>1. CASE Step(k)
    BY <1>1, BeginSound, ListSound, ReadCustodySound, ReadCorrectionsSound, PublishPlanSound,
       PublishStartSound, DeletePhaseSound, DeleteArtifactsSound, PublishEndSound, PublishFailureSound
    DEF Step
  <1>2. CASE CollectionFails(k)
    BY <1>2, RaiseSound DEF CollectionFails
  <1>3. CASE PhaseFails(k)
    BY <1>3, PhaseFailsSound
  <1>4. CASE Crash(k)
    BY <1>4, RaiseSound DEF Crash
  <1> QED BY <1>1, <1>2, <1>3, <1>4

\* What is needed of a step for the facts about all cleanups and records.
LEMMA SoundCleanups ==
  ASSUME RetentionInv, NEW k \in Cleaner, Sound(k)
  PROVE  TypeInv' /\ Evolves /\ \A j \in Cleaner : CleanupInv(j)'
  BY SparedKeeps DEF Sound, RetentionInv

LEMMA NextCleanups ==
  RetentionInv /\ [Next]_vars => TypeInv' /\ Evolves /\ \A j \in Cleaner : CleanupInv(j)'
  <1> SUFFICES ASSUME RetentionInv, [Next]_vars
               PROVE  TypeInv' /\ Evolves /\ \A j \in Cleaner : CleanupInv(j)'
    OBVIOUS
  <1>1. CASE \/ Tick
             \/ \E c \in Calculation :
                  PlaceHold(c) \/ ReferToCorrection(c) \/ \E s \in Store : Settle(s, c)
    BY <1>1, WorldTypes, WorldEvolves, SparedKeeps DEF RetentionInv
  <1>2. CASE \E k \in Cleaner : Step(k) \/ CollectionFails(k) \/ PhaseFails(k) \/ Crash(k)
    BY <1>2, StepSound, SoundCleanups
  <1>3. CASE \E p \in Operator, m \in Mode, x \in Correlation : Request(p, m, x)
    BY <1>3, RequestSound, SoundCleanups DEF Cleaner
  <1>4. CASE UNCHANGED vars
    <2>1. TypeInv'
      BY <1>4 DEF RetentionInv, TypeInv, TypeOK, vars
    <2>2. Evolves /\ \A j \in Cleaner : Spares(j)
      BY <1>4, StillEvolves DEF RetentionInv, vars, world, Spares
    <2> QED BY <2>1, <2>2, SparedKeeps DEF RetentionInv
  <1> QED BY <1>1, <1>2, <1>3, <1>4 DEF Next

\* The targets of a cleanup that deletes are older than the window, and so are
\* all records of a source calculation among them.
LEMMA TargetsOfSources ==
  ASSUME RetentionInv, NEW k \in Cleaner, cpc[k] \in Deleting, NEW s \in Store,
         NEW c \in Targets(k)[s], c \in custody, rows[s][c] # Absent
  PROVE  \A t \in Store : rows[t][c] + Retention <= now
  <1>1. /\ TypeInv /\ WindowOf(k) /\ ListedOf(k) /\ CustodyOf(k) /\ GroupInv /\ c \in Calculation
        /\ clean[k].cutoff \in Nat /\ now \in Nat /\ Retention \in Nat
        /\ \A t \in Store : rows[t][c] \in Nat
        /\ c \in clean[k].listed[s] /\ c \notin clean[k].protected
    BY CleanTypes, RetentionAssumption
    DEF RetentionInv, CleanupInv, Begun, Collected, Guarded, Decided, Applying, TypeInv, TypeOK, Open, Targets
  <1>2. CASE rows["lineage"][c] = Absent
    BY <1>1, <1>2 DEF GroupInv, Store
  <1>3. CASE \A t \in Store : rows[t][c] = Absent \/ c \in clean[k].listed[t]
    <2>1. rows[s][c] <= clean[k].cutoff /\ clean[k].cutoff > 0 /\ clean[k].cutoff + Retention <= now
      BY <1>1 DEF ListedOf, WindowOf, Absent
    <2>2. \A t \in Store : rows[t][c] <= clean[k].cutoff
      BY <1>1, <1>3 DEF ListedOf, Absent
    <2> QED BY <1>1, <2>1, <2>2
  <1> QED BY <1>1, <1>2, <1>3 DEF CustodyOf

LEMMA GroupNext == RetentionInv /\ [Next]_vars => GroupInv'
  <1> SUFFICES ASSUME RetentionInv, [Next]_vars,
                      NEW c \in custody', NEW s \in Store, rows'[s][c] = Absent, NEW t \in Store
               PROVE  rows'[t][c] + Retention <= now'
    BY DEF GroupInv
  <1>1. Evolves /\ Removal
    BY NextCleanups, NextRemoves
  <1>2. /\ c \in custody /\ c \in Calculation /\ now \in Nat /\ now' \in Nat /\ now <= now'
        /\ rows[t][c] \in Nat /\ rows[t][c] <= Open /\ now < Open /\ Retention \in Nat /\ GroupInv
        /\ now > 0 /\ Open \in Nat
    BY <1>1, RetentionAssumption DEF Evolves, RetentionInv, TypeInv, TypeOK, Open
  <1>3. \A u \in Store : rows[u][c] + Retention <= now
    <2>1. CASE rows[s][c] = Absent
      BY <2>1, <1>2 DEF GroupInv
    <2>2. CASE rows[s][c] # Absent
      BY <2>2, <1>1, <1>2, TargetsOfSources DEF Removal, Removed
    <2> QED BY <2>1, <2>2
  <1>4. rows[t][c] # Open
    BY <1>2, <1>3
  <1>5. rows'[t][c] = rows[t][c] \/ rows'[t][c] = 0
    BY <1>1, <1>2, <1>4 DEF Evolves, Absent
  <1> QED BY <1>2, <1>3, <1>5

LEMMA ArtifactsNext == RetentionInv /\ [Next]_vars => ArtifactsHaveRecords'
  <1> SUFFICES ASSUME RetentionInv, [Next]_vars, NEW c \in artifacts'
               PROVE  rows'["lineage"][c] # Absent
    BY DEF ArtifactsHaveRecords
  <1>1. /\ TypeInv /\ ArtifactsHaveRecords /\ artifacts \subseteq Calculation /\ now # Absent
        /\ Evolves /\ Removal /\ TypeInv' /\ c \in Calculation /\ "lineage" \in Store
    BY NextCleanups, NextRemoves DEF RetentionInv, TypeInv, TypeOK, Absent, Store
  <1>2. CASE \/ Tick
             \/ \E d \in Calculation :
                  PlaceHold(d) \/ ReferToCorrection(d) \/ \E s \in Store : Settle(s, d)
    BY <1>1, <1>2, WorldEvolves DEF Removed, ArtifactsHaveRecords
  <1>3. CASE artifacts' \subseteq artifacts /\ UNCHANGED <<rows, custody>>
    BY <1>1, <1>3 DEF ArtifactsHaveRecords
  <1>4. ASSUME NEW k \in Cleaner, NEW s \in Store, NEW l, Phase(k, s, l), s = "lineage" => ClearOf(k)
        PROVE  rows'["lineage"][c] # Absent
    BY <1>1, <1>4 DEF Phase, ClearOf, ArtifactsHaveRecords
  <1>5. ASSUME NEW k \in Cleaner, DeleteOlder(k) \/ DeleteListed(k)
        PROVE  rows'["lineage"][c] # Absent
    <2>1. cpc[k] = "delete_lineage" => ClearOf(k)
      BY DEF RetentionInv, CleanupInv
    <2> QED BY <1>4, <1>5, <2>1, DeleteOlderPhase, DeleteListedPhase DEF Store
  <1>6. ASSUME NEW k \in Cleaner,
               \/ Step(k) /\ ~DeleteOlder(k) /\ ~DeleteListed(k)
               \/ CollectionFails(k) \/ PhaseFails(k) \/ Crash(k)
        PROVE  artifacts' \subseteq artifacts /\ UNCHANGED <<rows, custody>>
    BY <1>6 DEF Step, CollectionFails, PhaseFails, Crash, world, Begin, List, ReadCustody, ReadCorrections,
                PublishPlan, PublishStart, DeleteArtifacts, PublishEnd, PublishFailure
  <1>7. ASSUME NEW p \in Operator, NEW m \in Mode, NEW x \in Correlation, Request(p, m, x)
        PROVE  artifacts' \subseteq artifacts /\ UNCHANGED <<rows, custody>>
    BY <1>7 DEF Request, world
  <1>8. CASE UNCHANGED vars
    BY <1>8, <1>3 DEF vars
  <1> QED BY <1>2, <1>3, <1>5, <1>6, <1>7, <1>8 DEF Next

LEMMA RetentionInvariance == Spec => []RetentionInv
  <1>1. Init => RetentionInv
    <2> SUFFICES ASSUME Init PROVE RetentionInv
      OBVIOUS
    <2>1. \A k \in Cleaner : CleanupInv(k)
      BY DEF Init, CleanupInv, Begun, Collected, Guarded, Decided, Applying, Deleting, AppliedOf, NoEvidence, Mode
    <2>2. \A s \in Store, c \in Calculation : rows[s][c] # Absent
      BY RetentionAssumption DEF Init, Absent, Open
    <2> QED BY TypeInit, <2>1, <2>2 DEF RetentionInv, GroupInv, ArtifactsHaveRecords, Init
  <1>2. RetentionInv /\ [Next]_vars => RetentionInv'
    BY NextCleanups, GroupNext, ArtifactsNext DEF RetentionInv
  <1> QED BY <1>1, <1>2, PTL DEF Spec

-----------------------------------------------------------------------------
(* The theorems.                                                           *)

\* Every record, cleanup and evidence is well formed.
THEOREM RetentionTypeCorrect == Spec => []TypeOK
  <1>1. RetentionInv => TypeOK
    BY DEF RetentionInv, TypeInv
  <1> QED BY <1>1, RetentionInvariance, PTL

\* However many cleanups overlap, fail or crash between two phases, an artifact
\* directory keeps the lineage record through which a retry finds it.
THEOREM ArtifactsStayReachable == Spec => []ArtifactsHaveRecords
  <1>1. RetentionInv => ArtifactsHaveRecords
    BY DEF RetentionInv
  <1> QED BY <1>1, RetentionInvariance, PTL

\* Evidence of an applied cleanup is true, and stays true: no target it lists
\* exists.
THEOREM AppliedEvidenceIsTrue == Spec => []AppliedMeansGone
  <1>1. RetentionInv => AppliedMeansGone
    BY DEF RetentionInv, CleanupInv, AppliedOf, AppliedMeansGone
  <1> QED BY <1>1, RetentionInvariance, PTL

\* A cleanup that gets through its five phases leaves nothing that is older
\* than its cutoff and not protected, except composite originals.
THEOREM CleanupsAreThorough == Spec => []CleanupIsThorough
  <1>1. RetentionInv => CleanupIsThorough
    <2> SUFFICES ASSUME RetentionInv, NEW k \in Cleaner, cpc[k] = "publish_end", NEW s \in Store,
                        NEW c \in Calculation \ clean[k].protected,
                        rows[s][c] # Absent, ~(rows[s][c] > clean[k].cutoff), ~Kept(s, c)
                 PROVE  FALSE
      BY DEF CleanupIsThorough
    <2>1. ListedOf(k) /\ GoneOf(k, s)
      BY DEF RetentionInv, CleanupInv, Collected, Guarded, Decided, Applying, Store
    <2>2. rows[s][c] \in 1..clean[k].cutoff
      BY CleanTypes, RetentionAssumption DEF RetentionInv, TypeInv, TypeOK, Open, Absent
    <2>3. c \in Targets(k)[s]
      BY <2>1, <2>2 DEF ListedOf, Targets
    <2> QED BY <2>1, <2>3 DEF GoneOf
  <1> QED BY <1>1, RetentionInvariance, PTL

\* What was held or referred to by a correction when a cleanup began is never
\* deleted by it.
THEOREM ShieldedRecordsStay == Spec => ShieldedStays
  <1>1. RetentionInv /\ [Next]_vars =>
          [\A s \in Store, c \in Calculation : Removed(s, c) =>
            \E k \in Cleaner : cpc[k] \in Deleting /\ cpc'[k] # cpc[k] /\ c \notin shield[k]]_vars
    <2> SUFFICES ASSUME RetentionInv, [Next]_vars, NEW s \in Store, NEW c \in Calculation, Removed(s, c)
                 PROVE  \E k \in Cleaner : cpc[k] \in Deleting /\ cpc'[k] # cpc[k] /\ c \notin shield[k]
      OBVIOUS
    <2>1. PICK k \in Cleaner : cpc[k] \in Deleting /\ cpc'[k] # cpc[k] /\ c \in Targets(k)[s]
      BY NextRemoves DEF Removal
    <2>2. shield[k] \subseteq clean[k].protected
      BY <2>1 DEF RetentionInv, CleanupInv, Decided, Applying
    <2> QED BY <2>1, <2>2 DEF Targets
  <1> QED BY <1>1, RetentionInvariance, PTL DEF Spec, ShieldedStays

\* No record of a source calculation goes before all of its records are older
\* than the retention window, whichever cleanups delete them.
THEOREM CustodyGroupsGoTogether == Spec => CustodyGoesTogether
  <1>1. RetentionInv /\ [Next]_vars =>
          [\A s \in Store, c \in custody : Removed(s, c) =>
            \A t \in Store : rows[t][c] + Retention <= now]_vars
    <2> SUFFICES ASSUME RetentionInv, [Next]_vars, NEW s \in Store, NEW c \in custody, Removed(s, c),
                        NEW t \in Store
                 PROVE  rows[t][c] + Retention <= now
      OBVIOUS
    <2>1. c \in Calculation
      BY DEF RetentionInv, TypeInv, TypeOK
    <2>2. PICK k \in Cleaner : cpc[k] \in Deleting /\ c \in Targets(k)[s]
      BY <2>1, NextRemoves DEF Removal
    <2> QED BY <2>2, TargetsOfSources DEF Removed
  <1> QED BY <1>1, RetentionInvariance, PTL DEF Spec, CustodyGoesTogether

\* Nothing is deleted that evidence in progress does not list.
THEOREM DeletionsHaveEvidence == Spec => DeletionsAreAnnounced
  <1>1. RetentionInv /\ [Next]_vars =>
          [\A s \in Store, c \in Calculation : Removed(s, c) =>
            \E k \in Cleaner :
              /\ evidence[k]["apply"].status = "in_progress"
              /\ c \in evidence[k]["apply"].targets[s]]_vars
    <2> SUFFICES ASSUME RetentionInv, [Next]_vars, NEW s \in Store, NEW c \in Calculation, Removed(s, c)
                 PROVE  \E k \in Cleaner :
                          /\ evidence[k]["apply"].status = "in_progress"
                          /\ c \in evidence[k]["apply"].targets[s]
      OBVIOUS
    <2>1. PICK k \in Cleaner : cpc[k] \in Deleting /\ cpc'[k] # cpc[k] /\ c \in Targets(k)[s]
      BY NextRemoves DEF Removal
    <2>2. AnnouncedOf(k)
      BY <2>1 DEF RetentionInv, CleanupInv
    <2> QED BY <2>1, <2>2 DEF AnnouncedOf
  <1> QED BY <1>1, RetentionInvariance, PTL DEF Spec, DeletionsAreAnnounced

=============================================================================
