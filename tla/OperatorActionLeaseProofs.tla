----------------------- MODULE OperatorActionLeaseProofs -----------------------
(***************************************************************************)
(* What the lock file of an operator action guarantees as long as no lease *)
(* has outlived its age: one process inside the action, and a release that *)
(* removes only the releaser's own file.  Both rest on one fact: a process *)
(* past the creation of the lock owns the file at the path, because only   *)
(* the reclaim of a stale lock removes the file of another.                *)
(***************************************************************************)
EXTENDS OperatorActionLease, TLAPS

\* Shapes of the state that the argument needs, weaker than LeaseTypeOK.
LeaseShape ==
    /\ lock \in [token : Nat, written : BOOLEAN]
    /\ lpc \in [Operator -> LeaseControl]
    /\ token \in [Operator -> Nat]
    /\ seen \in [Operator -> Nat]
    /\ tokens \in Nat

\* Tokens are handed out once: a process has one from its attempt to its end,
\* no two processes have the same, and none lies above the counter.
TokensDistinct ==
    /\ \A p \in Operator : token[p] <= tokens /\ (token[p] = NoToken <=> lpc[p] = "idle")
    /\ \A p, q \in Operator : token[p] = token[q] /\ token[p] # NoToken => p = q

\* A file at the path carries a token.
FileHasToken == lock.token = NoToken => lock = NoFile

Owning == {"write", "held", "release", "unlink"}
Reclaiming == {"compare_stale", "unlink_stale", "recreate"}

\* While nothing is stale nobody reclaims, and whoever is past the creation of
\* the lock owns the file at the path.
OwnersOwn ==
    stale = {} =>
        \A p \in Operator : /\ lpc[p] \notin Reclaiming
                            /\ lpc[p] \in Owning => lock.token = token[p]

LeaseInv == LeaseShape /\ TokensDistinct /\ FileHasToken /\ OwnersOwn

LEMMA LeaseInitInv == LeaseInit => LeaseInv
  BY DEF LeaseInit, LeaseInv, LeaseShape, TokensDistinct, FileHasToken, OwnersOwn,
         NoFile, NoToken, LeaseControl, Owning, Reclaiming

\* An attempt takes a token nobody has.
LEMMA AttemptInv ==
    ASSUME LeaseInv, NEW p \in Operator, Attempt(p)
    PROVE  LeaseInv'
  BY DEF Attempt, LeaseGoto, LeaseInv, LeaseShape, TokensDistinct, FileHasToken, OwnersOwn,
         NoFile, NoToken, LeaseControl, Owning, Reclaiming

\* Leaving gives up the token and leaves the file to whoever owns it.
LEMMA LeaveInv ==
    ASSUME LeaseInv, NEW p \in Operator, Leave(p), UNCHANGED <<stale, tokens>>,
           \/ UNCHANGED lock
           \/ lpc[p] = "unlink" /\ lock' = NoFile
    PROVE  LeaseInv'
  <1>1. LeaseShape' /\ TokensDistinct' /\ FileHasToken'
    <2>1. LeaseShape'
      <3>1. lock' \in [token : Nat, written : BOOLEAN]
        <4>1. NoFile \in [token : Nat, written : BOOLEAN]
          BY DEF NoFile, NoToken
        <4>2. lock \in [token : Nat, written : BOOLEAN]
          BY DEF LeaseInv, LeaseShape
        <4>3. lock' = lock \/ lock' = NoFile
          OBVIOUS
        <4> QED BY <4>1, <4>2, <4>3, Zenon
      <3>2. /\ lpc' \in [Operator -> LeaseControl] /\ token' \in [Operator -> Nat]
            /\ seen' \in [Operator -> Nat] /\ tokens' \in Nat
        BY DEF Leave, LeaseGoto, LeaseInv, LeaseShape, NoToken, LeaseControl
      <3> QED BY <3>1, <3>2 DEF LeaseShape
    <2>2. TokensDistinct'
      BY DEF Leave, LeaseGoto, LeaseInv, LeaseShape, TokensDistinct, NoToken
    <2>3. FileHasToken'
      BY DEF LeaseInv, FileHasToken, NoFile
    <2> QED BY <2>1, <2>2, <2>3
  <1>2. OwnersOwn'
    <2>1. SUFFICES ASSUME stale' = {}, NEW q \in Operator
                   PROVE  lpc'[q] \notin Reclaiming /\ (lpc'[q] \in Owning => lock'.token = token'[q])
      BY DEF OwnersOwn
    <2>2. CASE q = p
      BY <2>2 DEF Leave, LeaseGoto, LeaseInv, LeaseShape, Owning, Reclaiming
    <2>3. CASE q # p
      <3>1. lpc'[q] = lpc[q] /\ token'[q] = token[q]
        BY <2>3 DEF Leave, LeaseGoto, LeaseInv, LeaseShape
      <3>2. lpc[q] \notin Reclaiming /\ (lpc[q] \in Owning => lock.token = token[q])
        BY <2>1 DEF LeaseInv, OwnersOwn
      <3>3. CASE UNCHANGED lock
        BY <3>1, <3>2, <3>3
      <3>4. CASE lpc[p] = "unlink"
        <4>1. lock.token = token[p] /\ token[p] # NoToken
          BY <2>1, <3>4 DEF LeaseInv, OwnersOwn, TokensDistinct, Owning
        <4>2. lpc[q] \notin Owning
          BY <4>1, <3>2, <2>3 DEF LeaseInv, TokensDistinct
        <4> QED BY <4>2, <3>1, <3>2
      <3> QED BY <3>3, <3>4
    <2> QED BY <2>2, <2>3
  <1> QED BY <1>1, <1>2 DEF LeaseInv

\* A file is created only where there is none, and by a process with a token.
LEMMA CreateInv ==
    ASSUME LeaseInv, NEW p \in Operator, lpc[p] \in {"create", "recreate"},
           lock = NoFile, lock' = [token |-> token[p], written |-> FALSE],
           LeaseGoto(p, "write"), UNCHANGED <<stale, token, seen, tokens>>
    PROVE  LeaseInv'
  <1>1. token[p] # NoToken
    BY DEF LeaseInv, TokensDistinct
  <1>2. LeaseShape' /\ TokensDistinct' /\ FileHasToken'
    BY <1>1 DEF LeaseGoto, LeaseInv, LeaseShape, TokensDistinct, FileHasToken, NoFile, NoToken, LeaseControl
  <1>3. OwnersOwn'
    <2>1. SUFFICES ASSUME stale' = {}, NEW q \in Operator
                   PROVE  lpc'[q] \notin Reclaiming /\ (lpc'[q] \in Owning => lock'.token = token'[q])
      BY DEF OwnersOwn
    <2>2. CASE q = p
      BY <2>2 DEF LeaseGoto, LeaseInv, LeaseShape, Reclaiming
    <2>3. CASE q # p
      <3>1. lpc'[q] = lpc[q]
        BY <2>3 DEF LeaseGoto, LeaseInv, LeaseShape
      <3>2. lpc[q] \notin Reclaiming /\ (lpc[q] \in Owning => lock.token = token[q])
        BY <2>1 DEF LeaseInv, OwnersOwn
      <3>3. lpc[q] \notin Owning
        BY <3>2 DEF LeaseInv, TokensDistinct, NoFile, Owning
      <3> QED BY <3>1, <3>2, <3>3
    <2> QED BY <2>2, <2>3
  <1> QED BY <1>2, <1>3 DEF LeaseInv

\* A control step that leaves the file's owner and the tokens alone.
LEMMA StepInv ==
    ASSUME LeaseInv, NEW p \in Operator, NEW l \in LeaseControl \ {"idle"}, LeaseGoto(p, l),
           lpc[p] # "idle",
           lock' \in [token : Nat, written : BOOLEAN], lock'.token = lock.token, FileHasToken',
           seen' \in [Operator -> Nat], UNCHANGED <<stale, token, tokens>>,
           stale = {} => /\ l \notin Reclaiming
                         /\ l \in Owning => lpc[p] \in Owning
    PROVE  LeaseInv'
  <1>1. LeaseShape' /\ TokensDistinct'
    BY DEF LeaseGoto, LeaseInv, LeaseShape, TokensDistinct
  <1>2. OwnersOwn'
    BY DEF LeaseGoto, LeaseInv, LeaseShape, OwnersOwn
  <1> QED BY <1>1, <1>2 DEF LeaseInv

LEMMA LeaseNextInv == LeaseInv /\ [LeaseNext]_leaseVars => LeaseInv'
  <1> SUFFICES ASSUME LeaseInv, [LeaseNext]_leaseVars PROVE LeaseInv'
    OBVIOUS
  <1>0. LeaseShape /\ FileHasToken
    BY DEF LeaseInv
  <1>1. ASSUME NEW p \in Operator, Attempt(p) PROVE LeaseInv'
    BY <1>1, AttemptInv
  <1>2. ASSUME NEW p \in Operator, Create(p) PROVE LeaseInv'
    <2>1. CASE lock = NoFile /\ LeaseGoto(p, "write") /\ lock' = [token |-> token[p], written |-> FALSE]
      BY <1>2, <2>1, CreateInv DEF Create
    <2>2. CASE LeaseGoto(p, "read_payload") /\ UNCHANGED lock
      BY <1>0, <1>2, <2>2, StepInv
         DEF Create, LeaseShape, LeaseControl, Reclaiming, Owning, FileHasToken, NoFile, NoToken
    <2> QED BY <1>2, <2>1, <2>2 DEF Create
  <1>3. ASSUME NEW p \in Operator, ReadPayload(p) PROVE LeaseInv'
    <2>1. CASE LeaseGoto(p, "read_lease") /\ seen' = [seen EXCEPT ![p] = lock.token] /\ UNCHANGED token
      BY <1>0, <1>3, <2>1, StepInv
         DEF ReadPayload, LeaseShape, LeaseControl, Reclaiming, Owning, FileHasToken, NoFile, NoToken
    <2>2. CASE Leave(p)
      BY <1>3, <2>2, LeaveInv DEF ReadPayload
    <2> QED BY <1>3, <2>1, <2>2 DEF ReadPayload
  <1>4. ASSUME NEW p \in Operator, ReadLease(p) PROVE LeaseInv'
    <2>1. CASE lock.token \in stale /\ LeaseGoto(p, "compare_stale") /\ UNCHANGED <<token, seen>>
      BY <1>0, <1>4, <2>1, StepInv
         DEF ReadLease, LeaseShape, LeaseControl, Reclaiming, Owning, FileHasToken, NoFile, NoToken
    <2>2. CASE Leave(p)
      BY <1>4, <2>2, LeaveInv DEF ReadLease
    <2> QED BY <1>4, <2>1, <2>2 DEF ReadLease
  <1>5. ASSUME NEW p \in Operator, CompareStale(p) PROVE LeaseInv'
    <2>0. stale # {}
      BY <1>5 DEF CompareStale, LeaseInv, OwnersOwn, Reclaiming
    <2>1. CASE LeaseGoto(p, "unlink_stale") /\ UNCHANGED <<token, seen>>
      BY <1>0, <1>5, <2>0, <2>1, StepInv
         DEF CompareStale, LeaseShape, LeaseControl, Reclaiming, Owning, FileHasToken, NoFile, NoToken
    <2>2. CASE Leave(p)
      BY <1>5, <2>2, LeaveInv DEF CompareStale
    <2> QED BY <1>5, <2>1, <2>2 DEF CompareStale
  <1>6. ASSUME NEW p \in Operator, UnlinkStale(p) PROVE LeaseInv'
    <2>1. stale # {}
      BY <1>6 DEF UnlinkStale, LeaseInv, OwnersOwn, Reclaiming
    <2> QED BY <1>6, <2>1 DEF UnlinkStale, LeaseGoto, LeaseInv, LeaseShape, TokensDistinct,
                              FileHasToken, OwnersOwn, NoFile, NoToken, LeaseControl
  <1>7. ASSUME NEW p \in Operator, Recreate(p) PROVE LeaseInv'
    <2>1. CASE /\ lock = NoFile /\ LeaseGoto(p, "write")
               /\ lock' = [token |-> token[p], written |-> FALSE] /\ UNCHANGED <<token, seen>>
      BY <1>7, <2>1, CreateInv DEF Recreate
    <2>2. CASE Leave(p) /\ UNCHANGED lock
      BY <1>7, <2>2, LeaveInv DEF Recreate
    <2> QED BY <1>7, <2>1, <2>2 DEF Recreate
  <1>8. ASSUME NEW p \in Operator, WriteLease(p) PROVE LeaseInv'
    <2>1. /\ lock' \in [token : Nat, written : BOOLEAN] /\ lock'.token = lock.token
          /\ FileHasToken'
      <3>1. token[p] # NoToken
        BY <1>8 DEF WriteLease, LeaseInv, TokensDistinct
      <3> QED BY <1>0, <1>8, <3>1 DEF WriteLease, LeaseShape, FileHasToken, NoFile, NoToken
    <2> QED BY <1>0, <1>8, <2>1, StepInv DEF WriteLease, LeaseShape, LeaseControl, Reclaiming, Owning
  <1>9. ASSUME NEW p \in Operator, Finish(p) PROVE LeaseInv'
    BY <1>0, <1>9, StepInv
       DEF Finish, LeaseShape, LeaseControl, Reclaiming, Owning, FileHasToken, NoFile, NoToken
  <1>10. ASSUME NEW p \in Operator, Release(p) PROVE LeaseInv'
    <2>1. CASE LeaseGoto(p, "unlink") /\ UNCHANGED <<token, seen>>
      BY <1>0, <1>10, <2>1, StepInv
         DEF Release, LeaseShape, LeaseControl, Reclaiming, Owning, FileHasToken, NoFile, NoToken
    <2>2. CASE Leave(p)
      BY <1>10, <2>2, LeaveInv DEF Release
    <2> QED BY <1>10, <2>1, <2>2 DEF Release
  <1>11. ASSUME NEW p \in Operator, Unlink(p) PROVE LeaseInv'
    BY <1>11, LeaveInv DEF Unlink
  <1>12. ASSUME NEW p \in Operator, LeaseCrash(p) PROVE LeaseInv'
    BY <1>12, LeaveInv DEF LeaseCrash
  <1>13. ASSUME NEW t \in Token, Expire(t) PROVE LeaseInv'
    <2>1. stale' # {}
      BY <1>13 DEF Expire
    <2> QED BY <1>13, <2>1 DEF Expire, LeaseInv, LeaseShape, TokensDistinct, FileHasToken, OwnersOwn
  <1>14. CASE UNCHANGED leaseVars
    BY <1>14 DEF leaseVars, LeaseInv, LeaseShape, TokensDistinct, FileHasToken, OwnersOwn
  <1> QED BY <1>1, <1>2, <1>3, <1>4, <1>5, <1>6, <1>7, <1>8, <1>9, <1>10, <1>11, <1>12, <1>13, <1>14
          DEF LeaseNext, Acquire, LeaveLease

\* As long as no lease has outlived its age, at most one process is between the
\* acquisition and the release of the lease, for any number of processes and
\* attempts and wherever processes die (operator_action_lease).
THEOREM ExclusiveUntilStaleHolds == LeaseSpec => []ExclusiveUntilStale
  <1>1. LeaseInv => ExclusiveUntilStale
    <2> SUFFICES ASSUME LeaseInv, stale = {}, NEW p \in Operator, NEW q \in Operator,
                        lpc[p] = "held", lpc[q] = "held"
                 PROVE  p = q
      BY DEF ExclusiveUntilStale
    <2>1. lock.token = token[p] /\ lock.token = token[q]
      BY DEF LeaseInv, OwnersOwn, Owning
    <2>2. token[p] # NoToken
      BY DEF LeaseInv, TokensDistinct
    <2> QED BY <2>1, <2>2 DEF LeaseInv, TokensDistinct
  <1> QED BY <1>1, LeaseInitInv, LeaseNextInv, PTL DEF LeaseSpec

\* A release that has compared the token removes its own file, or finds none,
\* as long as no lease has outlived its age: the documented compare-and-delete
\* fails only after a stale reclaim (_release_lock_if_owned).
THEOREM CompareAndDeleteUntilStale ==
    LeaseSpec => [](stale = {} => ReleaseIsCompareAndDelete)
  <1>1. LeaseInv => (stale = {} => ReleaseIsCompareAndDelete)
    BY DEF LeaseInv, OwnersOwn, Owning, ReleaseIsCompareAndDelete
  <1> QED BY <1>1, LeaseInitInv, LeaseNextInv, PTL DEF LeaseSpec

=============================================================================
