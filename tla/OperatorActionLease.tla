------------------------- MODULE OperatorActionLease -------------------------
(***************************************************************************)
(* The lock file of a governed operator action                             *)
(* (app/services/operator_action_lease_service): created exclusively,      *)
(* filled with the metadata and the token of its owner, reclaimed when it  *)
(* is older than the configured age, and released by its owner, each by    *)
(* several file-system calls of processes that share the directory.        *)
(*                                                                         *)
(* One action key is modelled.  A token stands for the file its owner      *)
(* created; the metadata is left out but for its age.  The reclaim         *)
(* evidence files, which no lease operation reads and whose write errors   *)
(* are swallowed, are left out too.                                        *)
(***************************************************************************)
EXTENDS Naturals, FiniteSets

CONSTANTS
    Operator,     \* processes that run the action
    MaxTokens,    \* bound on the attempts to acquire the lease
    MaxStale      \* bound on the leases that outlive the configured age

VARIABLES
    lock,    \* the file at the path of the key
    stale,   \* tokens whose acquisition time is too long ago
    lpc,     \* control state of each process
    token,   \* the lease_token it generated
    seen,    \* the lock payload it read
    tokens   \* tokens generated so far

leaseVars == <<lock, stale, lpc, token, seen, tokens>>

Token == 1..MaxTokens
NoToken == 0

NoFile == [token |-> NoToken, written |-> FALSE]

LeaseControl == {"idle", "create", "read_payload", "read_lease", "compare_stale", "unlink_stale",
                 "recreate", "write", "held", "release", "unlink"}

\* The lock, the control states and the tokens are well formed.
LeaseTypeOK ==
    /\ lock \in [token : Token \cup {NoToken}, written : BOOLEAN]
    /\ stale \subseteq Token
    /\ lpc \in [Operator -> LeaseControl]
    /\ token \in [Operator -> Token \cup {NoToken}]
    /\ seen \in [Operator -> Token \cup {NoToken}]
    /\ tokens \in 0..MaxTokens

LeaseInit ==
    /\ lock = NoFile
    /\ stale = {}
    /\ lpc = [p \in Operator |-> "idle"]
    /\ token = [p \in Operator |-> NoToken]
    /\ seen = [p \in Operator |-> NoToken]
    /\ tokens = 0

LeaseGoto(p, l) == lpc' = [lpc EXCEPT ![p] = l]

\* The process leaves the context manager, or was refused by it.
Leave(p) ==
    /\ LeaseGoto(p, "idle")
    /\ token' = [token EXCEPT ![p] = NoToken]
    /\ seen' = [seen EXCEPT ![p] = NoToken]

\* The acquisition time and the lease_token of an attempt.
Attempt(p) ==
    /\ lpc[p] = "idle" /\ tokens < MaxTokens
    /\ tokens' = tokens + 1
    /\ token' = [token EXCEPT ![p] = tokens + 1]
    /\ LeaseGoto(p, "create")
    /\ UNCHANGED <<lock, stale, seen>>

\* os.open with O_CREAT and O_EXCL: an empty file, or FileExistsError.
Create(p) ==
    /\ lpc[p] = "create"
    /\ \/ /\ lock = NoFile
          /\ lock' = [token |-> token[p], written |-> FALSE]
          /\ LeaseGoto(p, "write")
       \/ /\ lock # NoFile
          /\ LeaseGoto(p, "read_payload")
          /\ UNCHANGED lock
    /\ UNCHANGED <<stale, token, seen, tokens>>

-----------------------------------------------------------------------------
(* _reclaim_stale_lock.                                                    *)

\* The first read of the lock; a missing or an empty file is no candidate.
ReadPayload(p) ==
    /\ lpc[p] = "read_payload"
    /\ \/ /\ lock.written
          /\ seen' = [seen EXCEPT ![p] = lock.token]
          /\ LeaseGoto(p, "read_lease")
          /\ UNCHANGED token
       \/ ~lock.written /\ Leave(p)
    /\ UNCHANGED <<lock, stale, tokens>>

\* The second read, whose acquisition time decides.
ReadLease(p) ==
    /\ lpc[p] = "read_lease"
    /\ \/ /\ lock.written /\ lock.token \in stale
          /\ LeaseGoto(p, "compare_stale")
          /\ UNCHANGED <<token, seen>>
       \/ (~lock.written \/ lock.token \notin stale) /\ Leave(p)
    /\ UNCHANGED <<lock, stale, tokens>>

\* _release_lock_if_owned up to its comparison.
Matches(t) == lock.written /\ lock.token = t

CompareStale(p) ==
    /\ lpc[p] = "compare_stale"
    /\ \/ /\ Matches(seen[p])
          /\ LeaseGoto(p, "unlink_stale")
          /\ UNCHANGED <<token, seen>>
       \/ ~Matches(seen[p]) /\ Leave(p)
    /\ UNCHANGED <<lock, stale, tokens>>

\* unlink removes whatever file is at the path by now.
UnlinkStale(p) ==
    /\ lpc[p] = "unlink_stale"
    /\ lock' = NoFile
    /\ LeaseGoto(p, "recreate")
    /\ UNCHANGED <<stale, token, seen, tokens>>

Recreate(p) ==
    /\ lpc[p] = "recreate"
    /\ \/ /\ lock = NoFile
          /\ lock' = [token |-> token[p], written |-> FALSE]
          /\ LeaseGoto(p, "write")
          /\ UNCHANGED <<token, seen>>
       \/ lock # NoFile /\ Leave(p) /\ UNCHANGED lock
    /\ UNCHANGED <<stale, tokens>>

-----------------------------------------------------------------------------

\* The payload is written to the file that was opened, which may be gone from
\* the path by now.
WriteLease(p) ==
    /\ lpc[p] = "write"
    /\ lock' = IF lock.token = token[p] THEN [lock EXCEPT !.written = TRUE] ELSE lock
    /\ LeaseGoto(p, "held")
    /\ UNCHANGED <<stale, token, seen, tokens>>

\* The body of the context manager ends, with or without an exception.
Finish(p) ==
    /\ lpc[p] = "held"
    /\ LeaseGoto(p, "release")
    /\ UNCHANGED <<lock, stale, token, seen, tokens>>

Release(p) ==
    /\ lpc[p] = "release"
    /\ \/ /\ Matches(token[p])
          /\ LeaseGoto(p, "unlink")
          /\ UNCHANGED <<token, seen>>
       \/ ~Matches(token[p]) /\ Leave(p)
    /\ UNCHANGED <<lock, stale, tokens>>

Unlink(p) ==
    /\ lpc[p] = "unlink"
    /\ lock' = NoFile
    /\ Leave(p)
    /\ UNCHANGED <<stale, tokens>>

\* The process dies: its file stays.
LeaseCrash(p) ==
    /\ lpc[p] # "idle"
    /\ Leave(p)
    /\ UNCHANGED <<lock, stale, tokens>>

\* A token outlives RUNTIME_RETENTION_ACTION_LEASE_STALE_SECONDS.
Expire(t) ==
    /\ t <= tokens /\ t \notin stale
    /\ Cardinality(stale) < MaxStale
    /\ stale' = stale \cup {t}
    /\ UNCHANGED <<lock, lpc, token, seen, tokens>>

\* The steps that lead to the body of the context manager, and the ones after.
Acquire(p) ==
    \/ Create(p) \/ ReadPayload(p) \/ ReadLease(p) \/ CompareStale(p)
    \/ UnlinkStale(p) \/ Recreate(p) \/ WriteLease(p)

LeaveLease(p) == Release(p) \/ Unlink(p)

LeaseNext ==
    \/ \E p \in Operator : Attempt(p) \/ Acquire(p) \/ Finish(p) \/ LeaveLease(p) \/ LeaseCrash(p)
    \/ \E t \in Token : Expire(t)

LeaseSpec == LeaseInit /\ [][LeaseNext]_leaseVars

-----------------------------------------------------------------------------
(* Properties.                                                             *)

\* docs/technical/runtime_topology.md: "governed operator-action lock release
\* is compare-and-delete: a stale owner does not remove a replacement owner's
\* lock after stale reclaim".
ReleaseIsCompareAndDelete ==
    \A p \in Operator : lpc[p] = "unlink" => lock = NoFile \/ lock.token = token[p]

\* As long as no lease has outlived its age, at most one process is inside the
\* action, whatever processes die on the way.
ExclusiveUntilStale ==
    stale = {} => \A p, q \in Operator : lpc[p] = "held" /\ lpc[q] = "held" => p = q

=============================================================================
