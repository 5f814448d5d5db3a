-------------------------- MODULE MCSourceCorrection --------------------------
(***************************************************************************)
(* Instances of SourceCorrection for TLC.                                  *)
(***************************************************************************)
EXTENDS SourceCorrection, TLC

CONSTANTS c1, c2, c3, o1, o2

\* A correction of days 1 and 2 and a later one of days 2 and 3: they overlap,
\* and each affects an original that the other does not.  A third one, observed
\* together with the second, extends the same revision and affects nothing.
MCRequest ==
    {[id |-> c1, observed |-> 1, revision |-> c1, supersedes |-> "none", from |-> 1, to |-> 2],
     [id |-> c2, observed |-> 2, revision |-> c2, supersedes |-> c1, from |-> 2, to |-> 3],
     [id |-> c3, observed |-> 2, revision |-> c3, supersedes |-> c1, from |-> 9, to |-> 9]}

MCWindow == (o1 :> [from |-> 1, to |-> 1]) @@ (o2 :> [from |-> 3, to |-> 3])

Symmetry == Permutations(Client)

=============================================================================
