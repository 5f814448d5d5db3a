------------------------- MODULE MCSubmissionFencing -------------------------
(***************************************************************************)
(* Instances of SubmissionFencing for TLC.                                 *)
(***************************************************************************)
EXTENDS SubmissionFencing, TLC

Symmetry == Permutations(Submitter) \cup Permutations(Request \ StatefulRequest) \cup Permutations(KeyedCalc)

=============================================================================
