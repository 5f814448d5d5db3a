-------------------------- MODULE MCComputeExecutor --------------------------
(***************************************************************************)
(* Instances of ComputeExecutor for TLC: workers and acquisition ids are   *)
(* interchangeable wherever no liveness is checked.                        *)
(***************************************************************************)
EXTENDS ExecutorLeases, TLC

Symmetry == Permutations(Worker) \cup Permutations(Acquisition)

=============================================================================
