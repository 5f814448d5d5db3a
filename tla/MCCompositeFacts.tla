--------------------------- MODULE MCCompositeFacts ---------------------------
(* The bounds of the composite run: facts and commands for two months, reads   *)
(* of a month, of both and of three.  Workers and contents are                 *)
(* interchangeable.                                                            *)
EXTENDS CompositeFacts, TLC

CONSTANTS p1

Windows == {{1}, {1, 2}, {1, 2, 3}}
Months == {{1, 2}}
Seeded == {<<p1, {1, 2}>>}
Requests == {<<{1}, 0>>, <<{1, 2}, 0>>, <<{1, 2}, 2>>, <<{1, 2, 3}, 2>>}
Symmetry == Permutations(Worker) \cup Permutations(Content)

=============================================================================
