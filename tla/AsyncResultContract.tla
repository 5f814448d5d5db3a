------------------------- MODULE AsyncResultContract -------------------------
(***************************************************************************)
(* What the async API promises of a submitted calculation: it is accepted, *)
(* then answered once, with a result or with a failure, and the answer     *)
(* stays.                                                                  *)
(***************************************************************************)
CONSTANT Calc

VARIABLE view

Init == view = [c \in Calc |-> "unknown"]

Accept(c) == view[c] = "unknown" /\ view' = [view EXCEPT ![c] = "accepted"]

Deliver(c) == view[c] = "accepted" /\ view' = [view EXCEPT ![c] = "complete"]

\* One transaction may fail several calculations: a reconciliation or a
\* cancellation covers a set of jobs.
Fail(S) ==
    /\ \A c \in S : view[c] = "accepted"
    /\ view' = [c \in Calc |-> IF c \in S THEN "failed" ELSE view[c]]

Next ==
    \/ \E c \in Calc : Accept(c) \/ Deliver(c)
    \/ \E S \in SUBSET Calc : Fail(S)

Spec == Init /\ [][Next]_view

=============================================================================
