------------------------------ MODULE MCLedger ------------------------------
(***************************************************************************)
(* Ledger for TLC.  The bounds are the cardinalities of its constants.     *)
(***************************************************************************)
EXTENDS LedgerInv, TLC

CONSTANTS a1, a2, a3, th1, th2, t1, t2, t3, r1, r2, d1, d2

\* Each actor in a process of its own, or all in one.
Apart == [a \in Actors |-> a]
Together == [a \in Actors |-> "p"]

\* Identities that no definition tells apart.
Symmetry == Permutations(Actors) \cup Permutations(Threads)
            \cup Permutations(Turns)

SymmetryApproval == Permutations(Watchers) \cup Permutations(Actors \ Watchers)
                    \cup Permutations(Requests) \cup Permutations(Decisions)
=============================================================================
