------------------------- MODULE MCInvariantMonitor -------------------------
(* Instances of InvariantMonitor for TLC. *)
EXTENDS InvariantMonitor, TLC

HighScore == [i \in Invariants |-> 90]
CheckerSymmetry == Permutations(Checkers)
=============================================================================
