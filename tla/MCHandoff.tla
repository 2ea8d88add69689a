----------------------------- MODULE MCHandoff -----------------------------
(* A small instance of Handoff for TLC.                                    *)
EXTENDS Handoff, TLC

CONSTANTS r1, r2, b1, p1, p2

(* Processes are interchangeable, and so are the two offered releases.     *)
Symmetry == Permutations(Procs) \cup Permutations(Offered)
=============================================================================
