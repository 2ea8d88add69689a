--------------------------- MODULE MCIntentGate ----------------------------
(* Small instances of IntentGate for TLC.                                  *)
EXTENDS IntentGate, TLC

CONSTANTS p1, p2, c1, c2, c3

(* Two goroutines of one process, and one of another.                      *)
TwoAndOne == (c1 :> p1) @@ (c2 :> p1) @@ (c3 :> p2)

(* Goroutines of one process.                                              *)
OneProcess == [c \in Callers |-> p1]

=============================================================================
