--------------------------- MODULE MCReplacement ---------------------------
(* Small instances of Replacement for TLC.                                 *)
EXTENDS Replacement, TLC

CONSTANTS c1, c2

(* Two candidates over the same names.                                     *)
SamePlan == [c \in Cands |-> 1 .. Size]

(* c2 drops the service; c1 keeps it.                                      *)
DropsService == (c1 :> {1, 2}) @@ (c2 :> {2})

=============================================================================
