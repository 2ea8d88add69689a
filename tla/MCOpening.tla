------------------------------ MODULE MCOpening ----------------------------
(* Small instances of Opening for TLC.                                     *)
EXTENDS Opening, TLC

CONSTANTS d1, d2, s1, s2

EachItsOwn == (d1 :> s1) @@ (d2 :> s2)
=============================================================================
