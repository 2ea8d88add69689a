---------------------------- MODULE MCDeployment ---------------------------
(* Small instances of Deployment for TLC.                                  *)
EXTENDS Deployment, TLC

CONSTANTS d1, d2, s1, s2

(* Each candidate froze inputs of its own, or both the same ones.          *)
EachItsOwn == (d1 :> s1) @@ (d2 :> s2)
OneForAll  == [d \in Cands |-> s1]

(* Processes and contents are interchangeable, and with EachItsOwn so are  *)
(* the candidates together with their snapshots.                           *)
Same == [x \in {d1, d2, s1, s2} |-> x]
Swap == (d1 :> d2) @@ (d2 :> d1) @@ (s1 :> s2) @@ (s2 :> s1)

Symmetry ==
    {f @@ g @@ h : f \in Permutations(Procs), g \in Permutations(Contents),
                   h \in {Same, Swap}}
=============================================================================
