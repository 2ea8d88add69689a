------------------------------- MODULE Shelf -------------------------------
(***************************************************************************)
(* What the object store promises its users: an object is there or it is   *)
(* not, a user may hold one that is there, and what is held does not go.   *)
(* ObjectStore implements it with directories, flocks and renames.         *)
(***************************************************************************)
CONSTANTS Users, Digests

VARIABLES objects, held

Init == objects = {} /\ held = {}

Put(d)     == objects' = objects \cup {d} /\ UNCHANGED held
Drop(d)    == /\ \A u \in Users : <<u, d>> \notin held
              /\ objects' = objects \ {d} /\ UNCHANGED held
Hold(u, d) == /\ d \in objects
              /\ held' = held \cup {<<u, d>>} /\ UNCHANGED objects
LetGo(u)   == held' = {h \in held : h[1] # u} /\ UNCHANGED objects

Next ==
    \/ \E d \in Digests : Put(d) \/ Drop(d)
    \/ \E u \in Users : LetGo(u) \/ \E d \in Digests : Hold(u, d)

Spec == Init /\ [][Next]_<<objects, held>>
=============================================================================
