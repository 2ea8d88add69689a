---------------------------- MODULE Generations ----------------------------
(***************************************************************************)
(* What `vibe up` promises about a project's containers, without journal,  *)
(* parked containers or recovery: at every moment one generation is in     *)
(* charge of each name, an Up puts a whole candidate in charge in a single *)
(* step or changes nothing, and otherwise containers are only lost: to     *)
(* `vibe down`, or to somebody else's hands.                               *)
(***************************************************************************)
CONSTANTS Names, Ids, Cands, Desired

VARIABLE gen    \* [Names -> sets of holders]: who is in charge of a name

Holder == [id : Ids, cand : Cands]

AtMostOne(S) == \A h, k \in S : h = k

Init == gen \in [Names -> SUBSET Holder] /\ \A n \in Names : AtMostOne(gen[n])

(* An Up of candidate c commits; names c does not use keep their holder.   *)
Commit(c) ==
    /\ gen' \in [Names -> SUBSET Holder]
    /\ \A n \in Desired[c] : AtMostOne(gen'[n]) /\ \A h \in gen'[n] : h.cand = c
    /\ \A n \in Names \ Desired[c] : gen'[n] = gen[n]

Lose(n) == gen' = [gen EXCEPT ![n] = {}]

Next == (\E c \in Cands : Commit(c)) \/ (\E n \in Names : Lose(n))

Spec == Init /\ [][Next]_gen

=============================================================================
