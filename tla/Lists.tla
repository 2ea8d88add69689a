-------------------------------- MODULE Lists ------------------------------
(* Sequences as the models use them: lists, and the filtering of a list.   *)
EXTENDS Naturals, Sequences, SequencesExt

IsList(s) == s \in Seq(ToSet(s))

(* The elements of s that are in S, in their order: a function that is     *)
(* defined along the list, so that it can be reasoned about.               *)
Only(s, S) ==
    LET kept[i \in 0 .. Len(s)] ==
            IF i = 0 THEN <<>>
            ELSE IF s[i] \in S THEN Append(kept[i - 1], s[i]) ELSE kept[i - 1]
    IN  kept[Len(s)]
=============================================================================
