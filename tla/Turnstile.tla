----------------------------- MODULE Turnstile -----------------------------
(***************************************************************************)
(* What one lock name promises its callers, whatever processes they live   *)
(* in: a readers-writer lock behind a turnstile.  A caller stands in line, *)
(* alone takes the turn, and only with the turn may go inside; so nobody   *)
(* who came later goes inside while the caller with the turn waits for the *)
(* lock to drain.                                                          *)
(***************************************************************************)
CONSTANT Callers

VARIABLES line,     \* callers waiting for the turn
          turn,     \* the caller whose turn it is, if any
          inside,   \* callers that hold the lock
          how       \* [Callers -> "shared", "exclusive", or "none" at rest]

vars == <<line, turn, inside, how>>

Init == line = {} /\ turn = {} /\ inside = {} /\ how = [c \in Callers |-> "none"]

Rest(S) == [c \in Callers |-> IF c \in S THEN "none" ELSE how[c]]

Arrive(c) ==
    /\ how[c] = "none"
    /\ \E h \in {"shared", "exclusive"} : how' = [how EXCEPT ![c] = h]
    /\ line' = line \cup {c} /\ UNCHANGED <<turn, inside>>

TakeTurn(c) ==
    /\ c \in line /\ turn = {}
    /\ line' = line \ {c} /\ turn' = {c} /\ UNCHANGED <<inside, how>>

Enter(c) ==
    /\ c \in turn
    /\ \A d \in inside : how[c] = "shared" /\ how[d] = "shared"
    /\ inside' = inside \cup {c} /\ UNCHANGED <<line, turn, how>>

(* The turn goes back, and so does a caller who did not get in.            *)
PassOn(c) ==
    /\ c \in turn /\ turn' = {}
    /\ how' = (IF c \in inside THEN how ELSE Rest({c}))
    /\ UNCHANGED <<line, inside>>

(* Callers go: out of the line, out of the lock, or with their process.    *)
Go(S) ==
    /\ line' = line \ S /\ turn' = turn \ S /\ inside' = inside \ S
    /\ how' = Rest(S)

Next ==
    \/ \E c \in Callers : Arrive(c) \/ TakeTurn(c) \/ Enter(c) \/ PassOn(c)
    \/ \E S \in SUBSET Callers : Go(S)

Spec == Init /\ [][Next]_vars

=============================================================================
