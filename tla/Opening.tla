------------------------------- MODULE Opening -----------------------------
(***************************************************************************)
(* Deployment, and the UI beside it: `vibe tui' and a click on a cold row  *)
(* of the sidebar start the approved candidate.  Such an open asks Docker  *)
(* what runs before it takes the project lock, moves no pointer, and holds *)
(* store-global at no time; without an approved candidate it is an up.     *)
(***************************************************************************)
EXTENDS Deployment

(* The record is read once, and names the candidate.                       *)
Open(p) ==
    /\ At(p, "idle") /\ Registered /\ rec.approved # None
    /\ started < MaxOps /\ started' = started + 1
    /\ Go(p, "open")
    /\ op' = [op EXCEPT ![p] = "open"] /\ cand' = [cand EXCEPT ![p] = rec.approved]
    /\ UNCHANGED <<disk, docker, asked, locks, rev, req, listing, roots, history>>

LoadApproved(p) ==
    /\ At(p, "open")
    /\ IF cand[p] \in stored \cap recs
       THEN /\ Goto(p, "status") /\ leases' = [leases EXCEPT ![p] = {cand[p]}]
            /\ UNCHANGED <<disk, docker, outside, shared, exclusive, project, listing,
                           roots, history>>
       ELSE GiveUp(p)

(* Running on another candidate refuses, running on this one is the end.   *)
Inspect(p) ==
    /\ At(p, "status")
    /\ IF running = None
       THEN /\ Goto(p, "project")
            /\ UNCHANGED <<disk, docker, outside, locks, listing, roots, history>>
       ELSE GiveUp(p)

(* A Status that fails is passed over.                                     *)
InspectFails(p) ==
    /\ At(p, "status") /\ Goto(p, "project")
    /\ UNCHANGED <<disk, docker, outside, locks, listing, roots, history>>

(* runtime.Up has been asked for cand[p], whatever runs by now.            *)
CommitOpened(p) ==
    /\ At(p, "commit") /\ Leave(p)
    /\ running' = cand[p] /\ live' = {cand[p]}
    /\ UNCHANGED <<disk, outside, history>>

ContinueOpen(p) ==
    \/ LoadApproved(p) \/ Inspect(p) \/ InspectFails(p)
    \/ TakeProject(p) \/ Sweep(p) \/ Lease(p) \/ Stage(p)
    \/ CommitOpened(p) \/ FailGeneration(p)

OpeningNext ==
    \/ \E p \in Procs :
          \/ Begin(p) \/ Open(p) \/ Abort(p)
          \/ op[p] # "open" /\ Continue(p)
          \/ op[p] = "open" /\ ContinueOpen(p)
    \/ \E r \in Requests, c \in Contents : Ask(r, c)
    \/ Repin

OpeningSpec == Init /\ [][OpeningNext]_vars

----------------------------------------------------------------------------
(* app/tui.go:411-413 says: "a running container on a DIFFERENT candidate  *)
(* is live work a UI open must never destroy".  An open that asked whether *)
(* something runs replaces nothing that was started since.                 *)
LiveWorkKept ==
    [][\A p \in Procs :
          op[p] = "open" /\ At(p, "commit") /\ running' # running => running = None]_vars
=============================================================================
