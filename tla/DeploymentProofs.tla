-------------------------- MODULE DeploymentProofs -------------------------
(***************************************************************************)
(* Theorems about Deployment, for every set of processes and candidates    *)
(* and every bound: comparing the revision read at the start when the      *)
(* pointer moves keeps a success from hiding that the containers are       *)
(* another operation's; an answer that says approved comes after the       *)
(* pointer has moved; and the state is well-typed.                         *)
(***************************************************************************)
EXTENDS Deployment, TLAPS

(* Where only an operation that has read the project's record can be.      *)
Late == {"shared", "snapshot", "candidate", "record", "project", "sweep", "lease",
         "stage", "commit", "point", "raws", "known", "results", "adopt", "bind",
         "match", "load", "result", "clear", "teardown", "delete"}

Shape ==
    /\ pc \in [Procs -> PC]
    /\ rev \in [Procs -> Nat]
    /\ DOMAIN cand = Procs
    /\ DOMAIN rec = {"status", "rev", "approved"} /\ rec.rev \in Nat
    /\ debtor \in Procs \cup {None, "failed"}

(* Nobody has read a revision that is yet to come.                         *)
NotAhead == \A q \in Procs : rev[q] <= rec.rev

BeforeRegistration ==
    rec.status = "new" =>
        running = None /\ rec.rev = 0 /\ \A q \in Procs : pc[q] \notin Late

(* The debtor stands before its update, and no other candidate runs.       *)
Debt ==
    debtor \in Procs => pc[debtor] = "point" /\ running \in {None, cand[debtor]}

(* Once the latest commit has its pointer, every other update is refused.  *)
Stale ==
    debtor = None => \A q \in Procs : pc[q] = "point" => rev[q] < rec.rev

PointerInv ==
    Shape /\ NotAhead /\ BeforeRegistration /\ Debt /\ Stale /\ MismatchIsReported

(* A step of p that changes neither the record nor the generation, and     *)
(* neither comes from nor leads to an update.                              *)
Quiet(p) ==
    /\ pc[p] # "point"
    /\ \E l \in PC \ {"point"} :
          /\ pc' = [pc EXCEPT ![p] = l]
          /\ l \in Late => pc[p] \in Late \/ Registered
    /\ \E v \in {rev[p], rec.rev, 0} : rev' = [rev EXCEPT ![p] = v]
    /\ DOMAIN cand' = DOMAIN cand
    /\ \A q \in Procs \ {p} : cand'[q] = cand[q]
    /\ UNCHANGED <<rec, running, debtor>>

LEMMA QuietKeeps ==
    ASSUME NEW p \in Procs, PointerInv, Quiet(p)
    PROVE  PointerInv'
<1>1. PICK l \in PC \ {"point"} :
          pc' = [pc EXCEPT ![p] = l] /\ (l \in Late => pc[p] \in Late \/ Registered)
  BY DEF Quiet
<1>2. PICK v \in {rev[p], rec.rev, 0} : rev' = [rev EXCEPT ![p] = v]
  BY DEF Quiet
<1>3. UNCHANGED <<rec, running, debtor>> /\ pc[p] # "point" /\ DOMAIN cand' = Procs
  BY DEF Quiet, PointerInv, Shape
<1>4. v \in Nat /\ v <= rec.rev
  BY <1>2 DEF PointerInv, Shape, NotAhead
<1>5. Shape'
  BY <1>1, <1>2, <1>3, <1>4 DEF PointerInv, Shape
<1>6. NotAhead'
  BY <1>2, <1>3, <1>4 DEF PointerInv, Shape, NotAhead
<1>7. BeforeRegistration'
  BY <1>1, <1>3 DEF PointerInv, Shape, BeforeRegistration, Registered
<1>8. Debt'
  BY <1>1, <1>3 DEF PointerInv, Shape, Debt, Quiet
<1>9. Stale'
  BY <1>1, <1>2, <1>3 DEF PointerInv, Shape, Stale
<1>10. MismatchIsReported'
  BY <1>3 DEF PointerInv, MismatchIsReported, Registered
<1> QED
  BY <1>5, <1>6, <1>7, <1>8, <1>9, <1>10 DEF PointerInv

----------------------------------------------------------------------------
(* Most actions are quiet.                                                 *)

LEMMA StartsQuietly ==
    ASSUME NEW p \in Procs, PointerInv,
           NEW o, NEW l \in PC \ {"point"}, Start(p, o, l)
    PROVE  Quiet(p)
BY DEF Start, Quiet, At, Go, history, docker, disk, PointerInv, Shape

LEMMA GoesQuietly ==
    ASSUME NEW p \in Procs, PointerInv, pc[p] # "point",
           NEW l \in PC \ {"point"}, l \in Late => pc[p] \in Late, Go(p, l),
           DOMAIN cand' = DOMAIN cand,
           \A q \in Procs \ {p} : cand'[q] = cand[q],
           UNCHANGED <<rev, rec, running, debtor>>
    PROVE  Quiet(p)
<1>1. rev' = [rev EXCEPT ![p] = rev[p]]
  BY DEF PointerInv, Shape
<1> QED
  BY <1>1 DEF Go, Quiet

LEMMA LeavesQuietly ==
    ASSUME NEW p \in Procs, PointerInv, pc[p] # "point", Leave(p),
           UNCHANGED <<rec, running, debtor>>
    PROVE  Quiet(p)
<1>1. "idle" \in PC \ {"point"} /\ "idle" \notin Late
  BY DEF PC, Late
<1>2. DOMAIN cand' = DOMAIN cand /\ \A q \in Procs \ {p} : cand'[q] = cand[q]
  BY DEF Leave, PointerInv, Shape
<1> QED
  BY <1>1, <1>2 DEF Leave, Quiet

LEMMA BeginsQuietly ==
    ASSUME NEW p \in Procs, PointerInv, Begin(p), ~Register(p)
    PROVE  Quiet(p)
<1>1. CASE GC(p)
  <2>1. {"idle", "exclusive"} \subseteq PC \ {"point"} /\ "exclusive" \notin Late
    BY DEF PC, Late
  <2> QED
    BY <1>1, <2>1, GoesQuietly DEF GC, At, disk, docker, history
<1>2. CASE Up(p) \/ List(p) \/ Approve(p) \/ Reject(p) \/ Down(p) \/ Forget(p)
  <2>1. {"shared", "raws", "match", "project", "delete"} \subseteq PC \ {"point"}
    BY DEF PC
  <2> QED
    BY <1>2, <2>1, StartsQuietly DEF Up, List, Approve, Reject, Down, Forget
<1> QED
  BY <1>1, <1>2 DEF Begin

(* The steps from one place to the next that touch neither the record nor  *)
(* the generation in charge: locks, candidates, requests.                  *)
Routine(p) ==
    \/ TakeShared(p) \/ TakeProject(p)
    \/ \E d \in Cands : PublishSnapshot(p, d)
    \/ PublishCandidate(p) \/ WriteRecord(p) \/ Lease(p) \/ Stage(p)
    \/ ReadRequests(p) \/ ReadPending(p) \/ ReadResults(p)
    \/ \E r \in Requests : Adopt(p, r) \/ Match(p, r)
    \/ SkipRequest(p) \/ WritePending(p) \/ Load(p) \/ WriteResult(p)

(* The same of a collection.                                               *)
Collecting(p) ==
    \/ TakeExclusive(p) \/ ListContainers(p) \/ ListRecords(p) \/ ListPending(p)
    \/ \E o \in Objects : Remove(p, o)
    \/ RemoveRecord(p) \/ NextPhase(p) \/ RemoveOrphans(p)

LEMMA RoutineQuiet ==
    ASSUME NEW p \in Procs, PointerInv, Routine(p)
    PROVE  Quiet(p)
<1> USE DEF At, Goto
<1>1. UNCHANGED <<rec, running, debtor, rev>>
  BY DEF Routine, NextRequest, TakeShared, TakeProject, PublishSnapshot, PublishCandidate,
     WriteRecord, Lease, Stage, ReadRequests, ReadPending, ReadResults, Adopt, Match,
     SkipRequest, WritePending, Load, WriteResult, disk, docker, history
<1>2. DOMAIN cand' = DOMAIN cand /\ \A q \in Procs \ {p} : cand'[q] = cand[q]
  BY DEF Routine, NextRequest, TakeShared, TakeProject, PublishSnapshot, PublishCandidate,
     WriteRecord, Lease, Stage, ReadRequests, ReadPending, ReadResults, Adopt, Match,
     SkipRequest, WritePending, Load, WriteResult, PointerInv, Shape
<1>3. pc[p] \in Late \ {"point"}
  BY DEF Routine, Late, TakeShared, TakeProject, PublishSnapshot, PublishCandidate,
     WriteRecord, Lease, Stage, ReadRequests, ReadPending, ReadResults, Adopt, Match,
     SkipRequest, WritePending, Load, WriteResult
<1>4. \E l \in Late \ {"point"} : Go(p, l)
  BY DEF Routine, Late, NextRequest, TakeShared, TakeProject, PublishSnapshot,
     PublishCandidate, WriteRecord, Lease, Stage, ReadRequests, ReadPending, ReadResults,
     Adopt, Match, SkipRequest, WritePending, Load, WriteResult
<1>5. Late \subseteq PC
  BY DEF Late, PC
<1> QED
  BY <1>1, <1>2, <1>3, <1>4, <1>5, GoesQuietly

LEMMA CollectingQuiet ==
    ASSUME NEW p \in Procs, PointerInv, Collecting(p)
    PROVE  Quiet(p)
<1> DEFINE Places == {"exclusive", "containers", "records", "pending", "snapshots",
                      "cands", "unrecord", "snaps", "orphans", "state"}
<1> USE DEF At, Goto
<1>1. UNCHANGED <<rec, running, debtor, rev>>
  BY DEF Collecting, TakeExclusive, ListContainers, ListRecords, ListPending, Remove,
     RemoveRecord, NextPhase, RemoveOrphans, disk, docker, history
<1>2. DOMAIN cand' = DOMAIN cand /\ \A q \in Procs \ {p} : cand'[q] = cand[q]
  BY DEF Collecting, TakeExclusive, ListContainers, ListRecords, ListPending, Remove,
     RemoveRecord, NextPhase, RemoveOrphans, PointerInv, Shape
<1>3. pc[p] \in Places
  BY DEF Collecting, TakeExclusive, ListContainers, ListRecords, ListPending, Remove,
     RemoveRecord, NextPhase, RemoveOrphans
<1>4. \E l \in Places : Go(p, l)
  BY <1>3 DEF Collecting, TakeExclusive, ListContainers, ListRecords, ListPending, Remove,
     RemoveRecord, NextPhase, RemoveOrphans, Go, PointerInv, Shape
<1>5. Places \subseteq PC \ {"point"} /\ Places \cap Late = {} /\ "point" \notin Places
  BY DEF Late, PC
<1> HIDE DEF Places
<1> QED
  BY <1>1, <1>2, <1>3, <1>4, <1>5, GoesQuietly

(* The ends of an operation that leave the debtor alone.                   *)
LEMMA EndsQuietly ==
    ASSUME NEW p \in Procs, PointerInv,
           DeletePending(p) \/ RemoveState(p)
    PROVE  Quiet(p)
BY LeavesQuietly DEF DeletePending, RemoveState, At, docker, history

(* Looking around, these two either go on or give up.                      *)
LEMMA LooksQuietly ==
    ASSUME NEW p \in Procs, PointerInv, Sweep(p) \/ ListSnapshots(p)
    PROVE  Quiet(p)
<1>1. /\ pc[p] \in {"sweep", "snapshots"} /\ UNCHANGED <<rec, running, debtor>>
  BY DEF Sweep, ListSnapshots, At, disk, docker, history
<1>2. CASE Leave(p)
  BY <1>1, <1>2, LeavesQuietly
<1>3. CASE \E l \in {"lease", "cands"} : Goto(p, l) /\ (l = "lease" => pc[p] = "sweep")
  <2>1. {"lease", "cands"} \subseteq PC \ {"point"} /\ {"lease", "sweep"} \subseteq Late
        /\ "cands" \notin Late
    BY DEF PC, Late
  <2>2. PICK l \in {"lease", "cands"} : Goto(p, l) /\ (l = "lease" => pc[p] = "sweep")
    BY <1>3
  <2>3. Go(p, l) /\ UNCHANGED <<rev, cand>>
    BY <2>2 DEF Goto
  <2> QED
    BY <1>1, <2>1, <2>2, <2>3, GoesQuietly
<1> QED
  BY <1>2, <1>3 DEF Sweep, ListSnapshots, At

----------------------------------------------------------------------------
(* The steps that end or change a generation, a record or a debt.          *)

(* Whoever gives up before its update leaves a failed debtor.              *)
LEMMA GivesUp ==
    ASSUME NEW p \in Procs, PointerInv, GiveUp(p)
    PROVE  PointerInv'
<1>1. "idle" \in PC \ {"point"} /\ "idle" \notin Late
  BY DEF PC, Late
<1>2. UNCHANGED <<rec, running>>
  BY DEF GiveUp, disk, docker
<1>3. /\ pc' = [pc EXCEPT ![p] = "idle"] /\ rev' = [rev EXCEPT ![p] = 0]
      /\ cand' = [cand EXCEPT ![p] = None]
      /\ debtor' = IF debtor = p THEN "failed" ELSE debtor
  BY DEF GiveUp, Leave, Blame
<1>4. "failed" \notin Procs \cup {None}
  BY ObjectsAssumption
<1>5. Shape' /\ NotAhead'
  BY <1>1, <1>2, <1>3 DEF PointerInv, Shape, NotAhead
<1>6. BeforeRegistration'
  BY <1>1, <1>2, <1>3 DEF PointerInv, Shape, BeforeRegistration
<1>7. Debt'
  BY <1>2, <1>3, <1>4 DEF PointerInv, Shape, Debt
<1>8. Stale'
  BY <1>2, <1>3, <1>4 DEF PointerInv, Shape, Stale
<1>9. MismatchIsReported'
  BY <1>2, <1>3, <1>4 DEF PointerInv, MismatchIsReported, Registered
<1> QED
  BY <1>5, <1>6, <1>7, <1>8, <1>9 DEF PointerInv

LEMMA Registers ==
    ASSUME NEW p \in Procs, PointerInv, Register(p)
    PROVE  PointerInv'
<1>1. rec.status = "new" /\ rec' = [rec EXCEPT !.status = "live", !.rev = 1]
      /\ UNCHANGED <<running, debtor, pc, rev, cand>>
  BY DEF Register, docker, history, locals
<1>2. running = None /\ rec.rev = 0 /\ rec'.rev = 1 /\ rec'.status = "live"
      /\ \A q \in Procs : pc[q] \notin Late
  BY <1>1 DEF PointerInv, Shape, BeforeRegistration
<1> QED
  BY <1>1, <1>2 DEF PointerInv, Shape, NotAhead, BeforeRegistration, Debt, Stale,
     MismatchIsReported, Late

(* A revision that moves on makes nobody's revision current.               *)
LEMMA Repins ==
    ASSUME PointerInv, Repin
    PROVE  PointerInv'
<1>1. Registered /\ rec' = [rec EXCEPT !.rev = @ + 1]
      /\ UNCHANGED <<running, debtor, pc, rev, cand>>
  BY DEF Repin, docker, history, locals
<1>2. rec'.rev = rec.rev + 1 /\ rec'.status = "live" /\ rec'.approved = rec.approved
      /\ rec.status = "live"
  BY <1>1 DEF PointerInv, Shape, Registered
<1>3. Shape' /\ NotAhead' /\ BeforeRegistration' /\ Debt' /\ Stale'
  BY <1>1, <1>2 DEF PointerInv, Shape, NotAhead, BeforeRegistration, Debt, Stale
<1> QED
  BY <1>1, <1>2, <1>3 DEF PointerInv, MismatchIsReported, Registered

LEMMA Deletes ==
    ASSUME NEW p \in Procs, PointerInv, Delete(p)
    PROVE  PointerInv'
<1>1. "idle" \in PC \ {"point"} /\ "idle" \notin Late
  BY DEF PC, Late
<1>2. /\ pc[p] = "delete" /\ rec' = [rec EXCEPT !.status = "gone", !.approved = None]
      /\ pc' = [pc EXCEPT ![p] = "idle"] /\ rev' = [rev EXCEPT ![p] = 0]
      /\ cand' = [cand EXCEPT ![p] = None] /\ UNCHANGED <<running, debtor>>
  BY DEF Delete, Leave, At, docker, history
<1>3. rec'.rev = rec.rev /\ rec'.status = "gone"
  BY <1>2 DEF PointerInv, Shape
<1>4. Shape' /\ NotAhead' /\ BeforeRegistration'
  BY <1>1, <1>2, <1>3 DEF PointerInv, Shape, NotAhead, BeforeRegistration
<1>5. Debt' /\ Stale' /\ MismatchIsReported'
  BY <1>1, <1>2, <1>3 DEF PointerInv, Shape, Debt, Stale, MismatchIsReported, Registered
<1> QED
  BY <1>4, <1>5 DEF PointerInv

(* A commit makes its operation the debtor.                                *)
LEMMA Commits ==
    ASSUME NEW p \in Procs, PointerInv, CommitGeneration(p)
    PROVE  PointerInv'
<1>1. "commit" \in Late /\ "point" \in PC /\ None \notin Procs
  BY ObjectsAssumption DEF PC, Late
<1>2. /\ pc[p] = "commit" /\ pc' = [pc EXCEPT ![p] = "point"]
      /\ running' = cand[p] /\ debtor' = p /\ UNCHANGED <<rec, rev, cand>>
  BY DEF CommitGeneration, Goto, Go, At, disk
<1>3. rec.status # "new"
  BY <1>1, <1>2 DEF PointerInv, BeforeRegistration
<1> QED
  BY <1>1, <1>2, <1>3 DEF PointerInv, Shape, NotAhead, BeforeRegistration, Debt, Stale,
     MismatchIsReported

(* A commit that took effect and failed is reported.                       *)
LEMMA Fails ==
    ASSUME NEW p \in Procs, PointerInv, FailGeneration(p)
    PROVE  PointerInv'
<1>1. pc[p] = "commit" /\ Leave(p) /\ UNCHANGED rec
  BY DEF FailGeneration, At, disk
<1>2. CASE UNCHANGED <<running, debtor>>
  BY <1>1, <1>2, LeavesQuietly, QuietKeeps
<1>3. CASE running' = cand[p] /\ debtor' = "failed"
  <2>1. "commit" \in Late /\ "idle" \in PC /\ "idle" \notin Late
        /\ "failed" \notin Procs \cup {None}
    BY ObjectsAssumption DEF PC, Late
  <2>2. /\ pc' = [pc EXCEPT ![p] = "idle"] /\ rev' = [rev EXCEPT ![p] = 0]
        /\ cand' = [cand EXCEPT ![p] = None]
    BY <1>1 DEF Leave
  <2>3. rec.status # "new"
    BY <1>1, <2>1 DEF PointerInv, BeforeRegistration
  <2> QED
    BY <1>1, <1>3, <2>1, <2>2, <2>3 DEF PointerInv, Shape, NotAhead, BeforeRegistration,
       Debt, Stale, MismatchIsReported
<1> QED
  BY <1>2, <1>3 DEF FailGeneration

(* With nothing running there is no mismatch.                              *)
LEMMA TearsDown ==
    ASSUME NEW p \in Procs, PointerInv, Teardown(p)
    PROVE  PointerInv'
<1>1. "idle" \in PC \ {"point"} /\ "idle" \notin Late
  BY DEF PC, Late
<1>2. /\ pc[p] = "teardown" /\ running' = None /\ UNCHANGED <<rec, debtor>>
      /\ pc' = [pc EXCEPT ![p] = "idle"] /\ rev' = [rev EXCEPT ![p] = 0]
      /\ cand' = [cand EXCEPT ![p] = None]
  BY DEF Teardown, Leave, At, disk, history
<1>3. Shape' /\ NotAhead' /\ BeforeRegistration'
  BY <1>1, <1>2 DEF PointerInv, Shape, NotAhead, BeforeRegistration
<1>4. Debt' /\ Stale' /\ MismatchIsReported'
  BY <1>1, <1>2 DEF PointerInv, Shape, Debt, Stale, MismatchIsReported
<1> QED
  BY <1>3, <1>4 DEF PointerInv

(* An update that is let through is the debtor's, or the debt has already  *)
(* been laid on a failure.                                                 *)
LEMMA Points ==
    ASSUME NEW p \in Procs, PointerInv, Point(p)
    PROVE  PointerInv'
<1>1. {"idle", "result"} \subseteq PC \ {"point"} /\ {"point", "result"} \subseteq Late
      /\ "idle" \notin Late
  BY DEF PC, Late
<1>2. /\ pc[p] = "point" /\ rec.status = "live" /\ rec.rev = rev[p]
      /\ rec' = [rec EXCEPT !.rev = @ + 1, !.approved = cand[p]]
      /\ debtor' = (IF debtor = p THEN None ELSE debtor)
      /\ UNCHANGED running
  BY DEF Point, At, Current, Registered, Move, docker
<1>3. PICK l \in {"idle", "result"}, v \in {0, rev[p]} :
          /\ pc' = [pc EXCEPT ![p] = l] /\ rev' = [rev EXCEPT ![p] = v]
          /\ DOMAIN cand' = Procs /\ \A q \in Procs \ {p} : cand'[q] = cand[q]
  <2>1. CASE Leave(p)
    BY <2>1 DEF Leave, PointerInv, Shape
  <2>2. CASE Goto(p, "result")
    <3>1. rev' = [rev EXCEPT ![p] = rev[p]]
      BY <2>2 DEF Goto, PointerInv, Shape
    <3> QED
      BY <2>2, <3>1 DEF Goto, Go, PointerInv, Shape
  <2> QED
    BY <2>1, <2>2 DEF Point, AfterUpdate
<1>4. /\ rec'.rev = rec.rev + 1 /\ rec'.status = "live" /\ rec'.approved = cand[p]
      /\ DOMAIN rec' = DOMAIN rec
  BY <1>2 DEF PointerInv, Shape
<1>5. debtor # None
  BY <1>2 DEF PointerInv, Shape, Stale
<1>6. Shape'
  BY <1>1, <1>2, <1>3, <1>4 DEF PointerInv, Shape
<1>7. NotAhead' /\ Stale'
  BY <1>1, <1>2, <1>3, <1>4 DEF PointerInv, Shape, NotAhead, Stale
<1>8. BeforeRegistration'
  BY <1>4 DEF BeforeRegistration
<1>9. Debt'
  BY <1>2, <1>3, ObjectsAssumption DEF PointerInv, Shape, Debt
<1>10. MismatchIsReported'
  BY <1>2, <1>4, <1>5 DEF PointerInv, Debt, MismatchIsReported
<1> QED
  BY <1>6, <1>7, <1>8, <1>9, <1>10 DEF PointerInv

LEMMA ContinueKeeps ==
    ASSUME NEW p \in Procs, PointerInv, Continue(p)
    PROVE  PointerInv'
<1>1. CASE Routine(p) \/ Collecting(p)
  BY <1>1, RoutineQuiet, CollectingQuiet, QuietKeeps
<1>2. CASE DeletePending(p) \/ RemoveState(p) \/ Sweep(p) \/ ListSnapshots(p)
  BY <1>2, EndsQuietly, LooksQuietly, QuietKeeps
<1>3. CASE Conflict(p) \/ Listed(p) \/ NoMatch(p) \/ NotFound(p)
  BY <1>3, GivesUp DEF Conflict, Listed, NoMatch, NotFound
<1>4. CASE CommitGeneration(p) \/ FailGeneration(p) \/ Teardown(p)
  BY <1>4, Commits, Fails, TearsDown
<1>5. CASE Point(p) \/ Delete(p)
  BY <1>5, Points, Deletes
<1> QED
  BY <1>1, <1>2, <1>3, <1>4, <1>5 DEF Continue, Routine, Collecting

LEMMA NextKeeps ==
    ASSUME PointerInv, [Next]_vars
    PROVE  PointerInv'
<1>1. ASSUME NEW p \in Procs, Begin(p)
      PROVE  PointerInv'
  BY <1>1, BeginsQuietly, QuietKeeps, Registers
<1>2. ASSUME NEW p \in Procs, Continue(p)
      PROVE  PointerInv'
  BY <1>2, ContinueKeeps
<1>3. ASSUME NEW p \in Procs, Abort(p)
      PROVE  PointerInv'
  BY <1>3, GivesUp DEF Abort
<1>4. CASE Repin
  BY <1>4, Repins
<1>5. CASE UNCHANGED <<rec, running, debtor, pc, rev, cand>>
  BY <1>5 DEF PointerInv, Shape, NotAhead, BeforeRegistration, Debt, Stale,
     MismatchIsReported, Registered
<1>6. ASSUME NEW r \in Requests, NEW c \in Contents, Ask(r, c)
      PROVE  PointerInv'
  BY <1>5, <1>6 DEF Ask, disk, docker, locals, history
<1>7. CASE UNCHANGED vars
  BY <1>5, <1>7 DEF vars, disk, docker, locals, history
<1> QED
  BY <1>1, <1>2, <1>3, <1>4, <1>6, <1>7 DEF Next

LEMMA InitKeeps == Init => PointerInv
BY ObjectsAssumption DEF Init, PointerInv, Shape, NotAhead, BeforeRegistration, Debt, Stale,
   MismatchIsReported, Registered, PC, Late

(* Whatever processes run whatever operations, wherever they fail: when a  *)
(* registered project's containers are of another candidate than its       *)
(* record names, the operation that started them is about to move the      *)
(* pointer or has failed for its caller (the compare and swap on the       *)
(* revision in Registry.Update, read before runtime.Up).                   *)
THEOREM PointerTheorem == Spec => []MismatchIsReported
<1>1. PointerInv => MismatchIsReported
  BY DEF PointerInv
<1> QED
  BY <1>1, InitKeeps, NextKeeps, PTL DEF Spec

----------------------------------------------------------------------------
(* Approved means applied.                                                 *)

(* An approval that is about to answer has moved the pointer.              *)
AnswerInv ==
    /\ pc \in [Procs -> PC] /\ DOMAIN op = Procs /\ DOMAIN cand = Procs
    /\ DOMAIN results = Requests
    /\ \A q \in Procs : pc[q] = "result" /\ op[q] = "approve" => cand[q] \in pointed
    /\ ApprovedWasApplied

(* A step of p that answers nothing and does not come to answer, unless    *)
(* for a rejection or after the pointer has moved.                         *)
Silent(p) ==
    /\ \E l \in PC : pc' = [pc EXCEPT ![p] = l]
    /\ DOMAIN op' = Procs /\ DOMAIN cand' = Procs
    /\ \A q \in Procs \ {p} : op'[q] = op[q] /\ cand'[q] = cand[q]
    /\ pc'[p] = "result" /\ op'[p] = "approve" => cand'[p] \in pointed'
    /\ pointed \subseteq pointed' /\ UNCHANGED results

LEMMA SilentKeeps ==
    ASSUME NEW p \in Procs, AnswerInv, Silent(p)
    PROVE  AnswerInv'
BY DEF AnswerInv, Silent, ApprovedWasApplied

LEMMA LeavesSilently ==
    ASSUME NEW p \in Procs, AnswerInv, Leave(p), UNCHANGED <<results, pointed>>
    PROVE  Silent(p)
<1>1. "idle" \in PC
  BY DEF PC
<1> QED
  BY <1>1 DEF Leave, Silent, AnswerInv

LEMMA GoesSilently ==
    ASSUME NEW p \in Procs, AnswerInv, NEW l \in PC \ {"result"}, Go(p, l),
           DOMAIN op' = Procs, DOMAIN cand' = Procs,
           \A q \in Procs \ {p} : op'[q] = op[q] /\ cand'[q] = cand[q],
           UNCHANGED <<results, pointed>>
    PROVE  Silent(p)
BY DEF Go, Silent, AnswerInv

LEMMA BeginsSilently ==
    ASSUME NEW p \in Procs, AnswerInv, Begin(p), ~Register(p)
    PROVE  Silent(p)
<1>1. {"shared", "raws", "match", "project", "delete", "exclusive"} \subseteq PC \ {"result"}
  BY DEF PC
<1>2. \E l \in {"shared", "raws", "match", "project", "delete", "exclusive"} : Go(p, l)
  BY DEF Begin, Start, Up, List, Approve, Reject, Down, Forget, GC
<1>3. /\ DOMAIN op' = Procs /\ DOMAIN cand' = Procs
      /\ \A q \in Procs \ {p} : op'[q] = op[q] /\ cand'[q] = cand[q]
      /\ UNCHANGED <<results, pointed>>
  BY DEF Begin, Start, Up, List, Approve, Reject, Down, Forget, GC, AnswerInv, disk, history
<1> QED
  BY <1>1, <1>2, <1>3, GoesSilently

(* Match is the one routine step that leads to an answer: a rejection.     *)
LEMMA RoutineSilent ==
    ASSUME NEW p \in Procs, AnswerInv, Routine(p), ~WriteResult(p)
    PROVE  Silent(p)
<1> USE DEF At, Goto
<1>1. /\ DOMAIN op' = Procs /\ DOMAIN cand' = Procs
      /\ \A q \in Procs \ {p} : op'[q] = op[q] /\ cand'[q] = cand[q]
  BY DEF Routine, NextRequest, TakeShared, TakeProject, PublishSnapshot, PublishCandidate,
     WriteRecord, Lease, Stage, ReadRequests, ReadPending, ReadResults, Adopt, Match,
     SkipRequest, WritePending, Load, AnswerInv
<1>2. UNCHANGED <<results, pointed>>
  BY DEF Routine, NextRequest, TakeShared, TakeProject, PublishSnapshot, PublishCandidate,
     WriteRecord, Lease, Stage, ReadRequests, ReadPending, ReadResults, Adopt, Match,
     SkipRequest, WritePending, Load, disk, history
<1>3. \E l \in Late :
          Go(p, l) /\ (l = "result" => op[p] # "approve" /\ UNCHANGED op)
  BY DEF Routine, Late, NextRequest, TakeShared, TakeProject, PublishSnapshot,
     PublishCandidate, WriteRecord, Lease, Stage, ReadRequests, ReadPending, ReadResults,
     Adopt, Match, SkipRequest, WritePending, Load
<1>4. Late \subseteq PC
  BY DEF Late, PC
<1> QED
  BY <1>1, <1>2, <1>3, <1>4 DEF Go, Silent, AnswerInv

LEMMA CollectingSilent ==
    ASSUME NEW p \in Procs, AnswerInv, Collecting(p)
    PROVE  Silent(p)
<1> DEFINE Places == {"exclusive", "containers", "records", "pending", "snapshots",
                      "cands", "unrecord", "snaps", "orphans", "state"}
<1> USE DEF At, Goto
<1>1. UNCHANGED <<results, pointed>>
  BY DEF Collecting, TakeExclusive, ListContainers, ListRecords, ListPending, Remove,
     RemoveRecord, NextPhase, RemoveOrphans, disk, history
<1>2. /\ DOMAIN op' = Procs /\ DOMAIN cand' = Procs
      /\ \A q \in Procs \ {p} : op'[q] = op[q] /\ cand'[q] = cand[q]
  BY DEF Collecting, TakeExclusive, ListContainers, ListRecords, ListPending, Remove,
     RemoveRecord, NextPhase, RemoveOrphans, AnswerInv
<1>3. \E l \in Places : Go(p, l)
  BY DEF Collecting, TakeExclusive, ListContainers, ListRecords, ListPending, Remove,
     RemoveRecord, NextPhase, RemoveOrphans, Go, AnswerInv
<1>4. Places \subseteq PC \ {"result"}
  BY DEF PC
<1> HIDE DEF Places
<1> QED
  BY <1>1, <1>2, <1>3, <1>4, GoesSilently

LEMMA LooksSilently ==
    ASSUME NEW p \in Procs, AnswerInv,
           Sweep(p) \/ ListSnapshots(p) \/ CommitGeneration(p)
    PROVE  Silent(p)
<1>1. UNCHANGED <<results, pointed>>
  BY DEF Sweep, ListSnapshots, CommitGeneration, disk, history
<1>2. CASE Leave(p)
  BY <1>1, <1>2, LeavesSilently
<1>3. CASE \E l \in {"lease", "cands", "point"} : Goto(p, l)
  <2>1. {"lease", "cands", "point"} \subseteq PC \ {"result"}
    BY DEF PC
  <2>2. PICK l \in {"lease", "cands", "point"} : Go(p, l) /\ UNCHANGED <<op, cand>>
    BY <1>3 DEF Goto
  <2> QED
    BY <1>1, <2>1, <2>2, GoesSilently DEF AnswerInv
<1> QED
  BY <1>2, <1>3 DEF Sweep, ListSnapshots, CommitGeneration

LEMMA EndsSilently ==
    ASSUME NEW p \in Procs, AnswerInv,
           \/ GiveUp(p) \/ DeletePending(p) \/ FailGeneration(p)
           \/ Teardown(p) \/ Delete(p)
    PROVE  Silent(p)
BY LeavesSilently DEF GiveUp, DeletePending, FailGeneration, Teardown, Delete, disk, history

(* The pointer goes to the candidate that an approval will answer for.     *)
LEMMA PointsSilently ==
    ASSUME NEW p \in Procs, AnswerInv, Point(p)
    PROVE  Silent(p)
<1>1. pointed' = pointed \cup {cand[p]} /\ UNCHANGED results
  BY DEF Point, Move
<1>2. {"idle", "result"} \subseteq PC
  BY DEF PC
<1>3. CASE Leave(p)
  BY <1>1, <1>2, <1>3 DEF Leave, Silent, AnswerInv
<1>4. CASE Goto(p, "result")
  BY <1>1, <1>2, <1>4 DEF Goto, Go, Silent, AnswerInv
<1> QED
  BY <1>3, <1>4 DEF Point, AfterUpdate

LEMMA AnswersInStep ==
    ASSUME NEW p \in Procs, AnswerInv, WriteResult(p)
    PROVE  AnswerInv'
<1>1. "clear" \in PC
  BY DEF PC
<1>2. /\ pc[p] = "result" /\ pc' = [pc EXCEPT ![p] = "clear"]
      /\ UNCHANGED <<op, cand, pointed>>
  BY DEF WriteResult, At, Goto, Go, history
<1>3. results' = [results EXCEPT ![req[p]] =
          [status |-> IF op[p] = "approve" THEN "approved" ELSE "rejected",
           cand |-> cand[p]]]
  BY DEF WriteResult
<1>4. ApprovedWasApplied'
  <2> SUFFICES ASSUME NEW r \in Requests, results'[r] # None,
                      results'[r].status = "approved"
               PROVE  results'[r].cand \in pointed'
    BY DEF ApprovedWasApplied
  <2>1. CASE r = req[p]
    BY <1>2, <1>3, <2>1 DEF AnswerInv
  <2>2. CASE r # req[p]
    BY <1>2, <1>3, <2>2 DEF AnswerInv, ApprovedWasApplied
  <2> QED
    BY <2>1, <2>2
<1> QED
  BY <1>1, <1>2, <1>3, <1>4 DEF AnswerInv

LEMMA RemovesAnswers ==
    ASSUME NEW p \in Procs, AnswerInv, RemoveState(p)
    PROVE  AnswerInv'
<1>1. Leave(p) /\ UNCHANGED pointed
  BY DEF RemoveState, history
<1>2. CASE UNCHANGED results
  BY <1>1, <1>2, LeavesSilently, SilentKeeps
<1>3. CASE results' = NoFile
  <2>1. "idle" \in PC
    BY DEF PC
  <2> QED
    BY <1>1, <1>3, <2>1 DEF Leave, AnswerInv, ApprovedWasApplied, NoFile
<1> QED
  BY <1>2, <1>3 DEF RemoveState

LEMMA ContinueAnswers ==
    ASSUME NEW p \in Procs, AnswerInv, Continue(p)
    PROVE  AnswerInv'
<1>1. CASE (Routine(p) /\ ~WriteResult(p)) \/ Collecting(p)
  BY <1>1, RoutineSilent, CollectingSilent, SilentKeeps
<1>2. CASE Sweep(p) \/ ListSnapshots(p) \/ CommitGeneration(p) \/ Point(p)
  BY <1>2, LooksSilently, PointsSilently, SilentKeeps
<1>3. CASE \/ Conflict(p) \/ Listed(p) \/ NoMatch(p) \/ NotFound(p)
           \/ DeletePending(p) \/ FailGeneration(p) \/ Teardown(p) \/ Delete(p)
  BY <1>3, EndsSilently, SilentKeeps DEF Conflict, Listed, NoMatch, NotFound
<1>4. CASE WriteResult(p) \/ RemoveState(p)
  BY <1>4, AnswersInStep, RemovesAnswers
<1> QED
  BY <1>1, <1>2, <1>3, <1>4 DEF Continue, Routine, Collecting

LEMMA NextAnswers ==
    ASSUME AnswerInv, [Next]_vars
    PROVE  AnswerInv'
<1>1. CASE UNCHANGED <<pc, op, cand, results, pointed>>
  BY <1>1 DEF AnswerInv, ApprovedWasApplied
<1>2. ASSUME NEW p \in Procs, Begin(p)
      PROVE  AnswerInv'
  <2>1. CASE Register(p)
    BY <1>1, <2>1 DEF Register, locals, history
  <2> QED
    BY <1>2, <2>1, BeginsSilently, SilentKeeps
<1>3. ASSUME NEW p \in Procs, Continue(p)
      PROVE  AnswerInv'
  BY <1>3, ContinueAnswers
<1>4. ASSUME NEW p \in Procs, Abort(p)
      PROVE  AnswerInv'
  BY <1>4, EndsSilently, SilentKeeps DEF Abort
<1>5. ASSUME NEW r \in Requests, NEW c \in Contents, Ask(r, c)
      PROVE  AnswerInv'
  BY <1>1, <1>5 DEF Ask, disk, locals, history
<1>6. CASE Repin \/ UNCHANGED vars
  BY <1>1, <1>6 DEF Repin, vars, disk, locals, history
<1> QED
  BY <1>2, <1>3, <1>4, <1>5, <1>6 DEF Next

LEMMA InitAnswers == Init => AnswerInv
BY DEF Init, AnswerInv, ApprovedWasApplied, NoFile, PC

(* Whatever else runs and wherever operations fail: an agent reads that    *)
(* its request was approved only after the pointer went to the candidate   *)
(* in the answer (RequestDecide writes its result after Registry.Update).  *)
THEOREM AnswerTheorem == Spec => []ApprovedWasApplied
<1>1. AnswerInv => ApprovedWasApplied
  BY DEF AnswerInv
<1> QED
  BY <1>1, InitAnswers, NextAnswers, PTL DEF Spec

-----------------------------------------------------------------------------
(* The state is well-typed.  TypeOK alone is not inductive: that a         *)
(* candidate is in hand where one is published, bound or started, and that *)
(* a revision read by an operation that moves the pointer leaves room for  *)
(* the move, depends on which operation is where.                          *)

(* Which operation is where, and what it has in hand there.                *)
Replacing == {"sweep", "lease", "stage", "commit", "point"}
Preparing == {"snapshot", "candidate", "record"}
Reading   == {"raws", "known", "results"}

Wanted(p) == req[p] \in Requests /\ raws[p][req[p]] \in Contents

Stages(p) ==
    /\ op[p] \in {"up", "approve"} => rev[p] < MaxRev
    /\ pc[p] = "shared" => op[p] \in {"up", "list"}
    /\ pc[p] \in Reading \cup {"adopt", "bind"} => op[p] = "list"
    /\ pc[p] \in Preparing => op[p] = "up" \/ (op[p] = "list" /\ Wanted(p))
    /\ pc[p] \in {"candidate", "record", "bind"} => cand[p] \in Cands
    /\ pc[p] = "bind" => Wanted(p)
    /\ pc[p] = "project" => op[p] \in {"up", "approve", "down"}
    /\ pc[p] = "project" /\ op[p] # "down" => cand[p] \in Cands
    /\ pc[p] \in Replacing \cup {"project"} /\ op[p] = "approve" => req[p] \in Requests
    /\ pc[p] \in Replacing => op[p] \in {"up", "approve"} /\ cand[p] \in Cands
    /\ pc[p] = "match" => op[p] \in {"approve", "reject"}
    /\ pc[p] = "load" => op[p] = "approve"
    /\ pc[p] \in {"load", "result", "clear"} => cand[p] \in Cands /\ req[p] \in Requests
    /\ pc[p] \in Reading \cup {"idle"} => todo[p] = {}
    /\ \A r \in todo[p] : raws[p][r] \in Contents

Staged == \A p \in Procs : Stages(p)
Typed  == TypeOK /\ Staged

LEMMA FrozenSnaps == \A d \in Cands : FrozenIn[d] \in Snaps
BY ObjectsAssumption

USE DEF At, Go, Goto, disk, docker, outside, locks, locals, listing, history,
        Objects, Record, Pending, Result, File, NoFile, Scan, NoScan, PC, Op,
        Registered, Typed, Staged, Stages, Wanted, Reading, Preparing, Replacing

LEMMA InitTyped == Init => Typed
BY ObjectsAssumption DEF Init, TypeOK

-----------------------------------------------------------------------------
(* Beginning and ending an operation.                                      *)

LEMMA LeaveTyped ==
    ASSUME Typed, NEW p \in Procs, Leave(p),
           rec' \in Record, stored' \subseteq Objects, recs' \subseteq Cands,
           running' \in Cands \cup {None}, live' \subseteq Cands,
           pending' \in [Requests -> Pending \cup {None}],
           results' \in [Requests -> Result \cup {None}],
           debtor' \in Procs \cup {None, "failed"},
           pointed' \subseteq Cands, exposed' \subseteq Cands, UNCHANGED outside
    PROVE  Typed'
<1>1. /\ shared' \subseteq Procs /\ exclusive' \subseteq Procs /\ project' \subseteq Procs
      /\ leases' \in [Procs -> SUBSET Objects]
      /\ asked' \in File /\ started' \in 0 .. MaxOps
  BY DEF Leave, TypeOK
<1>2. /\ pc' \in [Procs -> PC] /\ op' \in [Procs -> Op] /\ rev' \in [Procs -> 0 .. MaxRev]
      /\ cand' \in [Procs -> Cands \cup {None}] /\ req' \in [Procs -> Requests \cup {None}]
  BY ObjectsAssumption DEF Leave, TypeOK
<1>3. /\ raws' \in [Procs -> File] /\ known' \in [Procs -> File]
      /\ todo' \in [Procs -> SUBSET Requests] /\ roots' \in [Procs -> Scan]
  BY DEF Leave, TypeOK
<1>4. TypeOK'
  BY <1>1, <1>2, <1>3 DEF TypeOK
<1>5. Staged'
  BY DEF Leave, TypeOK
<1> QED BY <1>4, <1>5

LEMMA StartTyped ==
    ASSUME Typed, NEW p \in Procs, NEW o \in Op, NEW l \in PC, Start(p, o, l),
           <<o, l>> \in {<<"up", "shared">>, <<"list", "raws">>, <<"approve", "match">>,
                         <<"reject", "match">>, <<"down", "project">>, <<"forget", "delete">>}
    PROVE  Typed'
<1>1. /\ pc[p] = "idle" /\ pc' = [pc EXCEPT ![p] = l] /\ op' = [op EXCEPT ![p] = o]
      /\ rev' = [rev EXCEPT ![p] = rec.rev] /\ started' \in 0 .. MaxOps
      /\ o \in {"up", "approve"} => rec.rev < MaxRev
      /\ UNCHANGED <<disk, docker, asked, locks, cand, req, listing, roots, history>>
  BY ObjectsAssumption DEF Start, TypeOK
<1>2. rec.rev \in 0 .. MaxRev
  BY DEF TypeOK
<1>3. TypeOK'
  BY <1>1, <1>2 DEF TypeOK
<1>4. ASSUME NEW q \in Procs, q # p PROVE Stages(q)'
  BY <1>1, <1>4 DEF TypeOK
<1>5. Stages(p)'
  BY <1>1, <1>2 DEF TypeOK
<1> QED BY <1>3, <1>4, <1>5

LEMMA BeginTyped ==
    ASSUME Typed, NEW p \in Procs, Begin(p)
    PROVE  Typed'
<1>1. CASE Up(p) \/ List(p) \/ Approve(p) \/ Reject(p) \/ Down(p) \/ Forget(p)
  <2>1. CASE Up(p)       BY <2>1, StartTyped DEF Up
  <2>2. CASE List(p)     BY <2>2, StartTyped DEF List
  <2>3. CASE Approve(p)  BY <2>3, StartTyped DEF Approve
  <2>4. CASE Reject(p)   BY <2>4, StartTyped DEF Reject
  <2>5. CASE Down(p)     BY <2>5, StartTyped DEF Down
  <2>6. CASE Forget(p)   BY <2>6, StartTyped DEF Forget
  <2> QED BY <1>1, <2>1, <2>2, <2>3, <2>4, <2>5, <2>6
<1>2. CASE GC(p)
  BY <1>2, ObjectsAssumption DEF GC, TypeOK
<1>3. CASE Register(p)
  <2>1. rec' = [status |-> "live", rev |-> 1, approved |-> rec.approved]
    BY <1>3 DEF Register, TypeOK
  <2>2. 1 \in 0 .. MaxRev /\ rec.approved \in Cands \cup {None}
    BY ObjectsAssumption DEF TypeOK
  <2>3. rec' \in Record
    BY <2>1, <2>2
  <2> QED BY <1>3, <2>3 DEF Register, TypeOK
<1> QED BY <1>1, <1>2, <1>3 DEF Begin

LEMMA AbortTyped ==
    ASSUME Typed, NEW p \in Procs, Abort(p)
    PROVE  Typed'
BY ObjectsAssumption DEF TypeOK, Abort, GiveUp, Leave, Blame

-----------------------------------------------------------------------------
(* The locks.                                                              *)

LEMMA LocksTyped ==
    ASSUME Typed, NEW p \in Procs,
           TakeShared(p) \/ TakeProject(p) \/ TakeExclusive(p)
    PROVE  Typed'
<1>1. CASE TakeShared(p)
  BY <1>1 DEF TypeOK, TakeShared
<1>2. CASE TakeProject(p)
  BY <1>2 DEF TypeOK, TakeProject
<1>3. CASE TakeExclusive(p)
  BY <1>3 DEF TypeOK, TakeExclusive
<1> QED BY <1>1, <1>2, <1>3

-----------------------------------------------------------------------------
(* prepareCandidate.                                                       *)

LEMMA PublishingTyped ==
    ASSUME Typed, NEW p \in Procs,
           (\E d \in Cands : PublishSnapshot(p, d)) \/ PublishCandidate(p) \/ WriteRecord(p)
    PROVE  Typed'
<1>1. CASE \E d \in Cands : PublishSnapshot(p, d)
  BY <1>1, FrozenSnaps, ObjectsAssumption DEF TypeOK, PublishSnapshot
<1>2. CASE PublishCandidate(p)
  BY <1>2 DEF TypeOK, PublishCandidate
<1>3. CASE WriteRecord(p)
  BY <1>3 DEF TypeOK, WriteRecord
<1> QED BY <1>1, <1>2, <1>3

-----------------------------------------------------------------------------
(* runtime.Up and Down.                                                    *)

LEMMA ReplacingTyped ==
    ASSUME Typed, NEW p \in Procs,
           \/ Sweep(p) \/ Lease(p) \/ Stage(p)
           \/ CommitGeneration(p) \/ FailGeneration(p) \/ Teardown(p)
    PROVE  Typed'
<1>1. CASE Sweep(p)
  <2>1. CASE Needed(cand[p]) \subseteq stored
    <3>1. pc[p] = "sweep" /\ Goto(p, "lease") /\ live' \subseteq live
          /\ UNCHANGED <<disk, running, outside, locks, listing, roots, history>>
      BY <1>1, <2>1 DEF Sweep
    <3> QED BY <3>1 DEF TypeOK
  <2>2. CASE ~(Needed(cand[p]) \subseteq stored)
    <3>1. Leave(p) /\ live' \subseteq live /\ UNCHANGED <<disk, running, outside, history>>
      BY <1>1, <2>2 DEF Sweep
    <3> QED BY <3>1, LeaveTyped DEF TypeOK
  <2> QED BY <2>1, <2>2
<1>2. CASE Lease(p)
  BY <1>2, FrozenSnaps DEF TypeOK, Lease, Needed
<1>3. CASE Stage(p)
  BY <1>3 DEF TypeOK, Stage
<1>4. CASE CommitGeneration(p)
  BY <1>4 DEF TypeOK, CommitGeneration
<1>5. CASE FailGeneration(p)
  BY <1>5, ObjectsAssumption DEF TypeOK, FailGeneration, Leave
<1>6. CASE Teardown(p)
  BY <1>6, ObjectsAssumption DEF TypeOK, Teardown, Leave
<1> QED BY <1>1, <1>2, <1>3, <1>4, <1>5, <1>6

-----------------------------------------------------------------------------
(* Registry.Update and Delete.                                             *)

LEMMA UpdatingTyped ==
    ASSUME Typed, NEW p \in Procs,
           Point(p) \/ Delete(p) \/ Conflict(p)
    PROVE  Typed'
<1>1. CASE Point(p)
  <2>1. /\ op[p] \in {"up", "approve"} /\ cand[p] \in Cands /\ rec.rev < MaxRev
        /\ rec' = [rec EXCEPT !.rev = @ + 1, !.approved = cand[p]]
        /\ pointed' \subseteq Cands /\ debtor' \in {debtor, None}
    BY <1>1 DEF Point, Move, Current, TypeOK
  <2>2. rec' \in Record
    <3>1. /\ rec' = [status |-> rec.status, rev |-> rec.rev + 1, approved |-> cand[p]]
          /\ rec.status \in {"new", "live", "gone"} /\ rec.rev \in 0 .. MaxRev
      BY <2>1 DEF TypeOK
    <3>2. rec.rev + 1 \in 0 .. MaxRev
      BY <2>1, <3>1, ObjectsAssumption
    <3> QED BY <2>1, <3>1, <3>2
  <2>3. UNCHANGED <<stored, recs, pending, results, docker, outside, exposed>>
    BY <1>1 DEF Point
  <2>4. CASE op[p] = "up"
    <3>1. Leave(p)
      BY <1>1, <2>4 DEF Point, AfterUpdate
    <3> QED BY <2>1, <2>2, <2>3, <3>1, LeaveTyped, ZenonT(60) DEF TypeOK
  <2>5. CASE op[p] = "approve"
    <3>1. Goto(p, "result") /\ UNCHANGED <<locks, listing, roots>> /\ pc[p] = "point"
      BY <1>1, <2>5 DEF Point, AfterUpdate
    <3>2. TypeOK'
      BY <2>1, <2>2, <2>3, <3>1 DEF TypeOK
    <3>3. Staged'
      BY <2>5, <3>1 DEF TypeOK
    <3> QED BY <3>2, <3>3
  <2> QED BY <2>1, <2>4, <2>5
<1>2. CASE Delete(p)
  <2>1. rec' \in Record
    BY <1>2 DEF Delete, TypeOK
  <2>2. Leave(p) /\ UNCHANGED <<stored, recs, pending, results, docker, outside, history>>
    BY <1>2 DEF Delete
  <2> QED BY <2>1, <2>2, LeaveTyped DEF TypeOK
<1>3. CASE Conflict(p)
  BY <1>3, ObjectsAssumption DEF TypeOK, Conflict, GiveUp, Leave, Blame
<1> QED BY <1>1, <1>2, <1>3

-----------------------------------------------------------------------------
(* RequestList.                                                            *)

LEMMA ListingTyped ==
    ASSUME Typed, NEW p \in Procs,
           \/ ReadRequests(p) \/ ReadPending(p) \/ ReadResults(p)
           \/ (\E r \in Requests : Adopt(p, r)) \/ SkipRequest(p) \/ WritePending(p)
           \/ Listed(p)
    PROVE  Typed'
<1>1. CASE ReadRequests(p)
  BY <1>1, ObjectsAssumption DEF TypeOK, ReadRequests
<1>2. CASE ReadPending(p)
  BY <1>2 DEF TypeOK, ReadPending
<1>3. CASE ReadResults(p)
  BY <1>3 DEF TypeOK, ReadResults, ToAdopt
<1>4. CASE \E r \in Requests : Adopt(p, r)
  BY <1>4 DEF TypeOK, Adopt
<1>5. CASE SkipRequest(p)
  BY <1>5, ObjectsAssumption DEF TypeOK, SkipRequest, NextRequest
<1>6. CASE WritePending(p)
  BY <1>6, ObjectsAssumption DEF TypeOK, WritePending, NextRequest
<1>7. CASE Listed(p)
  BY <1>7, ObjectsAssumption DEF TypeOK, Listed, GiveUp, Leave, Blame
<1> QED BY <1>1, <1>2, <1>3, <1>4, <1>5, <1>6, <1>7

-----------------------------------------------------------------------------
(* RequestDecide.                                                          *)

LEMMA DecidingTyped ==
    ASSUME Typed, NEW p \in Procs,
           \/ (\E r \in Requests : Match(p, r)) \/ NoMatch(p) \/ Load(p)
           \/ NotFound(p) \/ WriteResult(p) \/ DeletePending(p)
    PROVE  Typed'
<1>1. CASE \E r \in Requests : Match(p, r)
  BY <1>1 DEF TypeOK, Match
<1>2. CASE NoMatch(p)
  BY <1>2, ObjectsAssumption DEF TypeOK, NoMatch, GiveUp, Leave, Blame
<1>3. CASE Load(p)
  BY <1>3, ObjectsAssumption DEF TypeOK, Load
<1>4. CASE NotFound(p)
  BY <1>4, ObjectsAssumption DEF TypeOK, NotFound, GiveUp, Leave, Blame
<1>5. CASE WriteResult(p)
  BY <1>5 DEF TypeOK, WriteResult
<1>6. CASE DeletePending(p)
  BY <1>6, ObjectsAssumption DEF TypeOK, DeletePending, Leave
<1> QED BY <1>1, <1>2, <1>3, <1>4, <1>5, <1>6

-----------------------------------------------------------------------------
(* The roots of a collection.                                              *)

LEMMA CollectingTyped ==
    ASSUME Typed, NEW p \in Procs,
           \/ ListContainers(p) \/ ListRecords(p) \/ ListPending(p)
           \/ ListSnapshots(p)
    PROVE  Typed'
<1>1. CASE ListContainers(p)
  <2>1. roots[p] \in Scan
    BY DEF TypeOK
  <2>2. PICK s \in Scan : roots' = [roots EXCEPT ![p] = s]
    BY <1>1, <2>1, FrozenSnaps DEF ListContainers, Found, TypeOK
  <2> QED BY <1>1, <2>2 DEF ListContainers, TypeOK
<1>2. CASE ListRecords(p)
  <2>1. roots[p] \in Scan
    BY DEF TypeOK
  <2>2. PICK s \in Scan : roots' = [roots EXCEPT ![p] = s]
    BY <1>2, <2>1, FrozenSnaps DEF ListRecords, Found, Named, TypeOK
  <2> QED BY <1>2, <2>2 DEF ListRecords, TypeOK
<1>3. CASE ListPending(p)
  <2>1. roots[p] \in Scan
    BY DEF TypeOK
  <2>2. Bound \subseteq Cands
    BY DEF TypeOK, Bound
  <2>3. PICK s \in Scan : roots' = [roots EXCEPT ![p] = s]
    BY <1>3, <2>1, <2>2 DEF ListPending, Found
  <2> QED BY <1>3, <2>3 DEF ListPending, TypeOK
<1>4. CASE ListSnapshots(p)
  <2>1. CASE roots[p].live \subseteq recs
    <3>1. roots[p] \in Scan /\ {FrozenIn[d] : d \in roots[p].kept \cap recs} \subseteq Snaps
      BY FrozenSnaps DEF TypeOK
    <3>2. PICK s \in Scan : roots' = [roots EXCEPT ![p] = s]
      BY <1>4, <2>1, <3>1 DEF ListSnapshots, Found
    <3>3. Goto(p, "cands") /\ UNCHANGED <<disk, docker, outside, locks, listing, history>>
      BY <1>4, <2>1 DEF ListSnapshots
    <3> QED BY <3>2, <3>3 DEF TypeOK
  <2>2. CASE ~(roots[p].live \subseteq recs)
    <3>1. Leave(p) /\ UNCHANGED <<disk, docker, outside, history>>
      BY <1>4, <2>2 DEF ListSnapshots
    <3> QED BY <3>1, LeaveTyped DEF TypeOK
  <2> QED BY <2>1, <2>2
<1> QED BY <1>1, <1>2, <1>3, <1>4

-----------------------------------------------------------------------------
(* What a collection removes.                                              *)

LEMMA RemovingTyped ==
    ASSUME Typed, NEW p \in Procs,
           \/ (\E o \in Objects : Remove(p, o)) \/ RemoveRecord(p) \/ NextPhase(p)
           \/ RemoveOrphans(p) \/ RemoveState(p)
    PROVE  Typed'
<1>1. CASE \E o \in Objects : Remove(p, o)
  <2>1. PICK o \in Objects : Remove(p, o)
    BY <1>1
  <2>2. CASE pc[p] = "cands"
    <3>1. o \in Cands
      BY <2>1, <2>2 DEF Remove, Removable, Phase
    <3>2. /\ cand' = [cand EXCEPT ![p] = o] /\ stored' = stored \ {o}
          /\ pc' = [pc EXCEPT ![p] = "unrecord"]
          /\ UNCHANGED <<rec, recs, pending, results, docker, outside, locks, op, rev, req,
                         listing, roots, history>>
      BY <2>1, <2>2 DEF Remove
    <3>3. TypeOK'
      BY <3>1, <3>2 DEF TypeOK
    <3>4. /\ pc' = [pc EXCEPT ![p] = "unrecord"]
          /\ \A q \in Procs \ {p} : cand'[q] = cand[q]
          /\ UNCHANGED <<op, rev, req, raws, todo>>
      BY <2>1, <2>2 DEF Remove, TypeOK
    <3>5. Staged'
      BY <3>4 DEF TypeOK
    <3> QED BY <3>3, <3>5
  <2>3. CASE pc[p] = "snaps"
    BY <2>1, <2>3 DEF Remove, TypeOK
  <2> QED BY <2>1, <2>2, <2>3 DEF Remove
<1>2. CASE RemoveRecord(p)
  BY <1>2, FrozenSnaps, ObjectsAssumption DEF TypeOK, RemoveRecord
<1>3. CASE NextPhase(p)
  <2>1. \E l \in {"snaps", "orphans"} : Goto(p, l)
    BY <1>3 DEF NextPhase
  <2> QED BY <1>3, <2>1 DEF TypeOK, NextPhase
<1>4. CASE RemoveOrphans(p)
  BY <1>4 DEF TypeOK, RemoveOrphans
<1>5. CASE RemoveState(p)
  BY <1>5, ObjectsAssumption DEF TypeOK, RemoveState, Leave
<1> QED BY <1>1, <1>2, <1>3, <1>4, <1>5

-----------------------------------------------------------------------------
(* The agents, and the steps together.                                     *)

LEMMA AskTyped ==
    ASSUME Typed, NEW r \in Requests, NEW c \in Contents, Ask(r, c)
    PROVE  Typed'
BY DEF Ask, TypeOK

LEMMA RepinTyped ==
    ASSUME Typed, Repin
    PROVE  Typed'
<1>1. /\ rec' = [status |-> rec.status, rev |-> rec.rev + 1, approved |-> rec.approved]
      /\ rec.status \in {"new", "live", "gone"} /\ rec.approved \in Cands \cup {None}
      /\ rec.rev \in 0 .. MaxRev /\ rec.rev < MaxRev
  BY DEF Repin, TypeOK
<1>2. rec.rev + 1 \in 0 .. MaxRev
  BY <1>1, ObjectsAssumption
<1>3. rec' \in Record
  BY <1>1, <1>2
<1> QED BY <1>3 DEF Repin, TypeOK

LEMMA ContinueTyped ==
    ASSUME Typed, NEW p \in Procs, Continue(p)
    PROVE  Typed'
BY LocksTyped, PublishingTyped, ReplacingTyped, UpdatingTyped, ListingTyped, DecidingTyped,
   CollectingTyped, RemovingTyped, Zenon DEF Continue

LEMMA NextTyped ==
    ASSUME Typed, Next
    PROVE  Typed'
BY BeginTyped, ContinueTyped, AbortTyped, AskTyped, RepinTyped, Zenon DEF Next

LEMMA TypedStutter ==
    ASSUME Typed, UNCHANGED vars
    PROVE  Typed'
BY DEF vars, TypeOK

(* Every reachable state is well-typed: a revision stays within its bound, *)
(* and what is published, bound or started is a candidate (Registry.Update,*)
(* prepareCandidate, RequestList, RequestDecide).                          *)
THEOREM TypesTheorem == Spec => []TypeOK
<1>1. Typed => TypeOK
  OBVIOUS
<1> QED BY <1>1, TypedStutter, InitTyped, NextTyped, PTL DEF Spec

-----------------------------------------------------------------------------
(***************************************************************************)
(* A collection and what it may take, for every set of processes,          *)
(* candidates and requests and every bound: nothing that a process leases, *)
(* and nothing that a container, the record or a pending request refers to *)
(* unless it was under approval meanwhile.                                 *)
(*                                                                         *)
(* A collection excludes whoever holds store-global shared, so that while  *)
(* it runs a new reference can only come from an approval, whose candidate *)
(* is exposed; the others can only go away.  So what a collection has      *)
(* listed once covers what it has yet to respect.                          *)
(*                                                                         *)
(* The same facts show that no request goes without its answer.            *)
(***************************************************************************)
Gathered   == {"cands", "unrecord", "snaps", "orphans"}
MidCollection == {"containers", "records", "pending", "snapshots", "state"} \cup Gathered
Running    == {"project"} \cup Replacing

(* Who holds store-global where.                                           *)
Turns ==
    /\ exclusive = {} \/ shared = {}
    /\ \A p \in Procs :
          /\ pc[p] \in MidCollection => exclusive = {p}
          /\ pc[p] \in Preparing \cup {"adopt", "bind"} => p \in shared
          /\ pc[p] \in Running /\ op[p] = "up" => p \in shared

(* What a process has published or found stays there for it: under the     *)
(* shared hold, or under its lease as long as no collection runs.          *)
InHand(p) ==
    /\ pc[p] = "candidate" => FrozenIn[cand[p]] \in stored
    /\ pc[p] = "record" => Needed(cand[p]) \subseteq stored
    /\ pc[p] = "bind" => Usable(cand[p])
    /\ pc[p] \in Running /\ op[p] = "up" => Usable(cand[p])
    /\ pc[p] \in Running /\ op[p] = "approve" =>
          /\ cand[p] \in leases[p]
          /\ cand[p] \notin exposed => exclusive = {} /\ cand[p] \in stored \cap recs
    /\ pc[p] \in Replacing \ {"sweep"} => cand[p] \in exposed \/ Usable(cand[p])

(* Before the project is registered nobody works on it.                    *)
Fresh ==
    rec.status = "new" =>
        /\ rec.approved = None /\ \A r \in Requests : pending[r] = None
        /\ \A p \in Procs : op[p] \in {"none", "gc"}

(* The references besides the containers.                                  *)
Pointed == IF Registered THEN Named(rec.approved) ELSE {}
Awaited == IF Registered THEN Bound ELSE {}

(* What a collection has gathered, as far as it has got.                   *)
Collected(p) ==
    /\ pc[p] \in MidCollection \ {"containers"} => live \ exposed \subseteq roots[p].kept
    /\ pc[p] \in MidCollection \ {"containers", "records"} =>
          /\ Pointed \ exposed \subseteq roots[p].kept
          /\ roots[p].registered \/ Awaited = {}
    /\ pc[p] \in Gathered \cup {"snapshots"} => Awaited \ exposed \subseteq roots[p].kept
    /\ pc[p] \in Gathered =>
          \A d \in (live \cup Pointed \cup Awaited) \ exposed : FrozenIn[d] \in roots[p].kept
    /\ pc[p] = "unrecord" => cand[p] \notin roots[p].kept

RefInv ==
    /\ Turns /\ Fresh
    /\ \A p \in Procs : InHand(p)
    /\ \A p \in Procs : Collected(p)
    /\ LeasesHold /\ ReferencesUsable

USE DEF At, Go, Goto, disk, docker, outside, locks, locals, listing, history,
        Objects, Record, Pending, Result, File, NoFile, Scan, NoScan, PC, Op,
        Registered, Typed, Staged, Stages, Reading, Preparing, Replacing, Running,
        Gathered, MidCollection

LEMMA InitReferences == Init => RefInv
BY ObjectsAssumption DEF Init, RefInv, Turns, Fresh, InHand, Collected, LeasesHold,
   ReferencesUsable, References, Named

-----------------------------------------------------------------------------
(* What the steps of one process leave to a collection of another.         *)

Shrinks ==
    /\ exposed \subseteq exposed' /\ live' \ exposed' \subseteq live
    /\ Pointed' \ exposed' \subseteq Pointed /\ Awaited' \subseteq Awaited

LEMMA ShrinksKept ==
    ASSUME NEW q \in Procs, Collected(q), Shrinks,
           pc'[q] = pc[q], cand'[q] = cand[q], roots'[q] = roots[q]
    PROVE  Collected(q)'
BY DEF Collected, Shrinks

LEMMA CollectedKept ==
    ASSUME Typed, RefInv, NEW p \in Procs, Collected(p)',
           \A q \in Procs \ {p} :
              /\ pc'[q] = pc[q] /\ cand'[q] = cand[q] /\ roots'[q] = roots[q]
              /\ pc[q] \in MidCollection => Shrinks
    PROVE  \A q \in Procs : Collected(q)'
<1> SUFFICES ASSUME NEW q \in Procs, q # p PROVE Collected(q)'
  OBVIOUS
<1>1. CASE pc[q] \in MidCollection
  BY <1>1, ShrinksKept DEF RefInv
<1>2. CASE pc[q] \notin MidCollection
  BY <1>2 DEF Collected
<1> QED BY <1>1, <1>2

LEMMA ReferencesKept ==
    ASSUME RefInv, Shrinks, stored \subseteq stored', recs \subseteq recs'
    PROVE  ReferencesUsable'
<1> SUFFICES ASSUME NEW d \in References' \ exposed' PROVE Usable(d)'
  BY DEF ReferencesUsable
<1>1. d \in References \ exposed
  BY DEF Shrinks, References, Pointed, Awaited
<1>2. Usable(d)
  BY <1>1 DEF RefInv, ReferencesUsable
<1> QED BY <1>2 DEF Usable, Needed

(* Nobody collects while somebody holds store-global shared.               *)
LEMMA SharedExcludes ==
    ASSUME RefInv, NEW p \in shared, NEW q \in Procs
    PROVE  pc[q] \notin MidCollection /\ exclusive = {}
BY DEF RefInv, Turns

(* While somebody collects, an approval's candidate is exposed and nobody  *)
(* is in an up.                                                            *)
LEMMA CollectionExposes ==
    ASSUME Typed, RefInv, NEW p \in Procs, pc[p] \in Running, op[p] # "down", exclusive # {}
    PROVE  op[p] = "approve" /\ cand[p] \in exposed
<1>1. op[p] \in {"up", "approve"}
  BY DEF TypeOK
<1>2. op[p] # "up"
  BY DEF RefInv, Turns
<1> QED BY <1>1, <1>2 DEF RefInv, InHand

-----------------------------------------------------------------------------
(* Ending: locks and leases go, and references may.                        *)

Ends(p) ==
    /\ Leave(p) /\ UNCHANGED <<stored, recs, exposed>>
    /\ live' \subseteq live
    /\ \A r \in Requests : pending'[r] \in {pending[r], None}
    /\ rec' = rec \/ rec' = [rec EXCEPT !.status = "gone", !.approved = None]

LEMMA EndsShrinks ==
    ASSUME Typed, NEW p \in Procs, Ends(p)
    PROVE  Shrinks
<1>1. rec' = rec \/ rec'.status = "gone"
  BY DEF TypeOK, Ends
<1>2. Bound' \subseteq Bound
  BY DEF Ends, Bound
<1> QED BY <1>1, <1>2 DEF Ends, Shrinks, Pointed, Awaited

LEMMA EndsKept ==
    ASSUME Typed, RefInv, NEW p \in Procs, Ends(p)
    PROVE  RefInv'
<1>1. Turns'
  BY DEF TypeOK, RefInv, Turns, Ends, Leave
<1>2. Fresh'
  BY ZenonT(60) DEF TypeOK, RefInv, Fresh, Ends, Leave
<1>3. LeasesHold'
  BY DEF TypeOK, RefInv, LeasesHold, Ends, Leave
<1>4. \A q \in Procs : InHand(q)'
  BY DEF TypeOK, RefInv, InHand, Usable, Needed, Ends, Leave
<1>5. \A q \in Procs : Collected(q)'
  <2>1. Collected(p)'
    BY DEF TypeOK, Collected, Ends, Leave
  <2> QED BY <2>1, EndsShrinks, CollectedKept DEF TypeOK, Ends, Leave
<1>6. ReferencesUsable'
  BY EndsShrinks, ReferencesKept DEF Ends
<1> QED BY <1>1, <1>2, <1>3, <1>4, <1>5, <1>6 DEF RefInv

LEMMA EndingKept ==
    ASSUME Typed, RefInv, NEW p \in Procs,
           \/ Abort(p) \/ Conflict(p) \/ Listed(p) \/ NoMatch(p) \/ NotFound(p)
           \/ FailGeneration(p) \/ Teardown(p) \/ Delete(p) \/ DeletePending(p)
           \/ RemoveState(p)
    PROVE  RefInv'
<1>1. CASE GiveUp(p)
  BY <1>1, EndsKept DEF GiveUp, Ends
<1>2. CASE FailGeneration(p) \/ Teardown(p)
  BY <1>2, EndsKept DEF FailGeneration, Teardown, Ends
<1>3. CASE Delete(p)
  BY <1>3, EndsKept DEF Delete, Ends
<1>4. CASE DeletePending(p) \/ RemoveState(p)
  BY <1>4, EndsKept, SMTT(30) DEF DeletePending, RemoveState, Ends, TypeOK
<1> QED BY <1>1, <1>2, <1>3, <1>4 DEF Abort, Conflict, Listed, NoMatch, NotFound

-----------------------------------------------------------------------------
(* Beginning.                                                              *)

LEMMA StartKept ==
    ASSUME Typed, RefInv, NEW p \in Procs,
           \/ Up(p) \/ List(p) \/ Approve(p) \/ Reject(p) \/ Down(p) \/ Forget(p) \/ GC(p)
    PROVE  RefInv'
<1>1. PICK l \in {"shared", "raws", "match", "project", "delete", "exclusive"}, o \in Op :
         /\ pc' = [pc EXCEPT ![p] = l] /\ op' = [op EXCEPT ![p] = o]
         /\ (Registered \/ o = "gc") /\ (l = "project" => o = "down")
  BY DEF Up, List, Approve, Reject, Down, Forget, GC, Start
<1>2. UNCHANGED <<disk, docker, locks, cand, roots, history>>
  BY DEF Up, List, Approve, Reject, Down, Forget, GC, Start
<1>3. Turns'
  BY <1>1, <1>2 DEF TypeOK, RefInv, Turns
<1>4. Fresh'
  BY <1>1, <1>2 DEF TypeOK, RefInv, Fresh
<1>5. LeasesHold'
  BY <1>2 DEF RefInv, LeasesHold
<1>6. \A q \in Procs : InHand(q)'
  BY <1>1, <1>2 DEF TypeOK, RefInv, InHand, Usable, Needed
<1>7. Shrinks
  BY <1>2 DEF Shrinks, Pointed, Awaited, Bound
<1>8. \A q \in Procs : Collected(q)'
  <2>1. Collected(p)'
    BY <1>1 DEF TypeOK, Collected
  <2> QED BY <1>1, <1>2, <1>7, <2>1, CollectedKept DEF TypeOK
<1> QED BY <1>2, <1>3, <1>4, <1>5, <1>6, <1>7, <1>8, ReferencesKept DEF RefInv

LEMMA RegisterKept ==
    ASSUME Typed, RefInv, NEW p \in Procs, Register(p)
    PROVE  RefInv'
<1>1. /\ rec.status = "new" /\ rec'.status = "live" /\ rec'.approved = rec.approved
      /\ UNCHANGED <<stored, recs, pending, docker, locks, locals, roots, history>>
  BY DEF Register, TypeOK
<1>2. Pointed' = {} /\ Awaited' = {}
  BY <1>1 DEF RefInv, Fresh, Pointed, Awaited, Named, Bound
<1>3. Shrinks
  BY <1>1, <1>2 DEF Shrinks
<1>4. \A q \in Procs : Collected(q)'
  BY <1>1, <1>3, ShrinksKept DEF RefInv
<1>5. Turns' /\ Fresh' /\ LeasesHold' /\ \A q \in Procs : InHand(q)'
  BY <1>1 DEF RefInv, Turns, Fresh, LeasesHold, InHand, Usable, Needed
<1> QED BY <1>1, <1>3, <1>4, <1>5, ReferencesKept DEF RefInv

-----------------------------------------------------------------------------
(* The locks.                                                              *)

LEMMA LockingKept ==
    ASSUME Typed, RefInv, NEW p \in Procs,
           TakeShared(p) \/ TakeProject(p) \/ TakeExclusive(p)
    PROVE  RefInv'
<1>1. Turns'
  <2>1. CASE TakeShared(p)
    BY <2>1 DEF TypeOK, RefInv, Turns, TakeShared
  <2>2. CASE TakeProject(p)
    BY <2>2 DEF TypeOK, RefInv, Turns, TakeProject
  <2>3. CASE TakeExclusive(p)
    BY <2>3 DEF TypeOK, RefInv, Turns, TakeExclusive
  <2> QED BY <2>1, <2>2, <2>3
<1>2. Fresh'
  BY FrozenSnaps, ObjectsAssumption DEF TypeOK, RefInv, Fresh, Turns, TakeShared,
     TakeProject, TakeExclusive
<1>3. LeasesHold'
  BY FrozenSnaps, ObjectsAssumption DEF TypeOK, RefInv, LeasesHold, Turns, InHand,
     TakeShared, TakeProject, TakeExclusive
<1>4. \A q \in Procs : InHand(q)'
  BY FrozenSnaps, ObjectsAssumption DEF TypeOK, RefInv, Turns, InHand, LeasesHold,
     Usable, Needed, TakeShared, TakeProject, TakeExclusive
<1>5. \A q \in Procs : Collected(q)'
  <2>1. Collected(p)'
    BY DEF TypeOK, RefInv, Turns, Collected, Pointed, Awaited, Bound, Named, TakeShared,
       TakeProject, TakeExclusive
  <2>2. ASSUME NEW q \in Procs \ {p}, pc[q] \in MidCollection PROVE Shrinks
    BY <2>2, ObjectsAssumption DEF TypeOK, RefInv, Turns, InHand, Fresh, Shrinks,
       Pointed, Awaited, Bound, Named, TakeShared, TakeProject, TakeExclusive
  <2>3. \A q \in Procs \ {p} : pc'[q] = pc[q] /\ cand'[q] = cand[q] /\ roots'[q] = roots[q]
    BY DEF TypeOK, TakeShared, TakeProject, TakeExclusive
  <2> QED BY <2>1, <2>2, <2>3, CollectedKept
<1>6. ReferencesUsable'
  BY FrozenSnaps, ObjectsAssumption DEF TypeOK, RefInv, Turns, InHand, Fresh,
     References, Bound, Named, ReferencesUsable, Usable, Needed, TakeShared,
     TakeProject, TakeExclusive
<1> QED BY <1>1, <1>2, <1>3, <1>4, <1>5, <1>6 DEF RefInv

-----------------------------------------------------------------------------
(* prepareCandidate.                                                       *)

LEMMA PublishingKept ==
    ASSUME Typed, RefInv, NEW p \in Procs,
           (\E d \in Cands : PublishSnapshot(p, d)) \/ PublishCandidate(p) \/ WriteRecord(p)
    PROVE  RefInv'
<1>1. Turns'
  BY FrozenSnaps, ObjectsAssumption DEF TypeOK, RefInv, Turns, Fresh, PublishSnapshot,
     PublishCandidate, WriteRecord
<1>2. Fresh'
  BY FrozenSnaps, ObjectsAssumption DEF TypeOK, RefInv, Fresh, Turns, PublishSnapshot,
     PublishCandidate, WriteRecord
<1>3. LeasesHold'
  BY FrozenSnaps, ObjectsAssumption DEF TypeOK, RefInv, LeasesHold, Turns, InHand,
     PublishSnapshot, PublishCandidate, WriteRecord
<1>4. \A q \in Procs : InHand(q)'
  BY FrozenSnaps, ObjectsAssumption DEF TypeOK, RefInv, Turns, InHand, LeasesHold,
     Usable, Needed, PublishSnapshot, PublishCandidate, WriteRecord
<1>5. \A q \in Procs : Collected(q)'
  <2>1. Collected(p)'
    BY DEF TypeOK, RefInv, Turns, Collected, Pointed, Awaited, Bound, Named,
       PublishSnapshot, PublishCandidate, WriteRecord
  <2>2. ASSUME NEW q \in Procs \ {p}, pc[q] \in MidCollection PROVE Shrinks
    BY <2>2, ObjectsAssumption DEF TypeOK, RefInv, Turns, InHand, Fresh, Shrinks,
       Pointed, Awaited, Bound, Named, PublishSnapshot, PublishCandidate, WriteRecord
  <2>3. \A q \in Procs \ {p} : pc'[q] = pc[q] /\ cand'[q] = cand[q] /\ roots'[q] = roots[q]
    BY DEF TypeOK, PublishSnapshot, PublishCandidate, WriteRecord
  <2> QED BY <2>1, <2>2, <2>3, CollectedKept
<1>6. ReferencesUsable'
  BY FrozenSnaps, ObjectsAssumption DEF TypeOK, RefInv, Turns, InHand, Fresh,
     References, Bound, Named, ReferencesUsable, Usable, Needed, PublishSnapshot,
     PublishCandidate, WriteRecord
<1> QED BY <1>1, <1>2, <1>3, <1>4, <1>5, <1>6 DEF RefInv

-----------------------------------------------------------------------------
(* runtime.Up, but for its failures.                                       *)

LEMMA ReconcilingKept ==
    ASSUME Typed, RefInv, NEW p \in Procs,
           Lease(p) \/ Stage(p) \/ CommitGeneration(p)
    PROVE  RefInv'
<1>1. Turns'
  BY FrozenSnaps, ObjectsAssumption DEF TypeOK, RefInv, Turns, Fresh, Lease, Stage,
     CommitGeneration
<1>2. Fresh'
  BY FrozenSnaps, ObjectsAssumption DEF TypeOK, RefInv, Fresh, Turns, Lease, Stage,
     CommitGeneration
<1>3. LeasesHold'
  <2>1. CASE Lease(p)
    <3>1. cand[p] \in stored
      BY <2>1 DEF TypeOK, RefInv, InHand, LeasesHold, Usable, Needed, Lease
    <3> QED BY <2>1, <3>1, FrozenSnaps, ObjectsAssumption
            DEF TypeOK, RefInv, LeasesHold, Needed, Lease
  <2>2. CASE Stage(p)
    BY <2>2 DEF RefInv, LeasesHold, Stage
  <2>3. CASE CommitGeneration(p)
    BY <2>3 DEF TypeOK, RefInv, InHand, LeasesHold, CommitGeneration
  <2> QED BY <2>1, <2>2, <2>3
<1>4. \A q \in Procs : InHand(q)'
  BY FrozenSnaps, ObjectsAssumption DEF TypeOK, RefInv, Turns, InHand, LeasesHold,
     Usable, Needed, Lease, Stage, CommitGeneration
<1>5. \A q \in Procs : Collected(q)'
  <2>1. Collected(p)'
    BY DEF TypeOK, RefInv, Turns, Collected, Pointed, Awaited, Bound, Named, Lease,
       Stage, CommitGeneration
  <2>2. ASSUME NEW q \in Procs \ {p}, pc[q] \in MidCollection PROVE Shrinks
    <3>1. exclusive # {}
      BY <2>2 DEF RefInv, Turns
    <3>2. pc[p] \in Replacing /\ op[p] # "down"
      BY DEF Lease, Stage, CommitGeneration
    <3>3. cand[p] \in exposed
      BY <3>1, <3>2, CollectionExposes
    <3> QED BY <3>3 DEF Lease, Stage, CommitGeneration, Shrinks, Pointed, Awaited, Bound
  <2>3. \A q \in Procs \ {p} : pc'[q] = pc[q] /\ cand'[q] = cand[q] /\ roots'[q] = roots[q]
    BY DEF TypeOK, Lease, Stage, CommitGeneration
  <2> QED BY <2>1, <2>2, <2>3, CollectedKept
<1>6. ReferencesUsable'
  BY FrozenSnaps, ObjectsAssumption DEF TypeOK, RefInv, Turns, InHand, Fresh,
     References, Bound, Named, ReferencesUsable, Usable, Needed, Lease, Stage,
     CommitGeneration
<1> QED BY <1>1, <1>2, <1>3, <1>4, <1>5, <1>6 DEF RefInv

-----------------------------------------------------------------------------
(* RequestList.                                                            *)

LEMMA ListingKept ==
    ASSUME Typed, RefInv, NEW p \in Procs,
           \/ ReadRequests(p) \/ ReadPending(p) \/ ReadResults(p)
           \/ (\E r \in Requests : Adopt(p, r)) \/ SkipRequest(p) \/ WritePending(p)
    PROVE  RefInv'
<1>1. Turns'
  <2>1. CASE ReadRequests(p) \/ ReadPending(p) \/ ReadResults(p)
    BY <2>1 DEF TypeOK, RefInv, Turns, ReadRequests, ReadPending, ReadResults
  <2>2. CASE \E r \in Requests : Adopt(p, r)
    BY <2>2 DEF TypeOK, RefInv, Turns, Adopt
  <2>3. CASE SkipRequest(p)
    BY <2>3 DEF TypeOK, RefInv, Turns, SkipRequest, NextRequest
  <2>4. CASE WritePending(p)
    BY <2>4 DEF TypeOK, RefInv, Turns, WritePending, NextRequest
  <2> QED BY <2>1, <2>2, <2>3, <2>4
<1>2. Fresh'
  BY FrozenSnaps, ObjectsAssumption DEF TypeOK, RefInv, Fresh, Turns, ReadRequests,
     ReadPending, ReadResults, Adopt, SkipRequest, WritePending, NextRequest
<1>3. LeasesHold'
  BY FrozenSnaps, ObjectsAssumption DEF TypeOK, RefInv, LeasesHold, Turns, InHand,
     ReadRequests, ReadPending, ReadResults, Adopt, SkipRequest, WritePending,
     NextRequest
<1>4. \A q \in Procs : InHand(q)'
  BY FrozenSnaps, ObjectsAssumption DEF TypeOK, RefInv, Turns, InHand, LeasesHold,
     Usable, Needed, ReadRequests, ReadPending, ReadResults, Adopt, SkipRequest,
     WritePending, NextRequest
<1>5. \A q \in Procs : Collected(q)'
  <2>1. Collected(p)'
    BY DEF TypeOK, RefInv, Turns, Collected, Pointed, Awaited, Bound, Named,
       ReadRequests, ReadPending, ReadResults, Adopt, SkipRequest, WritePending,
       NextRequest
  <2>2. ASSUME NEW q \in Procs \ {p}, pc[q] \in MidCollection PROVE Shrinks
    <3>1. CASE UNCHANGED <<rec, pending, live, exposed>>
      BY <3>1 DEF Shrinks, Pointed, Awaited, Bound
    <3>2. CASE p \in shared
      BY <2>2, <3>2, SharedExcludes
    <3> QED BY <3>1, <3>2 DEF ReadRequests, ReadPending, ReadResults, Adopt, SkipRequest,
            WritePending, RefInv, Turns
  <2>3. \A q \in Procs \ {p} : pc'[q] = pc[q] /\ cand'[q] = cand[q] /\ roots'[q] = roots[q]
    BY DEF TypeOK, ReadRequests, ReadPending, ReadResults, Adopt, SkipRequest,
       WritePending, NextRequest
  <2> QED BY <2>1, <2>2, <2>3, CollectedKept
<1>6. ReferencesUsable'
  <2>1. CASE WritePending(p)
    <3>1. Usable(cand[p]) /\ Bound' \subseteq Bound \cup {cand[p]}
      BY <2>1 DEF TypeOK, RefInv, InHand, WritePending, Bound
    <3> QED BY <2>1, <3>1 DEF RefInv, ReferencesUsable, References, Usable, Needed, WritePending
  <2>2. CASE UNCHANGED <<rec, stored, recs, pending, live, exposed>>
    BY <2>2 DEF RefInv, ReferencesUsable, References, Bound, Usable, Needed
  <2> QED BY <2>1, <2>2 DEF ReadRequests, ReadPending, ReadResults, Adopt, SkipRequest
<1> QED BY <1>1, <1>2, <1>3, <1>4, <1>5, <1>6 DEF RefInv

-----------------------------------------------------------------------------
(* RequestDecide.                                                          *)

LEMMA DecidingKept ==
    ASSUME Typed, RefInv, NEW p \in Procs,
           (\E r \in Requests : Match(p, r)) \/ Load(p) \/ WriteResult(p)
    PROVE  RefInv'
<1>1. Turns'
  BY FrozenSnaps, ObjectsAssumption DEF TypeOK, RefInv, Turns, Fresh, Match, Load,
     WriteResult
<1>2. Fresh'
  BY FrozenSnaps, ObjectsAssumption DEF TypeOK, RefInv, Fresh, Turns, Match, Load,
     WriteResult
<1>3. LeasesHold'
  <2>1. CASE Load(p)
    BY <2>1 DEF TypeOK, RefInv, LeasesHold, Load
  <2>2. CASE UNCHANGED <<stored, leases>>
    BY <2>2 DEF RefInv, LeasesHold
  <2> QED BY <2>1, <2>2 DEF Match, WriteResult
<1>4. \A q \in Procs : InHand(q)'
  BY FrozenSnaps, ObjectsAssumption DEF TypeOK, RefInv, Turns, InHand, LeasesHold,
     Usable, Needed, Match, Load, WriteResult
<1>5. \A q \in Procs : Collected(q)'
  <2>1. Collected(p)'
    BY DEF TypeOK, RefInv, Turns, Collected, Pointed, Awaited, Bound, Named, Match,
       Load, WriteResult
  <2>2. ASSUME NEW q \in Procs \ {p}, pc[q] \in MidCollection PROVE Shrinks
    BY <2>2, ObjectsAssumption DEF TypeOK, RefInv, Turns, InHand, Fresh, Shrinks,
       Pointed, Awaited, Bound, Named, Match, Load, WriteResult
  <2>3. \A q \in Procs \ {p} : pc'[q] = pc[q] /\ cand'[q] = cand[q] /\ roots'[q] = roots[q]
    BY DEF TypeOK, Match, Load, WriteResult
  <2> QED BY <2>1, <2>2, <2>3, CollectedKept
<1>6. ReferencesUsable'
  BY FrozenSnaps, ObjectsAssumption DEF TypeOK, RefInv, Turns, InHand, Fresh,
     References, Bound, Named, ReferencesUsable, Usable, Needed, Match, Load,
     WriteResult
<1> QED BY <1>1, <1>2, <1>3, <1>4, <1>5, <1>6 DEF RefInv

-----------------------------------------------------------------------------
(* gcRoots.                                                                *)

LEMMA ScanningKept ==
    ASSUME Typed, RefInv, NEW p \in Procs,
           ListContainers(p) \/ ListRecords(p) \/ ListPending(p)
    PROVE  RefInv'
<1>1. Turns'
  BY FrozenSnaps, ObjectsAssumption DEF TypeOK, RefInv, Turns, Fresh, ListContainers,
     ListRecords, ListPending, Found
<1>2. Fresh'
  BY FrozenSnaps, ObjectsAssumption DEF TypeOK, RefInv, Fresh, Turns, ListContainers,
     ListRecords, ListPending, Found
<1>3. LeasesHold'
  BY FrozenSnaps, ObjectsAssumption DEF TypeOK, RefInv, LeasesHold, Turns, InHand,
     ListContainers, ListRecords, ListPending, Found
<1>4. \A q \in Procs : InHand(q)'
  BY FrozenSnaps, ObjectsAssumption DEF TypeOK, RefInv, Turns, InHand, LeasesHold,
     Usable, Needed, ListContainers, ListRecords, ListPending, Found
<1>5. \A q \in Procs : Collected(q)'
  <2>1. Collected(p)'
    <3>1. CASE ListContainers(p)
      BY <3>1 DEF TypeOK, Collected, ListContainers, Found
    <3>2. CASE ListRecords(p)
      <4>1. /\ pc'[p] = "pending" /\ roots'[p].kept = roots[p].kept \cup Named(rec.approved)
            /\ roots'[p].registered = Registered
            /\ UNCHANGED <<rec, pending, live, exposed>>
        BY <3>2 DEF TypeOK, ListRecords, Found
      <4>2. live \ exposed \subseteq roots[p].kept
        BY <3>2 DEF RefInv, Collected, ListRecords
      <4> QED BY <4>1, <4>2 DEF Collected, Pointed, Awaited, Bound
    <3>3. CASE ListPending(p)
      <4>1. /\ pc'[p] = "snapshots" /\ roots'[p].registered = roots[p].registered
            /\ roots'[p].kept = IF roots[p].registered THEN roots[p].kept \cup Bound
                                ELSE roots[p].kept
            /\ UNCHANGED <<rec, pending, live, exposed>>
        BY <3>3 DEF TypeOK, ListPending, Found
      <4>2. /\ live \ exposed \subseteq roots[p].kept
            /\ Pointed \ exposed \subseteq roots[p].kept
            /\ roots[p].registered \/ Awaited = {}
        BY <3>3 DEF RefInv, Collected, ListPending
      <4>3. Pointed' = Pointed /\ Awaited' = Awaited
        BY <4>1 DEF Pointed, Awaited, Bound
      <4>4. Awaited \ exposed \subseteq roots'[p].kept
        BY <4>1, <4>2 DEF Awaited
      <4>5. roots[p].kept \subseteq roots'[p].kept
        BY <4>1
      <4> QED BY <4>1, <4>2, <4>3, <4>4, <4>5 DEF Collected
    <3> QED BY <3>1, <3>2, <3>3
  <2>2. ASSUME NEW q \in Procs \ {p}, pc[q] \in MidCollection PROVE Shrinks
    BY <2>2, ObjectsAssumption DEF TypeOK, RefInv, Turns, InHand, Fresh, Shrinks,
       Pointed, Awaited, Bound, Named, ListContainers, ListRecords, ListPending, Found
  <2>3. \A q \in Procs \ {p} : pc'[q] = pc[q] /\ cand'[q] = cand[q] /\ roots'[q] = roots[q]
    BY DEF TypeOK, ListContainers, ListRecords, ListPending, Found
  <2> QED BY <2>1, <2>2, <2>3, CollectedKept
<1>6. ReferencesUsable'
  BY FrozenSnaps, ObjectsAssumption DEF TypeOK, RefInv, Turns, InHand, Fresh,
     References, Bound, Named, ReferencesUsable, Usable, Needed, ListContainers,
     ListRecords, ListPending, Found
<1> QED BY <1>1, <1>2, <1>3, <1>4, <1>5, <1>6 DEF RefInv

-----------------------------------------------------------------------------
(* What a collection removes.                                              *)

(* What a collection removes from, and that it is alone.                   *)
LEMMA RemovingAlone ==
    ASSUME Typed, RefInv, NEW p \in Procs,
           \/ (\E o \in Objects : Remove(p, o)) \/ RemoveRecord(p)
           \/ NextPhase(p) \/ RemoveOrphans(p)
    PROVE  /\ exclusive = {p} /\ shared = {}
           /\ pc[p] \in Gathered /\ pc'[p] \in Gathered \cup {"state"}
           /\ pc'[p] = "unrecord" => cand'[p] \notin roots[p].kept
           /\ UNCHANGED <<rec, pending, docker, locks, op, roots, history>>
<1>1. CASE \E o \in Objects : Remove(p, o)
  <2>1. PICK o \in Objects : Remove(p, o)
    BY <1>1
  <2>2. pc[p] \in {"cands", "snaps"} /\ exclusive = {p} /\ shared = {}
    BY <2>1 DEF RefInv, Turns, Remove
  <2>3. CASE pc[p] = "cands"
    <3>1. pc'[p] = "unrecord" /\ cand'[p] = o /\ o \notin roots[p].kept
      BY <2>1, <2>3 DEF TypeOK, Remove, Removable
    <3> QED BY <2>1, <2>2, <3>1 DEF Remove
  <2>4. CASE pc[p] = "snaps"
    BY <2>1, <2>2, <2>4 DEF Remove
  <2> QED BY <2>2, <2>3, <2>4
<1>2. CASE RemoveRecord(p)
  BY <1>2, ZenonT(60) DEF TypeOK, RefInv, Turns, RemoveRecord
<1>3. CASE NextPhase(p)
  <2>1. PICK l \in {"snaps", "orphans"} : pc[p] \in Gathered /\ pc' = [pc EXCEPT ![p] = l]
    BY <1>3 DEF NextPhase
  <2> QED BY <1>3, <2>1, ZenonT(60) DEF TypeOK, RefInv, Turns, NextPhase
<1>4. CASE RemoveOrphans(p)
  BY <1>4, ZenonT(60) DEF TypeOK, RefInv, Turns, RemoveOrphans
<1> QED BY <1>1, <1>2, <1>3, <1>4

(* What is kept is not removed.                                            *)
LEMMA KeptStays ==
    ASSUME Typed, RefInv, NEW p \in Procs,
           \/ (\E o \in Objects : Remove(p, o)) \/ RemoveRecord(p)
           \/ NextPhase(p) \/ RemoveOrphans(p)
    PROVE  /\ stored \cap roots[p].kept \subseteq stored'
           /\ recs \cap roots[p].kept \subseteq recs'
<1>1. CASE \E o \in Objects : Remove(p, o)
  BY <1>1 DEF Remove, Removable
<1>2. CASE RemoveRecord(p)
  BY <1>2 DEF RefInv, Collected, RemoveRecord
<1>3. CASE NextPhase(p) \/ RemoveOrphans(p)
  BY <1>3 DEF NextPhase, RemoveOrphans
<1> QED BY <1>1, <1>2, <1>3

LEMMA RemovingKept ==
    ASSUME Typed, RefInv, NEW p \in Procs,
           \/ (\E o \in Objects : Remove(p, o)) \/ RemoveRecord(p)
           \/ NextPhase(p) \/ RemoveOrphans(p)
    PROVE  RefInv'
<1>1. Turns'
  BY FrozenSnaps, ObjectsAssumption DEF TypeOK, RefInv, Turns, Fresh, Remove, Removable,
     Phase, RemoveRecord, NextPhase, RemoveOrphans
<1>2. Fresh'
  BY FrozenSnaps, ObjectsAssumption DEF TypeOK, RefInv, Fresh, Turns, Remove, Removable,
     Phase, RemoveRecord, NextPhase, RemoveOrphans
<1>3. LeasesHold'
  BY FrozenSnaps, ObjectsAssumption DEF TypeOK, RefInv, LeasesHold, Turns, InHand,
     Remove, Removable, Phase, RemoveRecord, NextPhase, RemoveOrphans
<1>4. \A q \in Procs : InHand(q)'
  <2>1. exclusive = {p} /\ shared = {} /\ pc'[p] \in Gathered \cup {"state"}
    BY RemovingAlone
  <2>2. InHand(p)'
    BY <2>1 DEF InHand
  <2>3. ASSUME NEW q \in Procs, q # p PROVE InHand(q)'
    <3>1. /\ pc'[q] = pc[q] /\ op'[q] = op[q] /\ cand'[q] = cand[q]
          /\ UNCHANGED <<leases, exposed, exclusive>>
      BY <2>3 DEF TypeOK, Remove, RemoveRecord, NextPhase, RemoveOrphans
    <3>2. pc[q] \notin Preparing \cup {"adopt", "bind"}
      BY <2>1 DEF RefInv, Turns
    <3>3. CASE pc[q] \in Running /\ op[q] # "down"
      BY <2>1, <3>1, <3>3, CollectionExposes DEF RefInv, InHand
    <3>4. CASE pc[q] \notin Running \/ op[q] = "down"
      BY <3>1, <3>2, <3>4 DEF InHand, TypeOK
    <3> QED BY <3>3, <3>4
  <2> QED BY <2>2, <2>3
<1>5. \A q \in Procs : Collected(q)'
  <2>1. Collected(p)'
    <3>1. UNCHANGED <<rec, pending, docker, roots, history>>
      BY RemovingAlone
    <3>2. Pointed' = Pointed /\ Awaited' = Awaited
      BY <3>1 DEF Pointed, Awaited, Bound
    <3> QED BY <3>1, <3>2, RemovingAlone DEF RefInv, Collected
  <2>2. ASSUME NEW q \in Procs \ {p}, pc[q] \in MidCollection PROVE Shrinks
    BY <2>2, ObjectsAssumption DEF TypeOK, RefInv, Turns, InHand, Fresh, Shrinks,
       Pointed, Awaited, Bound, Named, Remove, Removable, Phase, RemoveRecord,
       NextPhase, RemoveOrphans
  <2>3. \A q \in Procs \ {p} : pc'[q] = pc[q] /\ cand'[q] = cand[q] /\ roots'[q] = roots[q]
    BY DEF TypeOK, Remove, Removable, Phase, RemoveRecord, NextPhase, RemoveOrphans
  <2> QED BY <2>1, <2>2, <2>3, CollectedKept
<1>6. ReferencesUsable'
  <2> SUFFICES ASSUME NEW d \in References' \ exposed' PROVE Usable(d)'
    BY DEF ReferencesUsable
  <2>1. d \in (live \cup Pointed \cup Awaited) \ exposed
    BY RemovingAlone DEF References, Pointed, Awaited, Bound
  <2>2. d \in roots[p].kept /\ FrozenIn[d] \in roots[p].kept
    BY <2>1, RemovingAlone DEF RefInv, Collected
  <2>3. Usable(d)
    BY <2>1 DEF RefInv, ReferencesUsable, References, Pointed, Awaited
  <2> QED BY <2>2, <2>3, KeptStays DEF Usable, Needed
<1> QED BY <1>1, <1>2, <1>3, <1>4, <1>5, <1>6 DEF RefInv

-----------------------------------------------------------------------------
(* The steps that go on or end.                                            *)

LEMMA SweepKept ==
    ASSUME Typed, RefInv, NEW p \in Procs, Sweep(p)
    PROVE  RefInv'
<1>1. CASE Needed(cand[p]) \subseteq stored
  <2>1. /\ pc[p] = "sweep" /\ pc' = [pc EXCEPT ![p] = "lease"] /\ live' \subseteq live
        /\ UNCHANGED <<disk, locks, op, cand, roots, history>>
    BY <1>1 DEF Sweep
  <2>2. cand[p] \in exposed \/ Usable(cand[p])
    BY <1>1, <2>1 DEF RefInv, InHand, Usable, TypeOK
  <2>3. Turns' /\ Fresh' /\ LeasesHold'
    BY <2>1 DEF TypeOK, RefInv, Turns, Fresh, LeasesHold
  <2>4. \A q \in Procs : InHand(q)'
    BY <2>1, <2>2 DEF TypeOK, RefInv, InHand, Usable, Needed
  <2>5. Shrinks
    BY <2>1 DEF Shrinks, Pointed, Awaited, Bound
  <2>6. \A q \in Procs : Collected(q)'
    <3>1. Collected(p)'
      BY <2>1 DEF TypeOK, Collected
    <3> QED BY <2>1, <2>5, <3>1, CollectedKept DEF TypeOK
  <2> QED BY <2>1, <2>3, <2>4, <2>5, <2>6, ReferencesKept DEF RefInv
<1>2. CASE ~(Needed(cand[p]) \subseteq stored)
  BY <1>2, EndsKept DEF Sweep, Ends
<1> QED BY <1>1, <1>2

LEMMA ListSnapshotsKept ==
    ASSUME Typed, RefInv, NEW p \in Procs, ListSnapshots(p)
    PROVE  RefInv'
<1>1. CASE roots[p].live \subseteq recs
  <2>1. /\ pc[p] = "snapshots" /\ pc' = [pc EXCEPT ![p] = "cands"]
        /\ \A q \in Procs \ {p} : roots'[q] = roots[q]
        /\ roots'[p].registered = roots[p].registered
        /\ roots'[p].kept = roots[p].kept \cup {FrozenIn[d] : d \in roots[p].kept \cap recs}
        /\ UNCHANGED <<disk, docker, locks, op, cand, history>>
    BY <1>1 DEF ListSnapshots, Found, TypeOK
  <2>2. Turns' /\ Fresh' /\ LeasesHold'
    BY <2>1 DEF TypeOK, RefInv, Turns, Fresh, LeasesHold
  <2>3. \A q \in Procs : InHand(q)'
    BY <2>1 DEF TypeOK, RefInv, InHand, Usable, Needed
  <2>4. Pointed' = Pointed /\ Awaited' = Awaited /\ Shrinks
    BY <2>1 DEF Shrinks, Pointed, Awaited, Bound
  <2>5. Collected(p)'
    <3>1. ASSUME NEW d \in (live \cup Pointed \cup Awaited) \ exposed
          PROVE  d \in roots[p].kept /\ d \in recs
      BY <2>1 DEF RefInv, Collected, ReferencesUsable, References, Pointed, Awaited, Usable
    <3>2. \A d \in (live \cup Pointed \cup Awaited) \ exposed : FrozenIn[d] \in roots'[p].kept
      BY <2>1, <3>1
    <3>3. Collected(p) /\ pc'[p] = "cands" /\ roots[p].kept \subseteq roots'[p].kept
      BY <2>1 DEF RefInv, TypeOK
    <3> QED BY <2>1, <2>4, <3>2, <3>3 DEF Collected
  <2>6. \A q \in Procs : Collected(q)'
    BY <2>1, <2>4, <2>5, CollectedKept DEF TypeOK
  <2> QED BY <2>1, <2>2, <2>3, <2>4, <2>6, ReferencesKept DEF RefInv
<1>2. CASE ~(roots[p].live \subseteq recs)
  BY <1>2, EndsKept DEF ListSnapshots, Ends
<1> QED BY <1>1, <1>2

LEMMA PointKept ==
    ASSUME Typed, RefInv, NEW p \in Procs, Point(p)
    PROVE  RefInv'
<1>1. /\ pc[p] = "point" /\ op[p] \in {"up", "approve"} /\ rec.status = "live"
      /\ rec'.status = "live" /\ rec'.approved = cand[p]
      /\ UNCHANGED <<stored, recs, pending, docker, exposed>>
  BY DEF Point, Move, Current, TypeOK
<1>2. PICK l \in {"idle", "result"} : pc' = [pc EXCEPT ![p] = l]
  BY DEF Point, AfterUpdate, Leave
<1>3. /\ \A q \in Procs \ {p} : op'[q] = op[q] /\ cand'[q] = cand[q] /\ roots'[q] = roots[q]
                                /\ leases'[q] = leases[q] /\ (q \in shared' <=> q \in shared)
      /\ op'[p] \in {op[p], "none"} /\ leases'[p] \subseteq leases[p]
      /\ shared' \subseteq shared
      /\ exclusive' \in {exclusive, exclusive \ {p}}
  BY DEF Point, AfterUpdate, Leave, TypeOK
<1>4. cand[p] \in exposed \/ Usable(cand[p])
  BY <1>1 DEF RefInv, InHand
<1>5. exclusive # {} => cand[p] \in exposed
  BY <1>1, CollectionExposes
<1>6. Turns'
  BY <1>1, <1>2, <1>3 DEF TypeOK, RefInv, Turns
<1>7. Fresh'
  BY <1>1 DEF Fresh
<1>8. LeasesHold'
  BY <1>1, <1>3 DEF RefInv, LeasesHold
<1>9. \A q \in Procs : InHand(q)'
  <2>1. InHand(p)'
    BY <1>2 DEF TypeOK, InHand
  <2>2. ASSUME NEW q \in Procs, q # p PROVE InHand(q)'
    BY <1>1, <1>2, <1>3, <2>2 DEF TypeOK, RefInv, InHand, Usable, Needed
  <2> QED BY <2>1, <2>2
<1>10. \A q \in Procs : Collected(q)'
  <2>1. Collected(p)'
    BY <1>2 DEF TypeOK, Collected
  <2>2. ASSUME NEW q \in Procs \ {p}, pc[q] \in MidCollection PROVE Shrinks
    <3>1. cand[p] \in exposed
      BY <1>5, <2>2 DEF RefInv, Turns
    <3> QED BY <1>1, <3>1 DEF Shrinks, Pointed, Awaited, Named, Bound
  <2> QED BY <1>2, <1>3, <2>1, <2>2, CollectedKept DEF TypeOK
<1>11. ReferencesUsable'
  BY <1>1, <1>4 DEF RefInv, ReferencesUsable, References, Named, Bound, Usable, Needed
<1> QED BY <1>6, <1>7, <1>8, <1>9, <1>10, <1>11 DEF RefInv

(* A step that changes nothing the invariant speaks of.                    *)
LEMMA SameKept ==
    ASSUME RefInv, rec'.status = rec.status, rec'.approved = rec.approved,
           UNCHANGED <<stored, recs, pending, docker, locks, locals, roots, history>>
    PROVE  RefInv'
<1>1. /\ Pointed' = Pointed /\ Awaited' = Awaited /\ Bound' = Bound
      /\ \A d \in Cands : Usable(d)' = Usable(d)
  BY DEF Pointed, Awaited, Bound, Usable, Needed
<1>2. Turns'
  BY DEF RefInv, Turns
<1>3. Fresh'
  BY DEF RefInv, Fresh
<1>4. \A q \in Procs : InHand(q)'
  BY DEF RefInv, InHand, Usable, Needed
<1>5. \A q \in Procs : Collected(q)'
  BY <1>1 DEF RefInv, Collected
<1>6. LeasesHold'
  BY DEF RefInv, LeasesHold
<1>7. ReferencesUsable'
  BY <1>1 DEF RefInv, ReferencesUsable, References, Usable, Needed
<1> QED BY <1>2, <1>3, <1>4, <1>5, <1>6, <1>7 DEF RefInv

LEMMA AskKept ==
    ASSUME RefInv, NEW r \in Requests, NEW c \in Contents, Ask(r, c)
    PROVE  RefInv'
<1>1. /\ rec'.status = rec.status /\ rec'.approved = rec.approved
      /\ UNCHANGED <<stored, recs, pending, docker, locks, locals, roots, history>>
  BY DEF Ask
<1> QED BY <1>1, SameKept DEF Ask

LEMMA RepinKept ==
    ASSUME Typed, RefInv, Repin
    PROVE  RefInv'
<1>1. /\ rec'.status = rec.status /\ rec'.approved = rec.approved
      /\ UNCHANGED <<stored, recs, pending, docker, locks, locals, roots, history>>
  BY DEF Repin, TypeOK
<1> QED BY <1>1, SameKept

-----------------------------------------------------------------------------
(* The steps together.                                                     *)

LEMMA ContinueKept ==
    ASSUME Typed, RefInv, NEW p \in Procs, Continue(p)
    PROVE  RefInv'
BY EndingKept, LockingKept, PublishingKept, ReconcilingKept, ListingKept, DecidingKept,
   ScanningKept, RemovingKept, SweepKept, ListSnapshotsKept, PointKept, Zenon DEF Continue

LEMMA NextKept ==
    ASSUME Typed, RefInv, Next
    PROVE  RefInv'
<1>1. ASSUME NEW p \in Procs, Begin(p) PROVE RefInv'
  BY <1>1, StartKept, RegisterKept DEF Begin
<1> QED BY <1>1, ContinueKept, EndingKept, AskKept, RepinKept, Zenon DEF Next

LEMMA StutterKept ==
    ASSUME RefInv, UNCHANGED vars
    PROVE  RefInv'
<1>1. /\ rec'.status = rec.status /\ rec'.approved = rec.approved
      /\ UNCHANGED <<stored, recs, pending, docker, locks, locals, roots, history>>
  BY DEF vars
<1> QED BY <1>1, SameKept

(* A collection takes only what nothing needs, as far as the invariant can *)
(* say in every state (App.GC, gcRoots, Store.RemoveObject).               *)
THEOREM InvariantTheorem == Spec => [](Typed /\ RefInv)
BY TypedStutter, InitTyped, NextTyped, InitReferences, NextKept, StutterKept, PTL DEF Spec

(* gc takes no candidate that an approval has loaded or that runtime.Up    *)
(* starts containers from (Store.Open, Store.RemoveObject, App.GC).        *)
THEOREM LeaseTheorem == Spec => []LeasesHold
<1>1. RefInv => LeasesHold
  BY DEF RefInv
<1> QED BY <1>1, InvariantTheorem, PTL

(* gc leaves what containers, the record and pending requests refer to, but*)
(* for candidates under approval meanwhile (App.GC, gcRoots).              *)
THEOREM ReferenceTheorem == Spec => []ReferencesUsable
<1>1. RefInv => ReferencesUsable
  BY DEF RefInv
<1> QED BY <1>1, InvariantTheorem, PTL

-----------------------------------------------------------------------------
(* No request without an answer.                                           *)

Scanned  == MidCollection \ {"containers", "records"}
Deciding == {"load", "result", "clear"}
Decided(p) == pc[p] \in Deciding \/ (op[p] = "approve" /\ pc[p] \in Running)

(* An answer is there before its request goes, and a collection that found *)
(* no project, and removes the answers, has nobody deciding beside it.     *)
Answered ==
    /\ \A p \in Procs : pc[p] = "clear" /\ Registered => results[req[p]] # None
    /\ \A p \in Procs : pc[p] \in Deciding => op[p] \in {"approve", "reject"}
    /\ \A p, q \in Procs :
          pc[p] \in Scanned /\ Registered /\ ~roots[p].registered => ~Decided(q)

(* A step of p that neither writes an answer nor takes a request away.     *)
Carries(p) ==
    /\ \A q \in Procs \ {p} : /\ pc'[q] = pc[q] /\ op'[q] = op[q]
                              /\ req'[q] = req[q] /\ roots'[q] = roots[q]
    /\ UNCHANGED results /\ (Registered' => Registered)
    /\ \A r \in Requests : pending[r] # None => pending'[r] # None
    /\ pc'[p] \in Deciding => pc'[p] # "clear" /\ op'[p] \in {"approve", "reject"}
    /\ Decided(p)' => Decided(p) \/ Bound # {}
    /\ pc'[p] \in Scanned /\ ~roots'[p].registered =>
          ~Registered \/ (pc[p] \in Scanned /\ ~roots[p].registered)

LEMMA CarriesAnswered ==
    ASSUME Typed, RefInv, Answered, NEW p \in Procs, Carries(p)
    PROVE  Answered'
<1>1. \A q \in Procs : pc'[q] = "clear" /\ Registered' => results'[req'[q]] # None
  BY DEF Carries, Answered, Deciding
<1>2. \A q \in Procs : pc'[q] \in Deciding => op'[q] \in {"approve", "reject"}
  BY DEF Carries, Answered
<1>3. ASSUME NEW q \in Procs, NEW s \in Procs,
             pc'[q] \in Scanned, Registered', ~roots'[q].registered, Decided(s)'
      PROVE  FALSE
  <2>1. Registered /\ pc[q] \in Scanned /\ ~roots[q].registered
    BY <1>3 DEF Carries
  <2>2. Bound = {}
    BY <2>1 DEF RefInv, Collected, Awaited, Scanned
  <2>3. Decided(s)
    BY <1>3, <2>2 DEF Carries, Decided
  <2> QED BY <2>1, <2>3 DEF Answered
<1> QED BY <1>1, <1>2, <1>3 DEF Answered

LEMMA LeavingCarries ==
    ASSUME Typed, NEW p \in Procs, Leave(p), UNCHANGED <<pending, results>>,
           Registered' => Registered
    PROVE  Carries(p)
BY DEF TypeOK, Leave, Carries, Decided, Deciding, Scanned

LEMMA GoingCarries ==
    ASSUME Typed, Answered, NEW p \in Procs, NEW l \in PC, Go(p, l),
           UNCHANGED <<results, op, req, roots>>, Registered' => Registered,
           \A r \in Requests : pending[r] # None => pending'[r] # None,
           l \notin Deciding,
           l \in Running => pc[p] \in {"load"} \cup Running \/ op[p] # "approve",
           l \in Scanned => pc[p] \in Scanned
    PROVE  Carries(p)
BY DEF TypeOK, Carries, Decided, Deciding

LEMMA BeginsCarries ==
    ASSUME Typed, Answered, NEW p \in Procs,
           \/ Up(p) \/ List(p) \/ Approve(p) \/ Reject(p) \/ Down(p) \/ Forget(p) \/ GC(p)
    PROVE  Carries(p)
<1>1. PICK l \in {"shared", "raws", "match", "project", "delete", "exclusive"}, o \in Op :
         /\ pc' = [pc EXCEPT ![p] = l] /\ op' = [op EXCEPT ![p] = o]
         /\ l = "project" => o = "down"
  BY DEF Up, List, Approve, Reject, Down, Forget, GC, Start
<1>2. UNCHANGED <<disk, req, roots>>
  BY DEF Up, List, Approve, Reject, Down, Forget, GC, Start
<1> QED BY <1>1, <1>2 DEF TypeOK, Carries, Decided, Deciding, Scanned

LEMMA EndsCarries ==
    ASSUME Typed, NEW p \in Procs,
           \/ Abort(p) \/ Conflict(p) \/ Listed(p) \/ NoMatch(p) \/ NotFound(p)
           \/ FailGeneration(p) \/ Teardown(p) \/ Delete(p)
    PROVE  Carries(p)
<1>1. CASE GiveUp(p)
  BY <1>1, LeavingCarries DEF GiveUp
<1>2. CASE FailGeneration(p) \/ Teardown(p)
  BY <1>2, LeavingCarries DEF FailGeneration, Teardown
<1>3. CASE Delete(p)
  BY <1>3, LeavingCarries DEF Delete, TypeOK
<1> QED BY <1>1, <1>2, <1>3 DEF Abort, Conflict, Listed, NoMatch, NotFound

LEMMA LocksCarry ==
    ASSUME Typed, Answered, NEW p \in Procs,
           TakeShared(p) \/ TakeProject(p) \/ TakeExclusive(p)
    PROVE  Carries(p)
BY DEF TypeOK, TakeShared, TakeProject, TakeExclusive, Carries, Decided, Deciding, Scanned

LEMMA PublishingCarries ==
    ASSUME Typed, Answered, NEW p \in Procs,
           (\E d \in Cands : PublishSnapshot(p, d)) \/ PublishCandidate(p) \/ WriteRecord(p)
    PROVE  Carries(p)
BY DEF TypeOK, PublishSnapshot, PublishCandidate, WriteRecord, Carries, Decided, Deciding,
   Scanned

LEMMA ReconcilingCarries ==
    ASSUME Typed, Answered, NEW p \in Procs,
           Sweep(p) \/ Lease(p) \/ Stage(p) \/ CommitGeneration(p)
    PROVE  Carries(p)
<1>1. UNCHANGED disk
  BY DEF Sweep, Lease, Stage, CommitGeneration
<1>2. CASE Leave(p)
  BY <1>1, <1>2, LeavingCarries
<1>3. CASE ~Leave(p)
  <2>1. PICK l \in {"lease", "stage", "commit", "point"} : Goto(p, l)
    BY <1>3 DEF Sweep, Lease, Stage, CommitGeneration
  <2>2. UNCHANGED roots /\ pc[p] \in Running
    BY <1>3 DEF Sweep, Lease, Stage, CommitGeneration
  <2> QED BY <1>1, <2>1, <2>2, GoingCarries DEF Deciding, Scanned
<1> QED BY <1>2, <1>3

LEMMA PointCarries ==
    ASSUME Typed, Answered, NEW p \in Procs, Point(p)
    PROVE  Carries(p)
BY DEF TypeOK, Point, Move, AfterUpdate, Leave, Carries, Decided, Deciding, Scanned

LEMMA ListingCarries ==
    ASSUME Typed, Answered, NEW p \in Procs,
           \/ ReadRequests(p) \/ ReadPending(p) \/ ReadResults(p)
           \/ (\E r \in Requests : Adopt(p, r)) \/ SkipRequest(p) \/ WritePending(p)
    PROVE  Carries(p)
<1>1. CASE ReadRequests(p) \/ ReadPending(p) \/ ReadResults(p)
  <2>1. PICK l \in {"known", "results", "shared"} : Goto(p, l)
    BY <1>1 DEF ReadRequests, ReadPending, ReadResults
  <2>2. UNCHANGED <<disk, roots>>
    BY <1>1 DEF ReadRequests, ReadPending, ReadResults
  <2> QED BY <2>1, <2>2, GoingCarries DEF Deciding, Scanned
<1>2. CASE \E r \in Requests : Adopt(p, r)
  BY <1>2 DEF TypeOK, Adopt, Carries, Decided, Deciding, Scanned
<1>3. CASE SkipRequest(p) \/ WritePending(p)
  <2>1. \A r \in Requests : pending[r] # None => pending'[r] # None
    <3>1. CASE SkipRequest(p)
      BY <3>1 DEF SkipRequest
    <3>2. CASE WritePending(p)
      <4>1. pc[p] = "bind" /\ Stages(p)
        BY <3>2 DEF WritePending
      <4>2. raws[p][req[p]] \in Contents /\ cand[p] \in Cands
        BY <4>1 DEF Wanted
      <4>3. [content |-> raws[p][req[p]], cand |-> cand[p]] \in Pending
        BY <4>2
      <4> QED BY <3>2, <4>3, NoneAssumption DEF WritePending, TypeOK
    <3> QED BY <1>3, <3>1, <3>2
  <2>2. /\ pc' = [pc EXCEPT ![p] = "adopt"] /\ req' = [req EXCEPT ![p] = None]
        /\ UNCHANGED <<rec, results, roots, op>> /\ op[p] = "list"
    <3>1. CASE SkipRequest(p)
      BY <3>1 DEF SkipRequest, NextRequest
    <3>2. CASE WritePending(p)
      BY <3>2 DEF WritePending, NextRequest
    <3> QED BY <1>3, <3>1, <3>2
  <2> QED BY <2>1, <2>2 DEF TypeOK, Carries, Decided, Deciding, Scanned
<1> QED BY <1>1, <1>2, <1>3

LEMMA DecidingCarries ==
    ASSUME Typed, Answered, NEW p \in Procs,
           (\E r \in Requests : Match(p, r)) \/ Load(p)
    PROVE  Carries(p)
<1>1. ASSUME NEW r \in Requests, Match(p, r) PROVE Carries(p)
  <2>1. pending[r].cand \in Bound
    BY <1>1 DEF Match, Bound
  <2>2. /\ pc[p] = "match" /\ op[p] \in {"approve", "reject"} /\ op' = op
        /\ pc' = [pc EXCEPT ![p] = IF op[p] = "approve" THEN "load" ELSE "result"]
        /\ req' = [req EXCEPT ![p] = r] /\ UNCHANGED <<disk, roots>>
    BY <1>1 DEF Match
  <2> QED BY <2>1, <2>2 DEF TypeOK, Carries, Decided, Deciding, Scanned
<1>2. CASE Load(p)
  BY <1>2, GoingCarries DEF Load, Deciding, Scanned
<1> QED BY <1>1, <1>2

LEMMA CollectingCarries ==
    ASSUME Typed, RefInv, Answered, NEW p \in Procs,
           \/ ListContainers(p) \/ ListRecords(p) \/ ListPending(p) \/ ListSnapshots(p)
           \/ (\E o \in Objects : Remove(p, o)) \/ RemoveRecord(p)
           \/ NextPhase(p) \/ RemoveOrphans(p)
    PROVE  Carries(p)
<1>1. CASE ListContainers(p)
  BY <1>1 DEF TypeOK, ListContainers, Found, Carries, Decided, Deciding, Scanned
<1>2. CASE ListRecords(p)
  BY <1>2 DEF TypeOK, ListRecords, Found, Carries, Decided, Deciding, Scanned
<1>3. CASE ListPending(p)
  <2>1. roots'[p].registered = roots[p].registered
    BY <1>3 DEF TypeOK, ListPending, Found
  <2> QED BY <1>3, <2>1 DEF TypeOK, ListPending, Found, Carries, Decided, Deciding, Scanned
<1>4. CASE ListSnapshots(p)
  <2>1. CASE Leave(p)
    BY <1>4, <2>1, LeavingCarries DEF ListSnapshots
  <2>2. CASE Goto(p, "cands")
    <3>1. /\ roots'[p].registered = roots[p].registered
          /\ \A q \in Procs \ {p} : roots'[q] = roots[q]
      BY <1>4, <2>2 DEF TypeOK, ListSnapshots, Found, Leave
    <3> QED BY <1>4, <2>2, <3>1 DEF TypeOK, ListSnapshots, Carries, Decided, Deciding, Scanned
  <2> QED BY <1>4, <2>1, <2>2 DEF ListSnapshots
<1>5. CASE (\E o \in Objects : Remove(p, o)) \/ RemoveRecord(p) \/ NextPhase(p) \/ RemoveOrphans(p)
  BY <1>5 DEF TypeOK, Remove, RemoveRecord, NextPhase, RemoveOrphans, Carries, Decided,
     Deciding, Scanned
<1> QED BY <1>1, <1>2, <1>3, <1>4, <1>5

-----------------------------------------------------------------------------
(* The steps that write an answer or take a request away, and the rest.    *)

LEMMA WriteResultAnswered ==
    ASSUME Typed, Answered, NEW p \in Procs, WriteResult(p)
    PROVE  Answered'
<1>1. PICK v \in Result : results' = [results EXCEPT ![req[p]] = v]
  <2>1. [status |-> IF op[p] = "approve" THEN "approved" ELSE "rejected",
         cand |-> cand[p]] \in Result
    BY DEF WriteResult
  <2> QED BY <2>1 DEF WriteResult
<1>2. v # None
  BY <1>1, NoneAssumption
<1>3. /\ pc' = [pc EXCEPT ![p] = "clear"] /\ pc[p] = "result" /\ req[p] \in Requests
      /\ UNCHANGED <<rec, roots, op, req>>
  BY DEF WriteResult
<1>4. \A q \in Procs : pc'[q] = "clear" /\ Registered' => results'[req'[q]] # None
  BY <1>1, <1>2, <1>3 DEF Answered, TypeOK
<1>5. \A q \in Procs : pc'[q] \in Deciding => op'[q] \in {"approve", "reject"}
  BY <1>3 DEF Answered, Deciding, TypeOK
<1>6. \A q \in Procs : (pc'[q] \in Scanned => pc[q] \in Scanned) /\ (Decided(q)' => Decided(q))
  BY <1>3 DEF Decided, Deciding, Scanned, TypeOK
<1>7. \A q, s \in Procs :
         pc'[q] \in Scanned /\ Registered' /\ ~roots'[q].registered => ~Decided(s)'
  BY <1>3, <1>6 DEF Answered
<1> QED BY <1>4, <1>5, <1>7 DEF Answered

(* Ending a decision or a collection takes away what nobody decides on.    *)
LEMMA RemovingAnswered ==
    ASSUME Typed, RefInv, Answered, NEW p \in Procs, DeletePending(p) \/ RemoveState(p)
    PROVE  Answered'
<1>1. Leave(p) /\ UNCHANGED rec
  BY DEF DeletePending, RemoveState
<1>2. ASSUME NEW q \in Procs, pc'[q] = "clear", Registered' PROVE results'[req'[q]] # None
  <2>1. q # p /\ pc[q] = "clear" /\ req'[q] = req[q] /\ Registered
    BY <1>1, <1>2 DEF Leave, TypeOK
  <2>2. results' = results
    BY <1>1, <2>1 DEF DeletePending, RemoveState, Answered, Decided, Deciding, Scanned
  <2> QED BY <2>1, <2>2 DEF Answered
<1>3. \A q \in Procs : /\ pc'[q] \in Deciding => pc[q] \in Deciding /\ op'[q] = op[q]
                       /\ pc'[q] \in Scanned => pc[q] \in Scanned /\ roots'[q] = roots[q]
                       /\ Decided(q)' => Decided(q)
  BY <1>1 DEF Leave, TypeOK, Decided, Deciding, Scanned
<1> QED BY <1>1, <1>2, <1>3 DEF Answered

(* Who works on the project works on one that was registered before.       *)
LEMMA RegisterAnswered ==
    ASSUME Typed, RefInv, Answered, NEW p \in Procs, Register(p)
    PROVE  Answered'
<1>1. rec.status = "new" /\ UNCHANGED <<results, pc, op, req, roots>>
  BY DEF Register
<1>2. \A q \in Procs : op[q] \in {"none", "gc"}
  BY <1>1 DEF RefInv, Fresh
<1>3. \A q \in Procs : pc[q] \notin Deciding /\ ~Decided(q)
  BY <1>2 DEF Answered, Decided
<1> QED BY <1>1, <1>3 DEF Answered, Decided, Deciding

LEMMA SameAnswered ==
    ASSUME Answered, rec'.status = rec.status, UNCHANGED <<results, pc, op, req, roots>>
    PROVE  Answered'
BY DEF Answered, Decided

LEMMA StepAnswered ==
    ASSUME Typed, RefInv, Answered, Next
    PROVE  Answered'
<1>1. ASSUME NEW p \in Procs, Begin(p) PROVE Answered'
  BY <1>1, BeginsCarries, CarriesAnswered, RegisterAnswered DEF Begin
<1>2. ASSUME NEW p \in Procs, Abort(p) PROVE Answered'
  BY <1>2, EndsCarries, CarriesAnswered
<1>3. ASSUME NEW p \in Procs, Continue(p) PROVE Answered'
  BY <1>3, CarriesAnswered, EndsCarries, LocksCarry, PublishingCarries, ReconcilingCarries,
     PointCarries, ListingCarries, DecidingCarries, CollectingCarries, WriteResultAnswered,
     RemovingAnswered, Zenon DEF Continue
<1>4. ASSUME NEW r \in Requests, NEW c \in Contents, Ask(r, c) PROVE Answered'
  BY <1>4, SameAnswered DEF Ask
<1>5. CASE Repin
  BY <1>5, SameAnswered DEF Repin, TypeOK
<1> QED BY <1>1, <1>2, <1>3, <1>4, <1>5 DEF Next

LEMMA InitAnswered == Init => Answered
BY DEF Init, Answered, Decided, Deciding, Scanned

(* A request goes with its answer there, or from a project that is gone.   *)
LEMMA RequestsLeave ==
    ASSUME Typed, RefInv, Answered, Next, NEW r \in Requests,
           pending[r] # None, pending'[r] = None, Registered
    PROVE  results[r] # None
<1>1. ASSUME NEW p \in Procs, Carries(p) PROVE FALSE
  BY <1>1 DEF Carries
<1>2. ASSUME NEW p \in Procs, WriteResult(p) \/ Register(p) PROVE FALSE
  BY <1>2 DEF WriteResult, Register
<1>3. ASSUME NEW p \in Procs, DeletePending(p) PROVE results[r] # None
  <2>1. r = req[p] /\ pc[p] = "clear"
    BY <1>3 DEF DeletePending, TypeOK
  <2> QED BY <2>1 DEF Answered
<1>4. ASSUME NEW p \in Procs, RemoveState(p) PROVE FALSE
  <2>1. pc[p] = "state" /\ ~roots[p].registered
    BY <1>4 DEF RemoveState
  <2>2. Bound = {}
    BY <2>1 DEF RefInv, Collected, Awaited
  <2>3. pending[r].cand \in Bound
    BY DEF Bound
  <2> QED BY <2>2, <2>3
<1>5. ASSUME NEW p \in Procs, Begin(p) PROVE FALSE
  BY <1>1, <1>2, <1>5, BeginsCarries DEF Begin
<1>6. ASSUME NEW p \in Procs, Abort(p) PROVE FALSE
  BY <1>1, <1>6, EndsCarries
<1>7. ASSUME NEW p \in Procs, Continue(p) PROVE results[r] # None
  BY <1>1, <1>2, <1>3, <1>4, <1>7, EndsCarries, LocksCarry, PublishingCarries,
     ReconcilingCarries, PointCarries, ListingCarries, DecidingCarries, CollectingCarries,
     Zenon DEF Continue
<1>8. ASSUME NEW q \in Requests, NEW c \in Contents, Ask(q, c) PROVE FALSE
  BY <1>8 DEF Ask
<1>9. CASE Repin
  BY <1>9 DEF Repin
<1> QED BY <1>5, <1>6, <1>7, <1>8, <1>9 DEF Next

(* No request of a registered project is taken off the pending list before *)
(* the agent can read an answer, wherever an operation dies and whatever   *)
(* else runs (Broker.Decide, App.RequestDecide, App.GC).                   *)
THEOREM AnsweredTheorem == Spec => RequestsAnswered
<1> DEFINE Answers == \A r \in Requests :
              pending[r] # None /\ pending'[r] = None /\ Registered => results[r] # None
<1>1. Typed /\ RefInv /\ Answered /\ [Next]_vars => [Answers]_vars
  BY RequestsLeave
<1>2. Typed /\ RefInv /\ Answered /\ [Next]_vars => Answered'
  BY StepAnswered, SameAnswered DEF vars
<1> QED BY <1>1, <1>2, InitAnswered, InvariantTheorem, PTL DEF Spec, RequestsAnswered
=============================================================================
