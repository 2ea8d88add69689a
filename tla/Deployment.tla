----------------------------- MODULE Deployment ----------------------------
(***************************************************************************)
(* The operations of internal/app on one project: up, down, forget, the    *)
(* listing and deciding of rebuild requests, and garbage collection, run   *)
(* by several vibe processes at once.  They share the registry record, the *)
(* broker's files, the object store, the containers, and the locks         *)
(* store-global and project.                                               *)
(*                                                                         *)
(* Replacing the containers is here what Generations says it is: the       *)
(* project is on one generation or on the next.  Every other durable write *)
(* and every read that a later step relies on is a step of its own.  An    *)
(* operation may return with an error, or its process may die, anywhere:   *)
(* deferred releases and the kernel then let go of the same locks.         *)
(*                                                                         *)
(* `mutant of D' marks a version of D with a plausible bug; it is no part  *)
(* of the model and only shows that a property notices.                    *)
(***************************************************************************)
EXTENDS Naturals, FiniteSets

CONSTANTS
    Procs,      \* vibe processes
    Cands,      \* candidate digests
    Snaps,      \* snapshot digests
    FrozenIn,   \* [Cands -> Snaps]: CandidateRecord.Snapshot
    Requests,   \* request IDs
    Contents,   \* what a request file may say
    None,
    MaxRev,     \* bound: revisions of the project's record
    MaxOps      \* bound: operations that are started

ASSUME ObjectsAssumption ==
    /\ FrozenIn \in [Cands -> Snaps] /\ Cands \cap Snaps = {}
    /\ None \notin Cands \cup Contents \cup Requests \cup Procs
    /\ "failed" \notin Procs \cup {None}
    /\ MaxRev \in Nat \ {0} /\ MaxOps \in Nat

VARIABLES
    rec,        \* the registry record
    stored,     \* objects at their published path
    recs,       \* candidates whose record file exists
    running,    \* the generation in charge, None after down
    live,       \* candidates labelled on some managed container
    asked,      \* request files in the workspace
    pending,    \* the broker's pending records
    results,    \* the broker's decisions
    shared, exclusive,      \* who holds store-global, and how
    project,    \* who holds the project lock
    leases,     \* [Procs -> SUBSET Objects]
    started,    \* operations started so far
    pc, op, rev, cand, req, \* where a process is, and its operation's locals
    raws, known, todo,      \* locals of RequestList
    roots,      \* [Procs -> Scan]: gcRoots
    debtor,     \* history: who owes the pointer for the latest commit
    pointed,    \* history: candidates the pointer has named
    exposed     \* history: candidates under approval during a collection

disk    == <<rec, stored, recs, pending, results>>
docker  == <<running, live>>
locks   == <<shared, exclusive, project, leases>>
listing == <<raws, known, todo>>
locals  == <<pc, op, rev, cand, req>>
history == <<debtor, pointed, exposed>>
outside == <<asked, started>>
vars    == <<disk, docker, outside, locks, locals, listing, roots, history>>

Objects == Cands \cup Snaps
Record  == [status : {"new", "live", "gone"}, rev : 0 .. MaxRev,
            approved : Cands \cup {None}]
Pending == [content : Contents, cand : Cands]
Result  == [status : {"approved", "rejected"}, cand : Cands]
File    == [Requests -> Contents \cup {None}]
NoFile  == [r \in Requests |-> None]
Scan    == [live : SUBSET Cands, kept : SUBSET Objects, registered : BOOLEAN]
NoScan  == [live |-> {}, kept |-> {}, registered |-> FALSE]

(* None is neither a pending record nor an answer.                         *)
ASSUME NoneAssumption == None \notin Pending \cup Result

Op == {"up", "list", "approve", "reject", "down", "forget", "gc", "none"}
PC == {"idle", "shared", "snapshot", "candidate", "record", "project", "sweep",
       "lease", "stage", "commit", "point", "raws", "known", "results", "adopt", "bind",
       "match", "load", "result", "clear", "teardown", "delete", "exclusive",
       "containers", "records", "pending", "snapshots", "cands", "unrecord",
       "snaps", "orphans", "state"}

(* The state's type.  The bound on the revision is one: of the operations  *)
(* that read a revision, one at most moves it.                             *)
TypeOK ==
    /\ rec \in Record
    /\ stored \subseteq Objects /\ recs \subseteq Cands
    /\ running \in Cands \cup {None} /\ live \subseteq Cands
    /\ asked \in File
    /\ pending \in [Requests -> Pending \cup {None}]
    /\ results \in [Requests -> Result \cup {None}]
    /\ shared \subseteq Procs /\ exclusive \subseteq Procs /\ project \subseteq Procs
    /\ leases \in [Procs -> SUBSET Objects]
    /\ started \in 0 .. MaxOps
    /\ pc \in [Procs -> PC] /\ op \in [Procs -> Op]
    /\ rev \in [Procs -> 0 .. MaxRev]
    /\ cand \in [Procs -> Cands \cup {None}]
    /\ req \in [Procs -> Requests \cup {None}]
    /\ raws \in [Procs -> File] /\ known \in [Procs -> File]
    /\ todo \in [Procs -> SUBSET Requests]
    /\ roots \in [Procs -> Scan]
    /\ debtor \in Procs \cup {None, "failed"}
    /\ pointed \subseteq Cands /\ exposed \subseteq Cands

Init ==
    /\ rec = [status |-> "new", rev |-> 0, approved |-> None]
    /\ stored = {} /\ recs = {} /\ running = None /\ live = {}
    /\ asked = NoFile /\ pending = NoFile /\ results = NoFile
    /\ shared = {} /\ exclusive = {} /\ project = {}
    /\ leases = [p \in Procs |-> {}]
    /\ started = 0
    /\ pc = [p \in Procs |-> "idle"] /\ op = [p \in Procs |-> "none"]
    /\ rev = [p \in Procs |-> 0]
    /\ cand = [p \in Procs |-> None] /\ req = [p \in Procs |-> None]
    /\ raws = [p \in Procs |-> NoFile] /\ known = [p \in Procs |-> NoFile]
    /\ todo = [p \in Procs |-> {}]
    /\ roots = [p \in Procs |-> NoScan]
    /\ debtor = None /\ pointed = {} /\ exposed = {}

----------------------------------------------------------------------------
(* Starting and ending an operation.                                       *)

At(p, l)   == pc[p] = l
Go(p, l)   == pc' = [pc EXCEPT ![p] = l]
Goto(p, l) == Go(p, l) /\ UNCHANGED <<op, rev, cand, req>>

Registered == rec.status = "live"

(* What the deferred calls of an operation do, and the kernel for a dead   *)
(* process: every lock and lease goes, and so do the locals.               *)
Leave(p) ==
    /\ pc' = [pc EXCEPT ![p] = "idle"] /\ op' = [op EXCEPT ![p] = "none"]
    /\ rev' = [rev EXCEPT ![p] = 0]
    /\ cand' = [cand EXCEPT ![p] = None] /\ req' = [req EXCEPT ![p] = None]
    /\ raws' = [raws EXCEPT ![p] = NoFile] /\ known' = [known EXCEPT ![p] = NoFile]
    /\ todo' = [todo EXCEPT ![p] = {}] /\ roots' = [roots EXCEPT ![p] = NoScan]
    /\ shared' = shared \ {p} /\ exclusive' = exclusive \ {p}
    /\ project' = project \ {p} /\ leases' = [leases EXCEPT ![p] = {}]

(* An operation whose commit is the latest and that ends without moving    *)
(* the pointer has failed for its caller.                                  *)
Blame(p) == debtor' = IF debtor = p THEN "failed" ELSE debtor

GiveUp(p) ==
    /\ Leave(p) /\ Blame(p)
    /\ UNCHANGED <<disk, docker, outside, pointed, exposed>>

(* An error return or the death of the process.                            *)
Abort(p) == ~At(p, "idle") /\ GiveUp(p)

(* resolveProject, lock-free, before anything else.                        *)
Start(p, o, l) ==
    /\ At(p, "idle") /\ Registered
    /\ started < MaxOps /\ started' = started + 1
    /\ o \in {"up", "approve"} => rec.rev < MaxRev
    /\ Go(p, l) /\ op' = [op EXCEPT ![p] = o]
    /\ rev' = [rev EXCEPT ![p] = rec.rev]
    /\ UNCHANGED <<disk, docker, asked, locks, cand, req, listing, roots, history>>

Up(p)      == Start(p, "up", "shared")
List(p)    == Start(p, "list", "raws")
Approve(p) == Start(p, "approve", "match")
Reject(p)  == Start(p, "reject", "match")
Down(p)    == Start(p, "down", "project")
Forget(p)  == Start(p, "forget", "delete")

GC(p) ==
    /\ At(p, "idle") /\ started < MaxOps /\ started' = started + 1
    /\ Go(p, "exclusive") /\ op' = [op EXCEPT ![p] = "gc"]
    /\ UNCHANGED <<disk, docker, asked, locks, rev, cand, req, listing, roots, history>>

(* A forgotten project that is registered again is another project.        *)
Register(p) ==
    /\ At(p, "idle") /\ rec.status = "new"
    /\ rec' = [rec EXCEPT !.status = "live", !.rev = 1]
    /\ UNCHANGED <<stored, recs, pending, results, docker, outside, locks, locals,
                   listing, roots, history>>

----------------------------------------------------------------------------
(* Locks.                                                                  *)

(* mutant of TakeShared: the hold does not wait for a collection *)
TakeSharedAnyway(p) ==
    /\ At(p, "shared")
    /\ shared' = shared \cup {p}
    /\ Goto(p, IF op[p] = "up" THEN "snapshot" ELSE "adopt")
    /\ UNCHANGED <<disk, docker, outside, exclusive, project, leases, listing, roots,
                   history>>

TakeShared(p) ==
    /\ At(p, "shared") /\ exclusive = {}
    /\ shared' = shared \cup {p}
    /\ Goto(p, IF op[p] = "up" THEN "snapshot" ELSE "adopt")
    /\ UNCHANGED <<disk, docker, outside, exclusive, project, leases, listing, roots,
                   history>>

TakeProject(p) ==
    /\ At(p, "project") /\ project = {}
    /\ project' = {p}
    /\ Goto(p, IF op[p] = "down" THEN "teardown" ELSE "sweep")
    /\ UNCHANGED <<disk, docker, outside, shared, exclusive, leases, listing, roots,
                   history>>

TakeExclusive(p) ==
    /\ At(p, "exclusive") /\ exclusive = {} /\ shared = {}
    /\ exclusive' = {p} /\ Goto(p, "containers")
    /\ exposed' = exposed \cup (Cands \cap UNION {leases[q] : q \in Procs})
    /\ UNCHANGED <<disk, docker, outside, shared, project, leases, listing, roots,
                   debtor, pointed>>

----------------------------------------------------------------------------
(* prepareCandidate: the workspace compiles to some candidate; what is     *)
(* already there is published again without effect.                        *)

PublishSnapshot(p, d) ==
    /\ At(p, "snapshot") /\ Go(p, "candidate")
    /\ cand' = [cand EXCEPT ![p] = d]
    /\ stored' = stored \cup {FrozenIn[d]}
    /\ UNCHANGED <<rec, recs, pending, results, docker, outside, locks, op, rev, req,
                   listing, roots, history>>

PublishCandidate(p) ==
    /\ At(p, "candidate") /\ Goto(p, "record")
    /\ stored' = stored \cup {cand[p]}
    /\ UNCHANGED <<rec, recs, pending, results, docker, outside, locks, listing, roots,
                   history>>

WriteRecord(p) ==
    /\ At(p, "record") /\ Goto(p, IF op[p] = "up" THEN "project" ELSE "bind")
    /\ recs' = recs \cup {cand[p]}
    /\ UNCHANGED <<rec, stored, pending, results, docker, outside, locks, listing, roots,
                   history>>

----------------------------------------------------------------------------
(* runtime.Up under the project lock.                                      *)

Needed(d) == {d, FrozenIn[d]}

(* sweep leaves the generation in charge.  A lease opens the directory,    *)
(* which must be there, and then locks what it has opened.                 *)
Sweep(p) ==
    /\ At(p, "sweep")
    /\ live' = live \cap {running}
    /\ IF Needed(cand[p]) \subseteq stored
       THEN Goto(p, "lease") /\ UNCHANGED <<locks, listing, roots>>
       ELSE Leave(p)
    /\ UNCHANGED <<disk, running, outside, history>>

Lease(p) ==
    /\ At(p, "lease") /\ Goto(p, "stage")
    /\ leases' = [leases EXCEPT ![p] = Needed(cand[p])]
    /\ UNCHANGED <<disk, docker, outside, shared, exclusive, project, listing, roots,
                   history>>

Stage(p) ==
    /\ At(p, "stage") /\ Goto(p, "commit")
    /\ live' = live \cup {cand[p]}
    /\ UNCHANGED <<disk, running, outside, locks, listing, roots, history>>

(* mutant of CommitGeneration: the project lock is held until the return *)
CommitAndHold(p) ==
    /\ At(p, "commit") /\ Goto(p, "point")
    /\ running' = cand[p] /\ live' = {cand[p]}
    /\ debtor' = p
    /\ UNCHANGED <<disk, outside, locks, listing, roots, pointed, exposed>>

(* runtime.Up returns: its lock and leases go, the approval's own lease of *)
(* the candidate stays.                                                    *)
CommitGeneration(p) ==
    /\ At(p, "commit") /\ Goto(p, "point")
    /\ running' = cand[p] /\ live' = {cand[p]}
    /\ project' = project \ {p}
    /\ leases' = [leases EXCEPT ![p] = IF op[p] = "approve" THEN {cand[p]} ELSE {}]
    /\ debtor' = p
    /\ UNCHANGED <<disk, outside, shared, exclusive, listing, roots, pointed, exposed>>

(* Either the old generation is back, or the commit took effect before it  *)
(* failed.                                                                 *)
FailGeneration(p) ==
    /\ At(p, "commit") /\ Leave(p)
    /\ \/ live' = live \cap {running} /\ UNCHANGED <<running, debtor>>
       \/ running' = cand[p] /\ debtor' = "failed" /\ UNCHANGED live
    /\ UNCHANGED <<disk, outside, pointed, exposed>>

Teardown(p) ==
    /\ At(p, "teardown") /\ Leave(p)
    /\ running' = None /\ live' = {}
    /\ UNCHANGED <<disk, outside, history>>

----------------------------------------------------------------------------
(* Registry.Update and Delete: compare and swap under the project lock.    *)

Current(p) == Registered /\ rec.rev = rev[p]

(* The pointer moves; the debt of the latest commit is paid if p owes it.  *)
Move(p) ==
    /\ rec' = [rec EXCEPT !.rev = @ + 1, !.approved = cand[p]]
    /\ pointed' = pointed \cup {cand[p]}
    /\ debtor' = IF debtor = p THEN None ELSE debtor

(* An Up is done, an approval goes on to its answer.                       *)
AfterUpdate(p) ==
    IF op[p] = "up" THEN Leave(p)
    ELSE Goto(p, "result") /\ UNCHANGED <<locks, listing, roots>>

(* mutant of Point: the revision read at the start is not compared *)
PointUnchecked(p) ==
    /\ At(p, "point") /\ project = {} /\ Registered
    /\ Move(p) /\ AfterUpdate(p)
    /\ UNCHANGED <<stored, recs, pending, results, docker, outside, exposed>>

(* mutant of Point: the error of a refused update is dropped *)
PointOrGoOn(p) ==
    /\ At(p, "point") /\ project = {}
    /\ IF Current(p) THEN Move(p) ELSE UNCHANGED <<rec, pointed>> /\ Blame(p)
    /\ AfterUpdate(p)
    /\ UNCHANGED <<stored, recs, pending, results, docker, outside, exposed>>

Point(p) ==
    /\ At(p, "point") /\ project = {} /\ Current(p)
    /\ Move(p) /\ AfterUpdate(p)
    /\ UNCHANGED <<stored, recs, pending, results, docker, outside, exposed>>

Delete(p) ==
    /\ At(p, "delete") /\ project = {} /\ Current(p)
    /\ rec' = [rec EXCEPT !.status = "gone", !.approved = None]
    /\ Leave(p)
    /\ UNCHANGED <<stored, recs, pending, results, docker, outside, history>>

Conflict(p) ==
    /\ pc[p] \in {"point", "delete"} /\ project = {} /\ ~Current(p)
    /\ GiveUp(p)

(* dev on, dev off and update change other fields of the record.           *)
Repin ==
    /\ Registered /\ project = {} /\ rec.rev < MaxRev
    /\ rec' = [rec EXCEPT !.rev = @ + 1]
    /\ UNCHANGED <<stored, recs, pending, results, docker, outside, locks, locals,
                   listing, roots, history>>

----------------------------------------------------------------------------
(* RequestList.  The three reads precede the store-global hold.            *)

(* An agent writes or replaces a request file.                             *)
Ask(r, c) ==
    /\ asked[r] # c
    /\ asked' = [asked EXCEPT ![r] = c]
    /\ UNCHANGED <<disk, docker, started, locks, locals, listing, roots, history>>

ReadRequests(p) ==
    /\ At(p, "raws") /\ Goto(p, "known")
    /\ raws' = [raws EXCEPT ![p] = asked]
    /\ UNCHANGED <<disk, docker, outside, locks, known, todo, roots, history>>

ReadPending(p) ==
    /\ At(p, "known") /\ Goto(p, "results")
    /\ known' = [known EXCEPT ![p] =
          [r \in Requests |-> IF pending[r] = None THEN None ELSE pending[r].content]]
    /\ UNCHANGED <<disk, docker, outside, locks, raws, todo, roots, history>>

(* New or replaced content: neither what is bound already, nor decided and *)
(* no longer pending.                                                      *)
ToAdopt(p) ==
    {r \in Requests :
        /\ raws[p][r] # None /\ known[p][r] # raws[p][r]
        /\ results[r] # None => known[p][r] # None}

ReadResults(p) ==
    /\ At(p, "results") /\ Goto(p, "shared")
    /\ todo' = [todo EXCEPT ![p] = ToAdopt(p)]
    /\ known' = [known EXCEPT ![p] = NoFile]
    /\ UNCHANGED <<disk, docker, outside, locks, raws, roots, history>>

Adopt(p, r) ==
    /\ At(p, "adopt") /\ r \in todo[p]
    /\ Go(p, "snapshot") /\ req' = [req EXCEPT ![p] = r]
    /\ UNCHANGED <<disk, docker, outside, locks, op, rev, cand, listing, roots, history>>

NextRequest(p) ==
    /\ todo' = [todo EXCEPT ![p] = @ \ {req[p]}]
    /\ Go(p, "adopt")
    /\ cand' = [cand EXCEPT ![p] = None] /\ req' = [req EXCEPT ![p] = None]
    /\ UNCHANGED <<op, rev, raws, known>>

(* A candidate that cannot be prepared is a problem of its request alone.  *)
SkipRequest(p) ==
    /\ op[p] = "list" /\ pc[p] \in {"snapshot", "candidate", "record"}
    /\ NextRequest(p)
    /\ UNCHANGED <<disk, docker, outside, locks, roots, history>>

WritePending(p) ==
    /\ At(p, "bind") /\ NextRequest(p)
    /\ pending' = [pending EXCEPT ![req[p]] =
                      [content |-> raws[p][req[p]], cand |-> cand[p]]]
    /\ UNCHANGED <<rec, stored, recs, results, docker, outside, locks, roots, history>>

Listed(p) == At(p, "adopt") /\ todo[p] = {} /\ GiveUp(p)

----------------------------------------------------------------------------
(* RequestDecide.                                                          *)

(* The binding found now is the one decided on, however long the prompt    *)
(* takes.                                                                  *)
Match(p, r) ==
    /\ At(p, "match") /\ pending[r] # None
    /\ Go(p, IF op[p] = "approve" THEN "load" ELSE "result")
    /\ req' = [req EXCEPT ![p] = r]
    /\ cand' = [cand EXCEPT ![p] = pending[r].cand]
    /\ UNCHANGED <<disk, docker, outside, locks, op, rev, listing, roots, history>>

NoMatch(p) ==
    /\ At(p, "match") /\ \A r \in Requests : pending[r] = None
    /\ GiveUp(p)

(* The plan is read where the object was, once it is locked: a lease that  *)
(* came too late is an error.                                              *)
Load(p) ==
    /\ At(p, "load") /\ cand[p] \in stored \cap recs
    /\ Goto(p, "project")
    /\ leases' = [leases EXCEPT ![p] = {cand[p]}]
    /\ exposed' = IF exclusive = {} THEN exposed ELSE exposed \cup {cand[p]}
    /\ UNCHANGED <<disk, docker, outside, shared, exclusive, project, listing, roots,
                   debtor, pointed>>

NotFound(p) == At(p, "load") /\ cand[p] \notin stored \cap recs /\ GiveUp(p)

(* mutant of WriteResult: the pending record goes first *)
WriteResultLast(p) ==
    /\ At(p, "result") /\ Goto(p, "clear")
    /\ pending' = [pending EXCEPT ![req[p]] = None]
    /\ UNCHANGED <<rec, stored, recs, results, docker, outside, locks, listing, roots,
                   history>>

WriteResult(p) ==
    /\ At(p, "result") /\ Goto(p, "clear")
    /\ results' = [results EXCEPT ![req[p]] =
          [status |-> IF op[p] = "approve" THEN "approved" ELSE "rejected",
           cand |-> cand[p]]]
    /\ UNCHANGED <<rec, stored, recs, pending, docker, outside, locks, listing, roots,
                   history>>

DeletePending(p) ==
    /\ At(p, "clear") /\ Leave(p)
    /\ pending' = [pending EXCEPT ![req[p]] = None]
    /\ UNCHANGED <<rec, stored, recs, results, docker, outside, history>>

----------------------------------------------------------------------------
(* GC.  The roots are gathered in the order of gcRoots.                    *)

Found(p, s) == roots' = [roots EXCEPT ![p] = s]
Named(d) == {d} \ {None}

ListContainers(p) ==
    /\ At(p, "containers") /\ Goto(p, "records")
    /\ Found(p, [roots[p] EXCEPT !.live = live, !.kept = live])
    /\ UNCHANGED <<disk, docker, outside, locks, listing, history>>

ListRecords(p) ==
    /\ At(p, "records") /\ Goto(p, "pending")
    /\ Found(p, [roots[p] EXCEPT !.registered = Registered,
                                 !.kept = @ \cup Named(rec.approved)])
    /\ UNCHANGED <<disk, docker, outside, locks, listing, history>>

Bound == {pending[r].cand : r \in {q \in Requests : pending[q] # None}}

ListPending(p) ==
    /\ At(p, "pending") /\ Goto(p, "snapshots")
    /\ Found(p, [roots[p] EXCEPT
          !.kept = IF roots[p].registered THEN @ \cup Bound ELSE @])
    /\ UNCHANGED <<disk, docker, outside, locks, listing, history>>

(* Fails closed when a container's candidate has no record.                *)
ListSnapshots(p) ==
    /\ At(p, "snapshots")
    /\ IF roots[p].live \subseteq recs
       THEN /\ Goto(p, "cands")
            /\ Found(p, [roots[p] EXCEPT
                  !.kept = @ \cup {FrozenIn[d] : d \in @ \cap recs}])
            /\ UNCHANGED <<locks, listing>>
       ELSE Leave(p)
    /\ UNCHANGED <<disk, docker, outside, history>>

Phase(p) == IF At(p, "cands") THEN Cands ELSE Snaps

(* mutant of Removable: the directory's exclusive flock is not asked for *)
RemovableAnyway(p) == (Phase(p) \cap stored) \ roots[p].kept

(* Neither kept nor leased.  What is young, or met by a dry run, is passed *)
(* by in NextPhase.                                                        *)
Removable(p) ==
    ((Phase(p) \cap stored) \ roots[p].kept) \ UNION {leases[q] : q \in Procs}

Remove(p, o) ==
    /\ pc[p] \in {"cands", "snaps"} /\ o \in Removable(p)
    /\ stored' = stored \ {o}
    /\ IF At(p, "cands")
       THEN Go(p, "unrecord") /\ cand' = [cand EXCEPT ![p] = o]
       ELSE UNCHANGED <<pc, cand>>
    /\ UNCHANGED <<rec, recs, pending, results, docker, outside, locks, op, rev, req,
                   listing, roots, history>>

RemoveRecord(p) ==
    /\ At(p, "unrecord") /\ Go(p, "cands") /\ cand' = [cand EXCEPT ![p] = None]
    /\ recs' = recs \ {cand[p]}
    /\ UNCHANGED <<rec, stored, pending, results, docker, outside, locks, op, rev, req,
                   listing, roots, history>>

NextPhase(p) ==
    /\ \/ At(p, "cands") /\ Goto(p, "snaps")
       \/ At(p, "snaps") /\ Goto(p, "orphans")
    /\ UNCHANGED <<disk, docker, outside, locks, listing, roots, history>>

RemoveOrphans(p) ==
    /\ At(p, "orphans") /\ Goto(p, "state")
    /\ recs' = recs \cap (stored \cup roots[p].kept)
    /\ UNCHANGED <<rec, stored, pending, results, docker, outside, locks, listing, roots,
                   history>>

(* The broker directory of a project that was not registered.              *)
RemoveState(p) ==
    /\ At(p, "state") /\ Leave(p)
    /\ IF roots[p].registered THEN UNCHANGED <<pending, results>>
       ELSE pending' = NoFile /\ results' = NoFile
    /\ UNCHANGED <<rec, stored, recs, docker, outside, history>>

----------------------------------------------------------------------------
Begin(p) ==
    \/ Up(p) \/ List(p) \/ Approve(p) \/ Reject(p) \/ Down(p) \/ Forget(p)
    \/ GC(p) \/ Register(p)

(* What an operation does next, when nothing stands in its way.            *)
Continue(p) ==
    \/ TakeShared(p) \/ TakeProject(p) \/ TakeExclusive(p)
    \/ \E d \in Cands : PublishSnapshot(p, d)
    \/ PublishCandidate(p) \/ WriteRecord(p)
    \/ Sweep(p) \/ Lease(p) \/ Stage(p)
    \/ CommitGeneration(p) \/ FailGeneration(p) \/ Teardown(p)
    \/ Point(p) \/ Delete(p) \/ Conflict(p)
    \/ ReadRequests(p) \/ ReadPending(p) \/ ReadResults(p)
    \/ \E r \in Requests : Adopt(p, r) \/ Match(p, r)
    \/ SkipRequest(p) \/ WritePending(p) \/ Listed(p)
    \/ NoMatch(p) \/ Load(p) \/ NotFound(p) \/ WriteResult(p) \/ DeletePending(p)
    \/ ListContainers(p) \/ ListRecords(p) \/ ListPending(p) \/ ListSnapshots(p)
    \/ \E o \in Objects : Remove(p, o)
    \/ RemoveRecord(p) \/ NextPhase(p) \/ RemoveOrphans(p) \/ RemoveState(p)

Next ==
    \/ \E p \in Procs : Begin(p) \/ Continue(p) \/ Abort(p)
    \/ \E r \in Requests, c \in Contents : Ask(r, c)
    \/ Repin

Spec == Init /\ [][Next]_vars

----------------------------------------------------------------------------
(* Properties.                                                             *)

(* When the containers are of another candidate than the record names,     *)
(* the operation that started them is about to move the pointer or has     *)
(* failed for its caller: no success hides the mismatch.                   *)
MismatchIsReported ==
    Registered /\ running # None /\ rec.approved # running => debtor # None

(* What a container, the record or a pending request of the project        *)
(* refers to is there to be used, unless it was under approval during a    *)
(* collection.                                                             *)
References ==
    live \cup (IF Registered THEN Named(rec.approved) \cup Bound ELSE {})

Usable(d) == d \in recs /\ Needed(d) \subseteq stored

ReferencesUsable == \A d \in References \ exposed : Usable(d)

(* A collection takes no candidate from a process that leases it: what an  *)
(* approval loaded and runtime.Up builds from stays until they let go.     *)
LeasesHold == \A p \in Procs : leases[p] \cap Cands \subseteq stored

(* The agent reads that its request was approved only after the pointer    *)
(* went to the candidate in the answer.                                    *)
ApprovedWasApplied ==
    \A r \in Requests :
        results[r] # None /\ results[r].status = "approved" => results[r].cand \in pointed

(* A request of a registered project is not taken off the pending list     *)
(* before the agent can read an answer, wherever an operation dies.        *)
RequestsAnswered ==
    [][\A r \in Requests :
          pending[r] # None /\ pending'[r] = None /\ Registered => results[r] # None]_vars

(* Operations do not wait for each other's locks in a circle, nor one for  *)
(* a lock of its own: up holds store-global while it asks for the project  *)
(* lock twice, an approval a lease, a collection store-global alone.       *)
NobodyStuck ==
    (\E p \in Procs : ~At(p, "idle")) => \E p \in Procs : ENABLED Continue(p)

(* docs/architecture.md:259 says that gc removes objects no registry pin,  *)
(* approved-candidate pointer, or pending broker binding references.       *)
CollectsUnreferenced ==
    [][\A d \in Cands : d \in stored /\ d \notin stored' =>
          ~(Registered /\ d \in Named(rec.approved) \cup Bound)]_vars
=============================================================================
