------------------------------ MODULE Handoff ------------------------------
(***************************************************************************)
(* Engine artifacts on a host: provision, update, dev on, dev off, init,   *)
(* the users of a pinned artifact, and garbage collection, as several vibe *)
(* processes run them (internal/app/releases.go, dev.go, init.go, gc.go).  *)
(*                                                                         *)
(* An operation leaves up to five durable traces, each by a step of its    *)
(* own: the object, its record, the project's registry record (its pin),   *)
(* the dev record, and the host's `vibe' symlink.  It may fail or die      *)
(* between any two; there is no journal.  Containers are left out, so a    *)
(* collection here knows fewer roots than the real one and takes more.     *)
(* Every operation is run in the directory of the one project there is.    *)
(*                                                                         *)
(* `mutant of D' marks a version of D with a plausible bug.                *)
(***************************************************************************)
EXTENDS ObjectStore

CONSTANTS
    Built,      \* artifacts that a build of the sources may yield
    Offered,    \* artifacts that the release source offers
    MaxRev,     \* bound: revisions of the project's record
    MaxOps      \* bound: operations that are started

ASSUME ArtifactsAssumption ==
    /\ Built \cup Offered \subseteq Digests /\ Built \cap Offered = {}
    /\ MaxRev \in Nat \ {0} /\ MaxOps \in Nat

VARIABLES
    rec,        \* the registry record of the project
    devrec,     \* the artifact that state/dev/<id>.json names
    bins,       \* the bin/vibe-<short> files
    link, tmp,  \* the targets of the symlinks bin/vibe and bin/vibe.tmp
    shared, exclusive,  \* who holds store-global, and how
    started,    \* operations started so far
    pc, op, rev, art,   \* where a process is, and its operation's locals
    keep,       \* [Procs -> SUBSET Digests]: roots.artifacts of a collection
    pinned,     \* who has a result with Pinned set: its operation moved the pin
    calm        \* history: running operations no other has written beside

host    == <<devrec, bins, link, tmp>>
locks   == <<shared, exclusive>>
locals  == <<op, rev, art, pinned>>
vars    == <<store, rec, host, locks, started, pc, locals, keep, calm>>

Op == {"provision", "update", "devon", "devoff", "init", "use", "gc", "none"}
PC == {"idle", "shared", "publish", "record", "write", "resolve", "pin", "devrecord", "list",
       "open", "flock", "copy", "clear", "symlink", "rename", "undev", "stamp",
       "create", "use", "exclusive", "roots", "remove", "unpublish", "unrecord",
       "orphans", "binaries"}
ProjectRecord == [status : {"new", "live"}, rev : 0 .. MaxRev,
                  mode : {"release", "dev"}, art : Digests \cup {None}]

(* The state's type.                                                       *)
TypeOK ==
    /\ StoreTypes
    /\ rec \in ProjectRecord
    /\ devrec \in Digests \cup {None} /\ bins \subseteq Digests
    /\ link \in Digests \cup {None} /\ tmp \in Digests \cup {None}
    /\ shared \subseteq Procs /\ exclusive \subseteq Procs
    /\ pinned \subseteq Procs /\ calm \subseteq Procs
    /\ started \in 0 .. MaxOps
    /\ pc \in [Procs -> PC] /\ op \in [Procs -> Op]
    /\ rev \in [Procs -> 0 .. MaxRev] /\ art \in [Procs -> Digests \cup {None}]
    /\ keep \in [Procs -> SUBSET Digests]

Init ==
    /\ StoreInit
    /\ rec = [status |-> "new", rev |-> 0, mode |-> "release", art |-> None]
    /\ devrec = None /\ bins = {} /\ link = None /\ tmp = None
    /\ shared = {} /\ exclusive = {} /\ pinned = {} /\ calm = {}
    /\ started = 0
    /\ pc = [p \in Procs |-> "idle"] /\ op = [p \in Procs |-> "none"]
    /\ rev = [p \in Procs |-> 0] /\ art = [p \in Procs |-> None]
    /\ keep = [p \in Procs |-> {}]

----------------------------------------------------------------------------
At(p, l)   == pc[p] = l
Goto(p, l) == pc' = [pc EXCEPT ![p] = l]
Registered == rec.status = "live"

(* Nobody else writes beside p from here on, until somebody does.          *)
WritesAlone(p) == calm' = calm \cap {p}

(* Deferred calls, or the kernel for a dead process.                       *)
LetGo(p) ==
    /\ CloseAll(p)
    /\ shared' = shared \ {p} /\ exclusive' = exclusive \ {p}
    /\ pc' = [pc EXCEPT ![p] = "idle"] /\ op' = [op EXCEPT ![p] = "none"]
    /\ rev' = [rev EXCEPT ![p] = 0] /\ art' = [art EXCEPT ![p] = None]
    /\ pinned' = pinned \ {p} /\ keep' = [keep EXCEPT ![p] = {}]

Leave(p) == LetGo(p) /\ calm' = calm \ {p}

(* An error return or the death of the process, anywhere.                  *)
Abort(p) == ~At(p, "idle") /\ Leave(p) /\ UNCHANGED <<rec, host, started>>

(* What dev on and dev off read of the registry at their start is in rev.  *)
Start(p, o, l, a) ==
    /\ At(p, "idle") /\ started < MaxOps /\ started' = started + 1
    /\ Goto(p, l) /\ op' = [op EXCEPT ![p] = o]
    /\ rev' = [rev EXCEPT ![p] = IF o \in {"devon", "devoff"} THEN rec.rev ELSE 0]
    /\ art' = [art EXCEPT ![p] = a]
    /\ calm' = calm \cup {p}
    /\ UNCHANGED <<store, rec, host, locks, pinned, keep>>

(* The running binary may itself be a build of the sources.                *)
Provision(p, a) == Start(p, "provision", "shared", a)
Update(p, a)    == a \in Offered /\ Start(p, "update", "shared", a)
DevOn(p, a)     == a \in Built /\ Registered /\ Start(p, "devon", "shared", a)
DevOff(p)       == Registered /\ rec.mode = "dev" /\ Start(p, "devoff", "shared", None)
InitProject(p)  == ~Registered /\ Start(p, "init", "shared", None)
GC(p)           == Start(p, "gc", "exclusive", None)

(* runtime.Up, approve and doctor lease what a record or a candidate says, *)
(* without a hold of store-global.                                         *)
Use(p) == Registered /\ rec.art # None /\ Start(p, "use", "open", rec.art)

(* mutant of TakeShared: the hold does not wait for a collection *)
TakeSharedAnyway(p) ==
    /\ At(p, "shared")
    /\ shared' = shared \cup {p}
    /\ Goto(p, IF op[p] \in {"devoff", "init"} THEN "list" ELSE "publish")
    /\ UNCHANGED <<store, rec, host, exclusive, started, locals, keep, calm>>

TakeShared(p) ==
    /\ At(p, "shared") /\ exclusive = {}
    /\ shared' = shared \cup {p}
    /\ Goto(p, IF op[p] \in {"devoff", "init"} THEN "list" ELSE "publish")
    /\ UNCHANGED <<store, rec, host, exclusive, started, locals, keep, calm>>

TakeExclusive(p) ==
    /\ At(p, "exclusive") /\ exclusive = {} /\ shared = {}
    /\ exclusive' = {p} /\ Goto(p, "roots")
    /\ UNCHANGED <<store, rec, host, shared, started, locals, keep, calm>>

----------------------------------------------------------------------------
(* Getting an artifact into the store: provision, update and dev on alike. *)

PublishArtifact(p) ==
    /\ At(p, "publish") /\ Publish(art[p]) /\ Goto(p, "record")
    /\ UNCHANGED <<rec, host, locks, started, locals, keep, calm>>

DevBuilt(d) == \E r \in RecordsOf(d) : r.source = "dev-build"

(* Provision refuses what is recorded as a dev build; the others take over *)
(* whatever record there is.                                               *)
Accepted(p) == op[p] = "provision" => ~DevBuilt(art[p])

AfterRecord(p) == IF op[p] = "devon" THEN "pin" ELSE "resolve"

(* Whoever finds a record keeps it, with the source and the time it has.   *)
(* The second look of writeRecordOnce can only fail the operation.         *)
ReadRecord(p) ==
    /\ At(p, "record")
    /\ \/ Recorded(art[p]) /\ Accepted(p) /\ Goto(p, AfterRecord(p))
       \/ ~Recorded(art[p]) /\ Goto(p, "write")
    /\ UNCHANGED <<store, rec, host, locks, started, locals, keep, calm>>

RecordArtifact(p) ==
    /\ At(p, "write")
    /\ WriteRecord(art[p], IF op[p] = "devon" THEN "dev-build" ELSE "release")
    /\ Goto(p, AfterRecord(p))
    /\ UNCHANGED <<rec, host, locks, started, locals, keep, calm>>

----------------------------------------------------------------------------
(* The pin.                                                                *)

(* pinProject reads the record again.  Whatever keeps it from finding one  *)
(* is taken for a project that is not registered: an unreadable registry,  *)
(* two records of one root, a failing Discover.  The operation goes on     *)
(* without a pin.                                                          *)
Resolve(p) ==
    /\ At(p, "resolve")
    /\ \/ Registered /\ Goto(p, "pin") /\ rev' = [rev EXCEPT ![p] = rec.rev]
       \/ Goto(p, IF op[p] = "update" THEN "copy" ELSE "stamp") /\ UNCHANGED rev
    /\ UNCHANGED <<store, rec, host, locks, started, op, art, pinned, keep, calm>>

ModeAfter(p) ==
    CASE op[p] = "devon"  -> "dev"
      [] op[p] = "devoff" -> "release"
      [] OTHER            -> rec.mode

(* mutant of AfterPin: dev on returns once the project is pinned *)
ReturnOncePinned(p) ==
    CASE op[p] = "devoff" -> "undev"
      [] op[p] = "update" -> "copy"
      [] OTHER            -> "stamp"

AfterPin(p) ==
    CASE op[p] = "devon"  -> "devrecord"
      [] op[p] = "devoff" -> "undev"
      [] op[p] = "update" -> "copy"
      [] OTHER            -> "stamp"

(* Registry.Update: compare and swap of the revision.                      *)
Pin(p) ==
    /\ At(p, "pin") /\ Registered /\ rec.rev = rev[p] /\ rec.rev < MaxRev
    /\ rec' = [rec EXCEPT !.rev = @ + 1, !.mode = ModeAfter(p), !.art = art[p]]
    /\ pinned' = pinned \cup {p} /\ Goto(p, AfterPin(p)) /\ WritesAlone(p)
    /\ UNCHANGED <<store, host, locks, started, op, rev, art, keep>>

WriteDevRecord(p) ==
    /\ At(p, "devrecord")
    /\ devrec' = art[p] /\ Goto(p, "copy") /\ WritesAlone(p)
    /\ UNCHANGED <<store, rec, bins, link, tmp, locks, started, locals, keep>>

(* The removal of the dev record is best-effort.                           *)
RemoveDevRecord(p) ==
    /\ At(p, "undev") /\ Goto(p, "stamp")
    /\ devrec' \in {None, devrec} /\ WritesAlone(p)
    /\ UNCHANGED <<store, rec, bins, link, tmp, locks, started, locals, keep>>

----------------------------------------------------------------------------
(* The newest release artifact, which init pins and dev off hands back to. *)

Releases == {r \in installed : r.source # "dev-build"}
Newest   == {r.digest : r \in {r \in Releases : \A s \in Releases : s.at <= r.at}}

(* A listing that fails is taken for one without a release.                *)
ListReleases(p) ==
    /\ At(p, "list")
    /\ \/ \E d \in Newest : /\ art' = [art EXCEPT ![p] = d]
                           /\ Goto(p, IF op[p] = "init" THEN "create" ELSE "open")
       \/ UNCHANGED art /\ Goto(p, IF op[p] = "init" THEN "create" ELSE "pin")
    /\ UNCHANGED <<store, rec, host, locks, started, op, rev, pinned, keep, calm>>

CreateProject(p) ==
    /\ At(p, "create") /\ ~Registered
    /\ rec' = [status |-> "live", rev |-> 1, mode |-> "release", art |-> art[p]]
    /\ LetGo(p) /\ calm' = {} /\ UNCHANGED <<host, started>>

Open(p) ==
    /\ At(p, "open") /\ OpenDir(p, art[p]) /\ Goto(p, "flock")
    /\ UNCHANGED <<rec, host, locks, started, locals, keep, calm>>

Flock(p) ==
    /\ At(p, "flock") /\ FlockShared(p)
    /\ Goto(p, IF op[p] = "devoff" THEN "copy" ELSE "use")
    /\ UNCHANGED <<rec, host, locks, started, locals, keep, calm>>

----------------------------------------------------------------------------
(* installBinary: a copy under the artifact's name, then the symlink, made *)
(* under one fixed temporary name and renamed.                             *)

(* copyBinary is a rename of a finished copy.                              *)
CopyBinary(p) ==
    /\ At(p, "copy") /\ Present(art[p])
    /\ bins' = bins \cup {art[p]} /\ Goto(p, "clear")
    /\ UNCHANGED <<store, rec, devrec, link, tmp, locks, started, locals, keep, calm>>

ClearTmp(p) ==
    /\ At(p, "clear")
    /\ tmp' = None /\ Goto(p, "symlink") /\ WritesAlone(p)
    /\ UNCHANGED <<store, rec, devrec, bins, link, locks, started, locals, keep>>

Symlink(p) ==
    /\ At(p, "symlink") /\ tmp = None
    /\ tmp' = art[p] /\ Goto(p, "rename") /\ WritesAlone(p)
    /\ UNCHANGED <<store, rec, devrec, bins, link, locks, started, locals, keep>>

(* mutant of AfterInstall: the pin is taken for moved *)
ForgetPin(p) == IF op[p] = "devoff" THEN "undev" ELSE "stamp"

(* Dev off hands the binary back first and moves the pin last; its lease   *)
(* ends here.                                                              *)
AfterInstall(p) == IF op[p] = "devoff" THEN "pin" ELSE "stamp"

RenameTmp(p) ==
    /\ At(p, "rename") /\ tmp # None
    /\ link' = tmp /\ tmp' = None /\ WritesAlone(p)
    /\ Goto(p, AfterInstall(p))
    /\ CloseAll(p)
    /\ UNCHANGED <<rec, devrec, bins, locks, started, locals, keep>>

(* The operation returns, or the lease of a user ends.                     *)
Return(p) == (At(p, "stamp") \/ At(p, "use")) /\ Leave(p)
             /\ UNCHANGED <<rec, host, started>>

----------------------------------------------------------------------------
(* Garbage collection under the exclusive hold.                            *)

Pinned == IF rec.art = None THEN {} ELSE {rec.art}

(* mutant of Roots: the newest release is nobody's, hence garbage *)
PinsOnly(p) == Pinned

(* The pin, and what dev off would hand back to.                           *)
Roots(p) == Pinned \cup Newest

GatherRoots(p) ==
    /\ At(p, "roots") /\ Goto(p, "remove")
    /\ keep' = [keep EXCEPT ![p] = Roots(p)]
    /\ UNCHANGED <<store, rec, host, locks, started, locals, calm>>

(* Anything may be too young, or leased, and is then passed by.            *)
SeizeObject(p, d) ==
    /\ At(p, "remove") /\ d \notin keep[p] /\ Seize(p, d)
    /\ Goto(p, "unpublish")
    /\ UNCHANGED <<rec, host, locks, started, locals, keep, calm>>

UnpublishObject(p) ==
    /\ At(p, "unpublish") /\ Unpublish(p) /\ Goto(p, "unrecord")
    /\ UNCHANGED <<rec, host, locks, started, locals, keep, calm>>

UnrecordObject(p) ==
    /\ At(p, "unrecord") /\ Unrecord(p) /\ Goto(p, "remove")
    /\ UNCHANGED <<rec, host, locks, started, locals, keep, calm>>

NextKind(p) ==
    \/ /\ At(p, "remove") /\ Goto(p, "orphans")
       /\ UNCHANGED <<store, rec, host, locks, started, locals, keep, calm>>
    \/ /\ At(p, "orphans") /\ Goto(p, "binaries")
       /\ UNCHANGED <<store, rec, host, locks, started, locals, keep, calm>>
    \/ /\ At(p, "binaries") /\ Leave(p) /\ UNCHANGED <<rec, host, started>>

OrphanRecord(p, d) ==
    /\ At(p, "orphans") /\ d \notin keep[p] /\ RemoveOrphan(d)
    /\ UNCHANGED <<rec, host, locks, started, pc, locals, keep, calm>>

(* mutant of StaleBinary: whatever is not a root goes *)
UnrootedBinary(p, d) == d \in bins \ keep[p]

StaleBinary(p, d) == d \in bins \ (keep[p] \cup {link})

RemoveBinary(p, d) ==
    /\ At(p, "binaries") /\ StaleBinary(p, d)
    /\ bins' = bins \ {d}
    /\ UNCHANGED <<store, rec, devrec, link, tmp, locks, started, pc, locals, keep, calm>>

----------------------------------------------------------------------------
Step(p) ==
    \/ TakeShared(p) \/ TakeExclusive(p) \/ PublishArtifact(p) \/ ReadRecord(p)
    \/ RecordArtifact(p) \/ Resolve(p) \/ Pin(p) \/ WriteDevRecord(p) \/ RemoveDevRecord(p)
    \/ ListReleases(p) \/ CreateProject(p) \/ Open(p) \/ Flock(p)
    \/ CopyBinary(p) \/ ClearTmp(p) \/ Symlink(p) \/ RenameTmp(p) \/ Return(p)
    \/ GatherRoots(p) \/ UnpublishObject(p) \/ UnrecordObject(p) \/ NextKind(p)
    \/ \E d \in Digests : \/ SeizeObject(p, d) \/ OrphanRecord(p, d)
                          \/ RemoveBinary(p, d)

Begin(p) ==
    \/ \E a \in Digests : Provision(p, a) \/ Update(p, a) \/ DevOn(p, a)
    \/ DevOff(p) \/ InitProject(p) \/ Use(p) \/ GC(p)

Next == \E p \in Procs : Begin(p) \/ Step(p) \/ Abort(p)

Spec == Init /\ [][Next]_vars

----------------------------------------------------------------------------
(* The artifact a project is pinned to has its object and its record, also *)
(* after crashes: every pin is written under a shared hold that spans the  *)
(* publication (app/releases.go:40, app/dev.go:74, app/init.go:130), and a *)
(* collection keeps what is pinned.  Once a release artifact is installed, *)
(* the newest one on record has its object too: dev off has something to   *)
(* hand back to, and init to pin, whatever a collection removed or left    *)
(* half removed (app/gc.go:121-124).                                       *)
RootsUsable ==
    /\ rec.art # None => Present(rec.art) /\ Recorded(rec.art)
    /\ \A d \in Newest : Present(d)

(* The host's `vibe' symlink always leads to a binary, whoever installs,   *)
(* fails or collects (app/releases.go:185, app/gc.go:305).                 *)
ShimResolves == link # None => link \in bins

(* A success means what its result says: when an operation that no other   *)
(* wrote beside is about to return, pin, symlink and dev record agree, the *)
(* pin of provision and update where the result has one (app/dev.go:87-107 *)
(* and 148-192, app/releases.go:105-111 and 163-183).  A registered        *)
(* project that could not be looked up is not pinned, although the comment *)
(* at app/releases.go:19 says that it is.                                  *)
SuccessAgrees ==
    \A p \in calm : At(p, "stamp") =>
        /\ op[p] = "devon"  => rec.mode = "dev" /\ rec.art = art[p]
                               /\ devrec = art[p] /\ link = art[p]
        /\ op[p] = "devoff" => rec.mode = "release" /\ rec.art = art[p]
                               /\ (art[p] # None => link = art[p])
        /\ op[p] = "update" => link = art[p]
        /\ op[p] \in {"provision", "update"} /\ p \in pinned => rec.art = art[p]

(* The store with all its steps and crashes is a shelf: what somebody has  *)
(* leased while it was published does not go (store/leases.go:16).         *)
StoreIsShelf == Shelved!Spec
=============================================================================
