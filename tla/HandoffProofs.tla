---------------------------- MODULE HandoffProofs ----------------------------
(***************************************************************************)
(* Proofs about Handoff and the ObjectStore below it, for any processes,   *)
(* artifacts and bounds.                                                   *)
(***************************************************************************)
EXTENDS Handoff, WellFoundedInduction, TLAPS

(* The steps of a writer, which holds store-global shared, and those of a  *)
(* collection, which holds it alone.                                       *)
Writing    == {"publish", "record", "write", "resolve", "pin", "devrecord", "list", "copy",
               "clear", "symlink", "rename", "undev", "stamp", "create"}
Removing   == {"remove", "unpublish", "unrecord", "orphans", "binaries"}
Collecting == Removing \cup {"roots"}
Installing == {"clear", "symlink", "rename"}
Provisioning == {"provision", "update", "devon"}

Shapes ==
    /\ pc \in [Procs -> PC] /\ op \in [Procs -> Op]
    /\ art \in [Procs -> Digests \cup {None}]
    /\ keep \in [Procs -> SUBSET Digests]

(* Who is where, and what of it follows for the two holds.                 *)
Holding ==
    /\ shared = {} \/ exclusive = {}
    /\ \A p, q \in exclusive : p = q
    /\ \A p \in Procs :
          /\ pc[p] \in Writing => p \in shared
          /\ pc[p] \in {"open", "flock"} /\ op[p] # "use" => op[p] = "devoff" /\ p \in shared
          /\ pc[p] \in Collecting => p \in exclusive
          /\ pc[p] = "list" => op[p] \in {"devoff", "init"}
          /\ pc[p] = "shared" => op[p] \in Provisioning \cup {"devoff", "init"}
          /\ pc[p] \in {"publish", "record", "write"} => op[p] \in Provisioning
          /\ pc[p] = "resolve" => op[p] \in {"provision", "update"}
          /\ pc[p] = "devrecord" => op[p] = "devon"
          /\ pc[p] = "undev" => op[p] = "devoff"
          /\ pc[p] \in {"shared", "list"} /\ op[p] \in {"devoff", "init"} => art[p] = None
          /\ op[p] \in Provisioning => art[p] \in Digests
          /\ pc[p] \in {"open", "flock", "copy"} \cup Installing => art[p] \in Digests

(* What the project and the artifact records name.                         *)
Names ==
    /\ rec \in [status : {"new", "live"}, rev : 0 .. MaxRev, mode : {"release", "dev"},
                art : Digests \cup {None}]
    /\ clock \in Nat
    /\ \A r \in installed : r \in Record /\ r.at < clock

Base == Shapes /\ Holding /\ Names

(* What a step does that belongs to no component: p moves, others stay.    *)
Others(p) ==
    /\ \A q \in Procs : q # p => pc'[q] = pc[q] /\ op'[q] = op[q] /\ art'[q] = art[q]
                                 /\ keep'[q] = keep[q]
    /\ \A q \in Procs : q # p => (q \in shared <=> q \in shared')
                                 /\ (q \in exclusive <=> q \in exclusive')

-----------------------------------------------------------------------------
LEMMA NewestNamed ==
    ASSUME Names
    PROVE  /\ Newest \subseteq Digests /\ Pinned \subseteq Digests
           /\ \A p \in Procs : Roots(p) \subseteq Digests
  BY DEF Names, Newest, Releases, Pinned, Roots, Record

LEMMA StartStep ==
    ASSUME Shapes, Holding, NEW p \in Procs, NEW o \in Op, NEW l \in PC,
           NEW a \in Digests \cup {None}, Start(p, o, l, a),
           \/ l = "shared" /\ o \in Provisioning /\ a \in Digests
           \/ l = "shared" /\ o \in {"devoff", "init"} /\ a = None
           \/ l = "exclusive" /\ o = "gc"
           \/ l = "open" /\ o = "use" /\ a \in Digests
    PROVE  Shapes' /\ Holding' /\ Others(p)
  <1> USE DEF Start, Shapes, Goto, At
  <1>1. shared' = shared /\ exclusive' = exclusive /\ keep' = keep
    BY DEF locks
  <1>2. Shapes'
    BY <1>1
  <1>3. Others(p)
    BY <1>1 DEF Others
  <1>4. Holding'
    BY <1>1 DEF Holding, Writing, Collecting, Removing, Installing, Provisioning
  <1> QED BY <1>2, <1>3, <1>4

LEMMA ShapeStep ==
    ASSUME Base, NEW p \in Procs, Begin(p) \/ Step(p) \/ Abort(p)
    PROVE  Shapes' /\ Holding' /\ Others(p)
  <1> USE DEF Base, Shapes, Holding, Others, At, Goto, Writing, Collecting, Removing,
             Installing, Provisioning, PC, Op
  <1>2. CASE Begin(p)
    <2> rec.art \in Digests \cup {None}
      BY DEF Names
    <2> {"shared", "exclusive", "open"} \subseteq PC /\ Op = Op
      OBVIOUS
    <2> HIDE DEF Shapes, Holding, Others, PC
    <2> QED BY <1>2, StartStep, ArtifactsAssumption DEF Begin, Provision, Update, DevOn, DevOff, InitProject, Use, GC
  <1>3. CASE LetGo(p)
    BY <1>3 DEF LetGo
  <1>4. CASE Abort(p)
    BY <1>3, <1>4 DEF Abort, Leave
  <1>5. CASE TakeShared(p)
    BY <1>5 DEF TakeShared, locals
  <1>6. CASE TakeExclusive(p)
    BY <1>6 DEF TakeExclusive, locals
  <1>7. CASE PublishArtifact(p)
    BY <1>7 DEF PublishArtifact, locals, locks
  <1>8. CASE RecordArtifact(p)
    BY <1>8 DEF RecordArtifact, AfterRecord, locals, locks
  <1>27. CASE ReadRecord(p)
    BY <1>27 DEF ReadRecord, AfterRecord, locals, locks
  <1>9. CASE Resolve(p)
    BY <1>9 DEF Resolve, locks
  <1>10. CASE Pin(p)
    BY <1>10 DEF Pin, AfterPin, locals, locks
  <1>11. CASE WriteDevRecord(p)
    BY <1>11 DEF WriteDevRecord, locals, locks
  <1>12. CASE RemoveDevRecord(p)
    BY <1>12 DEF RemoveDevRecord, locals, locks
  <1>13. CASE CreateProject(p)
    BY <1>3, <1>13 DEF CreateProject
  <1>14. CASE Open(p)
    BY <1>14 DEF Open, locals, locks
  <1>15. CASE Flock(p)
    BY <1>15 DEF Flock, locals, locks
  <1>16. CASE CopyBinary(p)
    BY <1>16 DEF CopyBinary, locals, locks
  <1>17. CASE ClearTmp(p)
    BY <1>17 DEF ClearTmp, locals, locks
  <1>18. CASE Symlink(p)
    BY <1>18 DEF Symlink, locals, locks
  <1>19. CASE RenameTmp(p)
    BY <1>19 DEF RenameTmp, AfterInstall, locals, locks
  <1>20. CASE Return(p)
    BY <1>3, <1>20 DEF Return, Leave
  <1>21. CASE UnpublishObject(p)
    BY <1>21 DEF UnpublishObject, locals, locks
  <1>22. CASE UnrecordObject(p)
    BY <1>22 DEF UnrecordObject, locals, locks
  <1>23. CASE NextKind(p)
    BY <1>3, <1>23 DEF NextKind, Leave, locals, locks
  <1>24. ASSUME NEW d \in Digests, SeizeObject(p, d) \/ OrphanRecord(p, d) \/ RemoveBinary(p, d)
         PROVE  Shapes' /\ Holding' /\ Others(p)
    BY <1>24 DEF SeizeObject, OrphanRecord, RemoveBinary, locals, locks
  <1>25. CASE GatherRoots(p)
    BY <1>25, NewestNamed DEF GatherRoots, locals, locks
  <1>26. CASE ListReleases(p)
    BY <1>26, NewestNamed DEF ListReleases, locals, locks
  <1> QED BY <1>2, <1>4, <1>5, <1>6, <1>7, <1>8, <1>9, <1>10, <1>11, <1>12, <1>13, <1>14, <1>15,
       <1>16, <1>17, <1>18, <1>19, <1>20, <1>21, <1>22, <1>23, <1>24, <1>25, <1>26, <1>27 DEF Step

LEMMA BaseStep ==
    ASSUME Base, NEW p \in Procs, Begin(p) \/ Step(p) \/ Abort(p)
    PROVE  Base' /\ Others(p)
  <1> DEFINE named == <<rec, installed, clock>>
  <1>1. CASE UNCHANGED named
    BY <1>1, ShapeStep DEF Base, Names
  <1>2. CASE RecordArtifact(p)
    <2>1. UNCHANGED rec /\ art[p] \in Digests
      BY <1>2 DEF RecordArtifact, Base, Holding, At
    <2>2. \E src \in Sources : WriteRecord(art[p], src)
      BY <1>2 DEF RecordArtifact, Sources
    <2> QED BY <2>1, <2>2, ShapeStep DEF Base, Names, WriteRecord, Without, Record
  <1>3. CASE UNCHANGED <<rec, clock>> /\ installed' \subseteq installed
    BY <1>3, ShapeStep DEF Base, Names
  <1>4. CASE UNCHANGED <<installed, clock>> /\ rec' \in [status : {"new", "live"}, rev : 0 .. MaxRev,
                                          mode : {"release", "dev"}, art : Digests \cup {None}]
    BY <1>4, ShapeStep DEF Base, Names
  <1>5. CASE Pin(p)
    <2>1. rec.rev + 1 \in 0 .. MaxRev /\ art[p] \in Digests \cup {None}
      BY <1>5, ArtifactsAssumption DEF Pin, Base, Names, Shapes
    <2>2. ModeAfter(p) \in {"release", "dev"}
      BY DEF ModeAfter, Base, Names
    <2> QED BY <1>4, <1>5, <2>1, <2>2 DEF Pin, Base, Names, store
  <1>6. CASE CreateProject(p)
    <2>1. art[p] \in Digests \cup {None} /\ 1 \in 0 .. MaxRev
      BY ArtifactsAssumption DEF Base, Shapes
    <2> QED BY <1>4, <1>6, <2>1 DEF CreateProject, LetGo, CloseAll
  <1>7. CASE Begin(p) \/ Abort(p)
    BY <1>1, <1>7 DEF Begin, Provision, Update, DevOn, DevOff, InitProject, Use, GC, Start, Abort,
       Leave, LetGo, CloseAll, store
  <1>8. CASE \/ TakeShared(p) \/ TakeExclusive(p) \/ PublishArtifact(p) \/ ReadRecord(p)
             \/ Resolve(p) \/ WriteDevRecord(p) \/ RemoveDevRecord(p) \/ ListReleases(p)
             \/ GatherRoots(p)
    BY <1>1, <1>8 DEF TakeShared, TakeExclusive, PublishArtifact, Publish, ReadRecord, Resolve,
       WriteDevRecord, RemoveDevRecord, ListReleases, GatherRoots, store
  <1>9. CASE \/ Open(p) \/ Flock(p) \/ CopyBinary(p) \/ ClearTmp(p) \/ Symlink(p) \/ RenameTmp(p)
             \/ Return(p) \/ NextKind(p) \/ UnpublishObject(p)
    BY <1>1, <1>9 DEF Open, OpenDir, Flock, FlockShared, CopyBinary, ClearTmp, Symlink, RenameTmp,
       CloseAll, Return, NextKind, Leave, LetGo, UnpublishObject, Unpublish, store
  <1>10. CASE UnrecordObject(p)
    BY <1>3, <1>10 DEF UnrecordObject, Unrecord, Without
  <1>11. ASSUME NEW d \in Digests, SeizeObject(p, d) \/ OrphanRecord(p, d) \/ RemoveBinary(p, d)
         PROVE  Base' /\ Others(p)
    BY <1>1, <1>3, <1>11 DEF SeizeObject, Seize, OrphanRecord, RemoveOrphan, Without, RemoveBinary,
       store
  <1> QED BY <1>2, <1>5, <1>6, <1>7, <1>8, <1>9, <1>10, <1>11 DEF Step

-----------------------------------------------------------------------------
(* The symlink.  What a process is about to link to is there, because a    *)
(* collection would need the hold the process has.                         *)
Linking ==
    /\ ShimResolves
    /\ \A p \in Procs : pc[p] \in Installing => art[p] \in bins
    /\ \A p \in Procs : pc[p] = "rename" /\ tmp # None => tmp \in bins

shim == <<bins, link, tmp>>

(* A step that installs and collects nothing.                              *)
LEMMA LinkingKept ==
    ASSUME Base, Linking, NEW p \in Procs, Others(p), UNCHANGED shim,
           pc'[p] \in Installing => pc[p] \in Installing /\ art'[p] = art[p],
           pc'[p] = "rename" => pc[p] = "rename"
    PROVE  Linking'
  BY DEF Linking, ShimResolves, Others, shim

LEMMA LinkingStep ==
    ASSUME Base, Linking, NEW p \in Procs, Begin(p) \/ Step(p) \/ Abort(p)
    PROVE  Linking'
  <1>0. Others(p)
    BY BaseStep
  <1>1. CASE UNCHANGED shim /\ pc'[p] \notin Installing
    BY <1>0, <1>1, LinkingKept DEF Installing
  <1>2. CASE CopyBinary(p)
    BY <1>0, <1>2 DEF CopyBinary, Linking, ShimResolves, Others, Goto, At, locals, Base, Shapes,
       Installing
  <1>3. CASE ClearTmp(p)
    BY <1>0, <1>3 DEF ClearTmp, Linking, ShimResolves, Others, Goto, At, locals, Base, Shapes,
       Installing
  <1>4. CASE Symlink(p)
    BY <1>0, <1>4 DEF Symlink, Linking, ShimResolves, Others, Goto, At, locals, Base, Shapes,
       Installing
  <1>5. CASE RenameTmp(p)
    BY <1>0, <1>5 DEF RenameTmp, Linking, ShimResolves, Others, Goto, At, locals, Base, Shapes,
       Installing, AfterInstall
  <1>6. ASSUME NEW d \in Digests, RemoveBinary(p, d)
        PROVE  Linking'
    <2>1. pc[p] \in Collecting /\ pc' = pc /\ UNCHANGED <<link, tmp, art>> /\ bins' = bins \ {d}
      BY <1>6 DEF RemoveBinary, At, Collecting, Removing, locals
    <2>2. \A q \in Procs : pc[q] \notin Installing /\ pc[q] # "rename"
      BY <2>1 DEF Base, Holding, Installing, Writing
    <2>3. link # d
      BY <1>6 DEF RemoveBinary, StaleBinary
    <2> QED BY <2>1, <2>2, <2>3 DEF Linking, ShimResolves
  <1>7. CASE Begin(p) \/ Abort(p) \/ Return(p)
    BY <1>1, <1>7 DEF Begin, Provision, Update, DevOn, DevOff, InitProject, Use, GC, Start, Abort,
       Return, Leave, LetGo, Base, Shapes, Goto, shim, host, Installing
  <1>8. CASE \/ TakeShared(p) \/ TakeExclusive(p) \/ PublishArtifact(p) \/ ReadRecord(p)
             \/ RecordArtifact(p) \/ Resolve(p) \/ Pin(p) \/ WriteDevRecord(p) \/ RemoveDevRecord(p)
    BY <1>1, <1>8 DEF TakeShared, TakeExclusive, PublishArtifact, ReadRecord, RecordArtifact,
       AfterRecord, Resolve, Pin,
       AfterPin, WriteDevRecord, RemoveDevRecord, Base, Shapes, Goto, shim, host, Installing
  <1>9. CASE \/ ListReleases(p) \/ CreateProject(p) \/ Open(p) \/ Flock(p) \/ GatherRoots(p)
             \/ UnpublishObject(p) \/ UnrecordObject(p) \/ NextKind(p)
    BY <1>1, <1>9 DEF ListReleases, CreateProject, Open, Flock, GatherRoots, UnpublishObject,
       UnrecordObject, NextKind, Leave, LetGo, Base, Shapes, Goto, shim, host, Installing
  <1>10. ASSUME NEW d \in Digests, SeizeObject(p, d) \/ OrphanRecord(p, d)
         PROVE  Linking'
    BY <1>1, <1>10 DEF SeizeObject, OrphanRecord, Base, Shapes, Goto, At, shim, host, Installing
  <1> QED BY <1>2, <1>3, <1>4, <1>5, <1>6, <1>7, <1>8, <1>9, <1>10 DEF Step

(* The initial state and the stutters, for all the theorems.               *)
LEMMA BaseInit == Init => Base
  <1> SUFFICES ASSUME Init PROVE Base
    OBVIOUS
  <1>1. Shapes
    BY DEF Init, Shapes, PC, Op
  <1>2. Holding
    BY DEF Init, Holding, Writing, Collecting, Removing, Installing, Provisioning
  <1>3. Names
    BY ArtifactsAssumption DEF Init, StoreInit, Names
  <1> QED BY <1>1, <1>2, <1>3 DEF Base

LEMMA BaseStutter ==
    ASSUME Base, UNCHANGED vars
    PROVE  Base'
  BY DEF Base, Shapes, Holding, Names, vars, store, host, locks, locals

(* The host's `vibe' leads to a binary (installBinary, removeStaleBinaries).*)
THEOREM ShimTheorem == Spec => []ShimResolves
  <1>1. Init => Base /\ Linking
    <2> SUFFICES ASSUME Init PROVE Linking
      BY BaseInit
    <2> QED BY DEF Init, Linking, ShimResolves, Installing
  <1>2. Base /\ Linking /\ [Next]_vars => (Base /\ Linking)'
    <2>1. Base /\ Linking /\ UNCHANGED vars => (Base /\ Linking)'
      BY BaseStutter DEF Linking, ShimResolves, vars, host, locals
    <2> QED BY <2>1, BaseStep, LinkingStep DEF Next
  <1>3. Linking => ShimResolves
    BY DEF Linking
  <1> QED BY <1>1, <1>2, <1>3, PTL DEF Spec

-----------------------------------------------------------------------------
(* Success.  An operation nobody has written beside finds its own writes:  *)
(* which of them it has behind it depends on where it is.                  *)
PinnedAs(p, mode) == rec.mode = mode /\ rec.art = art[p]

Progress(p) ==
    /\ op[p] = "devon" =>
          /\ pc[p] \in {"devrecord", "copy", "stamp"} \cup Installing => PinnedAs(p, "dev")
          /\ pc[p] \in {"copy", "stamp"} \cup Installing => devrec = art[p]
          /\ pc[p] = "stamp" => link = art[p]
    /\ op[p] = "devoff" =>
          /\ pc[p] \in {"shared", "list"} => art[p] = None
          /\ pc[p] \in {"pin", "undev", "stamp"} => art[p] = None \/ link = art[p]
          /\ pc[p] \in {"undev", "stamp"} => PinnedAs(p, "release")
    /\ op[p] = "update" /\ pc[p] = "stamp" => link = art[p]
    /\ op[p] \in {"provision", "update"} /\ p \in pinned => rec.art = art[p]
    /\ pc[p] = "rename" => tmp = art[p]
    /\ op[p] = "none" <=> pc[p] = "idle"

Progressing == (\A p \in calm : Progress(p)) /\ calm \subseteq Procs

traces == <<rec, devrec, link, tmp>>

(* A result is of the operation at hand.                                   *)
Fresh == \A p \in Procs : pc[p] = "idle" => p \notin pinned

OtherPins(p) == \A q \in Procs : q # p => (q \in pinned <=> q \in pinned')

LEMMA FreshStep ==
    ASSUME Base, Fresh, NEW p \in Procs, Begin(p) \/ Step(p) \/ Abort(p)
    PROVE  Fresh' /\ OtherPins(p)
  <1>0. Others(p)
    BY BaseStep
  <1> USE DEF Base, Shapes, At, Goto, Fresh, OtherPins, Others
  <1>1. CASE UNCHANGED pinned /\ pc'[p] # "idle"
    BY <1>0, <1>1
  <1>2. CASE LetGo(p)
    BY <1>0, <1>2 DEF LetGo
  <1>3. CASE Begin(p)
    BY <1>1, <1>3 DEF Begin, Provision, Update, DevOn, DevOff, InitProject, Use, GC, Start
  <1>4. CASE Abort(p) \/ Return(p) \/ CreateProject(p)
    BY <1>2, <1>4 DEF Abort, Return, Leave, CreateProject
  <1>5. CASE Pin(p)
    BY <1>0, <1>5 DEF Pin, AfterPin
  <1>6. CASE NextKind(p)
    BY <1>1, <1>2, <1>6 DEF NextKind, Leave, locals
  <1>7. CASE \/ TakeShared(p) \/ TakeExclusive(p) \/ PublishArtifact(p) \/ ReadRecord(p)
             \/ RecordArtifact(p) \/ Resolve(p) \/ WriteDevRecord(p) \/ RemoveDevRecord(p)
    BY <1>1, <1>7 DEF TakeShared, TakeExclusive, PublishArtifact, ReadRecord, RecordArtifact,
       AfterRecord, Resolve, WriteDevRecord, RemoveDevRecord, locals
  <1>8. CASE \/ ListReleases(p) \/ Open(p) \/ Flock(p) \/ CopyBinary(p) \/ ClearTmp(p)
             \/ Symlink(p) \/ RenameTmp(p) \/ GatherRoots(p)
    BY <1>1, <1>8 DEF ListReleases, Open, Flock, CopyBinary, ClearTmp, Symlink, RenameTmp,
       AfterInstall, GatherRoots, locals
  <1>9. CASE \/ UnpublishObject(p) \/ UnrecordObject(p)
             \/ \E d \in Digests : \/ SeizeObject(p, d) \/ OrphanRecord(p, d)
                                   \/ RemoveBinary(p, d)
    BY <1>1, <1>9 DEF UnpublishObject, UnrecordObject, SeizeObject, OrphanRecord, RemoveBinary,
       locals
  <1> QED BY <1>3, <1>4, <1>5, <1>6, <1>7, <1>8, <1>9 DEF Step

(* A step that writes nothing leaves the progress of the others alone.     *)
LEMMA ProgressKept ==
    ASSUME Base, Progressing, NEW p \in Procs, Others(p), OtherPins(p), UNCHANGED traces,
           calm' \subseteq calm \cup {p}, p \in calm' => Progress(p)'
    PROVE  Progressing'
  BY DEF Progressing, Progress, PinnedAs, Others, OtherPins, traces

(* A step that writes leaves nobody else calm.                             *)
LEMMA ProgressAlone ==
    ASSUME Progressing, NEW p \in Procs, WritesAlone(p), p \in calm => Progress(p)'
    PROVE  Progressing'
  BY DEF Progressing, WritesAlone

LEMMA ProgressStep ==
    ASSUME Base, Fresh, Progressing, NEW p \in Procs, Begin(p) \/ Step(p) \/ Abort(p)
    PROVE  Progressing'
  <1>0. Others(p) /\ OtherPins(p)
    BY BaseStep, FreshStep
  <1> USE DEF Base, Shapes, At, Goto, Installing
  <1>1. CASE Leave(p) /\ UNCHANGED <<rec, host>>
    BY <1>0, <1>1, ProgressKept DEF Leave, traces, host, Progressing
  <1>2. CASE Begin(p)
    <2>1. UNCHANGED traces /\ calm' = calm \cup {p} /\ Progress(p)'
      BY <1>2 DEF Begin, Provision, Update, DevOn, DevOff, InitProject, Use, GC, Start, traces, host,
         Progress, Fresh, Op, PC
    <2> QED BY <1>0, <2>1, ProgressKept
  <1> USE DEF Progressing, Progress, PinnedAs, Holding, Provisioning
  <1> HIDE DEF Progressing
  <1>3. CASE Pin(p)
    <2>1. p \in calm => Progress(p)'
      BY <1>3 DEF Pin, AfterPin, ModeAfter, Names, host, locals, Progressing
    <2> QED BY <1>3, <2>1, ProgressAlone DEF Pin
  <1>4. CASE WriteDevRecord(p)
    <2>1. p \in calm => Progress(p)'
      BY <1>4 DEF WriteDevRecord, locals, Progressing
    <2> QED BY <1>4, <2>1, ProgressAlone DEF WriteDevRecord
  <1>5. CASE RemoveDevRecord(p)
    <2>1. p \in calm => Progress(p)'
      BY <1>5 DEF RemoveDevRecord, locals, Progressing
    <2> QED BY <1>5, <2>1, ProgressAlone DEF RemoveDevRecord
  <1>6. CASE ClearTmp(p)
    <2>1. p \in calm => Progress(p)'
      BY <1>6 DEF ClearTmp, locals, Progressing
    <2> QED BY <1>6, <2>1, ProgressAlone DEF ClearTmp
  <1>7. CASE Symlink(p)
    <2>1. p \in calm => Progress(p)'
      BY <1>7 DEF Symlink, locals, Progressing
    <2> QED BY <1>7, <2>1, ProgressAlone DEF Symlink
  <1>8. CASE RenameTmp(p)
    <2>1. p \in calm => Progress(p)'
      BY <1>8 DEF RenameTmp, AfterInstall, locals, Progressing
    <2> QED BY <1>8, <2>1, ProgressAlone DEF RenameTmp
  <1>9. CASE CreateProject(p)
    BY <1>9 DEF CreateProject, Progressing
  <1>10. CASE Abort(p) \/ Return(p)
    BY <1>1, <1>10 DEF Abort, Return
  <1>11. CASE TakeShared(p) \/ TakeExclusive(p) \/ GatherRoots(p)
    <2>1. UNCHANGED traces /\ calm' = calm /\ (p \in calm => Progress(p)')
      BY <1>11 DEF TakeShared, TakeExclusive, GatherRoots, traces, host, locals, Progressing
    <2> QED BY <1>0, <2>1, ProgressKept
  <1>12. CASE PublishArtifact(p) \/ ReadRecord(p) \/ RecordArtifact(p) \/ Resolve(p)
    <2>1. UNCHANGED traces /\ calm' = calm /\ (p \in calm => Progress(p)')
      BY <1>12 DEF PublishArtifact, ReadRecord, RecordArtifact, AfterRecord, Resolve, traces, host,
         locals, Progressing
    <2> QED BY <1>0, <2>1, ProgressKept
  <1>13. CASE ListReleases(p)
    <2>1. UNCHANGED traces /\ calm' = calm /\ (p \in calm => Progress(p)')
      BY <1>13 DEF ListReleases, traces, host, Progressing
    <2> QED BY <1>0, <2>1, ProgressKept
  <1>14. CASE Open(p) \/ Flock(p) \/ CopyBinary(p)
    <2>1. UNCHANGED traces /\ calm' = calm /\ (p \in calm => Progress(p)')
      BY <1>14 DEF Open, Flock, CopyBinary, traces, host, locals, Progressing
    <2> QED BY <1>0, <2>1, ProgressKept
  <1>15. CASE UnpublishObject(p) \/ UnrecordObject(p)
    <2>1. UNCHANGED traces /\ calm' = calm /\ (p \in calm => Progress(p)')
      BY <1>15 DEF UnpublishObject, UnrecordObject, traces, host, locals, Progressing
    <2> QED BY <1>0, <2>1, ProgressKept
  <1>16. ASSUME NextKind(p), ~Leave(p)
         PROVE  Progressing'
    <2>1. UNCHANGED traces /\ calm' = calm /\ (p \in calm => Progress(p)')
      BY <1>16 DEF NextKind, traces, host, locals, Progressing
    <2> QED BY <1>0, <2>1, ProgressKept
  <1>17. ASSUME NextKind(p), Leave(p)
         PROVE  Progressing'
    BY <1>1, <1>17 DEF NextKind, host
  <1>18. ASSUME NEW d \in Digests, SeizeObject(p, d) \/ OrphanRecord(p, d) \/ RemoveBinary(p, d)
         PROVE  Progressing'
    <2>1. UNCHANGED traces /\ calm' = calm /\ (p \in calm => Progress(p)')
      BY <1>18 DEF SeizeObject, OrphanRecord, RemoveBinary, traces, host, locals, Progressing
    <2> QED BY <1>0, <2>1, ProgressKept
  <1> QED BY <1>2, <1>3, <1>4, <1>5, <1>6, <1>7, <1>8, <1>9, <1>10, <1>11, <1>12, <1>13, <1>14,
       <1>15, <1>16, <1>17, <1>18 DEF Step

(* When pin, symlink and dev record agree (DevOn, DevOff, Provision,       *)
(* Update).                                                                *)
THEOREM SuccessTheorem == Spec => []SuccessAgrees
  <1>1. Init => Base /\ Fresh /\ Progressing
    BY BaseInit DEF Init, Fresh, Progressing
  <1>2. Base /\ Fresh /\ Progressing /\ [Next]_vars => (Base /\ Fresh /\ Progressing)'
    <2>1. Base /\ Fresh /\ Progressing /\ UNCHANGED vars => (Base /\ Fresh /\ Progressing)'
      BY BaseStutter DEF Fresh, Progressing, Progress, PinnedAs, vars, host, locals
    <2> QED BY <2>1, BaseStep, FreshStep, ProgressStep DEF Next
  <1>3. Progressing => SuccessAgrees
    BY DEF Progressing, Progress, PinnedAs, SuccessAgrees, At
  <1> QED BY <1>1, <1>2, <1>3, PTL DEF Spec

-----------------------------------------------------------------------------
(* The store.  Inodes only grow, an exclusive flock is alone on its inode, *)
(* and whoever is about to unpublish has that and the object's lock.       *)
DirTypes ==
    /\ tree \in [Digests -> Nat] /\ made \in [Digests -> Nat]
    /\ objLock \in [Digests -> Procs \cup {None}]
    /\ fd \in [Procs -> [digest : Digests, inode : Nat \ {0},
                         flock : {"none", "shared", "exclusive"}] \cup {NoFd}]

Inodes ==
    /\ \A d \in Digests : tree[d] <= made[d]
    /\ \A p \in Procs : fd[p] # NoFd => fd[p].inode <= made[fd[p].digest]

Flocks ==
    \A p, q \in Procs :
        /\ p # q /\ fd[p].flock = "exclusive" /\ fd[q].digest = fd[p].digest
        /\ fd[q].inode = fd[p].inode
        => fd[q].flock = "none"

Seizing ==
    \A p \in Procs :
        /\ pc[p] = "flock" => fd[p] # NoFd
        /\ pc[p] \in {"unpublish", "unrecord"} => fd[p] # NoFd /\ objLock[fd[p].digest] = p
        /\ pc[p] = "unpublish" => fd[p].flock = "exclusive" /\ fd[p].inode = tree[fd[p].digest]

Directories == DirTypes /\ Inodes /\ Flocks /\ Seizing

storeDirs == <<tree, made, objLock, fd>>

LEMMA NoFdFacts ==
    /\ NoFd.flock = "none" /\ NoFd.inode = 0 /\ NoFd.digest = None
    /\ None \notin Procs /\ None \notin Digests
  BY StoreAssumption DEF NoFd

(* One lemma per step of the store; the process is p.                      *)
LEMMA DirsKept ==
    ASSUME Directories, NEW p \in Procs, Others(p), UNCHANGED storeDirs,
           pc'[p] \notin {"flock", "unpublish", "unrecord"}
    PROVE  Directories'
  BY DEF Directories, DirTypes, Inodes, Flocks, Seizing, storeDirs, Others

LEMMA PublishDirs ==
    ASSUME Directories, NEW p \in Procs, Others(p), NEW d \in Digests, Publish(d),
           pc'[p] \notin {"flock", "unpublish", "unrecord"}
    PROVE  Directories'
  <1>1. UNCHANGED <<fd, objLock>> /\ objLock[d] = None
    BY DEF Publish
  <1>2. CASE UNCHANGED <<tree, made>>
    BY <1>1, <1>2, DirsKept DEF storeDirs
  <1>3. CASE /\ made' = [made EXCEPT ![d] = @ + 1]
             /\ tree' = [tree EXCEPT ![d] = made[d] + 1]
    <2>1. DirTypes' /\ Inodes' /\ Flocks'
      BY <1>1, <1>3, NoFdFacts DEF Directories, DirTypes, Inodes, Flocks
    <2>2. ASSUME NEW q \in Procs, pc[q] = "unpublish"
          PROVE  tree'[fd[q].digest] = tree[fd[q].digest]
      BY <1>1, <1>3, <2>2, NoFdFacts DEF Directories, DirTypes, Seizing
    <2>3. Seizing'
      BY <1>1, <2>2 DEF Directories, Seizing, Others
    <2> QED BY <2>1, <2>3 DEF Directories
  <1> QED BY <1>2, <1>3 DEF Publish

LEMMA OpenDirs ==
    ASSUME Directories, NEW p \in Procs, Others(p), NEW d \in Digests, OpenDir(p, d),
           pc'[p] \notin {"unpublish", "unrecord"}
    PROVE  Directories'
  <1>1. UNCHANGED <<tree, made, objLock>> /\ \A q \in Procs : q # p => fd'[q] = fd[q]
    BY DEF OpenDir, Directories, DirTypes
  <1>2. fd'[p] = [digest |-> d, inode |-> tree[d], flock |-> "none"] /\ tree[d] \in Nat \ {0}
    BY DEF OpenDir, Present, Directories, DirTypes
  <1>3. DirTypes'
    BY <1>1, <1>2 DEF OpenDir, Directories, DirTypes
  <1>4. fd'[p] # NoFd /\ fd'[p].flock = "none" /\ fd'[p].digest = d /\ fd'[p].inode = tree[d]
    BY <1>2, NoFdFacts
  <1>5. Inodes' /\ Flocks'
    BY <1>1, <1>4 DEF Directories, Inodes, Flocks
  <1>6. Seizing'
    BY <1>1, <1>4 DEF Directories, Seizing, Others
  <1> QED BY <1>3, <1>5, <1>6 DEF Directories

LEMMA FlockDirs ==
    ASSUME Directories, NEW p \in Procs, Others(p), FlockShared(p), pc[p] = "flock",
           pc'[p] \notin {"unpublish", "unrecord"}
    PROVE  Directories'
  <1>1. UNCHANGED <<tree, made, objLock>> /\ \A q \in Procs : q # p => fd'[q] = fd[q]
    BY DEF FlockShared, Directories, DirTypes
  <1>2. fd[p] # NoFd /\ fd[p] \in [digest : Digests, inode : Nat \ {0},
                                   flock : {"none", "shared", "exclusive"}]
    BY DEF Directories, DirTypes, Seizing
  <1>3. fd'[p] = [digest |-> fd[p].digest, inode |-> fd[p].inode, flock |-> "shared"]
    BY <1>2 DEF FlockShared, Directories, DirTypes
  <1>4. fd'[p] # NoFd /\ fd'[p].flock = "shared" /\ fd'[p].digest = fd[p].digest
        /\ fd'[p].inode = fd[p].inode
    BY <1>2, <1>3, NoFdFacts
  <1>5. DirTypes'
    BY <1>1, <1>2, <1>3 DEF FlockShared, Directories, DirTypes
  <1>6. Inodes'
    BY <1>1, <1>2, <1>4 DEF Directories, Inodes
  <1>7. Flocks'
    <2>1. \A q \in Procs : ~(fd[q].digest = fd[p].digest /\ fd[q].inode = fd[p].inode
                             /\ fd[q].flock = "exclusive")
      BY DEF FlockShared, Unflocked
    <2> QED BY <1>1, <1>4, <2>1 DEF Directories, Flocks
  <1>8. Seizing'
    BY <1>1, <1>4 DEF Directories, Seizing, Others
  <1> QED BY <1>5, <1>6, <1>7, <1>8 DEF Directories

LEMMA SeizeDirs ==
    ASSUME Directories, NEW p \in Procs, Others(p), NEW d \in Digests, Seize(p, d)
    PROVE  Directories'
  <1>1. UNCHANGED <<tree, made>> /\ \A q \in Procs : q # p => fd'[q] = fd[q]
    BY DEF Seize, Directories, DirTypes
  <1>2. fd'[p] = [digest |-> d, inode |-> tree[d], flock |-> "exclusive"] /\ tree[d] \in Nat \ {0}
    BY DEF Seize, Present, Directories, DirTypes
  <1>3. DirTypes'
    BY <1>1, <1>2 DEF Seize, Directories, DirTypes
  <1>4. fd'[p] # NoFd /\ fd'[p].flock = "exclusive" /\ fd'[p].digest = d /\ fd'[p].inode = tree[d]
    BY <1>2, NoFdFacts
  <1>5. Inodes'
    BY <1>1, <1>4 DEF Directories, Inodes
  <1>6. Flocks'
    <2>1. \A q \in Procs : ~(fd[q].digest = d /\ fd[q].inode = tree[d]
                             /\ fd[q].flock \in {"shared", "exclusive"})
      BY DEF Seize, Unflocked
    <2>2. \A q \in Procs : fd[q].flock \in {"none", "shared", "exclusive"}
      BY NoFdFacts DEF Directories, DirTypes
    <2> QED BY <1>1, <1>4, <2>1, <2>2 DEF Directories, Flocks
  <1>7. \A q \in Procs : q # p => objLock'[fd[q].digest] = objLock[fd[q].digest]
                                  \/ objLock[fd[q].digest] = None
    BY DEF Seize, Directories, DirTypes
  <1>8. objLock'[d] = p
    BY DEF Seize, Directories, DirTypes
  <1>9. Seizing'
    BY <1>1, <1>4, <1>7, <1>8, NoFdFacts DEF Directories, Seizing, Others
  <1> QED BY <1>3, <1>5, <1>6, <1>9 DEF Directories

LEMMA UnpublishDirs ==
    ASSUME Directories, NEW p \in Procs, Others(p), Unpublish(p), pc[p] = "unpublish",
           pc'[p] = "unrecord"
    PROVE  Directories'
  <1>1. UNCHANGED <<made, objLock, fd>> /\ tree' = [tree EXCEPT ![fd[p].digest] = 0]
    BY DEF Unpublish
  <1>2. DirTypes' /\ Inodes' /\ Flocks'
    <2>1. DirTypes' /\ Flocks'
      BY <1>1 DEF Directories, DirTypes, Flocks
    <2>2. Inodes'
      BY <1>1 DEF Directories, DirTypes, Inodes
    <2> QED BY <2>1, <2>2
  <1>3. ASSUME NEW q \in Procs, q # p, pc[q] = "unpublish"
        PROVE  tree'[fd[q].digest] = tree[fd[q].digest]
    BY <1>1, <1>3 DEF Directories, DirTypes, Seizing
  <1>4. Seizing'
    BY <1>1, <1>3 DEF Directories, Seizing, Others
  <1> QED BY <1>2, <1>4 DEF Directories

(* Everything p has open or locked is given up.                            *)
LEMMA CloseDirs ==
    ASSUME Directories, NEW p \in Procs, Others(p), UNCHANGED <<tree, made>>,
           fd' = [fd EXCEPT ![p] = NoFd],
           objLock' \in [Digests -> Procs \cup {None}],
           \A q \in Procs, d \in Digests : q # p /\ objLock[d] = q => objLock'[d] = q,
           pc'[p] \notin {"flock", "unpublish", "unrecord"}
    PROVE  Directories'
  <1>1. fd'[p] = NoFd /\ \A q \in Procs : q # p => fd'[q] = fd[q]
    BY DEF Directories, DirTypes
  <1>2. DirTypes' /\ Inodes' /\ Flocks'
    <2>1. DirTypes'
      BY DEF Directories, DirTypes
    <2>2. Inodes'
      BY <1>1 DEF Directories, Inodes
    <2>3. Flocks'
      BY <1>1, NoFdFacts DEF Directories, Flocks
    <2> QED BY <2>1, <2>2, <2>3
  <1>3. \A q \in Procs : fd[q] # NoFd => fd[q].digest \in Digests
    BY DEF Directories, DirTypes
  <1>4. Seizing'
    BY <1>1, <1>3 DEF Directories, Seizing, Others
  <1> QED BY <1>2, <1>4 DEF Directories

LEMMA DirsStep ==
    ASSUME Base, Directories, NEW p \in Procs, Begin(p) \/ Step(p) \/ Abort(p)
    PROVE  Directories'
  <1>0. Others(p)
    BY BaseStep
  <1> USE DEF Base, Shapes, At, Goto
  <1>1. CASE UNCHANGED storeDirs /\ pc'[p] \notin {"flock", "unpublish", "unrecord"}
    BY <1>0, <1>1, DirsKept
  <1>2. CASE CloseAll(p) /\ pc'[p] \notin {"flock", "unpublish", "unrecord"}
    <2>1. UNCHANGED <<tree, made>> /\ fd' = [fd EXCEPT ![p] = NoFd]
          /\ objLock' = [d \in Digests |-> IF objLock[d] = p THEN None ELSE objLock[d]]
      BY <1>2 DEF CloseAll
    <2>2. objLock' \in [Digests -> Procs \cup {None}]
      BY <2>1 DEF Directories, DirTypes
    <2>3. \A q \in Procs, d \in Digests : q # p /\ objLock[d] = q => objLock'[d] = q
      BY <2>1
    <2> QED BY <1>0, <1>2, <2>1, <2>2, <2>3, CloseDirs
  <1>3. CASE LetGo(p)
    BY <1>2, <1>3 DEF LetGo
  <1>4. CASE Begin(p)
    BY <1>1, <1>4 DEF Begin, Provision, Update, DevOn, DevOff, InitProject, Use, GC, Start, store,
       storeDirs
  <1>5. CASE Abort(p) \/ Return(p) \/ CreateProject(p)
    BY <1>3, <1>5 DEF Abort, Return, Leave, CreateProject
  <1>6. CASE \/ TakeShared(p) \/ TakeExclusive(p) \/ Resolve(p) \/ Pin(p) \/ WriteDevRecord(p)
             \/ RemoveDevRecord(p) \/ ListReleases(p) \/ GatherRoots(p)
    BY <1>1, <1>6 DEF TakeShared, TakeExclusive, Resolve, Pin, AfterPin, WriteDevRecord,
       RemoveDevRecord, ListReleases, GatherRoots, store, storeDirs
  <1>7. CASE CopyBinary(p) \/ ClearTmp(p) \/ Symlink(p)
    BY <1>1, <1>7 DEF CopyBinary, ClearTmp, Symlink, store, storeDirs
  <1>8. CASE RenameTmp(p)
    BY <1>2, <1>8 DEF RenameTmp, AfterInstall
  <1>9. CASE RecordArtifact(p)
    BY <1>1, <1>9 DEF RecordArtifact, AfterRecord, WriteRecord, storeDirs
  <1>18. CASE ReadRecord(p)
    BY <1>1, <1>18 DEF ReadRecord, AfterRecord, store, storeDirs
  <1>10. CASE PublishArtifact(p)
    BY <1>0, <1>10, PublishDirs DEF PublishArtifact, Holding
  <1>11. CASE Open(p)
    BY <1>0, <1>11, OpenDirs DEF Open, Holding
  <1>12. CASE Flock(p)
    BY <1>0, <1>12, FlockDirs DEF Flock
  <1>13. CASE UnpublishObject(p)
    BY <1>0, <1>13, UnpublishDirs DEF UnpublishObject
  <1>14. CASE UnrecordObject(p)
    <2>1. /\ UNCHANGED <<tree, made>> /\ fd' = [fd EXCEPT ![p] = NoFd]
          /\ objLock' = [objLock EXCEPT ![fd[p].digest] = None]
          /\ pc'[p] = "remove" /\ pc[p] = "unrecord"
      BY <1>14 DEF UnrecordObject, Unrecord
    <2>2. objLock' \in [Digests -> Procs \cup {None}]
      BY <2>1 DEF Directories, DirTypes
    <2>3. \A q \in Procs, d \in Digests : q # p /\ objLock[d] = q => objLock'[d] = q
      BY <2>1 DEF Directories, DirTypes, Seizing
    <2> QED BY <1>0, <2>1, <2>2, <2>3, CloseDirs
  <1>15. CASE NextKind(p)
    BY <1>1, <1>3, <1>15 DEF NextKind, Leave, store, storeDirs
  <1>16. ASSUME NEW d \in Digests, SeizeObject(p, d) PROVE Directories'
    BY <1>0, <1>16, SeizeDirs DEF SeizeObject
  <1>17. ASSUME NEW d \in Digests, OrphanRecord(p, d) \/ RemoveBinary(p, d) PROVE Directories'
    BY <1>1, <1>17 DEF OrphanRecord, RemoveOrphan, RemoveBinary, store, storeDirs
  <1> QED BY <1>4, <1>5, <1>6, <1>7, <1>8, <1>9, <1>10, <1>11, <1>12, <1>13, <1>14, <1>15, <1>16,
       <1>17, <1>18 DEF Step

-----------------------------------------------------------------------------
(* The refinement: what a step of the store is on the shelf.               *)
Objects == {d \in Digests : Present(d)}
Holds(p) == Current(p) /\ fd[p].flock = "shared"

LEMMA LeasedDef ==
    Leased = {<<p, fd[p].digest>> : p \in {q \in Procs : Holds(q)}}
  BY DEF Leased, Holds

(* Nobody's lease comes or goes.                                           *)
LEMMA SameLeases ==
    ASSUME \A q \in Procs : /\ Holds(q) <=> Holds(q)'
                            /\ Holds(q) => fd'[q].digest = fd[q].digest
    PROVE  Leased' = Leased
  BY LeasedDef DEF Leased, Holds

(* Only p's lease goes.                                                    *)
LEMMA OneLetsGo ==
    ASSUME NEW p \in Procs, UNCHANGED Objects, ~Holds(p)',
           \A q \in Procs : q # p => /\ Holds(q) <=> Holds(q)'
                                     /\ Holds(q) => fd'[q].digest = fd[q].digest
    PROVE  Shelved!LetGo(p)
  <1>1. Leased' = {h \in Leased : h[1] # p}
    BY DEF Leased, Holds
  <1> QED BY <1>1 DEF Shelved!LetGo, Objects

shelf == <<Objects, Leased>>

LEMMA PutStep ==
    ASSUME Directories, NEW d \in Digests, Publish(d)
    PROVE  Shelved!Put(d) \/ UNCHANGED shelf
  <1>1. fd' = fd
    BY DEF Publish
  <1>2. CASE UNCHANGED <<tree, made>>
    BY <1>1, <1>2 DEF shelf, Objects, Leased, Present, Current
  <1>3. CASE ~Present(d) /\ tree' = [tree EXCEPT ![d] = made[d] + 1]
    <2>1. Objects' = Objects \cup {d}
      BY <1>3 DEF Objects, Present, Directories, DirTypes
    <2>2. ASSUME NEW q \in Procs PROVE Holds(q) <=> Holds(q)'
      <3>1. CASE fd[q] = NoFd
        BY <1>1, <3>1 DEF Holds, Current
      <3>2. CASE fd[q] # NoFd /\ fd[q].digest = d
        <4>1. tree[d] = 0 /\ tree'[d] = made[d] + 1 /\ made[d] \in Nat
          BY <1>3 DEF Present, Directories, DirTypes
        <4>2. fd[q].inode \in Nat \ {0} /\ fd[q].inode <= made[d]
          BY <3>2 DEF Directories, DirTypes, Inodes
        <4> QED BY <1>1, <3>2, <4>1, <4>2 DEF Holds, Current
      <3>3. CASE fd[q] # NoFd /\ fd[q].digest # d
        BY <1>1, <1>3, <3>3 DEF Holds, Current, Directories, DirTypes
      <3> QED BY <3>1, <3>2, <3>3
    <2>3. Leased' = Leased
      BY <1>1, <2>2, SameLeases
    <2> QED BY <2>1, <2>3 DEF Shelved!Put, Objects
  <1> QED BY <1>2, <1>3 DEF Publish

LEMMA LetGoStep ==
    ASSUME Directories, NEW p \in Procs, UNCHANGED tree,
           \A q \in Procs : q # p => fd'[q] = fd[q], fd'[p].flock # "shared"
    PROVE  Shelved!LetGo(p)
  <1>1. UNCHANGED Objects /\ ~Holds(p)'
    BY DEF Objects, Present, Holds
  <1>2. \A q \in Procs : q # p => /\ Holds(q) <=> Holds(q)'
                                  /\ Holds(q) => fd'[q].digest = fd[q].digest
    BY DEF Holds, Current
  <1> QED BY <1>1, <1>2, OneLetsGo

LEMMA HoldStep ==
    ASSUME Directories, NEW p \in Procs, FlockShared(p), fd[p] # NoFd
    PROVE  (\E d \in Digests : Shelved!Hold(p, d)) \/ UNCHANGED shelf
  <1>1. tree' = tree /\ \A q \in Procs : q # p => fd'[q] = fd[q]
    BY DEF FlockShared, Directories, DirTypes
  <1>2. fd[p] \in [digest : Digests, inode : Nat \ {0}, flock : {"none", "shared", "exclusive"}]
    BY DEF Directories, DirTypes
  <1>3. fd'[p] = [digest |-> fd[p].digest, inode |-> fd[p].inode, flock |-> "shared"]
    BY <1>2 DEF FlockShared, Directories, DirTypes
  <1>4. fd'[p] # NoFd /\ fd'[p].flock = "shared" /\ fd'[p].digest = fd[p].digest
        /\ fd'[p].inode = fd[p].inode
    BY <1>2, <1>3, NoFdFacts
  <1>5. Objects' = Objects
    BY <1>1 DEF Objects, Present
  <1>6. \A q \in Procs : q # p => (Holds(q) <=> Holds(q)')
    BY <1>1 DEF Holds, Current
  <1>7. CASE Current(p)
    <2>1. Holds(p)'
      BY <1>1, <1>4, <1>7 DEF Holds, Current
    <2>2. Leased' = Leased \cup {<<p, fd[p].digest>>}
      BY <1>1, <1>4, <1>6, <2>1 DEF Leased, Holds
    <2>3. fd[p].digest \in Objects
      BY <1>2, <1>7 DEF Objects, Present, Current
    <2> QED BY <1>2, <1>5, <2>2, <2>3 DEF Shelved!Hold, Objects
  <1>8. CASE ~Current(p)
    <2>1. ~Holds(p) /\ ~Holds(p)'
      BY <1>1, <1>4, <1>8 DEF Holds, Current
    <2>2. Leased' = Leased
      BY <1>1, <1>6, <2>1, SameLeases
    <2> QED BY <1>5, <2>2 DEF shelf
  <1> QED BY <1>7, <1>8

LEMMA DropStep ==
    ASSUME Directories, NEW p \in Procs, Unpublish(p), pc[p] = "unpublish"
    PROVE  \E d \in Digests : Shelved!Drop(d)
  <1> DEFINE d == fd[p].digest
  <1>1. fd' = fd /\ tree' = [tree EXCEPT ![d] = 0]
    BY DEF Unpublish
  <1>2. d \in Digests /\ fd[p].flock = "exclusive" /\ fd[p].inode = tree[d]
    BY DEF Directories, DirTypes, Seizing
  <1>3. ASSUME NEW q \in Procs, Holds(q) PROVE fd[q].digest # d
    BY <1>2, <1>3 DEF Holds, Current, Directories, Flocks
  <1>4. \A q \in Procs : Holds(q) <=> Holds(q)'
    <2> TAKE q \in Procs
    <2>1. CASE fd[q] = NoFd
      BY <1>1, <2>1 DEF Holds, Current
    <2>2. CASE fd[q] # NoFd /\ fd[q].digest = d
      <3>1. fd[q].inode # 0 /\ tree'[d] = 0
        BY <1>1, <1>2, <2>2 DEF Directories, DirTypes
      <3> QED BY <1>1, <1>3, <2>2, <3>1 DEF Holds, Current
    <2>3. CASE fd[q] # NoFd /\ fd[q].digest # d
      BY <1>1, <2>3 DEF Holds, Current, Directories, DirTypes
    <2> QED BY <2>1, <2>2, <2>3
  <1>5. Leased' = Leased
    BY <1>1, <1>4, SameLeases
  <1>6. Objects' = Objects \ {d}
    BY <1>1, <1>2 DEF Objects, Present, Directories, DirTypes
  <1>7. \A u \in Procs : <<u, d>> \notin Leased
    BY <1>3 DEF Leased, Holds
  <1> QED BY <1>2, <1>5, <1>6, <1>7 DEF Shelved!Drop, Objects

LEMMA ShelfStep ==
    ASSUME Base, Directories, NEW p \in Procs, Begin(p) \/ Step(p) \/ Abort(p)
    PROVE  Shelved!Next \/ UNCHANGED shelf
  <1> USE DEF Shelved!Next
  <1>1. CASE UNCHANGED <<tree, fd>>
    BY <1>1 DEF shelf, Objects, Leased, Present, Current
  <1>2. ASSUME tree' = tree, \A q \in Procs : q # p => fd'[q] = fd[q], fd'[p].flock # "shared"
        PROVE  Shelved!Next
    BY <1>2, LetGoStep
  <1>3. CASE CloseAll(p)
    BY <1>2, <1>3, NoFdFacts DEF CloseAll, Directories, DirTypes
  <1>4. CASE Begin(p)
    BY <1>1, <1>4 DEF Begin, Provision, Update, DevOn, DevOff, InitProject, Use, GC, Start, store
  <1>5. CASE Abort(p) \/ Return(p) \/ CreateProject(p)
    BY <1>3, <1>5 DEF Abort, Return, Leave, LetGo, CreateProject
  <1>6. CASE \/ TakeShared(p) \/ TakeExclusive(p) \/ Resolve(p) \/ Pin(p) \/ WriteDevRecord(p)
             \/ RemoveDevRecord(p) \/ ListReleases(p) \/ GatherRoots(p)
    BY <1>1, <1>6 DEF TakeShared, TakeExclusive, Resolve, Pin, WriteDevRecord,
       RemoveDevRecord, ListReleases, GatherRoots, store
  <1>7. CASE CopyBinary(p) \/ ClearTmp(p) \/ Symlink(p) \/ ReadRecord(p)
             \/ RecordArtifact(p)
    BY <1>1, <1>7 DEF CopyBinary, ClearTmp, Symlink, ReadRecord, RecordArtifact, WriteRecord, store
  <1>8. CASE RenameTmp(p)
    BY <1>3, <1>8 DEF RenameTmp
  <1>9. CASE PublishArtifact(p)
    <2>1. art[p] \in Digests
      BY <1>9 DEF PublishArtifact, Base, Holding, At
    <2> QED BY <1>9, <2>1, PutStep DEF PublishArtifact
  <1>10. CASE Open(p)
    <2>1. fd' = [fd EXCEPT ![p] = [digest |-> art[p], inode |-> tree[art[p]], flock |-> "none"]]
          /\ tree' = tree
      BY <1>10 DEF Open, OpenDir
    <2> QED BY <1>2, <2>1 DEF Directories, DirTypes
  <1>11. CASE Flock(p)
    BY <1>11, HoldStep DEF Flock, Directories, Seizing, At
  <1>12. CASE UnpublishObject(p)
    BY <1>12, DropStep DEF UnpublishObject, At
  <1>13. CASE UnrecordObject(p)
    BY <1>2, <1>13, NoFdFacts DEF UnrecordObject, Unrecord, Directories, DirTypes
  <1>14. CASE NextKind(p)
    BY <1>1, <1>3, <1>14 DEF NextKind, Leave, LetGo, store
  <1>15. ASSUME NEW d \in Digests, SeizeObject(p, d) PROVE Shelved!Next
    <2>1. fd' = [fd EXCEPT ![p] = [digest |-> d, inode |-> tree[d], flock |-> "exclusive"]]
          /\ tree' = tree
      BY <1>15 DEF SeizeObject, Seize
    <2> QED BY <1>2, <2>1 DEF Directories, DirTypes
  <1>16. ASSUME NEW d \in Digests, OrphanRecord(p, d) \/ RemoveBinary(p, d)
         PROVE  Shelved!Next \/ UNCHANGED shelf
    BY <1>1, <1>16 DEF OrphanRecord, RemoveOrphan, RemoveBinary, store
  <1> QED BY <1>4, <1>5, <1>6, <1>7, <1>8, <1>9, <1>10, <1>11, <1>12, <1>13, <1>14, <1>15,
       <1>16 DEF Step

(* The store with its inodes, flocks and crashes is a shelf (Store.Open,   *)
(* Store.RemoveObject): what is leased while it is published does not go.  *)
THEOREM ShelfTheorem == Spec => StoreIsShelf
  <1>1. Init => Base /\ Directories /\ Shelved!Init
    <2> SUFFICES ASSUME Init PROVE Directories /\ Shelved!Init
      BY BaseInit
    <2>1. DirTypes /\ Inodes /\ Flocks /\ Seizing
      BY NoFdFacts DEF Init, StoreInit, DirTypes, Inodes, Flocks, Seizing
    <2>2. Shelved!Init
      BY DEF Init, StoreInit, Shelved!Init, Present, Leased, Current
    <2> QED BY <2>1, <2>2 DEF Directories
  <1>2. Base /\ Directories /\ [Next]_vars => (Base /\ Directories)'
    <2>1. Base /\ Directories /\ UNCHANGED vars => (Base /\ Directories)'
      BY BaseStutter DEF Directories, DirTypes, Inodes, Flocks, Seizing, vars, store
    <2> QED BY <2>1, BaseStep, DirsStep DEF Next
  <1>3. Base /\ Directories /\ [Next]_vars
        => [Shelved!Next]_<<{d \in Digests : Present(d)}, Leased>>
    <2>1. UNCHANGED vars => UNCHANGED shelf
      BY DEF vars, store, shelf, Objects, Leased, Present, Current
    <2>2. UNCHANGED shelf => UNCHANGED <<{d \in Digests : Present(d)}, Leased>>
      BY DEF shelf, Objects
    <2> QED BY <2>1, <2>2, ShelfStep DEF Next
  <1> QED BY <1>1, <1>2, <1>3, PTL DEF Spec, StoreIsShelf, Shelved!Spec

-----------------------------------------------------------------------------
(* What may be handed out.  The newest release is the one whose record was *)
(* written last; removing an older one does not make another the newest.   *)
LEMMA LatestExists ==
    ASSUME Names, NEW r \in Releases
    PROVE  \E m \in Releases : \A s \in Releases : s.at <= m.at
  <1> DEFINE ages == {clock - s.at : s \in Releases}
  <1>1. \A s \in Releases : s.at \in Nat /\ clock - s.at \in Nat /\ clock \in Nat
    BY DEF Names, Releases, Record
  <1>2. ages \in SUBSET Nat /\ ages # {}
    BY <1>1
  <1>3. IsWellFoundedOn(OpToRel(<, Nat), Nat)
    BY NatLessThanWellFounded
  <1>4. PICK i \in ages : \A j \in ages : ~(<<j, i>> \in OpToRel(<, Nat))
    BY <1>2, <1>3, WFMin
  <1>5. \A j \in ages : <<j, i>> \in OpToRel(<, Nat) <=> j < i
    BY <1>2 DEF OpToRel
  <1>6. \A j \in ages : ~(j < i)
    BY <1>4, <1>5, Zenon
  <1>7. PICK m \in Releases : i = clock - m.at
    BY <1>4
  <1>8. ASSUME NEW s \in Releases PROVE s.at <= m.at
    <2>1. ~(clock - s.at < clock - m.at)
      BY <1>6, <1>7
    <2> QED BY <1>1, <2>1
  <1> QED BY <1>8

LEMMA NewestShrinks ==
    ASSUME Names, NEW d, d \notin Newest, installed' = Without(d)
    PROVE  Newest' \subseteq Newest
  <1> SUFFICES ASSUME NEW x \in Newest' PROVE x \in Newest
    OBVIOUS
  <1>1. Releases' = {s \in Releases : s.digest # d}
    BY DEF Releases, Without
  <1>2. PICK r \in Releases' : x = r.digest /\ \A s \in Releases' : s.at <= r.at
    BY DEF Newest
  <1>3. PICK m \in Releases : \A s \in Releases : s.at <= m.at
    BY <1>1, <1>2, LatestExists
  <1>4. m.digest \in Newest
    BY <1>3 DEF Newest
  <1>5. m.at <= r.at
    BY <1>1, <1>2, <1>3, <1>4
  <1>6. \A s \in Releases : s.at \in Nat
    BY DEF Names, Releases, Record
  <1>7. \A s \in Releases : s.at <= r.at
    BY <1>1, <1>3, <1>5, <1>6
  <1> QED BY <1>1, <1>2, <1>7 DEF Newest

Usable(d) == Present(d) /\ Recorded(d)

(* An operation that carries an artifact on has published and recorded it, *)
(* or has found it among the newest.                                       *)
Carrying == {"resolve", "pin", "create", "devrecord", "copy"} \cup Installing

Carried ==
    \A p \in Procs :
        /\ pc[p] \in {"record", "write"} => Present(art[p])
        /\ pc[p] \in Carrying => art[p] = None \/ Usable(art[p])
        /\ pc[p] \in {"open", "flock"} /\ op[p] # "use" => Usable(art[p])

(* What a collection keeps, and what it is about to remove.                *)
Kept ==
    \A p \in Procs :
        /\ pc[p] \in Removing => Pinned \cup Newest \subseteq keep[p]
        /\ pc[p] \in {"unpublish", "unrecord"} => fd[p].digest \notin keep[p]

(* Somebody about to write a record of an artifact may replace the one     *)
(* there is, and with it the newest release.  The newest of the others has *)
(* its object too.                                                         *)
Writers == {art[p] : p \in {q \in Procs : pc[q] = "write"}}
Settled == {r \in Releases : r.digest \notin Writers}
Backed  == \A r \in Settled : (\A s \in Settled : s.at <= r.at) => Present(r.digest)

Rooted == RootsUsable /\ Carried /\ Kept /\ Backed

contents == <<tree, installed>>

(* Nothing of the store is removed while somebody writes.                  *)
LEMMA NobodyRemoves ==
    ASSUME Base, NEW p \in Procs, pc[p] \in Writing
    PROVE  \A q \in Procs : pc[q] \notin Removing
  BY DEF Base, Holding, Collecting

LEMMA NobodyCarries ==
    ASSUME Base, NEW p \in Procs, pc[p] \in Removing
    PROVE  \A q \in Procs : /\ pc[q] \notin Carrying \cup {"record", "write"}
                            /\ pc[q] \in {"open", "flock"} => op[q] = "use"
                            /\ q # p => pc[q] \notin Removing
  BY DEF Base, Holding, Carrying, Installing, Writing, Collecting, Removing

(* What is replaced is replaced by something that is there.                *)
LEMMA BackedKept ==
    ASSUME Rooted, \A r \in Releases \cup Releases' : Present(r.digest) => Present(r.digest)',
           \A r : r.digest \notin Writers => (r \in Releases <=> r \in Releases'),
           \A d \in Writers' : d \in Writers \/ ~Recorded(d)
    PROVE  Backed'
  <1> SUFFICES ASSUME NEW r \in Settled', \A s \in Settled' : s.at <= r.at
               PROVE  Present(r.digest)'
    BY DEF Backed
  <1>1. r \in Releases' /\ r.digest \notin Writers'
    BY DEF Settled
  <1>2. CASE r.digest \in Writers
    BY <1>1, <1>2 DEF Writers, Rooted, Carried
  <1>3. CASE r.digest \notin Writers
    <2>1. r \in Settled
      BY <1>1, <1>3 DEF Settled
    <2>2. ASSUME NEW s \in Settled PROVE s \in Settled'
      <3>1. Recorded(s.digest) /\ s.digest \notin Writers /\ s \in Releases
        BY DEF Settled, Releases, Recorded, RecordsOf
      <3> QED BY <3>1 DEF Settled
    <2>3. Present(r.digest)
      BY <2>1, <2>2 DEF Rooted, Backed
    <2> QED BY <1>1, <2>3
  <1> QED BY <1>2, <1>3

(* A step that leaves the store's contents and the record alone.           *)
LEMMA RootedKept ==
    ASSUME Base, Rooted, NEW p \in Procs, Others(p), UNCHANGED <<tree, installed, rec>>,
           \A q \in Procs : q # p => fd'[q] = fd[q],
           pc'[p] \in {"record", "write"} => Present(art'[p]),
           pc'[p] = "write" => ~Recorded(art'[p]),
           pc'[p] \in Carrying => art'[p] = None \/ Usable(art'[p]),
           pc'[p] \in {"open", "flock"} /\ op'[p] # "use" => Usable(art'[p]),
           pc'[p] \in Removing => Pinned \cup Newest \subseteq keep'[p],
           pc'[p] \in {"unpublish", "unrecord"} => fd'[p].digest \notin keep'[p]
    PROVE  Rooted'
  <1>1. Pinned' = Pinned /\ Newest' = Newest
    BY DEF Pinned, Newest, Releases
  <1>2. \A d : Present(d)' = Present(d) /\ Recorded(d)' = Recorded(d) /\ Usable(d)' = Usable(d)
    BY DEF Present, Recorded, RecordsOf, Usable
  <1>3. RootsUsable'
    BY <1>1, <1>2 DEF Rooted, RootsUsable
  <1>4. Carried'
    BY <1>2 DEF Rooted, Carried, Others
  <1>5. Kept'
    BY <1>1 DEF Rooted, Kept, Others
  <1>6. Releases' = Releases
    BY DEF Releases
  <1>7. \A d \in Writers' : d \in Writers \/ ~Recorded(d)
    BY DEF Writers, Others
  <1>8. Backed'
    BY <1>2, <1>6, <1>7, BackedKept
  <1> QED BY <1>3, <1>4, <1>5, <1>8 DEF Rooted

(* The steps that only read.                                               *)
LEMMA RootedRead ==
    ASSUME Base, Directories, Rooted, NEW p \in Procs,
           \/ Begin(p) \/ Abort(p) \/ Return(p) \/ TakeShared(p) \/ TakeExclusive(p)
           \/ ReadRecord(p) \/ Resolve(p)
           \/ WriteDevRecord(p) \/ RemoveDevRecord(p) \/ ListReleases(p) \/ GatherRoots(p)
           \/ CopyBinary(p) \/ ClearTmp(p) \/ Symlink(p) \/ RenameTmp(p) \/ Open(p) \/ Flock(p)
           \/ NextKind(p) \/ \E d \in Digests : SeizeObject(p, d) \/ RemoveBinary(p, d)
    PROVE  Rooted'
  <1>0. Others(p)
    BY BaseStep DEF Step
  <1>1. fd \in [Procs -> [digest : Digests, inode : Nat \ {0},
                         flock : {"none", "shared", "exclusive"}] \cup {NoFd}]
    BY DEF Directories, DirTypes
  <1> USE DEF Base, Shapes, At, Goto, Carrying, Removing, Installing
  <1>2. ASSUME UNCHANGED <<tree, installed, rec>>, \A q \in Procs : q # p => fd'[q] = fd[q],
               pc'[p] \notin Carrying \cup Removing \cup {"record", "write"},
               pc'[p] \in {"open", "flock"} => op'[p] = "use"
        PROVE  Rooted'
    BY <1>0, <1>2, RootedKept
  <1>3. CASE LetGo(p) /\ UNCHANGED rec
    BY <1>1, <1>2, <1>3 DEF LetGo, CloseAll
  <1>4. CASE Begin(p)
    BY <1>2, <1>4 DEF Begin, Provision, Update, DevOn, DevOff, InitProject, Use, GC, Start, store
  <1>5. CASE Abort(p) \/ Return(p)
    BY <1>3, <1>5 DEF Abort, Return, Leave
  <1>6. CASE TakeShared(p) \/ TakeExclusive(p) \/ RemoveDevRecord(p)
    BY <1>2, <1>6 DEF TakeShared, TakeExclusive, RemoveDevRecord, store
  <1> USE DEF Rooted, Carried, Kept
  <1> HIDE DEF Rooted
  <1>7. CASE Resolve(p) \/ WriteDevRecord(p) \/ CopyBinary(p) \/ ClearTmp(p) \/ Symlink(p)
    <2>1. /\ UNCHANGED <<tree, installed, rec, fd, art>> /\ pc[p] \in Carrying
          /\ pc'[p] \in Carrying \cup {"stamp"}
      BY <1>7 DEF Resolve, WriteDevRecord, CopyBinary, ClearTmp, Symlink, store, locals
    <2> QED BY <1>0, <2>1, RootedKept DEF Rooted
  <1>8. CASE RenameTmp(p)
    <2>1. /\ UNCHANGED <<tree, installed, rec, art>> /\ pc[p] \in Carrying
          /\ pc'[p] \in Carrying \cup {"stamp"}
          /\ \A q \in Procs : q # p => fd'[q] = fd[q]
      BY <1>1, <1>8 DEF RenameTmp, AfterInstall, CloseAll, locals
    <2> QED BY <1>0, <2>1, RootedKept DEF Rooted
  <1>9. CASE ListReleases(p)
    <2>1. /\ UNCHANGED <<tree, installed, rec, fd>>
          /\ \/ pc'[p] \in {"create", "open"} /\ art'[p] \in Newest
             \/ pc'[p] \in {"create", "pin"} /\ art'[p] = art[p] /\ pc[p] = "list"
      BY <1>9, NewestNamed DEF ListReleases, store
    <2>2. \A d \in Newest : Usable(d)
      BY DEF Rooted, RootsUsable, Usable, Newest, Releases, Recorded, RecordsOf
    <2>3. pc[p] = "list" => art[p] = None
      BY DEF Holding
    <2>4. art'[p] \in Newest => Usable(art'[p])
      BY <2>2
    <2> QED BY <1>0, <2>1, <2>3, <2>4, RootedKept DEF Rooted
  <1>10. CASE GatherRoots(p)
    <2>1. /\ UNCHANGED <<tree, installed, rec, fd>> /\ pc'[p] = "remove"
          /\ keep'[p] = Pinned \cup Newest
      BY <1>10, NewestNamed DEF GatherRoots, Roots, store
    <2> QED BY <1>0, <2>1, RootedKept DEF Rooted
  <1>11. CASE Open(p)
    <2>1. /\ UNCHANGED <<tree, installed, rec, art, op>> /\ pc[p] = "open" /\ pc'[p] = "flock"
          /\ \A q \in Procs : q # p => fd'[q] = fd[q]
      BY <1>1, <1>11 DEF Open, OpenDir, locals
    <2> QED BY <1>0, <2>1, RootedKept DEF Rooted
  <1>12. CASE Flock(p)
    <2>1. /\ UNCHANGED <<tree, installed, rec, art, op>> /\ pc[p] = "flock"
          /\ \/ pc'[p] = "copy" /\ op[p] # "use"
             \/ pc'[p] = "use"
          /\ \A q \in Procs : q # p => fd'[q] = fd[q]
      BY <1>1, <1>12 DEF Flock, FlockShared, locals
    <2> QED BY <1>0, <2>1, RootedKept DEF Rooted
  <1>13. CASE NextKind(p)
    <2>1. ASSUME UNCHANGED <<store, rec, keep>>, pc[p] \in Removing,
                 pc'[p] \in {"orphans", "binaries"}
          PROVE  Rooted'
      BY <1>0, <2>1, RootedKept DEF Rooted, store
    <2> QED BY <1>3, <1>13, <2>1 DEF NextKind, Leave
  <1>14. ASSUME NEW d \in Digests, SeizeObject(p, d) PROVE Rooted'
    <2>1. /\ UNCHANGED <<tree, installed, rec, keep>> /\ pc[p] = "remove" /\ pc'[p] = "unpublish"
          /\ \A q \in Procs : q # p => fd'[q] = fd[q]
          /\ fd'[p].digest = d /\ d \notin keep[p]
      BY <1>1, <1>14 DEF SeizeObject, Seize
    <2> QED BY <1>0, <2>1, RootedKept DEF Rooted
  <1>15. ASSUME NEW d \in Digests, RemoveBinary(p, d) PROVE Rooted'
    <2>1. UNCHANGED <<tree, installed, rec, fd, keep, pc>> /\ pc[p] = "binaries"
      BY <1>15 DEF RemoveBinary, store
    <2> QED BY <1>0, <2>1, RootedKept DEF Rooted
  <1>16. CASE ReadRecord(p)
    <2>1. /\ UNCHANGED <<tree, installed, rec, fd, art>> /\ pc[p] = "record"
          /\ \/ pc'[p] \in {"pin", "resolve"} /\ Recorded(art[p])
             \/ pc'[p] = "write" /\ ~Recorded(art[p])
      BY <1>16 DEF ReadRecord, AfterRecord, store, locals
    <2> QED BY <1>0, <2>1, RootedKept DEF Rooted, Usable
  <1> QED BY <1>4, <1>5, <1>6, <1>7, <1>8, <1>9, <1>10, <1>11, <1>12, <1>13, <1>14, <1>15, <1>16

(* A removal: whatever is in the project's record or newest is not its     *)
(* victim, and nobody carries an artifact meanwhile.                       *)
LEMMA RemovalKept ==
    ASSUME Base, Rooted, NEW p \in Procs, Others(p), NEW d,
           pc[p] \in Removing, pc'[p] \in Removing, d \notin keep[p],
           UNCHANGED <<rec, keep>>,
           \A e \in Digests : e # d => tree'[e] = tree[e],
           installed' = Without(d) \/ installed' = installed,
           \A q \in Procs : q # p => fd'[q] = fd[q],
           pc'[p] \in {"unpublish", "unrecord"} => fd'[p].digest \notin keep[p]
    PROVE  Rooted'
  <1>1. Pinned \cup Newest \subseteq keep[p] /\ keep' = keep
    BY DEF Rooted, Kept
  <1>2. Newest' \subseteq Newest
    <2>1. CASE installed' = installed
      BY <2>1 DEF Newest, Releases
    <2>2. CASE installed' = Without(d)
      BY <1>1, <2>2, NewestShrinks DEF Base
    <2> QED BY <2>1, <2>2
  <1>3. Pinned' = Pinned
    BY DEF Pinned
  <1>4. \A e \in Digests : e # d => (Present(e) => Present(e)') /\ (Recorded(e) => Recorded(e)')
    BY DEF Present, Recorded, RecordsOf, Without
  <1>5. Newest \subseteq Digests /\ Pinned \subseteq Digests
    BY NewestNamed DEF Base
  <1>6. RootsUsable'
    <2>1. \A e \in Newest' : Present(e)'
      BY <1>1, <1>2, <1>4, <1>5 DEF Rooted, RootsUsable
    <2>2. rec.art # None => rec.art \in Pinned
      BY DEF Pinned
    <2>3. rec'.art # None => Present(rec.art)' /\ Recorded(rec.art)'
      BY <1>1, <1>4, <1>5, <2>2 DEF Rooted, RootsUsable
    <2> QED BY <2>1, <2>3 DEF RootsUsable
  <1>7. \A q \in Procs : /\ pc'[q] \notin Carrying \cup {"record", "write"}
                         /\ pc'[q] \in {"open", "flock"} => op'[q] = "use"
                         /\ q # p => pc'[q] \notin Removing
    BY NobodyCarries DEF Others, Removing, Carrying, Installing
  <1>8. Carried'
    BY <1>7 DEF Carried
  <1>9. Kept'
    BY <1>1, <1>2, <1>3, <1>7 DEF Kept, Removing
  <1>10. Backed'
    <2>1. Writers' = {}
      BY <1>7 DEF Writers
    <2>2. Settled' = Releases'
      BY <2>1 DEF Settled
    <2> QED BY <1>6, <2>2 DEF Backed, RootsUsable, Newest
  <1> QED BY <1>6, <1>8, <1>9, <1>10 DEF Rooted

(* An addition: what was usable stays so.                                  *)
LEMMA AdditionKept ==
    ASSUME Base, Rooted, NEW p \in Procs, Others(p), pc[p] \in Writing, UNCHANGED fd,
           \A e \in Digests : (Present(e) => Present(e)') /\ (Recorded(e) => Recorded(e)'),
           rec'.art \in {rec.art, None} \/ (rec'.art \in Digests /\ Usable(rec.art)'),
           \A r : r.digest \notin Writers => (r \in Releases <=> r \in Releases'),
           \A r \in Releases' : r.digest \in Digests,
           pc'[p] \notin Removing \cup {"write", "open", "flock"},
           pc'[p] = "record" => Present(art[p])',
           pc'[p] \in Carrying => art'[p] = None \/ Usable(art[p])'
    PROVE  Rooted'
  <1>1. Newest \subseteq Digests /\ Pinned \subseteq Digests /\ rec.art \in Digests \cup {None}
    BY NewestNamed DEF Base, Names
  <1>2. rec'.art # None => Present(rec.art)' /\ Recorded(rec.art)'
    BY <1>1 DEF Rooted, RootsUsable, Usable
  <1>3. \A q \in Procs : pc'[q] \notin Removing
    BY NobodyRemoves DEF Others
  <1>4. Kept'
    BY <1>3 DEF Kept, Removing
  <1>5. \A e \in Digests : Usable(e) => Usable(e)'
    BY DEF Usable
  <1>6. ASSUME NEW q \in Procs, q # p
        PROVE  /\ pc'[q] \in {"record", "write"} => Present(art[q])'
               /\ pc'[q] \in Carrying => art'[q] = None \/ Usable(art[q])'
               /\ pc'[q] \in {"open", "flock"} /\ op'[q] # "use" => Usable(art[q])'
    <2>1. /\ art[q] \in Digests \cup {None} /\ (pc[q] \in {"record", "write"} => art[q] \in Digests)
          /\ pc[q] \in {"open", "flock"} => art[q] \in Digests
      BY DEF Base, Shapes, Holding, Provisioning
    <2> QED BY <1>5, <1>6, <2>1 DEF Rooted, Carried, Others
  <1>7. Carried'
    BY <1>6 DEF Carried
  <1>8. Backed'
    <2>1. \A r \in Releases \cup Releases' : Present(r.digest) => Present(r.digest)'
      BY DEF Releases, Base, Names, Record
    <2>2. Writers' \subseteq Writers
      BY DEF Writers, Others
    <2> QED BY <2>1, <2>2, BackedKept
  <1>9. \A e \in Newest' : Present(e)'
    <2> SUFFICES ASSUME NEW r \in Releases', \A s \in Releases' : s.at <= r.at
                 PROVE  Present(r.digest)'
      BY DEF Newest
    <2>1. CASE r \in Settled'
      BY <1>8, <2>1 DEF Backed, Settled
    <2>2. CASE r.digest \in Writers'
      BY <1>7, <2>2 DEF Writers, Carried
    <2> QED BY <2>1, <2>2 DEF Settled
  <1> QED BY <1>2, <1>4, <1>7, <1>8, <1>9 DEF Rooted, RootsUsable

LEMMA RootedStep ==
    ASSUME Base, Directories, Rooted, NEW p \in Procs, Begin(p) \/ Step(p) \/ Abort(p)
    PROVE  Rooted'
  <1>0. Others(p)
    BY BaseStep
  <1>30. \A r \in Releases' : r.digest \in Digests
    BY BaseStep DEF Base, Names, Releases, Record
  <1> USE DEF Base, Shapes, At, Goto
  <1>1. CASE PublishArtifact(p)
    <2>1. /\ pc[p] = "publish" /\ pc'[p] = "record" /\ art[p] \in Digests
          /\ UNCHANGED <<installed, rec, fd, art>>
      BY <1>1 DEF PublishArtifact, Publish, Holding, locals
    <2>2. (tree' = tree /\ Present(art[p])) \/ tree' = [tree EXCEPT ![art[p]] = made[art[p]] + 1]
      BY <1>1 DEF PublishArtifact, Publish
    <2>3. \A e \in Digests : Present(e) => Present(e)'
      BY <2>1, <2>2 DEF Present, Directories, DirTypes
    <2>4. Present(art[p])'
      BY <2>1, <2>2 DEF Present, Directories, DirTypes
    <2>5. Releases' = Releases /\ \A e : Recorded(e)' = Recorded(e)
      BY <2>1 DEF Releases, Recorded, RecordsOf
    <2> QED BY <1>0, <1>30, <2>1, <2>3, <2>4, <2>5, AdditionKept
            DEF Writing, Removing, Carrying, Installing
  <1>2. CASE RecordArtifact(p)
    <2>1. /\ pc[p] = "write" /\ pc'[p] \in {"pin", "resolve"} /\ art[p] \in Digests
          /\ UNCHANGED <<tree, rec, fd, art>> /\ Present(art[p])
      BY <1>2 DEF RecordArtifact, AfterRecord, WriteRecord, Holding, locals, Rooted, Carried
    <2>2. \E r : r.digest = art[p] /\ installed' = Without(art[p]) \cup {r}
      <3>1. PICK s : installed' = Without(art[p]) \cup {[digest |-> art[p], source |-> s, at |-> clock]}
        BY <1>2 DEF RecordArtifact, WriteRecord
      <3> QED BY <3>1
    <2>3. Recorded(art[p])' /\ \A e \in Digests : Recorded(e) => Recorded(e)'
      BY <2>1, <2>2 DEF Recorded, RecordsOf, Without
    <2>4. \A e : Present(e)' = Present(e)
      BY <2>1 DEF Present
    <2>5. art[p] \in Writers
      BY <2>1 DEF Writers
    <2>6. \A r : r.digest \notin Writers => (r \in Releases <=> r \in Releases')
      BY <2>2, <2>5 DEF Releases, Without
    <2> QED BY <1>0, <1>30, <2>1, <2>3, <2>4, <2>6, AdditionKept
            DEF Writing, Removing, Carrying, Installing, Usable
  <1>3. CASE Pin(p)
    <2>1. /\ pc[p] = "pin" /\ UNCHANGED <<tree, installed, fd, art>> /\ rec'.art = art[p]
          /\ pc'[p] \in {"devrecord", "undev", "copy", "stamp"}
      BY <1>3 DEF Pin, AfterPin, store, locals, Names
    <2>2. art[p] = None \/ (Usable(art[p]) /\ art[p] \in Digests)
      BY <2>1 DEF Rooted, Carried, Carrying
    <2>3. Releases' = Releases /\ \A e : /\ Recorded(e)' = Recorded(e) /\ Present(e)' = Present(e)
                                         /\ Usable(e)' = Usable(e)
      BY <2>1 DEF Releases, Recorded, RecordsOf, Present, Usable
    <2> QED BY <1>0, <1>30, <2>1, <2>2, <2>3, AdditionKept DEF Writing, Removing
  <1>4. CASE CreateProject(p)
    <2>1. /\ pc[p] = "create" /\ pc'[p] = "idle" /\ UNCHANGED <<tree, installed>>
          /\ rec'.art = art[p] /\ \A q \in Procs : q # p => fd'[q] = fd[q]
      BY <1>4 DEF CreateProject, LetGo, CloseAll, Directories, DirTypes
    <2>2. art[p] = None \/ (Usable(art[p]) /\ art[p] \in Digests)
      BY <2>1 DEF Rooted, Carried, Carrying
    <2>3. Newest' = Newest /\ \A e : /\ Recorded(e)' = Recorded(e) /\ Present(e)' = Present(e)
                                     /\ Usable(e)' = Usable(e)
      BY <2>1 DEF Newest, Releases, Recorded, RecordsOf, Present, Usable
    <2>4. \A q \in Procs : pc'[q] \notin Removing
      BY <1>0, <2>1, NobodyRemoves DEF Others, Writing, Removing
    <2>5. RootsUsable' /\ Kept'
      BY <2>1, <2>2, <2>3, <2>4 DEF Rooted, RootsUsable, Usable, Kept, Removing
    <2>6. Carried'
      BY <1>0, <2>1, <2>3 DEF Rooted, Carried, Carrying, Installing, Others
    <2>7. Backed'
      <3>1. Releases' = Releases /\ Writers' \subseteq Writers
        BY <1>0, <2>1 DEF Releases, Writers, Others
      <3> QED BY <2>3, <3>1, BackedKept
    <2> QED BY <2>5, <2>6, <2>7 DEF Rooted
  <1>5. CASE UnpublishObject(p)
    <2>1. /\ pc[p] = "unpublish" /\ pc'[p] = "unrecord" /\ UNCHANGED <<installed, rec, keep, fd>>
          /\ tree' = [tree EXCEPT ![fd[p].digest] = 0] /\ fd[p].digest \notin keep[p]
      BY <1>5 DEF UnpublishObject, Unpublish, Rooted, Kept
    <2>2. \A e \in Digests : e # fd[p].digest => tree'[e] = tree[e]
      BY <2>1 DEF Directories, DirTypes
    <2> QED BY <1>0, <2>1, <2>2, RemovalKept DEF Removing
  <1>6. CASE UnrecordObject(p)
    <2>1. /\ pc[p] = "unrecord" /\ pc'[p] = "remove" /\ UNCHANGED <<tree, rec, keep>>
          /\ installed' = Without(fd[p].digest) /\ fd[p].digest \notin keep[p]
          /\ \A q \in Procs : q # p => fd'[q] = fd[q]
      BY <1>6 DEF UnrecordObject, Unrecord, Rooted, Kept, Directories, DirTypes
    <2> QED BY <1>0, <2>1, RemovalKept DEF Removing
  <1>7. ASSUME NEW d \in Digests, OrphanRecord(p, d) PROVE Rooted'
    <2>1. /\ pc[p] = "orphans" /\ pc' = pc /\ UNCHANGED <<tree, rec, keep, fd>>
          /\ installed' = Without(d) /\ d \notin keep[p]
      BY <1>7 DEF OrphanRecord, RemoveOrphan
    <2> QED BY <1>0, <2>1, RemovalKept DEF Removing
  <1> QED BY <1>1, <1>2, <1>3, <1>4, <1>5, <1>6, <1>7, RootedRead DEF Step

(* A pinned artifact and the newest release are there (gcRoots, init,      *)
(* DevOff), whatever a collection has removed or left half removed.        *)
THEOREM RootsTheorem == Spec => []RootsUsable
  <1>1. Init => Base /\ Directories /\ Rooted
    <2> SUFFICES ASSUME Init PROVE Directories /\ Rooted
      BY BaseInit
    <2>1. Directories
      BY NoFdFacts DEF Init, StoreInit, Directories, DirTypes, Inodes, Flocks, Seizing
    <2>2. Rooted
      BY DEF Init, StoreInit, Rooted, RootsUsable, Carried, Kept, Backed, Settled, Carrying,
         Installing, Removing, Newest, Releases
    <2> QED BY <2>1, <2>2
  <1>2. Base /\ Directories /\ Rooted /\ [Next]_vars => (Base /\ Directories /\ Rooted)'
    <2>1. Base /\ Directories /\ Rooted /\ UNCHANGED vars => (Base /\ Directories /\ Rooted)'
      <3> SUFFICES ASSUME Base, Directories, Rooted, UNCHANGED vars
                   PROVE  Directories' /\ Rooted'
        BY BaseStutter
      <3>1. Directories'
        BY DEF Directories, DirTypes, Inodes, Flocks, Seizing, vars, store
      <3>2. RootsUsable' /\ Carried' /\ Kept' /\ Backed'
        BY DEF Rooted, Backed, Settled, Writers, RootsUsable, Carried, Kept, Usable, Present, Recorded, RecordsOf, Newest,
           Releases, Pinned, vars, store, locals
      <3> QED BY <3>1, <3>2 DEF Rooted
    <2> QED BY <2>1, BaseStep, DirsStep, RootedStep DEF Next
  <1>3. Rooted => RootsUsable
    BY DEF Rooted
  <1> QED BY <1>1, <1>2, <1>3, PTL DEF Spec
=============================================================================
