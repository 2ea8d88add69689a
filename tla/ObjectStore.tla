---------------------------- MODULE ObjectStore ----------------------------
(***************************************************************************)
(* Objects and records of internal/store, for one kind of object: artifacts.*)
(*                                                                         *)
(* An object is a directory whose name is its digest.  It appears in one   *)
(* rename and leaves in one rename; its record is a file of its own beside *)
(* it.  Publishing and removing exclude each other by a lock of the        *)
(* object's name; a reader takes no such lock, it flocks the directory it  *)
(* has opened.  Two directories that bear one name at different times are  *)
(* two inodes, and a flock is on the inode.                                *)
(*                                                                         *)
(* The module has the store's steps; Handoff puts them in the order in     *)
(* which the operations of internal/app take them.  A step of a process    *)
(* that fails or dies is Handoff's Abort.                                  *)
(***************************************************************************)
EXTENDS Naturals

CONSTANTS
    Procs,      \* vibe processes
    Digests,    \* artifact digests
    None,
    MaxGen      \* bound: how often one object is published anew

ASSUME StoreAssumption ==
    /\ None \notin Procs \cup Digests
    /\ MaxGen \in Nat \ {0}

VARIABLES
    tree,       \* the inode at an object's published path, 0 when there is none
    made,       \* inodes an object has had so far
    installed,  \* the artifact records
    clock,      \* the wall clock, which moves when a record is written
    objLock,    \* who holds lock.Object of a digest
    fd          \* the directory a process has open, and how it has flocked it

store == <<tree, made, installed, clock, objLock, fd>>

Sources == {"release", "dev-build"}
Record  == [digest : Digests, source : Sources, at : Nat]
Fd      == [digest : Digests, inode : 1 .. MaxGen, flock : {"none", "shared", "exclusive"}]
NoFd    == [digest |-> None, inode |-> 0, flock |-> "none"]

StoreTypes ==
    /\ tree \in [Digests -> 0 .. MaxGen]
    /\ made \in [Digests -> 0 .. MaxGen]
    /\ installed \subseteq Record /\ clock \in Nat
    /\ objLock \in [Digests -> Procs \cup {None}]
    /\ fd \in [Procs -> Fd \cup {NoFd}]

StoreInit ==
    /\ tree = [d \in Digests |-> 0] /\ made = [d \in Digests |-> 0]
    /\ installed = {} /\ clock = 0
    /\ objLock = [d \in Digests |-> None]
    /\ fd = [p \in Procs |-> NoFd]

Present(d)   == tree[d] # 0
RecordsOf(d) == {r \in installed : r.digest = d}
Recorded(d)  == RecordsOf(d) # {}
Without(d)   == {r \in installed : r.digest # d}

(* The process is on the directory that the path names now.                *)
Current(p) == fd[p] # NoFd /\ fd[p].inode = tree[fd[p].digest]

(* Nobody has the inode flocked in one of the ways.                        *)
Unflocked(d, i, ways) ==
    \A q \in Procs : ~(fd[q].digest = d /\ fd[q].inode = i /\ fd[q].flock \in ways)

----------------------------------------------------------------------------
(* Publishing.                                                             *)

(* Store.Publish under lock.Object.  The rename is its only visible step,  *)
(* and what is there already has the same content.                         *)
Publish(d) ==
    /\ objLock[d] = None
    /\ \/ Present(d) /\ UNCHANGED <<tree, made>>
       \/ /\ ~Present(d) /\ made[d] < MaxGen
          /\ made' = [made EXCEPT ![d] = @ + 1]
          /\ tree' = [tree EXCEPT ![d] = made[d] + 1]
    /\ UNCHANGED <<installed, clock, objLock, fd>>

(* A rename by somebody who has found no record: one that another process  *)
(* has written since is replaced.                                          *)
WriteRecord(d, s) ==
    /\ clock' = clock + 1
    /\ installed' = Without(d) \cup {[digest |-> d, source |-> s, at |-> clock]}
    /\ UNCHANGED <<tree, made, objLock, fd>>

----------------------------------------------------------------------------
(* Leasing: Store.Open opens the directory and then flocks it.             *)

OpenDir(p, d) ==
    /\ Present(d)
    /\ fd' = [fd EXCEPT ![p] = [digest |-> d, inode |-> tree[d], flock |-> "none"]]
    /\ UNCHANGED <<tree, made, installed, clock, objLock>>

FlockShared(p) ==
    /\ Unflocked(fd[p].digest, fd[p].inode, {"exclusive"})
    /\ fd' = [fd EXCEPT ![p].flock = "shared"]
    /\ UNCHANGED <<tree, made, installed, clock, objLock>>

----------------------------------------------------------------------------
(* Removal: Store.RemoveObject.                                            *)

(* mutant of Seize: the exclusive flock is not tried *)
SeizeLeased(p, d) ==
    /\ objLock[d] = None /\ Present(d)
    /\ objLock' = [objLock EXCEPT ![d] = p]
    /\ fd' = [fd EXCEPT ![p] = [digest |-> d, inode |-> tree[d], flock |-> "exclusive"]]
    /\ UNCHANGED <<tree, made, installed, clock>>

(* The object lock, the directory, and its exclusive flock without waiting. *)
Seize(p, d) ==
    /\ objLock[d] = None /\ Present(d)
    /\ Unflocked(d, tree[d], {"shared", "exclusive"})
    /\ objLock' = [objLock EXCEPT ![d] = p]
    /\ fd' = [fd EXCEPT ![p] = [digest |-> d, inode |-> tree[d], flock |-> "exclusive"]]
    /\ UNCHANGED <<tree, made, installed, clock>>

(* The rename into the staging area.                                       *)
Unpublish(p) ==
    /\ tree' = [tree EXCEPT ![fd[p].digest] = 0]
    /\ UNCHANGED <<made, installed, clock, objLock, fd>>

(* What was renamed is deleted, then the record, then everything released. *)
Unrecord(p) ==
    /\ installed' = Without(fd[p].digest)
    /\ objLock' = [objLock EXCEPT ![fd[p].digest] = None]
    /\ fd' = [fd EXCEPT ![p] = NoFd]
    /\ UNCHANGED <<tree, made, clock>>

(* A record whose object is gone.                                          *)
RemoveOrphan(d) ==
    /\ objLock[d] = None /\ Recorded(d) /\ ~Present(d)
    /\ installed' = Without(d)
    /\ UNCHANGED <<tree, made, clock, objLock, fd>>

(* Lease.Close, or the kernel when the process is gone.                    *)
CloseAll(p) ==
    /\ fd' = [fd EXCEPT ![p] = NoFd]
    /\ objLock' = [d \in Digests |-> IF objLock[d] = p THEN None ELSE objLock[d]]
    /\ UNCHANGED <<tree, made, installed, clock>>

----------------------------------------------------------------------------
(* A lease counts while its directory is the one that is published.        *)
Leased == {<<p, fd[p].digest>> : p \in {q \in Procs : Current(q) /\ fd[q].flock = "shared"}}

Shelved == INSTANCE Shelf WITH Users <- Procs,
                               objects <- {d \in Digests : Present(d)},
                               held <- Leased
=============================================================================
