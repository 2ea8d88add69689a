---------------------------- MODULE Replacement ----------------------------
(***************************************************************************)
(* The container-replacement transaction of one project:                   *)
(* internal/runtime/{reconcile,transaction,journal,runtime}.go.            *)
(*                                                                         *)
(* `Up` brings the project's containers to a candidate's plan.  Every      *)
(* Docker call and every journal write is a step of its own, because the   *)
(* process may die between any two of them, a call may fail before or      *)
(* after it took effect, and containers exit or are removed behind its     *)
(* back.  The project lock makes operations on one project sequential (see *)
(* README), so one process is enough: an operation begins only when the    *)
(* previous one has returned or died.                                      *)
(*                                                                         *)
(* The names of a plan are the numbers 1 .. Size in reconcile order: the   *)
(* services, then the dev container, which is Size.  A container holds one *)
(* of three names derived from a plan name: the canonical one, <name>.prev *)
(* and <name>.next.                                                        *)
(*                                                                         *)
(* A definition marked `mutant of D' is no part of the model: it is D with *)
(* a plausible bug, kept to show that a property notices it.               *)
(***************************************************************************)
EXTENDS Naturals, Sequences, FiniteSets

CONSTANTS
    Size,         \* how many names the plans use
    Cands,        \* candidate digests
    Foreign,      \* the candidate label of a container vibe does not manage
    Desired,      \* [Cands -> SUBSET Names]: the names in a candidate's plan
    Linked,       \* candidates whose dev container resolves through service 1
    Addrs,        \* addresses the project network hands out
    MaxIds,       \* bound: containers the engine may create
    MaxTxns,      \* bound: transactions that may be opened
    MaxFaults,    \* bound: failed calls and process crashes
    MaxMeddling   \* bound: container exits and acts of other Docker users

Names    == 1 .. Size
Dev      == Size
Stranger == MaxIds + 1       \* the one container of some other Docker user
Ids      == 1 .. Stranger

ASSUME BoundsAssumption ==
    /\ Size \in Nat \ {0}
    /\ MaxIds \in Nat /\ MaxTxns \in Nat
    /\ MaxFaults \in Nat /\ MaxMeddling \in Nat

ASSUME PlanAssumption ==
    /\ Foreign \notin Cands
    /\ Desired \in [Cands -> SUBSET Names]
    /\ \A c \in Cands : Dev \in Desired[c]
    /\ Linked \subseteq Cands
    /\ \A c \in Linked : Size > 1 /\ 1 \in Desired[c]
    /\ Addrs \subseteq Nat \ {0}
    /\ Linked # {} => Addrs # {}

VARIABLES
    box,       \* the daemon's containers, by ID
    minted,    \* how many container IDs the daemon has given to the engine
    disk,      \* the project's replacement journal file
    nonce,     \* how many transaction nonces have been minted
    pc,        \* what the running operation does next
    job,       \* its arguments, its phase and the resolved DNS address
    cur,       \* the name being reconciled or checked, or the entry undone
    tx,        \* the journal in memory: of the open transaction, or loaded
    written,   \* txn.written
    view,      \* what the last List or Inspect showed
    bad,       \* some entry could not be undone
    faults,    \* faults left to happen
    meddling,  \* outside interferences left to happen
    base,      \* (history) the canonical containers when the txn was opened
    hurt,      \* (history) names interfered with since then
    slipped,   \* (history) of those, after the liveness gate had passed them
    cut        \* (history) names Down stopped or removed, journal present

docker  == <<box, minted>>
memory  == <<pc, job, cur, tx, written, view, bad>>
history == <<base, hurt, slipped, cut>>
vars    == <<docker, disk, nonce, memory, faults, meddling, history>>

-----------------------------------------------------------------------------
(* Types.                                                                  *)

Roles  == {"canonical", "prev", "next"}
States == {"absent", "stopped", "running"}

Container == [name : Names, role : Roles, state : States,
              cand : Cands \cup {Foreign}, nonce : 0 .. MaxTxns,
              dns : Addrs \cup {0}, addr : Addrs \cup {0}]

NoContainer == [name |-> Dev, role |-> "canonical", state |-> "absent",
                cand |-> Foreign, nonce |-> 0, dns |-> 0, addr |-> 0]

Nothing == [i \in Ids |-> NoContainer]

(* id is old_id of a "replace" and id of a "start"; new is new_id.         *)
Entry == [kind : {"replace", "create", "start"}, name : Names,
          id : Ids \cup {0}, was : BOOLEAN, new : Ids \cup {0}]

Journal == [nonce : 0 .. MaxTxns, cand : Cands \cup {Foreign},
            entries : Seq(Entry)]

(* The version and shape checks of loadJournal exclude this value.         *)
NoJournal == [nonce |-> 0, cand |-> Foreign, entries |-> <<>>]

Phases == {"none", "sweep", "txn", "done", "down"}
Job    == [cand : Cands \cup {Foreign}, force : BOOLEAN, phase : Phases,
           ip : Addrs \cup {0}]
NoJob  == [cand |-> Foreign, force |-> FALSE, phase |-> "none", ip |-> 0]

Forward == {"inspect", "record", "create", "backfill", "stop", "retire",
            "swap", "start", "hooks", "gate", "commit"}
Undoing == {"undo", "undo-stop", "undo-park", "undo-restore", "undo-revive",
            "undo-confirm", "undo-drop", "erase"}
Labels  == {"idle", "sweep", "debris", "clear", "prepare", "rollback", "down",
            "teardown", "down-erase"} \cup Forward \cup Undoing

-----------------------------------------------------------------------------
(* Reading the daemon's containers b.                                      *)

Live(b)     == {i \in Ids : b[i].state # "absent"}
Up(c)       == c.state = "running"
Managed(c)  == c.cand # Foreign
At(b, n, r) == {i \in Live(b) : b[i].name = n /\ b[i].role = r}

(* journal.owns: the whole label conjunction.                              *)
Owns(j, c) == Managed(c) /\ c.nonce = j.nonce /\ c.cand = j.cand

(* mutant of OwnedAt: a name is taken for proof of ownership *)
NamedAt(b, j, e, r) == {i \in At(b, e.name, r) : i # e.id}

OwnedAt(b, j, e, r) == {i \in At(b, e.name, r) : i # e.id /\ Owns(j, b[i])}

(* findNew: by ID when it was backfilled, else by ownership.               *)
FindNew(b, j, e) ==
    IF e.new # 0 THEN {e.new} \cap Live(b)
    ELSE IF OwnedAt(b, j, e, "canonical") # {} THEN OwnedAt(b, j, e, "canonical")
    ELSE OwnedAt(b, j, e, "next")

(* The container an undo step acts on: the replacement, the creation       *)
(* (never looked for under .next), or the container that was started.      *)
Target(b, j, e) ==
    CASE e.kind = "replace" -> FindNew(b, j, e)
      [] e.kind = "create"  -> IF e.new # 0 THEN {e.new} \cap Live(b)
                               ELSE OwnedAt(b, j, e, "canonical")
      [] OTHER              -> {e.id} \cap Live(b)

(* The canonical topology: who holds each name, and whether it runs.       *)
Topology(b) ==
    [n \in Names |-> [ids |-> At(b, n, "canonical"),
                      up  |-> \E i \in At(b, n, "canonical") : Up(b[i])]]

Restrict(b, S) == [i \in Ids |-> IF i \in S THEN b[i] ELSE NoContainer]


(* mutant of Same: an address that moved goes unnoticed *)
SameCandidate(c) == c.cand = job.cand

(* Labels of an existing container that make it the desired one.           *)
Same(c) == c.cand = job.cand /\ c.dns = (IF cur = Dev THEN job.ip ELSE 0)


Debris(b)   == {i \in Live(b) : Managed(b[i]) /\ b[i].role # "canonical"}
Ours(b)     == {i \in Live(b) : Managed(b[i])}
Newest(b)   == {i \in Live(b) : \A k \in Live(b) : k <= i}
Address(n)  == IF n = 1 /\ Linked # {} THEN Addrs ELSE {0}

(* Changing them.                                                          *)
Halt(c)       == [c EXCEPT !.state = "stopped", !.addr = 0]
Run(c, a)     == [c EXCEPT !.state = "running", !.addr = a]
Stopped(i)    == [box EXCEPT ![i] = Halt(@)]
Started(i)    == IF Up(box[i]) THEN {box}
                 ELSE {[box EXCEPT ![i] = Run(@, a)] : a \in Address(box[i].name)}
Renamed(i, r) == [box EXCEPT ![i].role = r]
Removed(i)    == [box EXCEPT ![i] = NoContainer]
Created(r)    == [box EXCEPT ![minted + 1] =
                    [name |-> cur, role |-> r, state |-> "stopped",
                     cand |-> job.cand, nonce |-> tx.nonce,
                     dns |-> IF cur = Dev THEN job.ip ELSE 0, addr |-> 0]]

Free(i, r) == At(box, box[i].name, r) = {}

-----------------------------------------------------------------------------
(* The shapes every step is made of.                                       *)

Fault == faults > 0 /\ faults' = faults - 1

(* The operation returns; nothing of it but disk and Docker state remains. *)
Rest ==
    /\ pc' = "idle" /\ job' = NoJob /\ cur' = 0 /\ tx' = NoJournal
    /\ written' = FALSE /\ view' = Nothing /\ bad' = FALSE

(* A Docker call: it succeeds with one of the effects, is refused by the   *)
(* daemon, or fails on the way, with or without having taken effect.       *)
Call(possible, effects, ok, failed) ==
    \/ possible /\ box' \in effects /\ ok /\ UNCHANGED faults
    \/ ~possible /\ failed /\ UNCHANGED <<box, faults>>
    \/ Fault /\ failed /\ box' \in {box} \cup (IF possible THEN effects ELSE {})

Goto(l) == pc' = l /\ UNCHANGED <<job, cur, tx, written, view, bad>>

RollBack == Goto("rollback")


(* mutant of Advance: one name too many *)
AdvancePast ==
    /\ cur' = cur + 1
    /\ pc' = IF cur > Dev THEN "hooks" ELSE "inspect"
    /\ view' = Nothing
    /\ UNCHANGED <<job, tx, written, bad>>

(* Forward progress to the next name, or past the last one.                *)
Advance ==
    /\ cur' = cur + 1
    /\ pc' = IF cur = Dev THEN "hooks" ELSE "inspect"
    /\ view' = Nothing
    /\ UNCHANGED <<job, tx, written, bad>>

(* The undo of entry cur is over; every entry is attempted.                *)
NextEntry(failed) ==
    /\ pc' = "undo" /\ cur' = cur - 1 /\ bad' = (bad \/ failed)
    /\ view' = Nothing
    /\ UNCHANGED <<job, tx, written>>

Refuse == NextEntry(TRUE)
Undid  == NextEntry(FALSE)

BeginUndo(j) ==
    /\ pc' = "undo" /\ cur' = Len(j.entries) /\ tx' = j /\ bad' = FALSE
    /\ view' = Nothing
    /\ UNCHANGED <<job, written>>

-----------------------------------------------------------------------------
(* Starting an operation, and the recovery sweep every Up begins with.     *)

UpBegin(c, force) ==
    /\ pc = "idle" /\ pc' = "sweep"
    /\ job' = [cand |-> c, force |-> force, phase |-> "sweep", ip |-> 0]
    /\ UNCHANGED <<docker, disk, nonce, cur, tx, written, view, bad,
                   faults, meddling, history>>

(* A present journal is an uncommitted transaction: undo it first.  One    *)
(* that cannot be read or trusted stops the Up.                            *)
Sweep ==
    /\ pc = "sweep"
    /\ \/ disk = NoJournal /\ Goto("debris") /\ UNCHANGED faults
       \/ disk # NoJournal /\ BeginUndo(disk) /\ UNCHANGED faults
       \/ Fault /\ Rest
    /\ UNCHANGED <<docker, disk, nonce, meddling, history>>

(* clearDebris: list, then stop and remove the containers listed one after *)
(* the other, newest first as the daemon lists them.  After a commit its   *)
(* outcome is ignored.                                                     *)
ListDebris ==
    /\ pc = "debris"
    /\ \/ /\ view' = Restrict(box, Debris(box)) /\ pc' = "clear"
          /\ UNCHANGED <<job, cur, tx, written, bad, faults>>
       \/ Fault /\ Rest
    /\ UNCHANGED <<docker, disk, nonce, meddling, history>>

(* One listed container: stop it if it was listed running, then remove it. *)
Dispose ==
    \E i \in Newest(view) :
        IF Up(view[i])
        THEN Call(i \in Live(box), {Stopped(i)},
                  /\ view' = [view EXCEPT ![i] = Halt(@)]
                  /\ UNCHANGED <<pc, job, cur, tx, written, bad>>,
                  Rest)
        ELSE Call(TRUE, {Removed(i)},
                  /\ view' = [view EXCEPT ![i] = NoContainer]
                  /\ UNCHANGED <<pc, job, cur, tx, written, bad>>,
                  Rest)

ClearDebris ==
    /\ pc = "clear"
    /\ \/ Dispose
       \/ /\ Live(view) = {} /\ UNCHANGED <<box, faults>>
          /\ IF job.phase = "sweep" THEN Goto("prepare") ELSE Rest
    /\ UNCHANGED <<minted, disk, nonce, meddling, history>>

(* Leases, the env file, the network and the volumes; then newTxn.  None   *)
(* of the first touches what is modelled here, and any may fail.           *)
Prepare ==
    /\ pc = "prepare"
    /\ \/ /\ nonce < MaxTxns /\ minted + Size <= MaxIds
          /\ nonce' = nonce + 1
          /\ tx' = [nonce |-> nonce + 1, cand |-> job.cand, entries |-> <<>>]
          /\ written' = FALSE
          /\ job' = [job EXCEPT !.phase = "txn"]
          /\ pc' = "inspect" /\ cur' = 1
          /\ base' = Topology(box) /\ hurt' = {} /\ slipped' = {} /\ cut' = {}
          /\ UNCHANGED <<view, bad>>
       \/ Rest /\ UNCHANGED <<nonce, history>>
    /\ UNCHANGED <<docker, disk, faults, meddling>>

-----------------------------------------------------------------------------
(* reconcileContainer.                                                     *)

(* A name the candidate does not use is not looked at: its containers, if  *)
(* an earlier candidate made any, stay.                                    *)
Skip ==
    /\ pc = "inspect" /\ cur \notin Desired[job.cand]
    /\ Advance
    /\ UNCHANGED <<docker, disk, nonce, faults, meddling, history>>

(* The dev container waits for the address of its DNS sidecar.             *)
NeedsAddress == cur = Dev /\ job.cand \in Linked /\ job.ip = 0

ResolveDNS ==
    /\ pc = "inspect" /\ NeedsAddress
    /\ \/ \E i \in At(box, 1, "canonical") :
             /\ box[i].addr # 0
             /\ job' = [job EXCEPT !.ip = box[i].addr]
             /\ UNCHANGED <<pc, cur, tx, written, view, bad, faults>>
       \/ /\ \A i \in At(box, 1, "canonical") : box[i].addr = 0
          /\ RollBack /\ UNCHANGED faults
       \/ Fault /\ RollBack
    /\ UNCHANGED <<docker, disk, nonce, meddling, history>>

(* Decide what the name needs; view keeps the container that was seen.     *)
Inspect ==
    /\ pc = "inspect" /\ cur \in Desired[job.cand] /\ ~NeedsAddress
    /\ \/ \E i \in At(box, cur, "canonical") :
             /\ UNCHANGED faults
             /\ CASE ~Managed(box[i]) -> RollBack
                  [] Managed(box[i]) /\ Same(box[i]) /\ ~job.force /\ Up(box[i])
                       -> Advance
                  [] OTHER -> /\ pc' = "record" /\ view' = Restrict(box, {i})
                              /\ UNCHANGED <<job, cur, tx, written, bad>>
       \/ At(box, cur, "canonical") = {} /\ Goto("record") /\ UNCHANGED faults
       \/ Fault /\ RollBack
    /\ UNCHANGED <<docker, disk, nonce, meddling, history>>

(* txn.append: memory and disk before the action; a failed write drops the *)
(* entry from memory, though it may have reached the disk.                 *)
Appended(j, e) == [j EXCEPT !.entries = Append(@, e)]


(* mutant of Record: the file is written with the next entry, not first *)
RecordLate(e, l) ==
    LET j == Appended(tx, e)
    IN  \/ /\ disk' = (IF written THEN tx ELSE disk)
           /\ tx' = j /\ written' = TRUE /\ pc' = l
           /\ UNCHANGED <<job, cur, view, bad, faults>>
        \/ Fault /\ disk' \in {disk, j} /\ RollBack

Record(e, l) ==
    LET j == Appended(tx, e)
    IN  \/ /\ disk' = j /\ tx' = j /\ written' = TRUE /\ pc' = l
           /\ UNCHANGED <<job, cur, view, bad, faults>>
        \/ Fault /\ disk' \in {disk, j} /\ RollBack

RecordCreate ==
    /\ pc = "record" /\ Live(view) = {}
    /\ Record([kind |-> "create", name |-> cur, id |-> 0, was |-> FALSE,
               new |-> 0], "create")
    /\ UNCHANGED <<docker, nonce, meddling, history>>

RecordStart ==
    /\ pc = "record"
    /\ \E i \in Live(view) :
          /\ Same(view[i]) /\ ~job.force
          /\ Record([kind |-> "start", name |-> cur, id |-> i, was |-> FALSE,
                     new |-> 0], "start")
    /\ UNCHANGED <<docker, nonce, meddling, history>>

RecordReplace ==
    /\ pc = "record"
    /\ \E i \in Live(view) :
          /\ ~Same(view[i]) \/ job.force
          /\ Record([kind |-> "replace", name |-> cur, id |-> i,
                     was |-> Up(view[i]), new |-> 0], "create")
    /\ UNCHANGED <<docker, nonce, meddling, history>>

Last == tx.entries[Len(tx.entries)]

(* createOnly: at the canonical name, or staged beside the container that  *)
(* is to be replaced.  A create that fails late leaves a container whose   *)
(* ID nobody learnt.                                                       *)
Staging == IF Live(view) = {} THEN "canonical" ELSE "next"

Create ==
    /\ pc = "create" /\ minted < MaxIds
    /\ Call(At(box, cur, Staging) = {}, {Created(Staging)},
            Goto("backfill"), RollBack)
    /\ minted' = IF box' # box THEN minted + 1 ELSE minted
    /\ UNCHANGED <<disk, nonce, meddling, history>>

(* txn.backfill: memory keeps the ID even when the write fails.            *)
Filled(j, i) == [j EXCEPT !.entries[Len(j.entries)].new = i]

Backfill ==
    /\ pc = "backfill"
    /\ LET j == Filled(tx, minted)
       IN  /\ tx' = j
           /\ \/ disk' = j /\ UNCHANGED faults
                 /\ pc' = IF Live(view) = {} THEN "start" ELSE "stop"
              \/ Fault /\ disk' \in {disk, j} /\ pc' = "rollback"
    /\ UNCHANGED <<docker, nonce, job, cur, written, view, bad, meddling, history>>


(* mutant of StopOld: the old container is parked running *)
ParkRunning ==
    /\ pc = "stop" /\ Goto("retire")
    /\ UNCHANGED <<box, faults, minted, disk, nonce, meddling, history>>

(* Stop the old container if Inspect saw it running, park it under .prev,  *)
(* and give the staged one its name.                                       *)
StopOld ==
    /\ pc = "stop"
    /\ IF Last.was
       THEN Call(Last.id \in Live(box), {Stopped(Last.id)},
                 Goto("retire"), RollBack)
       ELSE Goto("retire") /\ UNCHANGED <<box, faults>>
    /\ UNCHANGED <<minted, disk, nonce, meddling, history>>

RetireOld ==
    /\ pc = "retire"
    /\ Call(Last.id \in Live(box) /\ Free(Last.id, "prev"),
            {Renamed(Last.id, "prev")}, Goto("swap"), RollBack)
    /\ UNCHANGED <<minted, disk, nonce, meddling, history>>

SwapIn ==
    /\ pc = "swap"
    /\ Call(Last.new \in Live(box) /\ Free(Last.new, "canonical"),
            {Renamed(Last.new, "canonical")}, Goto("start"), RollBack)
    /\ UNCHANGED <<minted, disk, nonce, meddling, history>>

Start ==
    /\ pc = "start"
    /\ LET i == IF Last.kind = "start" THEN Last.id ELSE Last.new
       IN  Call(i \in Live(box), Started(i), Advance, RollBack)
    /\ UNCHANGED <<minted, disk, nonce, meddling, history>>

-----------------------------------------------------------------------------
(* The end of a transaction.                                               *)

(* runLifecycle: exec needs a running dev container; a plan without a      *)
(* payload has no hooks, and a hook may fail.                              *)
Hooks ==
    /\ pc = "hooks"
    /\ \/ /\ pc' = "gate" /\ cur' = 1
          /\ UNCHANGED <<job, tx, written, view, bad, faults>>
       \/ /\ \A i \in At(box, Dev, "canonical") : ~Up(box[i])
          /\ RollBack /\ UNCHANGED faults
       \/ Fault /\ RollBack
    /\ UNCHANGED <<docker, disk, nonce, meddling, history>>

(* checkLiveness, one desired name at a time.                              *)
Alive(n) == \E i \in At(box, n, "canonical") : Up(box[i])


(* mutant of Gate: that the container exists is taken for its running *)
GateExists ==
    /\ pc = "gate" /\ cur \in Names
    /\ \/ /\ cur \in Desired[job.cand] => At(box, cur, "canonical") # {}
          /\ cur' = cur + 1 /\ UNCHANGED <<pc, job, tx, written, view, bad, faults>>
       \/ /\ cur \in Desired[job.cand] /\ At(box, cur, "canonical") = {}
          /\ RollBack /\ UNCHANGED faults
       \/ Fault /\ RollBack
    /\ UNCHANGED <<docker, disk, nonce, meddling, history>>

Gate ==
    /\ pc = "gate" /\ cur \in Names
    /\ \/ /\ cur \in Desired[job.cand] => Alive(cur)
          /\ cur' = cur + 1 /\ UNCHANGED <<pc, job, tx, written, view, bad, faults>>
       \/ /\ cur \in Desired[job.cand] /\ ~Alive(cur)
          /\ RollBack /\ UNCHANGED faults
       \/ Fault /\ RollBack
    /\ UNCHANGED <<docker, disk, nonce, meddling, history>>


(* mutant of Commit: debris is cleared although the unlink failed *)
CommitAnyway ==
    /\ pc = "gate" /\ cur = Size + 1
    /\ \/ disk' = NoJournal /\ UNCHANGED faults
       \/ Fault /\ UNCHANGED disk
    /\ written' = FALSE /\ tx' = NoJournal
    /\ job' = [job EXCEPT !.phase = "done"] /\ pc' = "debris"
    /\ UNCHANGED <<docker, nonce, cur, view, bad, meddling, history>>

(* txn.commit: unlink, then sync the directory.  The sync may fail after   *)
(* the unlink; nothing is rolled back then.                                *)
Commit ==
    /\ pc = "gate" /\ cur = Size + 1
    /\ \/ /\ disk' = IF written THEN NoJournal ELSE disk
          /\ written' = FALSE /\ tx' = NoJournal
          /\ job' = [job EXCEPT !.phase = "done"] /\ pc' = "debris"
          /\ UNCHANGED <<cur, view, bad, faults>>
       \/ written /\ Fault /\ disk' \in {disk, NoJournal} /\ Rest
    /\ UNCHANGED <<docker, nonce, meddling, history>>

(* txn.rollback: with nothing journalled there is nothing to undo.         *)
Rollback ==
    /\ pc = "rollback"
    /\ IF written THEN BeginUndo(tx) ELSE Rest
    /\ UNCHANGED <<docker, disk, nonce, faults, meddling, history>>

-----------------------------------------------------------------------------
(* undo: the journal's entries in reverse, all of them attempted, each on  *)
(* the containers one List showed.                                         *)

Undone == tx.entries[cur]
Mine   == Target(view, tx, Undone)

(* Conditions under which an entry is left alone and its undo refused.     *)
OldGone(b)  == Undone.kind = "replace" /\ Undone.id \notin Live(b)
StageTaken(b) == /\ \E i \in Mine : b[i].role = "canonical"
                 /\ At(b, Undone.name, "next") \ Mine # {}
NameTaken(b)  == At(b, Undone.name, "canonical") \ ({Undone.id} \cup Mine) # {}

UndoList ==
    /\ pc = "undo" /\ cur > 0
    /\ \/ OldGone(box) /\ Refuse /\ UNCHANGED faults
       \/ /\ ~OldGone(box) /\ view' = box /\ pc' = "undo-stop"
          /\ UNCHANGED <<job, cur, tx, written, bad, faults>>
       \/ Fault /\ Refuse
    /\ UNCHANGED <<docker, disk, nonce, meddling, history>>

AfterStop ==
    CASE Undone.kind = "replace" -> Goto("undo-park")
      [] Undone.kind = "create"  -> Goto("undo-drop")
      [] OTHER                   -> Undid


(* mutant of UndoStop: the replacement is not stopped first *)
UndoKeepsRunning ==
    /\ pc = "undo-stop" /\ AfterStop
    /\ UNCHANGED <<box, faults, minted, disk, nonce, meddling, history>>

UndoStop ==
    /\ pc = "undo-stop"
    /\ \/ \E i \in Mine : Up(view[i]) /\ Call(i \in Live(box), {Stopped(i)},
                                              AfterStop, Refuse)
       \/ (\A i \in Mine : ~Up(view[i])) /\ AfterStop /\ UNCHANGED <<box, faults>>
    /\ UNCHANGED <<minted, disk, nonce, meddling, history>>

(* Park the replacement: free the canonical name, deleting nothing.        *)
UndoPark ==
    /\ pc = "undo-park"
    /\ \/ StageTaken(view) /\ Refuse /\ UNCHANGED <<box, faults>>
       \/ /\ ~StageTaken(view)
          /\ \E i \in Mine : view[i].role = "canonical"
                /\ Call(i \in Live(box) /\ Free(i, "next"), {Renamed(i, "next")},
                        Goto("undo-restore"), Refuse)
       \/ /\ \A i \in Mine : view[i].role # "canonical"
          /\ Goto("undo-restore") /\ UNCHANGED <<box, faults>>
    /\ UNCHANGED <<minted, disk, nonce, meddling, history>>


(* mutant of AfterRestore: the old container is not started again *)
AfterRestoreStopped == Goto("undo-drop")

(* Give the old container its name back, and run it again if it ran.       *)
AfterRestore ==
    Goto(IF Undone.was /\ ~Up(view[Undone.id]) THEN "undo-revive" ELSE "undo-drop")


(* mutant of UndoRestore: renamed even where it already has its name *)
UndoRestoreAgain ==
    /\ pc = "undo-restore"
    /\ \/ NameTaken(view) /\ Refuse /\ UNCHANGED <<box, faults>>
       \/ /\ ~NameTaken(view)
          /\ Call(Undone.id \in Live(box) /\ Free(Undone.id, "canonical"),
                  {Renamed(Undone.id, "canonical")}, AfterRestore, Refuse)
    /\ UNCHANGED <<minted, disk, nonce, meddling, history>>

UndoRestore ==
    /\ pc = "undo-restore"
    /\ \/ NameTaken(view) /\ Refuse /\ UNCHANGED <<box, faults>>
       \/ /\ ~NameTaken(view) /\ view[Undone.id].role # "canonical"
          /\ Call(Undone.id \in Live(box) /\ Free(Undone.id, "canonical"),
                  {Renamed(Undone.id, "canonical")}, AfterRestore, Refuse)
       \/ /\ ~NameTaken(view) /\ view[Undone.id].role = "canonical"
          /\ AfterRestore /\ UNCHANGED <<box, faults>>
    /\ UNCHANGED <<minted, disk, nonce, meddling, history>>

UndoRevive ==
    /\ pc = "undo-revive"
    /\ Call(Undone.id \in Live(box), Started(Undone.id),
            Goto("undo-confirm"), Refuse)
    /\ UNCHANGED <<minted, disk, nonce, meddling, history>>

UndoConfirm ==
    /\ pc = "undo-confirm"
    /\ \/ Alive(Undone.name) /\ Goto("undo-drop") /\ UNCHANGED faults
       \/ ~Alive(Undone.name) /\ Refuse /\ UNCHANGED faults
       \/ Fault /\ Refuse
    /\ UNCHANGED <<docker, disk, nonce, meddling, history>>

(* Delete last.  A replacement that cannot be removed is debris for the    *)
(* next sweep; a creation that cannot be removed is not undone.            *)
UndoDrop ==
    /\ pc = "undo-drop"
    /\ \/ \E i \in Mine : Call(TRUE, {Removed(i)}, Undid,
                               IF Undone.kind = "create" THEN Refuse ELSE Undid)
       \/ Mine = {} /\ Undid /\ UNCHANGED <<box, faults>>
    /\ UNCHANGED <<minted, disk, nonce, meddling, history>>


(* mutant of UndoEnd: refused entries are forgotten *)
UndoEndsAnyway ==
    /\ pc = "undo" /\ cur = 0 /\ Goto("erase")
    /\ UNCHANGED <<docker, disk, nonce, faults, meddling, history>>

(* Nothing left to undo: the journal goes only if every entry was undone.  *)
UndoEnd ==
    /\ pc = "undo" /\ cur = 0
    /\ IF bad THEN Rest ELSE Goto("erase")
    /\ UNCHANGED <<docker, disk, nonce, faults, meddling, history>>

Erase ==
    /\ pc = "erase"
    /\ \/ /\ disk' = NoJournal /\ UNCHANGED faults
          /\ IF job.phase = "sweep"
             THEN /\ pc' = "debris" /\ tx' = NoJournal
                  /\ UNCHANGED <<job, cur, written, view, bad>>
             ELSE Rest
       \/ Fault /\ disk' \in {disk, NoJournal} /\ Rest
    /\ UNCHANGED <<docker, nonce, meddling, history>>

-----------------------------------------------------------------------------
(* Down: every managed container, then the journal, then the network.      *)

DownBegin ==
    /\ pc = "idle" /\ pc' = "down"
    /\ job' = [NoJob EXCEPT !.phase = "down"]
    /\ UNCHANGED <<docker, disk, nonce, cur, tx, written, view, bad,
                   faults, meddling, history>>

DownList ==
    /\ pc = "down"
    /\ \/ /\ view' = Restrict(box, Ours(box)) /\ pc' = "teardown"
          /\ UNCHANGED <<job, cur, tx, written, bad, faults>>
       \/ Fault /\ Rest
    /\ UNCHANGED <<docker, disk, nonce, meddling, history>>

Teardown ==
    /\ pc = "teardown"
    /\ \/ Dispose
       \/ Live(view) = {} /\ Goto("down-erase") /\ UNCHANGED <<box, faults>>
    /\ cut' = IF disk = NoJournal THEN cut
              ELSE cut \cup {box[i].name : i \in {k \in Live(box) : box'[k] # box[k]}}
    /\ UNCHANGED <<minted, disk, nonce, meddling, base, hurt, slipped>>

(* deleteJournal, then the network and the volumes, which change nothing    *)
(* that is modelled here.                                                  *)
DownErase ==
    /\ pc = "down-erase" /\ Rest
    /\ \/ disk' = NoJournal /\ UNCHANGED faults
       \/ Fault /\ disk' \in {disk, NoJournal}
    /\ UNCHANGED <<docker, nonce, meddling, history>>

-----------------------------------------------------------------------------
(* What happens behind the engine's back.                                  *)

(* The process dies: the kernel releases its lock, memory is gone.         *)
Crash ==
    /\ pc # "idle" /\ Fault /\ Rest
    /\ UNCHANGED <<docker, disk, nonce, meddling, history>>

Meddle(n) ==
    /\ meddling > 0 /\ meddling' = meddling - 1
    /\ hurt' = hurt \cup {n}
    /\ slipped' = IF pc = "gate" /\ n < cur THEN slipped \cup {n} ELSE slipped
    /\ UNCHANGED <<minted, disk, nonce, memory, faults, base, cut>>

(* A container exits by itself.                                            *)
Exit(i) ==
    /\ i \in Live(box) /\ Managed(box[i]) /\ Up(box[i])
    /\ box' = Stopped(i) /\ Meddle(box[i].name)

(* Somebody removes one of ours.                                           *)
Vanish(i) ==
    /\ i \in Live(box) /\ Managed(box[i])
    /\ box' = Removed(i) /\ Meddle(box[i].name)

(* Somebody creates a container under one of the names.                    *)
Squat(n, r) ==
    /\ Stranger \notin Live(box) /\ At(box, n, r) = {}
    /\ box' = [box EXCEPT ![Stranger] =
                 [name |-> n, role |-> r, state |-> "running", cand |-> Foreign,
                  nonce |-> 0, dns |-> 0, addr |-> 0]]
    /\ Meddle(n)

-----------------------------------------------------------------------------
(* The machine starts with nothing, or with what an earlier Up of some     *)
(* candidate committed, running or since stopped.                          *)
Installed(c, up) ==
    [i \in Ids |->
        IF i \notin Desired[c] THEN NoContainer
        ELSE [name |-> i, role |-> "canonical",
              state |-> IF i \in up THEN "running" ELSE "stopped",
              cand |-> c, nonce |-> 0,
              dns |-> IF i = Dev /\ c \in Linked THEN CHOOSE a \in Addrs : TRUE ELSE 0,
              addr |-> IF i = 1 /\ i \in up /\ Linked # {}
                       THEN CHOOSE a \in Addrs : TRUE ELSE 0]]

Init ==
    /\ \/ box = Nothing /\ minted = 0
       \/ /\ Size <= MaxIds /\ minted = Size
          /\ \E c \in Cands : \E up \in SUBSET Desired[c] : box = Installed(c, up)
    /\ disk = NoJournal /\ nonce = 0
    /\ pc = "idle" /\ job = NoJob /\ cur = 0 /\ tx = NoJournal
    /\ written = FALSE /\ view = Nothing /\ bad = FALSE
    /\ faults = MaxFaults /\ meddling = MaxMeddling
    /\ base = Topology(box) /\ hurt = {} /\ slipped = {} /\ cut = {}

Begin == (\E c \in Cands, force \in BOOLEAN : UpBegin(c, force)) \/ DownBegin

Reconcile == Prepare \/ Skip \/ ResolveDNS \/ Inspect \/ RecordCreate \/ RecordStart
             \/ RecordReplace \/ Create \/ Backfill \/ StopOld \/ RetireOld
             \/ SwapIn \/ Start \/ Hooks \/ Gate \/ Commit

Undo == Rollback \/ UndoList \/ UndoStop \/ UndoPark \/ UndoRestore \/ UndoRevive
        \/ UndoConfirm \/ UndoDrop \/ UndoEnd \/ Erase

Work == Sweep \/ ListDebris \/ ClearDebris \/ Reconcile \/ Undo
        \/ DownList \/ Teardown \/ DownErase

Outside == (\E i \in Ids : Exit(i) \/ Vanish(i))
           \/ (\E n \in Names, r \in Roles : Squat(n, r))

Next == Begin \/ Work \/ Crash \/ Outside

Spec == Init /\ [][Next]_vars

(* Calls return, and somebody keeps running vibe on the project.           *)
FairSpec == Spec /\ WF_vars(Begin \/ Work)

-----------------------------------------------------------------------------
(* Properties.                                                             *)

WorldOK ==
    /\ box \in [Ids -> Container] /\ minted \in 0 .. MaxIds
    /\ disk \in Journal /\ nonce \in 0 .. MaxTxns
    /\ faults \in 0 .. MaxFaults /\ meddling \in 0 .. MaxMeddling
    /\ base \in [Names -> [ids : SUBSET Ids, up : BOOLEAN]]
    /\ hurt \subseteq Names /\ slipped \subseteq Names /\ cut \subseteq Names

MemoryOK ==
    /\ pc \in Labels /\ job \in Job /\ cur \in 0 .. Size + 1
    /\ tx \in Journal /\ written \in BOOLEAN
    /\ view \in [Ids -> Container] /\ bad \in BOOLEAN

(* Every variable has its type; in particular the reconcile loop, the gate *)
(* and the undo loop stay within the plan's names and the journal.         *)
TypeOK == WorldOK /\ MemoryOK

(* The journal's knowledge of containers the transaction made for a name.  *)
Describes(j, n) == \E k \in 1 .. Len(j.entries) :
                       /\ j.entries[k].name = n
                       /\ j.entries[k].kind \in {"create", "replace"}

(* "Every entry is written before the Docker mutation it describes, so no  *)
(* staged or created container can exist unrecorded" (journal.go): while   *)
(* the latest transaction is neither committed nor rolled back, each of    *)
(* its containers has an entry in the journal on disk.                     *)
Recorded ==
    disk # NoJournal \/ job.phase = "txn" =>
        \A i \in Ours(box) : box[i].nonce = nonce /\ nonce > 0 =>
            disk.nonce = nonce /\ Describes(disk, box[i].name)

(* Up removes a container in two cases only: a leftover with no journal    *)
(* present, or a container the uncommitted transaction provably made.  The *)
(* old generation survives until the commit, through every failed call,    *)
(* crash and recovery.                                                     *)
OldKept ==
    [][meddling' = meddling /\ job.phase # "down" =>
         \A i \in Live(box) \ Live(box') :
            /\ Managed(box[i])
            /\ IF disk = NoJournal THEN box[i].role # "canonical"
               ELSE Owns(disk, box[i])]_vars

(* When a rollback or a sweep gives up the journal, every name nobody else *)
(* interfered with is held by the container that held it when the          *)
(* transaction was opened, and that container runs if and only if it ran.  *)
Restored ==
    [][pc = "erase" /\ disk # NoJournal /\ disk' = NoJournal =>
         \A n \in Names \ (hurt \cup cut) : Topology(box)[n] = base[n]]_vars

(* The old and the new generation of a name never run at the same time,    *)
(* so they never contend for ports or network aliases.                     *)
OneGenerationRuns ==
    \A i, k \in Ours(box) :
        Up(box[i]) /\ Up(box[k]) /\ box[i].name = box[k].name => i = k

(* The pre-commit liveness gate: a container that had exited by the time   *)
(* the gate looked at it never gets committed.                             *)
CommitSawAlive ==
    [][pc = "gate" /\ pc' = "debris" =>
         \A n \in Desired[job.cand] \ slipped : Alive(n)]_vars

(* What is committed is the candidate's plan: each name held by a          *)
(* container of that candidate, made by this transaction under Force, and  *)
(* the dev container resolving through its sidecar's present address.      *)
CommitMatchesPlan ==
    [][pc = "gate" /\ pc' = "debris" =>
         /\ \A n \in Desired[job.cand] \ hurt :
               \E i \in At(box, n, "canonical") :
                  /\ box[i].cand = job.cand
                  /\ job.force => box[i].nonce = nonce
         /\ job.cand \in Linked /\ {1, Dev} \cap hurt = {} =>
               \E i \in At(box, Dev, "canonical"), k \in At(box, 1, "canonical") :
                  box[i].dns = box[k].addr]_vars

(* Undo refuses an entry only after somebody interfered with that name, or *)
(* after a Down that did not finish: no failed call or crash of Up alone   *)
(* can leave a state that the next sweep cannot recover.                   *)
Refused ==
    \/ pc = "undo" /\ cur > 0 /\ OldGone(box)
    \/ pc = "undo-park" /\ StageTaken(view)
    \/ pc = "undo-restore" /\ NameTaken(view)
RefusalHasCause == Refused => Undone.name \in hurt \cup cut

(* A transaction that was interrupted does not stay half done: as long as  *)
(* vibe is run on the project and nobody interferes, the journal goes.     *)
Recovers == disk # NoJournal ~> disk = NoJournal \/ hurt # {} \/ cut # {}

-----------------------------------------------------------------------------
(* The journal decides which generation is in charge of a name: "present   *)
(* means uncommitted (the .prev generation is authoritative ...), absent   *)
(* means any .prev/.next leftovers are committed debris" (journal.go).     *)
InCharge ==
    [n \in Names |->
        {[id |-> i, cand |-> box[i].cand] :
            i \in Ours(box) \cap (IF disk = NoJournal THEN At(box, n, "canonical")
                                  ELSE base[n].ids)}]

Promise == INSTANCE Generations WITH gen <- InCharge

(* Seen through the journal, Up is atomic: every one of its steps, its     *)
(* failures and its recoveries leaves the generation in charge alone,      *)
(* except the unlink that commits the candidate.                           *)
UpIsAtomic == Promise!Spec

=============================================================================
