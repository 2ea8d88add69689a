-------------------------- MODULE ReplacementInv ---------------------------
(***************************************************************************)
(* The inductive invariant behind the safety theorems of                   *)
(* ReplacementProofs and RecoveryProofs, in parts.                         *)
(***************************************************************************)
EXTENDS Replacement

OnEntry   == {"create", "backfill", "stop", "retire", "swap", "start"}
AtEntry   == {"undo-stop", "undo-park", "undo-restore", "undo-revive",
              "undo-confirm", "undo-drop"}
Quiet     == {"debris", "clear", "prepare"}

(* What every step but a creation does to the containers: those that are   *)
(* still there keep the labels they were created with.                     *)
SameLabels(c, d) == c.name = d.name /\ c.cand = d.cand /\ c.nonce = d.nonce /\ c.dns = d.dns
Tame(b) == Live(b) \subseteq Live(box) /\ \A i \in Live(b) : SameLabels(b[i], box[i])

(* Who is who: the stranger alone is unmanaged, IDs above minted are not   *)
(* used yet, and no container is of a later transaction.                   *)
IdsInv ==
    \A i \in Live(box) : /\ Managed(box[i]) <=> i # Stranger
                         /\ i # Stranger => i <= minted
                         /\ box[i].nonce <= nonce

(* How far an operation can be.                                            *)
CursorInv ==
    /\ Len(disk.entries) <= Size /\ Len(tx.entries) <= Size
    /\ pc \in {"inspect", "record"} => cur \in Names /\ Len(tx.entries) < cur
    /\ pc \in OnEntry => cur \in Names /\ Len(tx.entries) \in 1 .. cur
    /\ pc \in AtEntry => cur \in 1 .. Len(tx.entries)
    /\ pc = "undo" => cur <= Len(tx.entries)
    /\ pc = "gate" => cur >= 1

(* Which operation is running where.                                       *)
PhaseInv ==
    /\ pc = "idle" <=> job.phase = "none"
    /\ pc \in {"down", "teardown", "down-erase"} <=> job.phase = "down"
    /\ pc \in {"sweep", "prepare"} => job.phase = "sweep"
    /\ pc \in Quiet => job.phase \in {"sweep", "done"} /\ disk = NoJournal
    /\ pc \in Forward \cup {"rollback"} => job.phase = "txn"
    /\ pc \in Undoing => job.phase \in {"sweep", "txn"} /\ disk # NoJournal
    /\ job.phase = "done" => pc \in Quiet
    /\ job.phase \in {"sweep", "txn", "done"} => job.cand \in Cands

(* The journal on disk belongs to the latest transaction, and the journal  *)
(* in memory to the same one.                                              *)
JournalInv ==
    /\ disk # NoJournal => disk.nonce = nonce /\ nonce > 0 /\ disk.cand \in Cands
    /\ job.phase = "txn" => /\ tx.nonce = nonce /\ nonce > 0 /\ tx.cand = job.cand
                            /\ disk # NoJournal => disk.cand = tx.cand
    /\ pc \in Undoing => tx.nonce = disk.nonce /\ tx.cand = disk.cand
    /\ pc \in Forward => (written <=> disk # NoJournal)
    /\ pc = "rollback" => (written => disk # NoJournal)
    /\ pc \in OnEntry => written

(* Going forward, memory and disk have the same entries, up to an ID that  *)
(* is not backfilled yet.                                                  *)
SameShape(j, k) ==
    /\ Len(j.entries) = Len(k.entries)
    /\ \A n \in 1 .. Len(j.entries) : /\ j.entries[n].name = k.entries[n].name
                                      /\ j.entries[n].kind = k.entries[n].kind
MirrorInv == pc \in Forward => SameShape(tx, disk)

(* What the entry being worked on says.                                    *)
LastInv ==
    /\ pc \in OnEntry => Last.name = cur
    /\ pc \in {"create", "backfill"} => Last.kind \in {"create", "replace"}
    /\ pc \in AtEntry \ {"undo-stop", "undo-drop"} => Undone.kind = "replace"
    /\ pc = "undo-drop" => Undone.kind # "start"

-----------------------------------------------------------------------------
(* The containers, as long as it is not decided which generation stays.    *)

Open   == disk # NoJournal \/ job.phase = "txn"
New(c) == c.nonce = nonce
Ks(j)  == 1 .. Len(j.entries)

(* The daemon keeps names apart.                                           *)
Unique == \A i, k \in Live(box) :
              box[i].name = box[k].name /\ box[i].role = box[k].role => i = k

(* What is parked or staged does not run.                                  *)
Aside == \A i \in Ours(box) : Up(box[i]) => box[i].role = "canonical"

(* What the latest transaction found, at most one container a name, and    *)
(* what it has made are all there is.                                      *)
BaseInv ==
    /\ \A n \in Names : \A i \in base[n].ids :
          /\ \A k \in base[n].ids : k = i
          /\ i # Stranger => i <= minted
          /\ nonce > 0 /\ i \in Live(box) /\ i # Stranger =>
                box[i].name = n /\ ~New(box[i])
    /\ nonce > 0 => \A i \in Ours(box) : ~New(box[i]) => i \in base[box[i].name].ids

(* What the journal on disk says of a name.                                *)
InDisk(n, kind) == \E k \in Ks(disk) : /\ disk.entries[k].name = n
                                       /\ disk.entries[k].kind = kind

(* A container that was found leaves its name to a replacement only.       *)
OldInv ==
    Open => \A i \in Ours(box) : ~New(box[i]) /\ box[i].role # "canonical" =>
                box[i].role = "prev" /\ InDisk(box[i].name, "replace")

(* A container that was made is the journal's, one a name.                 *)
Made(c) == \/ c.role = "canonical" /\ InDisk(c.name, "create")
           \/ c.role \in {"canonical", "next"} /\ InDisk(c.name, "replace")
NewInv ==
    Open => \A i \in Ours(box) : New(box[i]) =>
        /\ box[i].cand = disk.cand /\ Made(box[i])
        /\ \A k \in Ours(box) : New(box[k]) /\ box[k].name = box[i].name => k = i

(* An ID that was backfilled is the new container's.                       *)
NewId(e) ==
    e.new # 0 =>
        /\ e.kind # "start" /\ e.new <= minted
        /\ e.new \in Live(box) => New(box[e.new]) /\ box[e.new].name = e.name
        /\ \A i \in Ours(box) : New(box[i]) /\ box[i].name = e.name => i = e.new

(* Each name of the plan has one entry at most.                            *)
EntriesInv ==
    /\ \A k, m \in Ks(disk) : k < m => disk.entries[k].name < disk.entries[m].name
    /\ \A k \in Ks(disk) :
         LET e == disk.entries[k]
         IN  /\ e.name \in Desired[disk.cand] /\ NewId(e)
             /\ e.kind # "create" => e.id \in base[e.name].ids /\ e.id # Stranger
             /\ e.kind = "create" =>
                   e.id = 0 /\ \A i \in Ours(box) : i \notin base[e.name].ids

(* Memory is not ahead of the disk, but for a backfilled ID.               *)
TxInv ==
    /\ Len(tx.entries) <= Len(disk.entries)
    /\ \A k \in Ks(tx) :
         LET e == tx.entries[k]
             d == disk.entries[k]
         IN  e.kind = d.kind /\ e.name = d.name /\ e.id = d.id /\ e.was = d.was /\ NewId(e)

-----------------------------------------------------------------------------
(* Going forward.                                                          *)

(* Names that have been reconciled are held by the candidate.              *)
Past(n) == pc \in Forward /\ (pc \in {"hooks", "gate"} \/ n < cur)
PastInv ==
    \A i \in Ours(box) :
        /\ Past(box[i].name) /\ box[i].name \in Desired[job.cand]
        /\ box[i].role = "canonical"
        => box[i].cand = job.cand /\ (job.force => New(box[i]))

(* The entries are of names before the one at hand.                        *)
AheadInv == pc \in {"inspect", "record"} => \A k \in Ks(disk) : disk.entries[k].name < cur

(* Nothing is remembered of the names before.                              *)
BlankInv == pc \in {"prepare", "inspect"} => Live(view) = {}

(* What Inspect has shown.                                                 *)
SeenInv ==
    pc \in {"record"} \cup OnEntry =>
        /\ cur \in Desired[job.cand]
        /\ \A i \in Live(view) :
              /\ \A k \in Live(view) : k = i
              /\ i # Stranger /\ view[i].name = cur /\ i \in base[cur].ids
              /\ i \in Live(box) => SameLabels(box[i], view[i])
              /\ pc \in {"record", "create", "backfill", "stop", "retire"} /\ i \in Live(box) =>
                    box[i].role = "canonical" /\ (Up(box[i]) => Up(view[i]))
        /\ Live(view) = {} => \A i \in Ours(box) : box[i].name = cur => New(box[i])

(* What the entry at hand says of it.                                      *)
AtHandInv ==
    pc \in OnEntry =>
        /\ Last.kind = "create" <=> Live(view) = {}
        /\ Last.kind # "create" => Last.id \in Live(view)
        /\ Last.kind = "replace" => Last.was = Up(view[Last.id])
        /\ Last.kind = "start" => pc = "start" /\ Same(view[Last.id]) /\ ~job.force
        /\ pc \in {"stop", "retire", "swap"} => Last.kind = "replace"
        /\ pc \in {"create", "backfill"} => Last.new = 0 /\ disk.entries[Len(disk.entries)].new = 0
        /\ pc \in {"stop", "retire", "swap", "start"} /\ Last.kind # "start" => Last.new # 0

(* The container made for it.                                              *)
MadeInv ==
    /\ \A i \in Ours(box) : New(box[i]) /\ box[i].name = cur =>
          /\ pc # "create"
          /\ pc = "backfill" => i = minted
          /\ pc \in {"backfill", "stop", "retire", "swap"} => box[i].role = Staging
          /\ pc = "start" => box[i].role = "canonical"
    /\ pc = "backfill" /\ minted \in Live(box) =>
          box[minted].name = cur /\ New(box[minted])
    /\ pc = "backfill" => minted > 0

(* The container found.                                                    *)
FoundInv ==
    pc \in {"retire", "swap", "start"} /\ Last.id \in Live(box) =>
        /\ Last.kind = "replace" => ~Up(box[Last.id])
        /\ Last.kind = "replace" /\ pc # "retire" => box[Last.id].role = "prev"
        /\ Last.kind = "start" => box[Last.id].role = "canonical"

(* What the gate has seen running.                                         *)
AliveInv == pc = "gate" => \A n \in Desired[job.cand] \ slipped : n < cur => Alive(n)

-----------------------------------------------------------------------------
(* Going back.                                                             *)

(* What the listing tells of the entry to undo: at most one container of   *)
(* its own, and for a replacement the one it replaced.                     *)
ListedInv ==
    pc \in AtEntry =>
        /\ \A i \in Mine :
              /\ \A k \in Mine : k = i
              /\ i \in Live(view) /\ i # Stranger /\ view[i].name = Undone.name
              /\ Undone.kind # "start" => New(view[i])
              /\ Undone.kind = "start" => i = Undone.id
        /\ \A i \in Ours(view) : New(view[i]) /\ view[i].name = Undone.name => i \in Mine
        /\ Undone.kind = "replace" =>
              Undone.id \in Live(view) /\ Undone.id \notin Mine

(* What is there was listed.                                               *)
FreshInv ==
    pc \in AtEntry => \A i \in Ours(box) :
        /\ i \in Ours(view) /\ SameLabels(view[i], box[i])
        /\ pc = "undo-stop" /\ Up(box[i]) => Up(view[i])
        /\ pc \in {"undo-stop", "undo-park"} => box[i].role = view[i].role
        /\ pc = "undo-restore" /\ i = Undone.id => box[i].role = view[i].role

(* How far the undo of an entry has got.                                   *)
UndoInv ==
    /\ pc \in AtEntry \ {"undo-stop"} => \A i \in Mine \cap Live(box) : ~Up(box[i])
    /\ pc \in AtEntry \ {"undo-stop", "undo-park"} /\ Undone.kind = "replace" =>
          \A i \in Mine \cap Live(box) : box[i].role # "canonical"
    /\ pc \in {"undo-revive", "undo-confirm", "undo-drop"} /\ Undone.kind = "replace"
         /\ Undone.id \in Live(box) => box[Undone.id].role = "canonical"

(* Entries that were undone, or never acted upon.                          *)
Clean(n) == \A i \in Ours(box) : box[i].name = n => (New(box[i]) <=> box[i].role # "canonical")
CleanInv ==
    /\ bad => pc \in Undoing \ {"erase"}
    /\ pc = "erase" => cur = 0
    /\ pc = "rollback" =>
          \A k \in Ks(disk) : k > Len(tx.entries) => Clean(disk.entries[k].name)
    /\ pc \in Undoing /\ ~bad =>
          \A k \in Ks(disk) : k > cur => Clean(disk.entries[k].name)

(* Clearing debris, and teardown.                                          *)
SweptInv ==
    /\ pc = "clear" => \A i \in Live(view) :
          i # Stranger /\ (i \in Live(box) => box[i].role # "canonical")
    /\ pc = "clear" /\ job.phase = "sweep" =>
          \A i \in Ours(box) : box[i].role # "canonical" => i \in Live(view)
    /\ pc = "prepare" => \A i \in Ours(box) : box[i].role = "canonical"
    /\ pc = "teardown" => Stranger \notin Live(view) /\ \A i \in Ours(box) : i \in Live(view)
    /\ pc = "down-erase" => Ours(box) = {}

Core == /\ TypeOK /\ CursorInv /\ PhaseInv /\ JournalInv
        /\ IdsInv /\ MirrorInv /\ LastInv /\ Recorded

World    == Unique /\ Aside /\ BaseInv /\ OldInv /\ NewInv /\ EntriesInv /\ TxInv
Onward   == /\ PastInv /\ AheadInv /\ BlankInv /\ SeenInv /\ AtHandInv
            /\ MadeInv /\ FoundInv /\ AliveInv
Backward == ListedInv /\ FreshInv /\ UndoInv /\ CleanInv /\ SweptInv
IInv     == Core /\ World /\ Onward /\ Backward

-----------------------------------------------------------------------------
(* The names that nobody has interfered with since the transaction was     *)
(* opened, and that no Down has torn at.                                   *)

Spared(n)  == n \notin hurt \cup cut
Listed(n)  == \E k \in Ks(disk) : disk.entries[k].name = n
Settled(n) == \A i \in base[n].ids : Up(box[i]) <=> base[n].up

(* Nobody stops, renames or removes the stranger.                          *)
StrangerInv ==
    /\ Stranger \in Live(box) => Up(box[Stranger])
    /\ \A n \in Names :
          /\ base[n].up => base[n].ids # {}
          /\ Stranger \in base[n].ids =>
                /\ base[n].up
                /\ Stranger \in Live(box)
                /\ box[Stranger].name = n /\ box[Stranger].role = "canonical"

(* What was found is there, and nobody has squatted beside it.             *)
HereInv ==
    Open => \A n \in Names : Spared(n) =>
        /\ base[n].ids \subseteq Live(box)
        /\ Stranger \in Live(box) /\ box[Stranger].name = n =>
              /\ box[Stranger].role = "canonical" => Stranger \in base[n].ids
              /\ box[Stranger].role = "next" /\ InDisk(n, "replace") =>
                    \A i \in Ours(box) : box[i].name = n => ~New(box[i])

(* Nothing is in the way of an entry's undo.                               *)
ClearInv ==
    pc \in AtEntry /\ Undone.kind = "replace" /\ Spared(Undone.name) =>
        ~StageTaken(view) /\ ~NameTaken(view)

(* What was found runs if it ran, but for what its entry says.             *)
RunInv ==
    Open => \A n \in Names : Spared(n) =>
        /\ ~Listed(n) => Settled(n)
        /\ \A i \in base[n].ids : Up(box[i]) => base[n].up \/ InDisk(n, "start")
        /\ \A k \in Ks(disk) : disk.entries[k].name = n =>
              /\ disk.entries[k].kind = "replace" => (disk.entries[k].was <=> base[n].up)
              /\ disk.entries[k].kind = "start" => ~base[n].up

(* What Inspect saw of that.                                               *)
SeenRunInv ==
    pc = "record" => \A i \in Live(view) :
        /\ Spared(cur) => (Up(view[i]) <=> base[cur].up)
        /\ Same(view[i]) /\ ~job.force => ~Up(view[i])

(* The undo of a replacement starts the old container if it ran.           *)
RevivedInv ==
    pc \in AtEntry /\ Undone.kind = "replace" =>
        /\ pc \in {"undo-revive", "undo-confirm"} => Undone.was
        /\ Spared(Undone.name) =>
              /\ Up(view[Undone.id]) => Up(box[Undone.id])
              /\ pc = "undo-confirm" => Up(box[Undone.id])
              /\ pc = "undo-drop" /\ Undone.was => Up(box[Undone.id])

(* Entries that were undone, or never acted upon.                          *)
SettledInv ==
    /\ pc = "rollback" => \A k \in Ks(disk) :
          k > Len(tx.entries) /\ Spared(disk.entries[k].name) => Settled(disk.entries[k].name)
    /\ pc \in Undoing /\ ~bad => \A k \in Ks(disk) :
          k > cur /\ Spared(disk.entries[k].name) => Settled(disk.entries[k].name)

(* Names that have been reconciled are held.                               *)
Held1(n) == \E i \in Ours(box) : box[i].name = n /\ box[i].role = "canonical"
HeldInv == \A n \in Names \ hurt : Past(n) /\ n \in Desired[job.cand] => Held1(n)

(* The dev container resolves through the sidecar's address.               *)
Resolved == job.cand \in Linked /\ (cur = Dev \/ pc \in {"hooks", "gate"})
DnsInv ==
    /\ job.ip # 0 => job.cand \in Linked
    /\ job.phase = "sweep" => job.ip = 0
    /\ pc \in Forward /\ job.ip # 0 => Resolved
    /\ pc \in {"record", "hooks", "gate"} \cup OnEntry /\ Resolved => job.ip # 0
    /\ pc \in Forward /\ job.ip # 0 /\ 1 \notin hurt =>
          \A k \in At(box, 1, "canonical") : box[k].addr = job.ip
    /\ pc \in {"hooks", "gate"} => \A i \in Ours(box) :
          box[i].name = Dev /\ box[i].role = "canonical" /\ Dev \in Desired[job.cand] =>
             box[i].dns = job.ip
    /\ pc \in OnEntry /\ cur = Dev => \A i \in Ours(box) :
          New(box[i]) /\ box[i].name = Dev => box[i].dns = job.ip

Untouched == /\ StrangerInv /\ HereInv /\ ClearInv /\ RunInv /\ SeenRunInv
             /\ RevivedInv /\ SettledInv
Promised  == HeldInv /\ DnsInv

=============================================================================
