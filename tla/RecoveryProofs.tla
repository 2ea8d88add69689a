--------------------------- MODULE RecoveryProofs ---------------------------
(***************************************************************************)
(* What Up does to the containers, for every plan, every number of         *)
(* containers, transactions, faults and interferences: at most one         *)
(* generation of a name runs, the old generation is never removed before   *)
(* the commit, the gate saw alive what is committed, and through the       *)
(* journal the whole of Up, with its failures and recoveries, is one step  *)
(* of Generations.                                                         *)
(*                                                                         *)
(* The invariant IInv of ReplacementInv has four layers, each a section    *)
(* here.  World says what the containers and the journal say of each       *)
(* other, Onward what the operation going forward knows, Backward what the *)
(* undo knows.  A step is not taken action by action: first it is said     *)
(* what an action can do to one container (Stops, Runs, Moves, Drops,      *)
(* Adds) and where it leads (Leads, Arrives), then each conjunct is shown  *)
(* to survive these few effects.                                           *)
(*                                                                         *)
(* Two layers rest on IInv.  Untouched says what holds of the containers   *)
(* of a name nobody interfered with: the undo leaves them as the           *)
(* transaction found them.  Promised says what the commit owes the         *)
(* candidate's plan.  With them no refusal is without a cause, a rollback  *)
(* restores what it found, and what is committed is what was planned.      *)
(***************************************************************************)
EXTENDS ReplacementProofs

(* The control state, which the theorems of ReplacementProofs rest on.     *)
LEMMA CoreStep ==
    ASSUME Core, [Next]_vars
    PROVE  Core'
BY WorldStep, MemoryStep, CursorStep, PhaseStep, IdsStep, EntryStep, RecordedStep
   DEF Core, TypeOK

LEMMA InitCore == Init => Core
<1> SUFFICES ASSUME Init PROVE Core
  OBVIOUS
<1>1. pc = "idle" /\ disk = NoJournal /\ job.phase = "none"
  BY DEF Init, NoJob
<1>2. MirrorInv /\ LastInv /\ Recorded
  BY <1>1 DEF MirrorInv, LastInv, Recorded, Forward, OnEntry, AtEntry
<1> QED BY <1>2, InitType, InitIds DEF Core

-----------------------------------------------------------------------------
(* What a step does to one container, the others staying as they are.      *)

Others(i)   == \A k \in Ids \ {i} : box'[k] = box[k]
Stays(i)    == i \in Live(box) /\ i \in Live(box') /\ SameLabels(box'[i], box[i])
Stops(i)    == Others(i) /\ Stays(i) /\ box'[i].role = box[i].role /\ ~Up(box'[i])
Runs(i)     == Others(i) /\ Stays(i) /\ box'[i].role = box[i].role /\ Up(box'[i])
Moves(i, r) == /\ Others(i) /\ Stays(i) /\ box'[i].role = r
               /\ Up(box'[i]) <=> Up(box[i])
               /\ At(box, box[i].name, r) = {}
Drops(i)    == Others(i) /\ i \in Ids /\ i \notin Live(box')

LEMMA StopIs ==
    ASSUME TypeOK, NEW i \in Live(box), box' = Stopped(i)
    PROVE  Stops(i)
<1>1. i \in Ids /\ box[i] \in Container /\ box \in [Ids -> Container]
  BY DEF Live, TypeOK, WorldOK
<1>2. box'[i] = Halt(box[i]) /\ Others(i)
  BY <1>1 DEF Stopped, Others
<1>3. /\ Halt(box[i]).state = "stopped" /\ Halt(box[i]).role = box[i].role
      /\ SameLabels(Halt(box[i]), box[i])
  BY <1>1 DEF Halt, Container, SameLabels
<1> QED BY <1>1, <1>2, <1>3 DEF Stops, Stays, Live, Up

LEMMA StartIs ==
    ASSUME TypeOK, NEW i \in Live(box), box' \in Started(i)
    PROVE  Runs(i) \/ (box' = box /\ Up(box[i]))
<1>1. i \in Ids /\ box[i] \in Container /\ box \in [Ids -> Container]
  BY DEF Live, TypeOK, WorldOK
<1>2. CASE Up(box[i])
  BY <1>2 DEF Started
<1>3. CASE ~Up(box[i])
  <2>1. PICK a \in Address(box[i].name) : box' = [box EXCEPT ![i] = Run(box[i], a)]
    BY <1>1, <1>3 DEF Started
  <2>2. box'[i] = Run(box[i], a) /\ Others(i)
    BY <1>1, <2>1 DEF Others
  <2>3. /\ Run(box[i], a).state = "running" /\ Run(box[i], a).role = box[i].role
        /\ SameLabels(Run(box[i], a), box[i])
    BY <1>1 DEF Run, Container, SameLabels
  <2> QED BY <1>1, <2>2, <2>3 DEF Runs, Stays, Live, Up
<1> QED BY <1>2, <1>3

LEMMA RenameIs ==
    ASSUME TypeOK, NEW i \in Live(box), NEW r, Free(i, r), box' = Renamed(i, r)
    PROVE  Moves(i, r)
<1>1. i \in Ids /\ box[i] \in Container /\ box \in [Ids -> Container]
  BY DEF Live, TypeOK, WorldOK
<1> DEFINE c == [box[i] EXCEPT !.role = r]
<1>2. box'[i] = c /\ Others(i)
  BY <1>1 DEF Renamed, Others
<1>3. c.state = box[i].state /\ c.role = r /\ SameLabels(c, box[i])
  BY <1>1 DEF Container, SameLabels
<1> QED BY <1>1, <1>2, <1>3 DEF Moves, Stays, Live, Up, Free

LEMMA RemoveIs ==
    ASSUME TypeOK, NEW i \in Ids, box' = Removed(i)
    PROVE  Drops(i)
BY DEF Drops, Removed, Others, Live, NoContainer, TypeOK, WorldOK

(* A new container, under an ID of its own.                                *)
Adds == LET m == minted + 1
        IN  /\ m \in Ids /\ m # Stranger /\ m \notin Live(box) /\ m \in Live(box')
            /\ Others(m) /\ minted' = m
            /\ box'[m].name = cur /\ box'[m].role = Staging /\ ~Up(box'[m])
            /\ box'[m].cand = job.cand /\ box'[m].nonce = tx.nonce
            /\ box'[m].dns = (IF cur = Dev THEN job.ip ELSE 0)
            /\ At(box, cur, Staging) = {}

LEMMA CreateIs ==
    ASSUME TypeOK, IdsInv, Create
    PROVE  /\ pc = "create" /\ UNCHANGED <<disk, nonce, meddling, history>>
           /\ UNCHANGED <<job, cur, tx, written, view, bad>>
           /\ \/ Adds /\ pc' \in {"backfill", "rollback"}
              \/ UNCHANGED <<box, minted>> /\ pc' = "rollback"
<1>1. /\ pc = "create" /\ UNCHANGED <<disk, nonce, meddling, history>>
      /\ UNCHANGED <<job, cur, tx, written, view, bad>>
      /\ minted < MaxIds /\ minted' = (IF box' # box THEN minted + 1 ELSE minted)
      /\ \/ /\ At(box, cur, Staging) = {} /\ box' = Created(Staging)
            /\ pc' \in {"backfill", "rollback"}
         \/ box' = box /\ pc' = "rollback"
  BY DEF Create, Call, Goto, RollBack
<1>2. minted \in Nat /\ MaxIds \in Nat /\ box \in [Ids -> Container]
  BY BoundsAssumption DEF TypeOK, WorldOK
<1> DEFINE m == minted + 1
           c == [name |-> cur, role |-> Staging, state |-> "stopped",
                 cand |-> job.cand, nonce |-> tx.nonce,
                 dns |-> IF cur = Dev THEN job.ip ELSE 0, addr |-> 0]
<1>3. m \in Ids /\ m # Stranger
  BY <1>1, <1>2 DEF Ids, Stranger
<1>4. m \notin Live(box)
  BY <1>2, <1>3 DEF IdsInv
<1>5. CASE At(box, cur, Staging) = {} /\ box' = Created(Staging)
  <2>1. box' = [box EXCEPT ![m] = c]
    BY <1>5 DEF Created
  <2>2. box'[m] = c /\ Others(m)
    BY <1>2, <1>3, <2>1 DEF Others
  <2>3. m \in Live(box')
    BY <1>3, <2>2 DEF Live
  <2>4. minted' = m
    BY <1>1, <1>4, <2>3
  <2>5. Adds
    BY <1>3, <1>4, <1>5, <2>2, <2>3, <2>4 DEF Adds, Up
  <2> QED BY <1>1, <2>5
<1> HIDE DEF c
<1>6. CASE box' = box /\ pc' = "rollback"
  BY <1>1, <1>6
<1> QED BY <1>1, <1>5, <1>6

-----------------------------------------------------------------------------
(* What the steps that change a container do, and where they lead.         *)

Still == UNCHANGED <<minted, disk, nonce, base>>
Held  == UNCHANGED <<job, cur, tx, written, view, bad>>

LEMMA StopOldIs ==
    ASSUME TypeOK, StopOld
    PROVE  /\ pc = "stop" /\ pc' \in {"retire", "rollback"} /\ Still /\ Held
           /\ UNCHANGED <<meddling, history>>
           /\ box' = box \/ Stops(Last.id)
           /\ pc' = "retire" => IF Last.was THEN Stops(Last.id) ELSE box' = box
<1>1. CASE Last.was
  BY <1>1, StopIs DEF StopOld, Call, Goto, RollBack, Still, Held, history
<1>2. CASE ~Last.was
  BY <1>2 DEF StopOld, Call, Goto, RollBack, Still, Held, history
<1> QED BY <1>1, <1>2

LEMMA RetireOldIs ==
    ASSUME TypeOK, RetireOld
    PROVE  /\ pc = "retire" /\ pc' \in {"swap", "rollback"} /\ Still /\ Held
           /\ UNCHANGED <<meddling, history>>
           /\ box' = box \/ Moves(Last.id, "prev")
           /\ pc' = "swap" => Moves(Last.id, "prev")
BY RenameIs DEF RetireOld, Call, Goto, RollBack, Still, Held, history

LEMMA SwapInIs ==
    ASSUME TypeOK, SwapIn
    PROVE  /\ pc = "swap" /\ pc' \in {"start", "rollback"} /\ Still /\ Held
           /\ UNCHANGED <<meddling, history>>
           /\ box' = box \/ Moves(Last.new, "canonical")
           /\ pc' = "start" => Moves(Last.new, "canonical")
BY RenameIs DEF SwapIn, Call, Goto, RollBack, Still, Held, history

Begun == IF Last.kind = "start" THEN Last.id ELSE Last.new

LEMMA StartOldIs ==
    ASSUME TypeOK, Start
    PROVE  /\ pc = "start" /\ Still
           /\ Advance \/ (pc' = "rollback" /\ Held)
           /\ UNCHANGED <<meddling, history>>
           /\ box' = box \/ Runs(Begun)
           /\ pc' # "rollback" => Runs(Begun) \/ (box' = box /\ Up(box[Begun]))
<1>1. /\ pc = "start" /\ Still /\ UNCHANGED <<meddling, history>>
      /\ Call(Begun \in Live(box), Started(Begun), Advance, RollBack)
  BY DEF Start, Begun, Still, history
<1>2. ASSUME Begun \in Live(box), box' \in Started(Begun)
      PROVE  Runs(Begun) \/ (box' = box /\ Up(box[Begun]))
  BY <1>2, StartIs
<1>3. \/ Begun \in Live(box) /\ box' \in Started(Begun) /\ Advance
      \/ pc' = "rollback" /\ Held
         /\ (box' = box \/ (Begun \in Live(box) /\ box' \in Started(Begun)))
  BY <1>1 DEF Call, RollBack, Goto, Held
<1> QED BY <1>1, <1>2, <1>3

(* Undoing an entry.                                                       *)
Turns == Refuse \/ Undid

LEMMA UndoStopIs ==
    ASSUME TypeOK, UndoStop
    PROVE  /\ pc = "undo-stop" /\ Still /\ UNCHANGED <<meddling, history>>
           /\ box' = box \/ \E i \in Mine : Stops(i)
           /\ \/ Refuse
              \/ /\ AfterStop
                 /\ \/ \E i \in Mine : Stops(i)
                    \/ box' = box /\ \A i \in Mine : ~Up(view[i])
<1>1. CASE \E i \in Mine : Up(view[i])
  <2>1. PICK i \in Mine : Call(i \in Live(box), {Stopped(i)}, AfterStop, Refuse)
    BY <1>1 DEF UndoStop
  <2> QED BY <2>1, StopIs DEF UndoStop, Call, Still, history
<1>2. CASE \A i \in Mine : ~Up(view[i])
  BY <1>2 DEF UndoStop, Still, history
<1> QED BY <1>1, <1>2

LEMMA UndoParkIs ==
    ASSUME TypeOK, UndoPark
    PROVE  /\ pc = "undo-park" /\ Still /\ UNCHANGED <<meddling, history>>
           /\ box' = box \/ \E i \in Mine : Moves(i, "next")
           /\ \/ Refuse
              \/ /\ pc' = "undo-restore" /\ Held
                 /\ \/ \E i \in Mine : Moves(i, "next")
                    \/ box' = box /\ \A i \in Mine : view[i].role # "canonical"
<1>1. CASE StageTaken(view) /\ Refuse /\ UNCHANGED <<box, faults>>
  BY <1>1 DEF UndoPark, Still, history
<1>2. ASSUME NEW i \in Mine,
             Call(i \in Live(box) /\ Free(i, "next"), {Renamed(i, "next")},
                  Goto("undo-restore"), Refuse)
      PROVE  /\ box' = box \/ Moves(i, "next")
             /\ Refuse \/ (pc' = "undo-restore" /\ Held /\ Moves(i, "next"))
  BY <1>2, RenameIs DEF Call, Goto, Held
<1>3. CASE /\ \A i \in Mine : view[i].role # "canonical"
           /\ Goto("undo-restore") /\ UNCHANGED <<box, faults>>
  BY <1>3 DEF UndoPark, Goto, Held, Still, history
<1> QED BY <1>1, <1>2, <1>3 DEF UndoPark, Still, history

LEMMA UndoRestoreIs ==
    ASSUME TypeOK, UndoRestore
    PROVE  /\ pc = "undo-restore" /\ Still /\ UNCHANGED <<meddling, history>>
           /\ box' = box \/ Moves(Undone.id, "canonical")
           /\ \/ Refuse
              \/ /\ AfterRestore
                 /\ \/ Moves(Undone.id, "canonical")
                    \/ box' = box /\ view[Undone.id].role = "canonical"
BY RenameIs DEF UndoRestore, Call, Still, history

LEMMA UndoReviveIs ==
    ASSUME TypeOK, UndoRevive
    PROVE  /\ pc = "undo-revive" /\ Still /\ UNCHANGED <<meddling, history>>
           /\ box' = box \/ Runs(Undone.id)
           /\ \/ Refuse
              \/ /\ pc' = "undo-confirm" /\ Held
                 /\ Runs(Undone.id) \/ (box' = box /\ Up(box[Undone.id]))
<1>1. ASSUME Undone.id \in Live(box), box' \in Started(Undone.id)
      PROVE  Runs(Undone.id) \/ (box' = box /\ Up(box[Undone.id]))
  BY <1>1, StartIs
<1>2. \/ Undone.id \in Live(box) /\ box' \in Started(Undone.id) /\ Goto("undo-confirm")
      \/ Refuse /\ (box' = box \/ (Undone.id \in Live(box) /\ box' \in Started(Undone.id)))
  BY DEF UndoRevive, Call
<1> QED BY <1>1, <1>2 DEF UndoRevive, Goto, Held, Still, history

LEMMA UndoDropIs ==
    ASSUME TypeOK, MemoryOK, UndoDrop, Mine \subseteq Ids
    PROVE  /\ pc = "undo-drop" /\ Still /\ UNCHANGED <<meddling, history>>
           /\ Turns
           /\ box' = box \/ \E i \in Mine : Drops(i)
           /\ \/ Refuse
              \/ \E i \in Mine : Drops(i)
              \/ box' = box /\ (Mine = {} \/ Undone.kind # "create")
<1>1. ASSUME NEW i \in Mine,
             Call(TRUE, {Removed(i)}, Undid, IF Undone.kind = "create" THEN Refuse ELSE Undid)
      PROVE  /\ Turns /\ (box' = box \/ Drops(i))
             /\ Refuse \/ Drops(i) \/ (box' = box /\ Undone.kind # "create")
  BY <1>1, RemoveIs DEF Call, Turns
<1>2. CASE Mine = {} /\ Undid /\ UNCHANGED <<box, faults>>
  BY <1>2 DEF UndoDrop, Turns, Still, history
<1> QED BY <1>1, <1>2 DEF UndoDrop, Turns, Still, history

(* Clearing away what was listed.                                          *)
Disposes == \E i \in Live(view) : Stops(i) \/ Drops(i)

LEMMA DisposeIs ==
    ASSUME TypeOK, Dispose
    PROVE  /\ box' = box \/ Disposes
           /\ \/ Rest
              \/ /\ UNCHANGED <<pc, job, cur, tx, written, bad>>
                 /\ \A k \in Live(view) : k \notin Live(view') => k \notin Live(box')
                 /\ Live(view') \subseteq Live(view)
                 /\ \A k \in Live(view') : SameLabels(view'[k], view[k])
<1>1. PICK i \in Newest(view) :
         IF Up(view[i])
         THEN Call(i \in Live(box), {Stopped(i)},
                   /\ view' = [view EXCEPT ![i] = Halt(@)]
                   /\ UNCHANGED <<pc, job, cur, tx, written, bad>>,
                   Rest)
         ELSE Call(TRUE, {Removed(i)},
                   /\ view' = [view EXCEPT ![i] = NoContainer]
                   /\ UNCHANGED <<pc, job, cur, tx, written, bad>>,
                   Rest)
  BY DEF Dispose
<1>2. i \in Live(view) /\ i \in Ids /\ view[i] \in Container /\ view \in [Ids -> Container]
  BY DEF Newest, Live, TypeOK, MemoryOK
<1>3. CASE Up(view[i])
  <2>1. box' = box \/ Stops(i)
    BY <1>1, <1>3, StopIs DEF Call
  <2>2. \/ Rest
        \/ /\ view' = [view EXCEPT ![i] = Halt(view[i])]
           /\ UNCHANGED <<pc, job, cur, tx, written, bad>>
    BY <1>1, <1>3 DEF Call
  <2>3. /\ Halt(view[i]).state = "stopped" /\ SameLabels(Halt(view[i]), view[i])
    BY <1>2 DEF Halt, Container, SameLabels
  <2>4. ASSUME view' = [view EXCEPT ![i] = Halt(view[i])]
        PROVE  Live(view') = Live(view) /\ \A k \in Live(view') : SameLabels(view'[k], view[k])
    <3>1. view'[i] = Halt(view[i]) /\ \A k \in Ids \ {i} : view'[k] = view[k]
      BY <1>2, <2>4
    <3> QED BY <1>2, <2>3, <3>1 DEF Live, SameLabels
  <2> QED BY <1>2, <2>1, <2>2, <2>4 DEF Disposes
<1>4. CASE ~Up(view[i])
  <2>1. box' = box \/ Drops(i)
    BY <1>1, <1>2, <1>4, RemoveIs DEF Call
  <2>2. \/ Rest
        \/ /\ view' = [view EXCEPT ![i] = NoContainer] /\ Drops(i)
           /\ UNCHANGED <<pc, job, cur, tx, written, bad>>
    BY <1>1, <1>2, <1>4, RemoveIs DEF Call
  <2>3. ASSUME view' = [view EXCEPT ![i] = NoContainer]
        PROVE  /\ Live(view') \subseteq Live(view)
               /\ \A k \in Live(view) : k \notin Live(view') => k = i
               /\ \A k \in Live(view') : SameLabels(view'[k], view[k])
    <3>1. view'[i] = NoContainer /\ \A k \in Ids \ {i} : view'[k] = view[k]
      BY <1>2, <2>3
    <3> QED BY <1>2, <3>1 DEF Live, SameLabels, NoContainer
  <2> QED BY <1>2, <2>1, <2>2, <2>3 DEF Disposes, Drops
<1> QED BY <1>3, <1>4

(* Behind the engine's back.                                               *)
Exits  == \E i \in Ours(box) : Stops(i) /\ box[i].name \in hurt'
Leaves == \E i \in Ours(box) : Drops(i) /\ box[i].name \in hurt'
Squats == /\ Stranger \notin Live(box) /\ Others(Stranger) /\ Stranger \in Live(box')
          /\ ~Managed(box'[Stranger]) /\ Up(box'[Stranger])
          /\ At(box, box'[Stranger].name, box'[Stranger].role) = {}
          /\ box'[Stranger].name \in hurt'

LEMMA OutsideIs ==
    ASSUME TypeOK, Outside
    PROVE  /\ Still /\ UNCHANGED <<memory, cut>>
           /\ Exits \/ Leaves \/ Squats
<1>a. Still /\ UNCHANGED <<memory, cut>>
  BY DEF Outside, Exit, Vanish, Squat, Meddle, Still
<1>1. ASSUME NEW i \in Ids, Exit(i) PROVE Exits
  <2>1. i \in Ours(box) /\ box' = Stopped(i) /\ box[i].name \in hurt'
    BY <1>1 DEF Exit, Ours, Meddle
  <2> QED BY <2>1, StopIs DEF Exits, Ours
<1>2. ASSUME NEW i \in Ids, Vanish(i) PROVE Leaves
  <2>1. i \in Ours(box) /\ box' = Removed(i) /\ box[i].name \in hurt'
    BY <1>2 DEF Vanish, Ours, Meddle
  <2> QED BY <2>1, RemoveIs DEF Leaves
<1>3. ASSUME NEW n \in Names, NEW r \in Roles, Squat(n, r) PROVE Squats
  <2> DEFINE c == [name |-> n, role |-> r, state |-> "running", cand |-> Foreign,
                   nonce |-> 0, dns |-> 0, addr |-> 0]
  <2>1. /\ Stranger \notin Live(box) /\ At(box, n, r) = {} /\ n \in hurt'
        /\ box' = [box EXCEPT ![Stranger] = c]
    BY <1>3 DEF Squat, Meddle
  <2>2. box'[Stranger] = c /\ Others(Stranger)
    BY <2>1, ConstantTypes DEF Others, TypeOK, WorldOK
  <2> QED BY <2>1, <2>2, ConstantTypes DEF Squats, Live, Managed, Up
<1> QED BY <1>a, <1>1, <1>2, <1>3 DEF Outside

-----------------------------------------------------------------------------
(* Where each step starts and where it can lead.                           *)

Loiters == UNCHANGED vars \/ Outside
Takes(A, from, to) == A => pc = from /\ pc' \in to

LEMMA Leads ==
    /\ Takes(Sweep, "sweep", {"debris", "undo", "idle"})
    /\ Takes(ListDebris, "debris", {"clear", "idle"})
    /\ Takes(ClearDebris, "clear", {"clear", "prepare", "idle"})
    /\ Takes(Prepare, "prepare", {"inspect", "idle"})
    /\ Takes(Skip, "inspect", {"inspect", "hooks"})
    /\ Takes(ResolveDNS, "inspect", {"inspect", "rollback"})
    /\ Takes(Inspect, "inspect", {"inspect", "hooks", "record", "rollback"})
    /\ Takes(RecordCreate, "record", {"create", "rollback"})
    /\ Takes(RecordStart, "record", {"start", "rollback"})
    /\ Takes(RecordReplace, "record", {"create", "rollback"})
    /\ Takes(Create, "create", {"backfill", "rollback"})
    /\ Takes(Backfill, "backfill", {"start", "stop", "rollback"})
    /\ Takes(StopOld, "stop", {"retire", "rollback"})
    /\ Takes(RetireOld, "retire", {"swap", "rollback"})
    /\ Takes(SwapIn, "swap", {"start", "rollback"})
    /\ Takes(Start, "start", {"inspect", "hooks", "rollback"})
    /\ Takes(Hooks, "hooks", {"gate", "rollback"})
    /\ Takes(Gate, "gate", {"gate", "rollback"})
    /\ Takes(Commit, "gate", {"debris", "idle"})
    /\ Takes(Rollback, "rollback", {"undo", "idle"})
    /\ Takes(UndoList, "undo", {"undo", "undo-stop"})
    /\ Takes(UndoStop, "undo-stop", {"undo", "undo-park", "undo-drop"})
    /\ Takes(UndoPark, "undo-park", {"undo", "undo-restore"})
    /\ Takes(UndoRestore, "undo-restore", {"undo", "undo-revive", "undo-drop"})
    /\ Takes(UndoRevive, "undo-revive", {"undo", "undo-confirm"})
    /\ Takes(UndoConfirm, "undo-confirm", {"undo", "undo-drop"})
    /\ Takes(UndoDrop, "undo-drop", {"undo"})
    /\ Takes(UndoEnd, "undo", {"erase", "idle"})
    /\ Takes(Erase, "erase", {"debris", "idle"})
    /\ Takes(DownList, "down", {"teardown", "idle"})
    /\ Takes(Teardown, "teardown", {"teardown", "down-erase", "idle"})
    /\ Takes(DownErase, "down-erase", {"idle"})
    /\ Takes(Loiters, pc, {pc})
    /\ Crash => pc' = "idle"
    /\ (\E c \in Cands, force \in BOOLEAN : UpBegin(c, force)) => pc' = "sweep"
    /\ DownBegin => pc' = "down"
<1> USE DEF Takes
<1>1. Takes(Sweep, "sweep", {"debris", "undo", "idle"})
  BY DEF Sweep, Goto, BeginUndo, Rest
<1>2. Takes(ListDebris, "debris", {"clear", "idle"})
  BY DEF ListDebris, Rest
<1>3. Takes(ClearDebris, "clear", {"clear", "prepare", "idle"})
  BY DEF ClearDebris, Dispose, Call, Goto, Rest
<1>4. Takes(Prepare, "prepare", {"inspect", "idle"})
  BY DEF Prepare, Rest
<1>5. Takes(Skip, "inspect", {"inspect", "hooks"})
  BY DEF Skip, Advance
<1>6. Takes(ResolveDNS, "inspect", {"inspect", "rollback"})
  BY DEF ResolveDNS, RollBack, Goto
<1>7. Takes(Inspect, "inspect", {"inspect", "hooks", "record", "rollback"})
  BY DEF Inspect, RollBack, Goto, Advance
<1>8. Takes(RecordCreate, "record", {"create", "rollback"})
  BY DEF RecordCreate, Record, RollBack, Goto
<1>9. Takes(RecordStart, "record", {"start", "rollback"})
  BY DEF RecordStart, Record, RollBack, Goto
<1>10. Takes(RecordReplace, "record", {"create", "rollback"})
  BY DEF RecordReplace, Record, RollBack, Goto
<1>11. Takes(Create, "create", {"backfill", "rollback"})
  BY DEF Create, Call, RollBack, Goto
<1>12. Takes(Backfill, "backfill", {"start", "stop", "rollback"})
  BY DEF Backfill
<1>13. Takes(StopOld, "stop", {"retire", "rollback"})
  BY DEF StopOld, Call, RollBack, Goto
<1>14. Takes(RetireOld, "retire", {"swap", "rollback"})
  BY DEF RetireOld, Call, RollBack, Goto
<1>15. Takes(SwapIn, "swap", {"start", "rollback"})
  BY DEF SwapIn, Call, RollBack, Goto
<1>16. Takes(Start, "start", {"inspect", "hooks", "rollback"})
  BY DEF Start, Call, RollBack, Goto, Advance
<1>17. Takes(Hooks, "hooks", {"gate", "rollback"})
  BY DEF Hooks, RollBack, Goto
<1>18. Takes(Gate, "gate", {"gate", "rollback"})
  BY DEF Gate, RollBack, Goto
<1>19. Takes(Commit, "gate", {"debris", "idle"})
  BY DEF Commit, Rest
<1>20. Takes(Rollback, "rollback", {"undo", "idle"})
  BY DEF Rollback, BeginUndo, Rest
<1>21. Takes(UndoList, "undo", {"undo", "undo-stop"})
  BY DEF UndoList, Refuse, NextEntry
<1>22. Takes(UndoStop, "undo-stop", {"undo", "undo-park", "undo-drop"})
  BY DEF UndoStop, Call, AfterStop, Refuse, Undid, NextEntry, Goto
<1>23. Takes(UndoPark, "undo-park", {"undo", "undo-restore"})
  BY DEF UndoPark, Call, Refuse, NextEntry, Goto
<1>24. Takes(UndoRestore, "undo-restore", {"undo", "undo-revive", "undo-drop"})
  BY DEF UndoRestore, Call, AfterRestore, Refuse, NextEntry, Goto
<1>25. Takes(UndoRevive, "undo-revive", {"undo", "undo-confirm"})
  BY DEF UndoRevive, Call, Refuse, NextEntry, Goto
<1>26. Takes(UndoConfirm, "undo-confirm", {"undo", "undo-drop"})
  BY DEF UndoConfirm, Refuse, NextEntry, Goto
<1>27. Takes(UndoDrop, "undo-drop", {"undo"})
  BY DEF UndoDrop, Call, Refuse, Undid, NextEntry
<1>28. Takes(UndoEnd, "undo", {"erase", "idle"})
  BY DEF UndoEnd, Rest, Goto
<1>29. Takes(Erase, "erase", {"debris", "idle"})
  BY DEF Erase, Rest
<1>30. Takes(DownList, "down", {"teardown", "idle"})
  BY DEF DownList, Rest
<1>31. Takes(Teardown, "teardown", {"teardown", "down-erase", "idle"})
  BY DEF Teardown, Dispose, Call, Goto, Rest
<1>32. Takes(DownErase, "down-erase", {"idle"})
  BY DEF DownErase, Rest
<1>33. Takes(Loiters, pc, {pc})
  BY DEF Loiters, Outside, Exit, Vanish, Squat, Meddle, memory, vars
<1>34. /\ Crash => pc' = "idle"
       /\ (\E c \in Cands, force \in BOOLEAN : UpBegin(c, force)) => pc' = "sweep"
       /\ DownBegin => pc' = "down"
  BY DEF Crash, Rest, UpBegin, DownBegin
<1> QED
  BY <1>1, <1>2, <1>3, <1>4, <1>5, <1>6, <1>7, <1>8, <1>9, <1>10, <1>11, <1>12,
     <1>13, <1>14, <1>15, <1>16, <1>17, <1>18, <1>19, <1>20, <1>21, <1>22, <1>23,
     <1>24, <1>25, <1>26, <1>27, <1>28, <1>29, <1>30, <1>31, <1>32, <1>33, <1>34

LEMMA Arrives ==
    ASSUME [Next]_vars, ~Loiters
    PROVE  /\ pc' = "prepare" => ClearDebris
           /\ pc' = "clear" => ListDebris \/ ClearDebris
           /\ pc' = "inspect" => Prepare \/ Skip \/ ResolveDNS \/ Inspect \/ Start
           /\ pc' = "record" => Inspect
           /\ pc' = "create" => RecordCreate \/ RecordReplace
           /\ pc' = "backfill" => Create
           /\ pc' = "stop" => Backfill
           /\ pc' = "retire" => StopOld
           /\ pc' = "swap" => RetireOld
           /\ pc' = "start" => RecordStart \/ Backfill \/ SwapIn
           /\ pc' = "hooks" => Skip \/ Inspect \/ Start
           /\ pc' = "gate" => Hooks \/ Gate
           /\ pc' = "undo" => \/ Sweep \/ Rollback \/ UndoList \/ UndoStop \/ UndoPark
                              \/ UndoRestore \/ UndoRevive \/ UndoConfirm \/ UndoDrop
           /\ pc' = "undo-stop" => UndoList
           /\ pc' = "undo-park" => UndoStop
           /\ pc' = "undo-restore" => UndoPark
           /\ pc' = "undo-revive" => UndoRestore
           /\ pc' = "undo-confirm" => UndoRevive
           /\ pc' = "undo-drop" => UndoStop \/ UndoRestore \/ UndoConfirm
           /\ pc' = "erase" => UndoEnd
           /\ pc' = "teardown" => DownList \/ Teardown
           /\ pc' = "down-erase" => Teardown
           /\ pc' = "debris" => Sweep \/ Commit \/ Erase
           /\ pc' = "rollback" => \/ ResolveDNS \/ Inspect \/ RecordCreate \/ RecordStart
                                  \/ RecordReplace \/ Create \/ Backfill \/ StopOld
                                  \/ RetireOld \/ SwapIn \/ Start \/ Hooks \/ Gate
<1> USE Leads DEF Takes
<1>1. CASE Begin
  BY <1>1 DEF Begin
<1>2. CASE Reconcile
  BY <1>2 DEF Reconcile
<1>3. CASE Undo
  BY <1>3 DEF Undo
<1>4. CASE Sweep \/ ListDebris \/ ClearDebris \/ DownList \/ Teardown \/ DownErase \/ Crash
  BY <1>4
<1> QED BY <1>1, <1>2, <1>3, <1>4 DEF Next, Work, Loiters

-----------------------------------------------------------------------------
(* What each kind of step leaves alone.                                    *)

Records == RecordCreate \/ RecordStart \/ RecordReplace
Touches == StopOld \/ RetireOld \/ SwapIn \/ Start \/ UndoStop \/ UndoPark
           \/ UndoRestore \/ UndoRevive \/ UndoDrop \/ ClearDebris \/ Teardown
Forgets == tx' \in {tx, NoJournal} /\ (job'.phase = "txn" => job.phase = "txn")
Calm    == /\ Still /\ box' = box /\ tx' \in {tx, disk, NoJournal}
           /\ job'.phase = "txn" => job.phase = "txn"

LEMMA TouchForgets ==
    ASSUME TypeOK, Touches \/ Loiters
    PROVE  Still /\ Forgets
<1> USE DEF Still, Forgets, history
<1>1. CASE StopOld \/ RetireOld \/ SwapIn
  BY <1>1 DEF StopOld, RetireOld, SwapIn, Call, Goto, RollBack
<1>2. CASE Start
  BY <1>2 DEF Start, Call, Goto, RollBack, Advance
<1>3. CASE UndoStop
  BY <1>3 DEF UndoStop, AfterStop, Call, Goto, Refuse, Undid, NextEntry
<1>4. CASE UndoPark
  BY <1>4 DEF UndoPark, Call, Goto, Refuse, Undid, NextEntry
<1>5. CASE UndoRestore
  BY <1>5 DEF UndoRestore, AfterRestore, Call, Goto, Refuse, Undid, NextEntry
<1>6. CASE UndoRevive \/ UndoDrop
  BY <1>6 DEF UndoRevive, UndoDrop, Call, Goto, Refuse, Undid, NextEntry
<1>7. CASE ClearDebris
  BY <1>7 DEF ClearDebris, Dispose, Call, Goto, Rest, NoJob
<1>8. CASE Teardown
  BY <1>8 DEF Teardown, Dispose, Call, Goto, Rest, NoJob
<1>9. CASE Loiters
  BY <1>9 DEF Loiters, Outside, Exit, Vanish, Squat, Meddle, memory, vars, docker
<1> QED BY <1>1, <1>2, <1>3, <1>4, <1>5, <1>6, <1>7, <1>8, <1>9 DEF Touches

LEMMA CloseForgets ==
    ASSUME TypeOK, Closes
    PROVE  /\ UNCHANGED <<box, minted, nonce, base>>
           /\ disk' \in {disk, NoJournal} /\ tx' = NoJournal
           /\ job'.phase # "txn"
<1>1. /\ [job EXCEPT !.phase = "done"].phase = "done"
      /\ disk = NoJournal \/ disk # NoJournal
  BY DEF TypeOK, MemoryOK, Job
<1> USE DEF history, docker, NoJob, Rest
<1>2. CASE Commit
  <2>1. job'.phase # "txn" /\ tx' = NoJournal /\ disk' \in {disk, NoJournal}
    <3>1. CASE job' = [job EXCEPT !.phase = "done"] /\ tx' = NoJournal
               /\ disk' = IF written THEN NoJournal ELSE disk
      BY <1>1, <3>1
    <3>2. CASE disk' \in {disk, NoJournal} /\ Rest
      BY <3>2
    <3> QED BY <1>2, <3>1, <3>2 DEF Commit
  <2> QED BY <1>2, <2>1 DEF Commit
<1>3. CASE Erase
  <2>1. job.phase = "sweep" \/ job'.phase = "none"
    BY <1>3 DEF Erase
  <2> QED BY <1>3, <2>1 DEF Erase
<1>4. CASE DownErase
  BY <1>4 DEF DownErase
<1> QED BY <1>2, <1>3, <1>4 DEF Closes

LEMMA StepKinds ==
    ASSUME TypeOK, [Next]_vars
    PROVE  \/ Calm \/ Prepare \/ Records \/ Create \/ Backfill
           \/ Touches \/ Closes \/ Loiters
<1> USE DEF Calm, Still, history, docker
<1>a. \A a : [job EXCEPT !.ip = a].phase = job.phase
  BY DEF TypeOK, MemoryOK, Job
<1>1. CASE Begin
  <2>1. job'.phase # "txn"
    BY <1>1 DEF Begin, UpBegin, DownBegin, NoJob
  <2> QED BY <1>1, <2>1 DEF Begin, UpBegin, DownBegin
<1>2. CASE Sweep
  BY <1>2 DEF Sweep, Goto, BeginUndo, Rest, NoJob
<1>3. CASE ListDebris \/ DownList
  BY <1>3 DEF ListDebris, DownList, Rest, NoJob
<1>4. CASE Skip
  BY <1>4 DEF Skip, Advance
<1>5. CASE ResolveDNS
  <2>1. job'.phase = job.phase /\ tx' = tx
    BY <1>5, <1>a DEF ResolveDNS, RollBack, Goto
  <2> QED BY <1>5, <2>1 DEF ResolveDNS
<1>6. CASE Inspect
  BY <1>6 DEF Inspect, RollBack, Goto, Advance
<1>7. CASE Hooks \/ Gate
  BY <1>7 DEF Hooks, Gate, RollBack, Goto
<1>8. CASE Rollback
  BY <1>8 DEF Rollback, BeginUndo, Rest, NoJob
<1>9. CASE UndoList \/ UndoConfirm
  BY <1>9 DEF UndoList, UndoConfirm, Refuse, NextEntry, Goto
<1>10. CASE UndoEnd
  BY <1>10 DEF UndoEnd, Rest, NoJob, Goto
<1>11. CASE Crash
  BY <1>11 DEF Crash, Rest, NoJob
<1> QED
  BY <1>1, <1>2, <1>3, <1>4, <1>5, <1>6, <1>7, <1>8, <1>9, <1>10, <1>11
  DEF Next, Work, Reconcile, Undo, Touches, Closes, Loiters, Records

-----------------------------------------------------------------------------
(* The entry at hand, going forward and going back.                        *)

LEMMA LastFacts ==
    ASSUME IInv, pc \in OnEntry
    PROVE  /\ Len(tx.entries) \in Ks(tx) /\ Len(tx.entries) = Len(disk.entries)
           /\ Last \in Entry /\ Last.name = cur /\ cur \in Names
           /\ Ks(tx) = Ks(disk)
           /\ LET d == disk.entries[Len(tx.entries)]
              IN  d \in Entry /\ d.name = cur /\ d.kind = Last.kind /\ d.id = Last.id
           /\ NewId(Last)
           /\ nonce > 0 /\ tx.nonce = nonce /\ tx.cand = job.cand
           /\ disk # NoJournal /\ disk.nonce = nonce /\ disk.cand = job.cand
           /\ job.phase = "txn" /\ job.cand \in Cands
<1> USE DEF IInv, Core
<1>1. /\ pc \in Forward /\ job.phase = "txn" /\ job.cand \in Cands
      /\ written /\ disk # NoJournal /\ disk.nonce = nonce /\ nonce > 0
      /\ tx.nonce = nonce /\ tx.cand = job.cand /\ disk.cand = tx.cand
  BY DEF OnEntry, Forward, PhaseInv, JournalInv
<1>2. Len(tx.entries) \in 1 .. cur /\ cur \in Names /\ Last.name = cur
  BY DEF CursorInv, LastInv
<1>3. tx \in Journal /\ disk \in Journal
  BY DEF TypeOK, WorldOK, MemoryOK
<1>4. tx.entries \in Seq(Entry) /\ disk.entries \in Seq(Entry)
  BY <1>3 DEF Journal
<1>5. Len(tx.entries) \in Nat /\ Len(tx.entries) = Len(disk.entries)
  BY <1>1, <1>4 DEF MirrorInv, SameShape
<1>6. Len(tx.entries) \in Ks(tx) /\ Ks(tx) = Ks(disk)
  BY <1>2, <1>5 DEF Ks
<1>7. Last \in Entry /\ disk.entries[Len(tx.entries)] \in Entry
  BY <1>4, <1>5, <1>6 DEF Last, Ks
<1>8. NewId(Last) /\ LET d == disk.entries[Len(tx.entries)]
                     IN  d.name = Last.name /\ d.kind = Last.kind /\ d.id = Last.id
  BY <1>6 DEF World, TxInv, Last
<1> QED BY <1>1, <1>2, <1>5, <1>6, <1>7, <1>8

LEMMA UndoneFacts ==
    ASSUME IInv, pc \in AtEntry \/ (pc = "undo" /\ cur > 0)
    PROVE  /\ cur \in Ks(tx) /\ cur \in Ks(disk)
           /\ Undone \in Entry /\ Undone.name \in Names
           /\ LET d == disk.entries[cur]
              IN  d \in Entry /\ d.name = Undone.name /\ d.kind = Undone.kind
           /\ Undone.kind # "create" =>
                 Undone.id \in base[Undone.name].ids /\ Undone.id # Stranger
           /\ Undone.kind = "create" => Undone.id = 0
           /\ Undone.name \in Desired[disk.cand] /\ NewId(Undone)
           /\ nonce > 0 /\ tx.nonce = nonce /\ tx.cand = disk.cand
           /\ disk # NoJournal /\ disk.nonce = nonce
           /\ pc \in Undoing
<1> USE DEF IInv, Core
<1>1. pc \in Undoing
  BY DEF AtEntry, Undoing
<1>2. /\ disk # NoJournal /\ disk.nonce = nonce /\ nonce > 0
      /\ tx.nonce = nonce /\ tx.cand = disk.cand
  BY <1>1 DEF PhaseInv, JournalInv
<1>3. tx.entries \in Seq(Entry) /\ disk.entries \in Seq(Entry)
  BY DEF TypeOK, WorldOK, MemoryOK, Journal
<1>4. cur \in Ks(tx) /\ Len(tx.entries) <= Len(disk.entries)
      /\ Len(tx.entries) \in Nat /\ Len(disk.entries) \in Nat
  <2>1. cur \in Nat
    BY BoundsAssumption DEF TypeOK, MemoryOK
  <2> QED BY <1>3, <2>1 DEF CursorInv, Ks, World, TxInv
<1>5. cur \in Ks(disk)
  BY <1>4 DEF Ks
<1>6. Undone \in Entry /\ disk.entries[cur] \in Entry
  BY <1>3, <1>4, <1>5 DEF Undone, Ks
<1>9. Undone.name \in Names
  BY <1>6 DEF Entry
<1>7. /\ NewId(Undone)
      /\ LET d == disk.entries[cur]
         IN  d.name = Undone.name /\ d.kind = Undone.kind /\ d.id = Undone.id
  BY <1>4 DEF World, TxInv, Undone
<1>8. LET d == disk.entries[cur]
      IN  /\ d.name \in Desired[disk.cand]
          /\ d.kind # "create" => d.id \in base[d.name].ids /\ d.id # Stranger
          /\ d.kind = "create" => d.id = 0
  BY <1>5 DEF World, EntriesInv
<1> QED BY <1>1, <1>2, <1>4, <1>5, <1>6, <1>7, <1>8, <1>9

LEMMA MineFacts ==
    ASSUME IInv, pc \in AtEntry
    PROVE  /\ Mine \subseteq Ids
           /\ \A i \in Mine : \A k \in Mine : k = i
           /\ \A i \in Mine \cap Live(box) :
                 /\ i \in Ours(box) /\ box[i].name = Undone.name
                 /\ Undone.kind # "start" => New(box[i])
                 /\ Undone.kind = "start" => i = Undone.id /\ ~New(box[i])
<1> USE DEF IInv, Core
<1>1. \A i \in Mine : /\ \A k \in Mine : k = i
                      /\ i \in Live(view) /\ i # Stranger /\ view[i].name = Undone.name
                      /\ Undone.kind # "start" => New(view[i])
                      /\ Undone.kind = "start" => i = Undone.id
  BY DEF Backward, ListedInv
<1>2. ASSUME NEW i \in Mine \cap Live(box)
      PROVE  /\ i \in Ours(box) /\ box[i].name = Undone.name
             /\ Undone.kind # "start" => New(box[i])
             /\ Undone.kind = "start" => i = Undone.id /\ ~New(box[i])
  <2>1. i \in Ours(box)
    BY <1>1, <1>2 DEF IdsInv, Ours
  <2>2. SameLabels(view[i], box[i])
    BY <2>1 DEF Backward, FreshInv
  <2>3. Undone.kind = "start" => ~New(box[i])
    <3> SUFFICES ASSUME Undone.kind = "start" PROVE ~New(box[i])
      OBVIOUS
    <3>1. i = Undone.id /\ Undone.id \in base[Undone.name].ids /\ nonce > 0 /\ i # Stranger
          /\ Undone.name \in Names
      BY <1>1, <1>2, UndoneFacts
    <3> QED BY <1>2, <3>1 DEF World, BaseInv
  <2> QED BY <1>1, <2>1, <2>2, <2>3 DEF SameLabels, New
<1> QED BY <1>1, <1>2 DEF Live

(* The container an action going forward is about.                         *)
LEMMA FoundFacts ==
    ASSUME IInv, pc \in OnEntry, Last.kind # "create"
    PROVE  /\ Last.id \in Live(view) /\ Last.id # Stranger /\ Last.id \in base[cur].ids
           /\ Live(view) # {}
           /\ Last.id \in Live(box) =>
                 Last.id \in Ours(box) /\ box[Last.id].name = cur /\ ~New(box[Last.id])
<1> USE DEF IInv, Core
<1>1. Last.id \in Live(view)
  BY DEF Onward, AtHandInv
<1>2. Last.id # Stranger /\ view[Last.id].name = cur /\ Last.id \in base[cur].ids
      /\ (Last.id \in Live(box) => SameLabels(box[Last.id], view[Last.id]))
  BY <1>1 DEF Onward, SeenInv
<1>3. Last.id \in Live(box) => ~New(box[Last.id])
  BY <1>2, LastFacts DEF World, BaseInv
<1> QED BY <1>1, <1>2, <1>3 DEF SameLabels, Ours, IdsInv

LEMMA MadeFacts ==
    ASSUME IInv, pc \in OnEntry, Last.new \in Live(box), Last.new # 0
    PROVE  /\ Last.new \in Ours(box) /\ box[Last.new].name = cur /\ New(box[Last.new])
           /\ Last.new # Stranger
<1> USE DEF IInv, Core
<1>1. Last.new <= minted /\ New(box[Last.new]) /\ box[Last.new].name = cur
  BY LastFacts DEF NewId
<1>2. Last.new # Stranger
  BY <1>1, BoundsAssumption DEF TypeOK, WorldOK, Stranger
<1> QED BY <1>1, <1>2 DEF Ours, IdsInv

-----------------------------------------------------------------------------
(* What happens to a container, and in which circumstances.                *)

Retires(i)  == /\ pc = "retire" /\ i = Last.id /\ Moves(i, "prev") /\ i \in Ours(box)
               /\ ~New(box[i]) /\ ~Up(box[i]) /\ InDisk(box[i].name, "replace")
SwapsIn(i)  == /\ pc = "swap" /\ i = Last.new /\ Moves(i, "canonical") /\ i \in Ours(box)
               /\ New(box[i]) /\ InDisk(box[i].name, "replace")
Parks(i)    == /\ pc = "undo-park" /\ i \in Mine /\ Moves(i, "next") /\ i \in Ours(box)
               /\ New(box[i]) /\ ~Up(box[i]) /\ InDisk(box[i].name, "replace")
Restores(i) == /\ pc = "undo-restore" /\ i = Undone.id /\ Moves(i, "canonical")
               /\ i \in Ours(box) /\ ~New(box[i])
Starts(i)   == /\ pc = "start" /\ i = Begun /\ Runs(i) /\ i \in Ours(box)
               /\ box[i].role = "canonical"
Revives(i)  == /\ pc = "undo-revive" /\ i = Undone.id /\ Runs(i) /\ i \in Ours(box)
               /\ box[i].role = "canonical"
StopsOld(i)  == /\ pc = "stop" /\ i = Last.id /\ Stops(i)
                /\ i \in Ours(box) /\ ~New(box[i])
UndoStops(i) == /\ pc = "undo-stop" /\ i \in Mine /\ Stops(i) /\ i \in Ours(box)
UndoDrops(i) == /\ pc = "undo-drop" /\ i \in Mine /\ Drops(i)
                /\ i \in Live(box) => i \in Ours(box) /\ New(box[i])
Acts(i)      == \/ StopsOld(i) \/ Retires(i) \/ SwapsIn(i) \/ Starts(i) \/ UndoStops(i)
                \/ Parks(i) \/ Restores(i) \/ Revives(i) \/ UndoDrops(i)

LEMMA Acted ==
    ASSUME IInv, Touches \/ Loiters
    PROVE  \/ box' = box
           \/ \E i \in Ids : Acts(i)
           \/ (ClearDebris \/ Teardown) /\ Disposes
           \/ Exits \/ Leaves \/ Squats
<1>a. TypeOK /\ Live(box) \subseteq Ids /\ Live(view) \subseteq Ids /\ Ours(box) \subseteq Ids
  BY DEF IInv, Core, Live, Ours
<1>b. \A i : (Stops(i) => i \in Ids) /\ (Drops(i) => i \in Ids)
             /\ (Runs(i) => i \in Live(box)) /\ \A r : (Moves(i, r) => i \in Live(box))
  BY <1>a DEF Stops, Drops, Runs, Moves, Stays
<1>1. CASE StopOld
  <2>1. pc = "stop" /\ (box' = box \/ Stops(Last.id))
    BY <1>1, <1>a, StopOldIs
  <2>2. pc \in OnEntry /\ Last.kind = "replace"
    BY <2>1 DEF OnEntry, IInv, Onward, AtHandInv
  <2>3. ASSUME Stops(Last.id) PROVE StopsOld(Last.id)
    <3>1. Last.id \in Live(box)
      BY <2>3 DEF Stops, Stays
    <3> QED BY <2>1, <2>2, <2>3, <3>1, FoundFacts DEF StopsOld
  <2> QED BY <1>a, <1>b, <2>1, <2>3 DEF Acts
<1>2. CASE RetireOld
  <2>1. pc = "retire" /\ (box' = box \/ Moves(Last.id, "prev"))
    BY <1>2, <1>a, RetireOldIs
  <2>2. pc \in OnEntry /\ Last.kind = "replace"
    BY <2>1 DEF OnEntry, IInv, Onward, AtHandInv
  <2>3. ASSUME Moves(Last.id, "prev") PROVE Retires(Last.id)
    <3>1. Last.id \in Live(box)
      BY <2>3, <1>b
    <3>2. Last.id \in Ours(box) /\ box[Last.id].name = cur /\ ~New(box[Last.id])
      BY <2>2, <3>1, FoundFacts
    <3>3. ~Up(box[Last.id])
      BY <2>1, <2>2, <3>1 DEF IInv, Onward, FoundInv
    <3>4. InDisk(cur, "replace")
      BY <2>2, LastFacts DEF InDisk
    <3> QED BY <2>1, <2>3, <3>2, <3>3, <3>4 DEF Retires
  <2> QED BY <1>a, <2>1, <2>3, <1>b DEF Acts
<1>3. CASE SwapIn
  <2>1. pc = "swap" /\ (box' = box \/ Moves(Last.new, "canonical"))
    BY <1>3, <1>a, SwapInIs
  <2>2. pc \in OnEntry /\ Last.kind = "replace" /\ Last.new # 0
    BY <2>1 DEF OnEntry, IInv, Onward, AtHandInv
  <2>3. ASSUME Moves(Last.new, "canonical") PROVE SwapsIn(Last.new)
    <3>2. Last.new \in Ours(box) /\ box[Last.new].name = cur /\ New(box[Last.new])
      BY <2>2, <2>3, <1>b, MadeFacts
    <3>4. InDisk(cur, "replace")
      BY <2>2, LastFacts DEF InDisk
    <3> QED BY <2>1, <2>3, <3>2, <3>4 DEF SwapsIn
  <2> QED BY <1>a, <2>1, <2>3, <1>b DEF Acts
<1>4. CASE Start
  <2>1. pc = "start" /\ (box' = box \/ Runs(Begun))
    BY <1>4, <1>a, StartOldIs
  <2>2. pc \in OnEntry
    BY <2>1 DEF OnEntry
  <2>3. ASSUME Runs(Begun) PROVE Starts(Begun)
    <3>1. Begun \in Live(box)
      BY <2>3, <1>b
    <3>2. CASE Last.kind = "start"
      <4>1. Begun = Last.id /\ Last.id \in Ours(box)
        BY <2>2, <3>1, <3>2, FoundFacts DEF Begun
      <4>2. box[Last.id].role = "canonical"
        BY <2>1, <3>1, <3>2, <4>1 DEF IInv, Onward, FoundInv
      <4> QED BY <2>1, <2>3, <4>1, <4>2 DEF Starts
    <3>3. CASE Last.kind # "start"
      <4>1. Begun = Last.new /\ Last.new # 0
        BY <2>1, <2>2, <3>3 DEF Begun, IInv, Onward, AtHandInv
      <4>2. Last.new \in Ours(box) /\ box[Last.new].name = cur /\ New(box[Last.new])
        BY <2>2, <3>1, <4>1, MadeFacts
      <4>3. box[Last.new].role = "canonical"
        BY <2>1, <4>2 DEF IInv, Onward, MadeInv
      <4> QED BY <2>1, <2>3, <4>1, <4>2, <4>3 DEF Starts
    <3> QED BY <3>2, <3>3
  <2> QED BY <1>a, <2>1, <2>3, <1>b DEF Acts
<1>5. CASE UndoStop
  <2>1. pc = "undo-stop" /\ (box' = box \/ \E i \in Mine : Stops(i))
    BY <1>5, <1>a, UndoStopIs
  <2>2. ASSUME NEW i \in Mine, Stops(i) PROVE UndoStops(i)
    <3>1. i \in Mine \cap Live(box) /\ pc \in AtEntry
      BY <2>1, <2>2 DEF Stops, Stays, AtEntry
    <3> QED BY <2>1, <2>2, <3>1, MineFacts DEF UndoStops
  <2> QED BY <1>b, <2>1, <2>2 DEF Acts
<1>6. CASE UndoPark
  <2>1. pc = "undo-park" /\ (box' = box \/ \E i \in Mine : Moves(i, "next"))
    BY <1>6, <1>a, UndoParkIs
  <2>2. pc \in AtEntry /\ Undone.kind = "replace"
    BY <2>1 DEF AtEntry, IInv, Core, LastInv
  <2>3. ASSUME NEW i \in Mine, Moves(i, "next") PROVE Parks(i)
    <3>1. i \in Mine \cap Live(box)
      BY <2>3, <1>b
    <3>2. i \in Ours(box) /\ New(box[i]) /\ box[i].name = Undone.name
      BY <2>2, <3>1, MineFacts
    <3>3. ~Up(box[i])
      BY <2>1, <2>2, <3>1 DEF IInv, Backward, UndoInv
    <3>4. InDisk(Undone.name, "replace")
      BY <2>2, UndoneFacts DEF InDisk
    <3> QED BY <2>1, <2>3, <3>2, <3>3, <3>4 DEF Parks
  <2> QED BY <1>a, <2>1, <2>3, <1>b DEF Acts
<1>7. CASE UndoRestore
  <2>1. pc = "undo-restore" /\ (box' = box \/ Moves(Undone.id, "canonical"))
    BY <1>7, <1>a, UndoRestoreIs
  <2>2. pc \in AtEntry /\ Undone.kind = "replace"
    BY <2>1 DEF AtEntry, IInv, Core, LastInv
  <2>3. ASSUME Moves(Undone.id, "canonical") PROVE Restores(Undone.id)
    <3>1. Undone.id \in Live(box)
      BY <2>3, <1>b
    <3>2. ~New(box[Undone.id]) /\ Undone.id # Stranger
      <4>1. /\ Undone.id \in base[Undone.name].ids /\ nonce > 0 /\ Undone.id # Stranger
            /\ Undone.name \in Names
        BY <2>2, UndoneFacts
      <4> QED BY <3>1, <4>1 DEF IInv, World, BaseInv
    <3> QED BY <2>1, <2>3, <3>1, <3>2 DEF Restores, Ours, IInv, Core, IdsInv
  <2> QED BY <1>a, <2>1, <2>3, <1>b DEF Acts
<1>8. CASE UndoRevive
  <2>1. pc = "undo-revive" /\ (box' = box \/ Runs(Undone.id))
    BY <1>8, <1>a, UndoReviveIs
  <2>2. pc \in AtEntry /\ Undone.kind = "replace"
    BY <2>1 DEF AtEntry, IInv, Core, LastInv
  <2>3. ASSUME Runs(Undone.id) PROVE Revives(Undone.id)
    <3>1. Undone.id \in Live(box)
      BY <2>3, <1>b
    <3>2. Undone.id # Stranger
      BY <2>2, UndoneFacts
    <3>3. box[Undone.id].role = "canonical"
      BY <2>1, <2>2, <3>1 DEF IInv, Backward, UndoInv
    <3> QED BY <2>1, <2>3, <3>1, <3>2, <3>3 DEF Revives, Ours, IInv, Core, IdsInv
  <2> QED BY <1>a, <2>1, <2>3, <1>b DEF Acts
<1>9. CASE UndoDrop
  <2>1. pc = "undo-drop" /\ pc \in AtEntry /\ Undone.kind # "start"
    BY <1>9 DEF UndoDrop, AtEntry, IInv, Core, LastInv
  <2>2. box' = box \/ \E i \in Mine : Drops(i)
    BY <1>9, <2>1, <1>a, UndoDropIs, MineFacts DEF TypeOK
  <2>3. ASSUME NEW i \in Mine, Drops(i) PROVE UndoDrops(i)
    BY <2>1, <2>3, MineFacts DEF UndoDrops
  <2> QED BY <1>b, <2>2, <2>3 DEF Acts
<1>10. CASE ClearDebris \/ Teardown
  BY <1>10, <1>a, DisposeIs DEF ClearDebris, Teardown
<1>11. CASE Loiters
  BY <1>11, <1>a, OutsideIs DEF Loiters, vars, docker
<1> QED BY <1>1, <1>2, <1>3, <1>4, <1>5, <1>6, <1>7, <1>8, <1>9, <1>10, <1>11 DEF Touches

LEMMA Touched ==
    ASSUME IInv, Touches \/ Loiters
    PROVE  \/ box' = box
           \/ \E i \in Ids : \/ Stops(i) \/ Drops(i) \/ Retires(i) \/ SwapsIn(i)
                             \/ Parks(i) \/ Restores(i) \/ Starts(i) \/ Revives(i)
           \/ Squats
<1>1. Live(view) \subseteq Ids /\ Ours(box) \subseteq Ids
  BY DEF Live, Ours
<1>2. (\E i \in Ids : Acts(i)) => \E i \in Ids : \/ Stops(i) \/ Drops(i) \/ Retires(i)
                             \/ SwapsIn(i) \/ Parks(i) \/ Restores(i) \/ Starts(i)
                             \/ Revives(i)
  BY DEF Acts, StopsOld, UndoStops, UndoDrops
<1> QED BY <1>1, <1>2, Acted DEF Disposes, Exits, Leaves

(* ... and seen from the containers that are still there.                  *)
Kept(k) == /\ k \in Ours(box) /\ SameLabels(box'[k], box[k])
           /\ \/ box'[k].role = box[k].role
              \/ Retires(k) \/ SwapsIn(k) \/ Parks(k) \/ Restores(k)
           /\ Up(box'[k]) => Up(box[k]) \/ Starts(k) \/ Revives(k)

LEMMA TouchedOurs ==
    ASSUME IInv, Touches \/ Loiters
    PROVE  \A k \in Ours(box') : Kept(k)
<1>1. ASSUME NEW k \in Ours(box'), box'[k] = box[k] PROVE Kept(k)
  BY <1>1 DEF Ours, Live, SameLabels, Kept
<1>2. ASSUME NEW i \in Ids, Stays(i), box'[i].role = box[i].role, i \in Ours(box'),
             Up(box'[i]) => Up(box[i]) \/ Starts(i) \/ Revives(i)
      PROVE  Kept(i)
  BY <1>2 DEF Stays, Ours, SameLabels, Managed, Kept
<1>3. ASSUME NEW i \in Ids, Stays(i), Up(box'[i]) <=> Up(box[i]), i \in Ours(box'),
             Retires(i) \/ SwapsIn(i) \/ Parks(i) \/ Restores(i)
      PROVE  Kept(i)
  BY <1>3 DEF Stays, Ours, SameLabels, Managed, Kept
<1>4. ASSUME NEW i \in Ids, Others(i), i \in Ours(box') => Kept(i)
      PROVE  \A k \in Ours(box') : Kept(k)
  BY <1>1, <1>4 DEF Others, Ours, Live
<1>5. CASE box' = box
  BY <1>1, <1>5
<1>6. ASSUME NEW i \in Ids, Stops(i) PROVE \A k \in Ours(box') : Kept(k)
  BY <1>2, <1>4, <1>6 DEF Stops
<1>7. ASSUME NEW i \in Ids, Drops(i) PROVE \A k \in Ours(box') : Kept(k)
  BY <1>4, <1>7 DEF Drops, Ours
<1>8. ASSUME NEW i \in Ids, Retires(i) \/ SwapsIn(i) \/ Parks(i) \/ Restores(i)
      PROVE  \A k \in Ours(box') : Kept(k)
  <2>1. Others(i) /\ Stays(i) /\ (Up(box'[i]) <=> Up(box[i]))
    BY <1>8 DEF Retires, SwapsIn, Parks, Restores, Moves
  <2> QED BY <1>3, <1>4, <1>8, <2>1
<1>9. ASSUME NEW i \in Ids, Starts(i) \/ Revives(i) PROVE \A k \in Ours(box') : Kept(k)
  <2>1. Others(i) /\ Stays(i) /\ box'[i].role = box[i].role
    BY <1>9 DEF Starts, Revives, Runs
  <2> QED BY <1>2, <1>4, <1>9, <2>1
<1>10. CASE Squats
  BY <1>4, <1>10, ConstantTypes DEF Squats, Ours
<1> QED BY <1>5, <1>6, <1>7, <1>8, <1>9, <1>10, Touched

-----------------------------------------------------------------------------
(* The world: names, generations and the journal.                          *)

LEMMA UniqueStep ==
    ASSUME IInv, [Next]_vars PROVE Unique'
<1>a. TypeOK /\ Unique /\ IdsInv
  BY DEF IInv, Core, World
<1>1. CASE box' = box
  BY <1>1, <1>a DEF Unique, Live
<1>2. ASSUME NEW i \in Ids, Others(i), i \in Live(box),
             box'[i].name = box[i].name, box'[i].role = box[i].role
      PROVE  Unique'
  BY <1>2, <1>a DEF Unique, Others, Live
<1>3. ASSUME NEW i \in Ids, Drops(i) PROVE Unique'
  BY <1>3, <1>a DEF Unique, Drops, Others, Live
<1>4. ASSUME NEW i \in Ids, Others(i), At(box, box'[i].name, box'[i].role) \subseteq {i}
      PROVE  Unique'
  BY <1>4, <1>a DEF Unique, Others, Live, At
<1>5. ASSUME NEW i, NEW r, Moves(i, r) PROVE Unique'
  <2>1. i \in Ids /\ box'[i].name = box[i].name
    BY <1>5 DEF Moves, Stays, Live, SameLabels
  <2> QED BY <1>4, <1>5, <2>1 DEF Moves
<1>6. ASSUME NEW i, Stops(i) \/ Runs(i) PROVE Unique'
  <2>1. i \in Ids /\ i \in Live(box) /\ box'[i].name = box[i].name
    BY <1>6 DEF Stops, Runs, Stays, Live, SameLabels
  <2> QED BY <1>2, <1>6, <2>1 DEF Stops, Runs
<1>7. CASE Create
  BY <1>1, <1>4, <1>7, <1>a, CreateIs DEF Adds
<1>8. CASE Touches \/ Loiters
  BY <1>1, <1>3, <1>4, <1>5, <1>6, <1>8, Touched, ConstantTypes
  DEF Retires, SwapsIn, Parks, Restores, Starts, Revives, Squats
<1>9. CASE Calm \/ Prepare \/ Records \/ Backfill \/ Closes
  <2>1. box' = box
    BY <1>9, <1>a, CloseForgets
    DEF Calm, Prepare, Records, RecordCreate, RecordStart, RecordReplace, Backfill, docker
  <2> QED BY <1>1, <2>1
<1> QED BY <1>7, <1>8, <1>9, <1>a, StepKinds

LEMMA AsideStep ==
    ASSUME IInv, [Next]_vars PROVE Aside'
<1>a. TypeOK /\ Aside /\ IdsInv
  BY DEF IInv, Core, World
<1>1. CASE box' = box
  BY <1>1, <1>a DEF Aside, Ours, Live
<1>2. CASE Create
  <2>1. CASE Adds
    BY <1>a, <2>1 DEF Adds, Others, Aside, Ours, Live
  <2> QED BY <1>1, <1>2, <1>a, <2>1, CreateIs
<1>3. CASE Touches \/ Loiters
  <2> SUFFICES ASSUME NEW k \in Ours(box'), Up(box'[k]) PROVE box'[k].role = "canonical"
    BY DEF Aside
  <2>1. k \in Ours(box) /\ (Up(box[k]) \/ Starts(k) \/ Revives(k))
    BY <1>3, TouchedOurs DEF Kept
  <2>2. box[k].role = "canonical"
    BY <1>a, <2>1 DEF Aside, Starts, Revives
  <2>3. CASE box'[k].role = box[k].role
    BY <2>2, <2>3
  <2>4. CASE Retires(k) \/ Parks(k)
    BY <2>4 DEF Retires, Parks, Moves
  <2>5. CASE SwapsIn(k) \/ Restores(k)
    BY <2>5 DEF SwapsIn, Restores, Moves
  <2> QED BY <1>3, <2>3, <2>4, <2>5, TouchedOurs DEF Kept
<1>4. CASE Calm \/ Prepare \/ Records \/ Backfill \/ Closes
  <2>1. box' = box
    BY <1>4, <1>a, CloseForgets
    DEF Calm, Prepare, Records, RecordCreate, RecordStart, RecordReplace, Backfill, docker
  <2> QED BY <1>1, <2>1
<1> QED BY <1>2, <1>3, <1>4, <1>a, StepKinds

(* Opening a transaction.                                                  *)
LEMMA PrepareIs ==
    ASSUME Prepare
    PROVE  /\ pc = "prepare" /\ UNCHANGED <<box, minted, disk>>
           /\ \/ /\ nonce' = nonce + 1 /\ base' = Topology(box)
                 /\ tx' = [nonce |-> nonce + 1, cand |-> job.cand, entries |-> <<>>]
                 /\ pc' = "inspect" /\ cur' = 1 /\ job' = [job EXCEPT !.phase = "txn"]
                 /\ view' = view /\ hurt' = {} /\ slipped' = {} /\ cut' = {}
              \/ nonce' = nonce /\ UNCHANGED history /\ Rest
BY DEF Prepare, docker, history

LEMMA BaseStep ==
    ASSUME IInv, [Next]_vars PROVE BaseInv'
<1>a. TypeOK /\ BaseInv /\ IdsInv /\ Unique
  BY DEF IInv, Core, World
<1>b. nonce \in Nat /\ minted \in Nat /\ \A i \in Ids : box[i].nonce \in Nat /\ box[i] \in Container
  BY <1>a, BoundsAssumption DEF TypeOK, WorldOK, Container
<1>1. CASE Calm \/ Records \/ Backfill \/ Closes
  <2>1. UNCHANGED <<box, minted, nonce, base>>
    BY <1>1, <1>a, CloseForgets
    DEF Calm, Still, Records, RecordCreate, RecordStart, RecordReplace, Backfill, docker,
        history
  <2> QED BY <1>a, <2>1 DEF BaseInv, Ours, Live, New
<1>2. CASE Create
  <2>1. CASE Adds
    <3>1. UNCHANGED <<nonce, base>> /\ tx.nonce = nonce
      BY <1>2, <1>a, CreateIs, LastFacts DEF history, OnEntry
    <3> DEFINE m == minted + 1
    <3>2. /\ m \in Ids /\ m # Stranger /\ m \in Live(box') /\ minted' = m
          /\ \A k \in Ids \ {m} : box'[k] = box[k]
          /\ box'[m].nonce = nonce
      BY <2>1, <3>1 DEF Adds, Others
    <3>3. \A n \in Names : \A i \in base[n].ids : i # m
      BY <1>a, <1>b, <3>2 DEF BaseInv
    <3> HIDE DEF m
    <3>4. \A i \in Ours(box') : i # m => i \in Ours(box)
      BY <3>2 DEF Ours, Live
    <3>5. ASSUME NEW n \in Names, NEW i \in base[n].ids
          PROVE  /\ i # Stranger => i <= minted'
                 /\ nonce > 0 /\ i \in Live(box') /\ i # Stranger =>
                       box'[i].name = n /\ box'[i].nonce # nonce
      <4>0. i \in Ids
        <5>1. base[n] \in [ids : SUBSET Ids, up : BOOLEAN]
          BY <1>a DEF TypeOK, WorldOK
        <5>2. base[n].ids \subseteq Ids
          BY <5>1
        <5> QED BY <5>2
      <4>1. i # Stranger => i <= minted'
        <5>1. i # Stranger => i <= minted
          BY <1>a DEF BaseInv
        <5>2. minted' = minted + 1
          BY <3>2 DEF m
        <5> QED BY <1>b, <4>0, <5>1, <5>2, ConstantTypes
      <4>2. i # m
        BY <3>3, <3>5
      <4>3. i \in Live(box') /\ i # Stranger => i \in Live(box) /\ box'[i] = box[i]
        BY <3>2, <4>2 DEF Live
      <4> QED BY <1>a, <3>5, <4>1, <4>3 DEF BaseInv, New
    <3>6. ASSUME NEW i \in Ours(box'), nonce > 0, box'[i].nonce # nonce
          PROVE  i \in base[box'[i].name].ids
      BY <1>a, <3>2, <3>4, <3>6 DEF BaseInv, New, Ours, Live
    <3> QED BY <1>a, <3>1, <3>5, <3>6 DEF BaseInv, New
  <2> QED BY <1>2, <1>a, <2>1, CreateIs DEF BaseInv, Ours, Live, New, history
<1>3. CASE Touches \/ Loiters
  <2>1. UNCHANGED <<minted, nonce, base>>
    BY <1>3, <1>a, TouchForgets DEF Still
  <2>2. \A k \in Ours(box') : k \in Ours(box) /\ SameLabels(box'[k], box[k])
    BY <1>3, TouchedOurs DEF Kept
  <2>3. \A i \in Live(box') : i # Stranger => i \in Ours(box')
    <3>1. IdsInv'
      BY CoreStep DEF IInv, Core
    <3> QED BY <3>1 DEF IdsInv, Ours
  <2> QED BY <1>a, <2>1, <2>2, <2>3 DEF BaseInv, New, SameLabels, Ours
<1>4. CASE Prepare
  <2>1. CASE nonce' = nonce /\ UNCHANGED <<box, minted, base>>
    BY <1>a, <2>1 DEF BaseInv, Ours, Live, New
  <2>2. CASE /\ nonce' = nonce + 1 /\ base' = Topology(box) /\ pc = "prepare"
             /\ UNCHANGED <<box, minted>>
    <3>1. \A i \in Ours(box) : box[i].role = "canonical"
      BY <2>2 DEF IInv, Backward, SweptInv
    <3>2. \A n \in Names : base'[n].ids = At(box, n, "canonical")
      BY <2>2 DEF Topology
    <3>3. \A i \in Ours(box) : i \in Ids /\ i \in Live(box) /\ box[i].name \in Names
      BY <1>b DEF Ours, Live, Container
    <3>4. \A i \in Live(box) : box[i].nonce # nonce + 1
      BY <1>a, <1>b DEF IdsInv, Live
    <3>5. ASSUME NEW i \in Ours(box) PROVE i \in base'[box[i].name].ids
      BY <3>1, <3>2, <3>3 DEF At
    <3>6. ASSUME NEW n \in Names, NEW i \in base'[n].ids
          PROVE  /\ \A k \in base'[n].ids : k = i
                 /\ i # Stranger => i <= minted
                 /\ i \in Live(box) => box[i].name = n /\ box[i].nonce # nonce + 1
      BY <1>a, <3>2, <3>4, <3>6 DEF At, Unique, IdsInv
    <3> QED BY <2>2, <3>5, <3>6 DEF BaseInv, New, Ours, Live
  <2> QED BY <1>4, <2>1, <2>2, PrepareIs DEF history
<1> QED BY <1>1, <1>2, <1>3, <1>4, <1>a, StepKinds

(* Recording an entry: the one that Inspect asked for, in memory and on    *)
(* disk, or, when the write failed, perhaps on disk only.                  *)
Asked(e) ==
    /\ e \in Entry /\ e.name = cur /\ e.new = 0
    /\ e.kind = "create" <=> Live(view) = {}
    /\ IF e.kind = "create" THEN e.id = 0 ELSE e.id \in Live(view)
    /\ e.kind = "replace" => e.was = Up(view[e.id])
    /\ e.kind = "start" => Same(view[e.id]) /\ ~job.force

LEMMA RecordsIs ==
    ASSUME TypeOK, CursorInv, Records
    PROVE  /\ pc = "record" /\ UNCHANGED <<box, minted, nonce, meddling, history>>
           /\ UNCHANGED <<job, cur, view, bad>>
           /\ \E e : /\ Asked(e)
                     /\ \/ /\ tx' = Appended(tx, e) /\ disk' = tx' /\ written'
                           /\ pc' = IF e.kind = "start" THEN "start" ELSE "create"
                        \/ /\ tx' = tx /\ disk' \in {disk, Appended(tx, e)}
                           /\ written' = written /\ pc' = "rollback"
<1>1. pc = "record" /\ UNCHANGED <<box, minted, nonce, meddling, history>>
  BY DEF Records, RecordCreate, RecordStart, RecordReplace, docker
<1>2. cur \in Names /\ Live(view) \subseteq Ids
  BY <1>1 DEF CursorInv, Live
<1>3. CASE RecordCreate
  <2> DEFINE e == [kind |-> "create", name |-> cur, id |-> 0, was |-> FALSE, new |-> 0]
  <2>1. Asked(e)
    BY <1>2, <1>3 DEF Asked, Entry, RecordCreate
  <2>2. Record(e, "create") /\ e.kind # "start"
    BY <1>3 DEF RecordCreate
  <2> HIDE DEF e
  <2> QED BY <1>1, <2>1, <2>2, RecordCases DEF Record, RollBack, Goto
<1>4. CASE RecordStart
  <2>1. PICK i \in Live(view) :
          /\ Same(view[i]) /\ ~job.force
          /\ Record([kind |-> "start", name |-> cur, id |-> i, was |-> FALSE,
                     new |-> 0], "start")
    BY <1>4 DEF RecordStart
  <2> DEFINE e == [kind |-> "start", name |-> cur, id |-> i, was |-> FALSE, new |-> 0]
  <2>2. Asked(e)
    BY <1>2, <2>1 DEF Asked, Entry
  <2>3. Record(e, "start") /\ e.kind = "start"
    BY <2>1
  <2> HIDE DEF e
  <2> QED BY <1>1, <2>2, <2>3, RecordCases DEF Record, RollBack, Goto
<1>5. CASE RecordReplace
  <2>1. PICK i \in Live(view) :
          Record([kind |-> "replace", name |-> cur, id |-> i, was |-> Up(view[i]),
                  new |-> 0], "create")
    BY <1>5 DEF RecordReplace
  <2> DEFINE e == [kind |-> "replace", name |-> cur, id |-> i, was |-> Up(view[i]),
                   new |-> 0]
  <2>2. Up(view[i]) \in BOOLEAN
    BY DEF Up
  <2>3. Asked(e)
    BY <1>2, <2>1, <2>2 DEF Asked, Entry
  <2>4. Record(e, "create") /\ e.kind # "start"
    BY <2>1
  <2> HIDE DEF e
  <2> QED BY <1>1, <2>3, <2>4, RecordCases DEF Record, RollBack, Goto
<1> QED BY <1>3, <1>4, <1>5 DEF Records

(* What the journal gets, entry by entry.                                  *)
LEMMA AppendedIs ==
    ASSUME IInv, pc = "record", NEW e, Asked(e)
    PROVE  LET j == Appended(tx, e)
               m == Len(tx.entries)
           IN  /\ m \in Nat /\ Len(disk.entries) = m /\ Ks(tx) = 1 .. m
               /\ Ks(disk) = 1 .. m /\ Ks(j) = 1 .. m + 1
               /\ j \in Journal /\ j.nonce = nonce /\ j.cand = job.cand
               /\ \A k \in Ks(tx) : /\ j.entries[k] = tx.entries[k]
                                    /\ j.entries[k].name = disk.entries[k].name
                                    /\ j.entries[k].kind = disk.entries[k].kind
               /\ j.entries[m + 1] = e
<1>1. tx \in Journal /\ e \in Entry /\ disk \in Journal
  BY DEF IInv, Core, TypeOK, MemoryOK, WorldOK, Asked
<1>2. /\ Len(tx.entries) \in Nat /\ Len(disk.entries) = Len(tx.entries)
      /\ \A k \in 1 .. Len(tx.entries) : /\ tx.entries[k].name = disk.entries[k].name
                                         /\ tx.entries[k].kind = disk.entries[k].kind
  BY <1>1 DEF IInv, Core, MirrorInv, SameShape, Forward, Journal
<1>3. tx.nonce = nonce /\ tx.cand = job.cand
  BY DEF IInv, Core, JournalInv, PhaseInv, Forward
<1> QED BY <1>1, <1>2, <1>3, AppendedType DEF Ks

LEMMA BackfillIs ==
    ASSUME IInv, Backfill
    PROVE  LET m == Len(tx.entries)
           IN  /\ pc = "backfill" /\ UNCHANGED <<box, minted, nonce, meddling, history>>
               /\ UNCHANGED <<job, cur, written, view, bad>>
               /\ tx' \in Journal /\ disk' \in {disk, tx'}
               /\ pc' # "rollback" =>
                     disk' = tx' /\ pc' = IF Live(view) = {} THEN "start" ELSE "stop"
               /\ m \in Ks(tx) /\ Ks(disk) = Ks(tx) /\ Ks(tx') = Ks(tx)
               /\ tx'.nonce = tx.nonce /\ tx'.cand = tx.cand
               /\ \A k \in Ks(tx) :
                     /\ k # m => tx'.entries[k] = tx.entries[k]
                     /\ tx'.entries[k].kind = tx.entries[k].kind
                     /\ tx'.entries[k].name = tx.entries[k].name
                     /\ tx'.entries[k].id = tx.entries[k].id
                     /\ tx'.entries[k].was = tx.entries[k].was
               /\ tx'.entries[m].new = minted
<1>1. /\ pc = "backfill" /\ UNCHANGED <<box, minted, nonce, meddling, history>>
      /\ UNCHANGED <<job, cur, written, view, bad>>
      /\ tx' = Filled(tx, minted) /\ disk' \in {disk, tx'}
      /\ pc' # "rollback" =>
            disk' = tx' /\ pc' = IF Live(view) = {} THEN "start" ELSE "stop"
  BY DEF Backfill, docker
<1>2. Len(tx.entries) \in Ks(tx) /\ Ks(tx) = Ks(disk) /\ tx \in Journal
  BY <1>1, LastFacts DEF OnEntry, IInv, Core, TypeOK, MemoryOK
<1>3. Len(tx.entries) \in Nat /\ Len(tx.entries) > 0
  BY <1>2 DEF Ks, Journal
<1>4. minted \in Ids \cup {0}
  BY BoundsAssumption DEF IInv, Core, TypeOK, WorldOK, Ids, Stranger
<1>5. \A k \in Ks(tx) : Filled(tx, minted).entries[k].was = tx.entries[k].was
  <2> DEFINE m == Len(tx.entries)
  <2>1. tx.entries \in Seq(Entry) /\ tx = [nonce |-> tx.nonce, cand |-> tx.cand,
                                          entries |-> tx.entries]
    BY <1>2 DEF Journal
  <2>2. tx.entries \in [1 .. m -> Entry]
    BY <2>1
  <2>3. Filled(tx, minted).entries = [tx.entries EXCEPT ![m].new = minted]
    BY <2>1 DEF Filled
  <2>4. m \in 1 .. m
    BY <1>3
  <2>5. \A k \in 1 .. m : Filled(tx, minted).entries[k].was = tx.entries[k].was
    <3> SUFFICES ASSUME NEW k \in 1 .. m
                 PROVE  Filled(tx, minted).entries[k].was = tx.entries[k].was
      OBVIOUS
    <3>1. CASE k = m
      <4>1. Filled(tx, minted).entries[k] = [tx.entries[k] EXCEPT !.new = minted]
        BY <2>2, <2>3, <2>4, <3>1
      <4> QED BY <2>2, <4>1 DEF Entry
    <3>2. CASE k # m
      BY <2>2, <2>3, <3>2
    <3> QED BY <3>1, <3>2
  <2> QED BY <2>5 DEF Ks
<1>6. Filled(tx, minted) \in Journal
  BY <1>2, <1>3, <1>4, FilledType
<1> QED BY <1>1, <1>2, <1>3, <1>4, <1>5, <1>6, FilledType DEF Ks

LEMMA InDiskStep ==
    ASSUME IInv, Records \/ Backfill
    PROVE  \A n, kind : InDisk(n, kind) => InDisk(n, kind)'
<1>1. CASE Records
  <2>1. pc = "record" /\ \E e : Asked(e) /\ disk' \in {disk, Appended(tx, e)}
    BY <1>1, RecordsIs DEF IInv, Core
  <2>2. PICK e : Asked(e) /\ disk' \in {disk, Appended(tx, e)}
    BY <2>1
  <2>3. ASSUME disk' = Appended(tx, e)
        PROVE  \A k \in Ks(disk) : /\ k \in Ks(disk')
                                   /\ disk'.entries[k].name = disk.entries[k].name
                                   /\ disk'.entries[k].kind = disk.entries[k].kind
    BY <2>1, <2>2, <2>3, AppendedIs
  <2> QED BY <2>2, <2>3 DEF InDisk, Ks
<1>2. CASE Backfill
  <2>1. /\ disk' \in {disk, tx'} /\ pc = "backfill" /\ Ks(disk) = Ks(tx) /\ Ks(tx') = Ks(tx)
        /\ \A k \in Ks(tx) : /\ tx'.entries[k].kind = tx.entries[k].kind
                             /\ tx'.entries[k].name = tx.entries[k].name
    BY <1>2, BackfillIs
  <2>2. \A k \in Ks(tx) : /\ tx.entries[k].name = disk.entries[k].name
                          /\ tx.entries[k].kind = disk.entries[k].kind
    BY <2>1 DEF IInv, Core, MirrorInv, SameShape, Forward, Ks
  <2> QED BY <2>1, <2>2 DEF InDisk, Ks
<1> QED BY <1>1, <1>2

LEMMA OldStep ==
    ASSUME IInv, [Next]_vars PROVE OldInv'
<1>a. TypeOK /\ OldInv /\ IdsInv /\ CursorInv
  BY DEF IInv, Core, World
<1>1. CASE Calm
  BY <1>1, <1>a DEF Calm, Still, OldInv, Open, Ours, Live, New, InDisk, Ks
<1>2. CASE Closes
  BY <1>2, <1>a, CloseForgets DEF OldInv, Open, Ours, Live, New, InDisk, Ks
<1>3. CASE Prepare
  <2>1. CASE nonce' = nonce /\ UNCHANGED <<box, disk>> /\ Rest
    BY <1>a, <2>1 DEF OldInv, Open, Ours, Live, New, InDisk, Ks, Rest, NoJob
  <2>2. CASE pc = "prepare" /\ UNCHANGED box
    BY <2>2 DEF IInv, Backward, SweptInv, OldInv, Ours, Live
  <2> QED BY <1>3, <2>1, <2>2, PrepareIs
<1>4. CASE Records \/ Backfill
  <2>1. UNCHANGED <<box, nonce>> /\ Open
    BY <1>4, <1>a, RecordsIs, BackfillIs DEF Open, IInv, Core, PhaseInv, Forward
  <2> QED BY <1>4, <1>a, <2>1, InDiskStep DEF OldInv, Ours, Live, New
<1>5. CASE Create
  <2>1. UNCHANGED <<disk, nonce>> /\ Open
    BY <1>5, <1>a, CreateIs DEF Open, IInv, Core, PhaseInv, Forward
  <2>2. CASE Adds
    <3>1. tx.nonce = nonce
      BY <1>5, LastFacts DEF Create, OnEntry
    <3> DEFINE m == minted + 1
    <3>2. m \in Ids /\ New(box'[m]) /\ \A k \in Ids \ {m} : box'[k] = box[k]
      BY <2>1, <2>2, <3>1 DEF Adds, Others, New
    <3> HIDE DEF m
    <3> QED BY <1>a, <2>1, <3>2 DEF OldInv, Ours, Live, New, InDisk, Ks
  <2> QED BY <1>5, <1>a, <2>1, <2>2, CreateIs DEF OldInv, Ours, Live, New, InDisk, Ks
<1>6. CASE Touches \/ Loiters
  <2>1. UNCHANGED <<disk, nonce>> /\ (Open' => Open)
    BY <1>6, <1>a, TouchForgets DEF Still, Forgets, Open
  <2> SUFFICES ASSUME Open, NEW i \in Ours(box'), ~New(box'[i]), box'[i].role # "canonical"
               PROVE  box'[i].role = "prev" /\ InDisk(box'[i].name, "replace")
    BY <2>1 DEF OldInv, InDisk, Ks, New
  <2>2. Kept(i)
    BY <1>6, TouchedOurs
  <2>3. i \in Ours(box) /\ ~New(box[i]) /\ box'[i].name = box[i].name
    BY <2>1, <2>2 DEF Kept, SameLabels, New
  <2>4. CASE box'[i].role = box[i].role
    BY <1>a, <2>3, <2>4 DEF OldInv
  <2>5. CASE Retires(i)
    BY <2>3, <2>5 DEF Retires, Moves
  <2>6. CASE SwapsIn(i) \/ Parks(i) \/ Restores(i)
    BY <2>3, <2>6 DEF SwapsIn, Parks, Restores, Moves
  <2> QED BY <2>2, <2>4, <2>5, <2>6 DEF Kept
<1> QED BY <1>1, <1>2, <1>3, <1>4, <1>5, <1>6, <1>a, StepKinds

LEMMA NewStep ==
    ASSUME IInv, [Next]_vars PROVE NewInv'
<1>a. TypeOK /\ NewInv /\ IdsInv /\ CursorInv
  BY DEF IInv, Core, World
<1>1. CASE Calm
  BY <1>1, <1>a DEF Calm, Still, NewInv, Open, Ours, Live, New, Made, InDisk, Ks
<1>2. CASE Closes
  <2>1. disk' = disk \/ ~Open'
    BY <1>2, <1>a, CloseForgets DEF Open
  <2> QED BY <1>2, <1>a, <2>1, CloseForgets
          DEF NewInv, Open, Ours, Live, New, Made, InDisk, Ks
<1>3. CASE Prepare
  <2>1. CASE nonce' = nonce /\ UNCHANGED <<box, disk>> /\ Rest
    BY <1>a, <2>1 DEF NewInv, Open, Ours, Live, New, Made, InDisk, Ks, Rest, NoJob
  <2>2. CASE nonce' = nonce + 1 /\ UNCHANGED box
    <3>1. nonce \in Nat
      BY <1>a, BoundsAssumption DEF TypeOK, WorldOK
    <3>2. \A i \in Live(box) : box[i].nonce # nonce + 1
      <4> SUFFICES ASSUME NEW i \in Live(box) PROVE box[i].nonce # nonce + 1
        OBVIOUS
      <4>1. box[i] \in Container
        BY <1>a DEF TypeOK, WorldOK, Live
      <4>2. box[i].nonce \in Nat
        BY <4>1, BoundsAssumption DEF Container
      <4> QED BY <1>a, <3>1, <4>2 DEF IdsInv
    <3> QED BY <2>2, <3>2 DEF NewInv, Ours, Live, New
  <2> QED BY <1>3, <2>1, <2>2, PrepareIs
<1>4. CASE Records \/ Backfill
  <2>1. UNCHANGED <<box, nonce>> /\ Open
    BY <1>4, <1>a, RecordsIs, BackfillIs DEF Open, IInv, Core, PhaseInv, Forward
  <2>2. disk # NoJournal => disk'.cand = disk.cand
    <3>1. CASE Records
      <4>1. pc = "record" /\ \E e : Asked(e) /\ disk' \in {disk, Appended(tx, e)}
        BY <1>a, <3>1, RecordsIs
      <4>2. PICK e : Asked(e) /\ disk' \in {disk, Appended(tx, e)}
        BY <4>1
      <4>3. Appended(tx, e).cand = job.cand
        BY <4>1, <4>2, AppendedIs
      <4>4. disk # NoJournal => disk.cand = job.cand
        BY <4>1 DEF IInv, Core, JournalInv, PhaseInv, Forward
      <4> QED BY <4>2, <4>3, <4>4
    <3>2. CASE Backfill
      <4>1. pc \in OnEntry /\ disk' \in {disk, tx'} /\ tx'.cand = tx.cand
        BY <3>2, BackfillIs DEF OnEntry
      <4> QED BY <4>1, LastFacts
    <3> QED BY <1>4, <3>1, <3>2
  <2>3. \A i \in Ours(box) : New(box[i]) => disk # NoJournal
    BY <1>a, <2>1 DEF NewInv, Made, InDisk, Ks, NoJournal
  <2>4. \A i \in Ours(box) : Made(box[i]) => Made(box[i])'
    BY <1>4, <2>1, InDiskStep DEF Made
  <2> QED BY <1>a, <2>1, <2>2, <2>3, <2>4 DEF NewInv, Ours, Live, New
<1>5. CASE Create
  <2>0. pc \in OnEntry
    BY <1>5 DEF Create, OnEntry
  <2>1. UNCHANGED <<disk, nonce>> /\ Open
    BY <1>5, <1>a, <2>0, CreateIs, LastFacts DEF Open
  <2>2. CASE Adds
    <3>1. tx.nonce = nonce /\ disk.cand = job.cand /\ InDisk(cur, Last.kind)
      BY <2>0, LastFacts DEF InDisk
    <3>2. Last.kind \in {"create", "replace"} /\ (Last.kind = "create" <=> Live(view) = {})
      BY <1>5, <2>0 DEF Create, IInv, Core, LastInv, Onward, AtHandInv
    <3> DEFINE m == minted + 1
    <3>3. /\ m \in Ids /\ New(box'[m]) /\ \A k \in Ids \ {m} : box'[k] = box[k]
          /\ box'[m].name = cur /\ box'[m].cand = disk.cand /\ box'[m].role = Staging
      BY <2>1, <2>2, <3>1 DEF Adds, Others, New
    <3>4. Made(box'[m])
      BY <3>1, <3>2, <3>3 DEF Made, Staging
    <3>5. \A i \in Ours(box) : New(box[i]) => box[i].name # cur
      BY <1>5 DEF Create, IInv, Onward, MadeInv
    <3> HIDE DEF m
    <3>6. \A i \in Ours(box') : i # m => i \in Ours(box) /\ box'[i] = box[i]
      BY <3>3 DEF Ours, Live
    <3>7. ASSUME NEW i \in Ours(box'), New(box'[i])
          PROVE  /\ box'[i].cand = disk.cand /\ Made(box'[i])
                 /\ \A k \in Ours(box') : New(box'[k]) /\ box'[k].name = box'[i].name => k = i
      BY <1>a, <2>1, <3>3, <3>4, <3>5, <3>6, <3>7 DEF NewInv
    <3> QED BY <2>1, <3>7 DEF NewInv, New, Made, InDisk, Ks
  <2> QED BY <1>5, <1>a, <2>1, <2>2, CreateIs
          DEF NewInv, Open, Ours, Live, New, Made, InDisk, Ks
<1>6. CASE Touches \/ Loiters
  <2>1. UNCHANGED <<disk, nonce>> /\ (Open' => Open)
    BY <1>6, <1>a, TouchForgets DEF Still, Forgets, Open
  <2>2. \A i \in Ours(box') : Kept(i)
    BY <1>6, TouchedOurs
  <2>3. \A i \in Ours(box') : /\ i \in Ours(box) /\ box'[i].name = box[i].name
                              /\ box'[i].cand = box[i].cand
                              /\ New(box'[i]) <=> New(box[i])
    BY <2>2 DEF Kept, SameLabels, New
  <2>4. ASSUME Open, NEW i \in Ours(box'), New(box'[i])
        PROVE  Made(box'[i])
    <3>1. New(box[i]) /\ Made(box[i]) /\ box'[i].name = box[i].name
      BY <1>a, <2>3, <2>4 DEF NewInv
    <3>2. CASE box'[i].role = box[i].role
      BY <3>1, <3>2 DEF Made
    <3>3. CASE Retires(i) \/ Restores(i)
      BY <3>1, <3>3 DEF Retires, Restores
    <3>4. CASE SwapsIn(i) \/ Parks(i)
      BY <3>1, <3>4 DEF SwapsIn, Parks, Moves, Made
    <3> QED BY <2>2, <3>2, <3>3, <3>4 DEF Kept
  <2>5. \A i \in Ours(box') : New(box'[i]) <=> (New(box[i]))'
    BY <2>1 DEF New
  <2>6. \A i \in Ours(box') : Made(box'[i]) <=> (Made(box[i]))'
    BY <2>1 DEF Made, InDisk, Ks
  <2> QED BY <1>a, <2>1, <2>3, <2>4, <2>5, <2>6 DEF NewInv
<1> QED BY <1>1, <1>2, <1>3, <1>4, <1>5, <1>6, <1>a, StepKinds

(* An ID that was written down goes on naming the same container.          *)
LEMMA NewIdStep ==
    ASSUME IInv, [Next]_vars, Create \/ Touches \/ Loiters, NEW e, NewId(e),
           Create => e.name # cur \/ e.new = 0, e.new \in Ids \cup {0}
    PROVE  NewId(e)'
<1>a. TypeOK /\ IdsInv /\ nonce' = nonce
  BY CreateIs, TouchForgets DEF IInv, Core, Still, history
<1>b. minted \in Nat /\ MaxIds \in Nat /\ minted <= MaxIds /\ e.new \in Nat
  <2>0. \A x \in Ids \cup {0} : x \in Nat
    BY ConstantTypes
  <2>1. e.new \in Nat
    BY <2>0
  <2> QED BY <1>a, <2>1, BoundsAssumption DEF TypeOK, WorldOK
<1> SUFFICES ASSUME e.new # 0
             PROVE  /\ e.kind # "start" /\ e.new <= minted'
                    /\ e.new \in Live(box') => New(box'[e.new]) /\ box'[e.new].name = e.name
                    /\ \A i \in Ours(box') : New(box'[i]) /\ box'[i].name = e.name => i = e.new
  BY <1>a DEF NewId, New
<1>c. /\ e.kind # "start" /\ e.new <= minted
      /\ e.new \in Live(box) => New(box[e.new]) /\ box[e.new].name = e.name
      /\ \A i \in Ours(box) : New(box[i]) /\ box[i].name = e.name => i = e.new
  BY DEF NewId
<1>1. CASE UNCHANGED <<box, minted>>
  BY <1>1, <1>c DEF Live, Ours
<1>2. CASE Create /\ Adds
  <2> DEFINE m == minted + 1
  <2>1. /\ m \in Ids /\ \A k \in Ids \ {m} : box'[k] = box[k]
        /\ box'[m].name = cur /\ minted' = m
    BY <1>2 DEF Adds, Others
  <2>2. e.new # m /\ e.new <= minted' /\ e.name # cur
    BY <1>2, <1>b, <1>c, <2>1
  <2> HIDE DEF m
  <2>3. \A i \in Live(box') : i # m => i \in Live(box) /\ box'[i] = box[i]
    BY <2>1 DEF Live
  <2> QED BY <1>c, <2>1, <2>2, <2>3 DEF Ours
<1>3. CASE Touches \/ Loiters
  <2>1. minted' = minted
    BY <1>3, <1>a, TouchForgets DEF Still
  <2>2. \A i \in Ours(box') : /\ i \in Ours(box) /\ box'[i].name = box[i].name
                              /\ New(box'[i]) <=> New(box[i])
    BY <1>3, TouchedOurs DEF Kept, SameLabels, New
  <2>3. e.new # Stranger
    BY <1>b, <1>c DEF Stranger
  <2>4. e.new \in Live(box') => e.new \in Ours(box')
    <3>1. IdsInv'
      BY CoreStep DEF IInv, Core
    <3> QED BY <2>3, <3>1 DEF IdsInv, Ours
  <2> QED BY <1>c, <2>1, <2>2, <2>4 DEF Ours
<1> QED BY <1>1, <1>2, <1>3, <1>a, CreateIs

LEMMA EntryTypes ==
    ASSUME TypeOK
    PROVE  /\ \A k \in Ks(disk) : disk.entries[k] \in Entry /\ disk.entries[k].name \in Names
                                  /\ disk.entries[k].new \in Ids \cup {0}
           /\ \A k \in Ks(tx) : tx.entries[k] \in Entry /\ tx.entries[k].name \in Names
                                /\ tx.entries[k].new \in Ids \cup {0}
           /\ Len(disk.entries) \in Nat /\ Len(tx.entries) \in Nat
           /\ Ks(disk) \subseteq Nat /\ Ks(tx) \subseteq Nat
<1>1. disk.entries \in Seq(Entry) /\ tx.entries \in Seq(Entry)
  BY DEF TypeOK, WorldOK, MemoryOK, Journal
<1>2. \A e \in Entry : e.name \in Names /\ e.new \in Ids \cup {0}
  BY DEF Entry
<1> QED BY <1>1, <1>2 DEF Ks

(* Only Create adds a container of ours, and never one that was found.     *)
LEMMA OursStep ==
    ASSUME IInv, Create \/ Touches \/ Loiters, NEW n \in Names,
           \A i \in Ours(box) : i \notin base[n].ids
    PROVE  \A i \in Ours(box') : i \notin base[n].ids
<1>1. CASE Create /\ Adds
  <2> DEFINE m == minted + 1
  <2>1. m \in Ids /\ m # Stranger /\ \A k \in Ids \ {m} : box'[k] = box[k]
    BY <1>1 DEF Adds, Others
  <2>2. minted \in Nat
    BY BoundsAssumption DEF IInv, Core, TypeOK, WorldOK
  <2>3. m \notin base[n].ids
    BY <2>1, <2>2 DEF IInv, World, BaseInv
  <2> HIDE DEF m
  <2> QED BY <2>1, <2>3 DEF Ours, Live
<1>2. CASE Create /\ box' = box
  BY <1>2 DEF Ours, Live
<1>3. CASE Touches \/ Loiters
  BY <1>3, TouchedOurs DEF Kept
<1> QED BY <1>1, <1>2, <1>3, CreateIs DEF IInv, Core

(* One entry of the journal on disk, which has its names in order.         *)
Sound(e) ==
    /\ e.name \in Desired[disk.cand] /\ NewId(e)
    /\ e.kind # "create" => e.id \in base[e.name].ids /\ e.id # Stranger
    /\ e.kind = "create" => e.id = 0 /\ \A i \in Ours(box) : i \notin base[e.name].ids
Ordered(j) == \A k, m \in Ks(j) : k < m => j.entries[k].name < j.entries[m].name

LEMMA EntriesStep ==
    ASSUME IInv, [Next]_vars PROVE EntriesInv'
<1>a. TypeOK /\ EntriesInv /\ CursorInv /\ TxInv /\ IdsInv
  BY DEF IInv, Core, World
<1>b. Ordered(disk) /\ \A k \in Ks(disk) : Sound(disk.entries[k])
  BY <1>a DEF EntriesInv, Ordered, Sound
<1>c. ASSUME Ordered(disk)',
             \A k \in Ks(disk') : \A e : e = disk'.entries[k] => Sound(e)'
      PROVE  EntriesInv'
  BY <1>c DEF EntriesInv, Ordered, Sound, Ks
<1>d. ASSUME disk' = NoJournal PROVE EntriesInv'
  BY <1>d DEF EntriesInv, Ks, NoJournal
<1>e. ASSUME UNCHANGED <<box, minted, disk, nonce, base>> PROVE EntriesInv'
  BY <1>a, <1>e DEF EntriesInv, Ks, NewId, New, Ours, Live
<1>1. CASE Calm
  BY <1>1, <1>e DEF Calm, Still
<1>2. CASE Closes
  BY <1>2, <1>a, <1>d, <1>e, CloseForgets
<1>3. CASE Prepare
  BY <1>3, <1>d, PrepareIs DEF IInv, Core, PhaseInv, Quiet
<1>4. CASE Records
  <2>0. pc = "record" /\ UNCHANGED <<box, minted, nonce, base>>
        /\ \E e : Asked(e) /\ disk' \in {disk, Appended(tx, e)}
    BY <1>4, <1>a, RecordsIs DEF history
  <2>1. PICK e : Asked(e) /\ disk' \in {disk, Appended(tx, e)}
    BY <2>0
  <2>2. CASE disk' = disk
    BY <1>e, <2>0, <2>2
  <2>3. CASE disk' = Appended(tx, e)
    <3> DEFINE m == Len(tx.entries)
    <3>1. /\ m \in Nat /\ Len(disk.entries) = m /\ Ks(tx) = 1 .. m
          /\ Ks(disk) = 1 .. m /\ Ks(disk') = 1 .. m + 1 /\ disk'.cand = job.cand
          /\ \A k \in Ks(tx) : /\ disk'.entries[k] = tx.entries[k]
                               /\ disk'.entries[k].name = disk.entries[k].name
                               /\ disk'.entries[k].kind = disk.entries[k].kind
          /\ disk'.entries[m + 1] = e
      BY <2>0, <2>1, <2>3, AppendedIs
    <3>2. m > 0 => disk.cand = job.cand
      BY <2>0, <3>1 DEF IInv, Core, JournalInv, PhaseInv, Forward, NoJournal
    <3> HIDE DEF m
    <3>3. \A k \in Ks(disk) : disk.entries[k].name < cur
      BY <2>0 DEF IInv, Onward, AheadInv
    <3>4. Ordered(disk')
      BY <1>b, <2>1, <3>1, <3>3 DEF Ordered, Asked
    <3>5. ASSUME NEW k \in 1 .. m, NEW d, d = disk'.entries[k] PROVE Sound(d)'
      <4>1. k \in Ks(tx) /\ k \in Ks(disk)
        BY <3>1
      <4>2. /\ d.kind = disk.entries[k].kind
            /\ d.name = disk.entries[k].name
            /\ d.id = disk.entries[k].id
            /\ NewId(d) /\ disk'.cand = disk.cand
        BY <1>a, <3>1, <3>2, <3>5, <4>1 DEF TxInv
      <4>3. Sound(disk.entries[k])
        BY <1>b, <4>1
      <4>4. NewId(d)'
        BY <2>0, <4>2 DEF NewId, New, Live, Ours
      <4> QED BY <2>0, <4>2, <4>3, <4>4 DEF Sound, Ours, Live
    <3>6. Sound(e)'
      <4>1. /\ e.name = cur /\ e.new = 0 /\ (e.kind = "create" <=> Live(view) = {})
            /\ IF e.kind = "create" THEN e.id = 0 ELSE e.id \in Live(view)
            /\ cur \in Names
        BY <1>a, <2>0, <2>1 DEF Asked, CursorInv
      <4>2. cur \in Desired[disk'.cand]
        BY <2>0, <3>1 DEF IInv, Onward, SeenInv
      <4>3. e.kind # "create" => e.id \in base[cur].ids /\ e.id # Stranger
        BY <2>0, <4>1 DEF IInv, Onward, SeenInv
      <4>4. ASSUME e.kind = "create", NEW i \in Ours(box) PROVE i \notin base[cur].ids
        <5>1. box[i].name = cur => New(box[i])
          BY <2>0, <4>1, <4>4 DEF IInv, Onward, SeenInv
        <5>2. i # Stranger /\ i \in Live(box)
          BY <1>a, <4>4 DEF IdsInv, Ours
        <5>3. nonce > 0
          BY <2>0 DEF IInv, Core, JournalInv, PhaseInv, Forward
        <5> QED BY <4>1, <5>1, <5>2, <5>3 DEF IInv, World, BaseInv
      <4>5. NewId(e)'
        BY <4>1 DEF NewId
      <4> QED BY <2>0, <4>1, <4>2, <4>3, <4>4, <4>5 DEF Sound, Ours, Live
    <3>7. \A k \in 1 .. m + 1 : k \in 1 .. m \/ k = m + 1
      BY <3>1
    <3>8. ASSUME NEW k \in Ks(disk'), NEW d, d = disk'.entries[k] PROVE Sound(d)'
      <4>1. CASE k \in 1 .. m
        BY <3>5, <3>8, <4>1
      <4>2. CASE k = m + 1
        <5>1. d = e
          BY <3>1, <3>8, <4>2
        <5> QED BY <3>6, <5>1
      <4> QED BY <3>1, <3>7, <4>1, <4>2
    <3> QED BY <1>c, <3>4, <3>8 DEF Ordered, Ks
  <2> QED BY <2>1, <2>2, <2>3
<1>5. CASE Backfill
  <2> DEFINE m == Len(tx.entries)
  <2>1. /\ pc = "backfill" /\ UNCHANGED <<box, minted, nonce, base>> /\ disk' \in {disk, tx'}
        /\ m \in Ks(tx) /\ Ks(disk) = Ks(tx) /\ Ks(tx') = Ks(tx)
        /\ tx'.cand = tx.cand
        /\ \A k \in Ks(tx) : /\ k # m => tx'.entries[k] = tx.entries[k]
                             /\ tx'.entries[k].kind = tx.entries[k].kind
                             /\ tx'.entries[k].name = tx.entries[k].name
                             /\ tx'.entries[k].id = tx.entries[k].id
        /\ tx'.entries[m].new = minted
    BY <1>5, BackfillIs DEF history
  <2>2. pc \in OnEntry /\ tx.cand = disk.cand /\ Last = tx.entries[m] /\ Last.name = cur
    BY <2>1, LastFacts DEF OnEntry, Last
  <2> HIDE DEF m
  <2>3. NewId(tx'.entries[m])
    <3>1. tx'.entries[m].kind # "start" /\ tx'.entries[m].name = cur
      BY <2>1, <2>2 DEF IInv, Core, LastInv
    <3>2. /\ minted \in Live(box) => New(box[minted]) /\ box[minted].name = cur
          /\ \A i \in Ours(box) : New(box[i]) /\ box[i].name = cur => i = minted
      BY <2>1 DEF IInv, Onward, MadeInv
    <3> QED BY <1>a, <2>1, <3>1, <3>2, BoundsAssumption DEF NewId, TypeOK, WorldOK
  <2>4. CASE disk' = disk
    BY <1>e, <2>1, <2>4
  <2>5. CASE disk' = tx'
    <3>1. \A k \in Ks(disk) : /\ disk'.entries[k].kind = disk.entries[k].kind
                              /\ disk'.entries[k].name = disk.entries[k].name
                              /\ disk'.entries[k].id = disk.entries[k].id
                              /\ NewId(disk'.entries[k])
      BY <1>a, <2>1, <2>3, <2>5 DEF TxInv
    <3>2. Ks(disk') = Ks(disk) /\ disk'.cand = disk.cand
      BY <2>1, <2>2, <2>5
    <3>3. Ordered(disk')
      BY <1>b, <3>1, <3>2 DEF Ordered
    <3>4. ASSUME NEW k \in Ks(disk'), NEW d, d = disk'.entries[k] PROVE Sound(d)'
      <4>1. NewId(d)'
        BY <2>1, <3>1, <3>2, <3>4 DEF NewId, New, Live, Ours
      <4>2. Sound(disk.entries[k])
        BY <1>b, <3>2
      <4> QED BY <2>1, <3>1, <3>2, <3>4, <4>1, <4>2 DEF Sound, Ours, Live
    <3> QED BY <1>c, <3>3, <3>4 DEF Ordered, Ks
  <2> QED BY <2>1, <2>4, <2>5
<1>6. CASE Create \/ Touches \/ Loiters
  <2>1. UNCHANGED <<disk, nonce, base>>
    BY <1>6, <1>a, CreateIs, TouchForgets DEF Still, history
  <2>2. ASSUME Create, NEW k \in Ks(disk)
        PROVE  disk.entries[k].name # cur \/ disk.entries[k].new = 0
    <3>1. pc = "create" /\ pc \in OnEntry
      BY <2>2 DEF Create, OnEntry
    <3> DEFINE m == Len(disk.entries)
    <3>2. m \in Ks(disk) /\ disk.entries[m].name = cur
      BY <3>1, LastFacts
    <3>3. disk.entries[m].new = 0
      BY <3>1 DEF IInv, Onward, AtHandInv
    <3>4. k # m => k < m
      BY <2>2, <1>a, EntryTypes DEF Ks
    <3>5. k # m => disk.entries[k].name < disk.entries[m].name
      BY <1>b, <2>2, <3>2, <3>4 DEF Ordered
    <3>6. disk.entries[k].name \in Nat /\ disk.entries[m].name \in Nat
      BY <1>a, <2>2, <3>2, EntryTypes DEF Names
    <3> QED BY <3>2, <3>3, <3>5, <3>6
  <2>3. ASSUME NEW k \in Ks(disk), NEW e, e = disk.entries[k] PROVE Sound(e)'
    <3>1. Sound(e) /\ e.name \in Names /\ e.new \in Ids \cup {0}
      BY <1>a, <1>b, <2>3, EntryTypes
    <3>2. Create => e.name # cur \/ e.new = 0
      BY <2>2, <2>3
    <3>3. NewId(e)'
      BY <1>6, <3>1, <3>2, NewIdStep DEF Sound
    <3>4. e.kind = "create" => \A i \in Ours(box') : i \notin base[e.name].ids
      BY <1>6, <3>1, OursStep DEF Sound
    <3> QED BY <2>1, <3>1, <3>3, <3>4 DEF Sound, Ours, Live
  <2> QED BY <1>b, <1>c, <2>1, <2>3 DEF Ordered, Ks
<1> QED BY <1>1, <1>2, <1>3, <1>4, <1>5, <1>6, <1>a, StepKinds

(* Memory against the disk, one entry.                                     *)
Matches(e, d) == e.kind = d.kind /\ e.name = d.name /\ e.id = d.id /\ e.was = d.was

LEMMA TxStep ==
    ASSUME IInv, [Next]_vars PROVE TxInv'
<1>a. TypeOK /\ TypeOK' /\ TxInv /\ EntriesInv /\ EntriesInv' /\ CursorInv
  BY CoreStep, EntriesStep DEF IInv, Core, World
<1>c. ASSUME Len(tx'.entries) <= Len(disk'.entries),
             \A k \in Ks(tx') : \A e : e = tx'.entries[k] =>
                Matches(e, disk'.entries[k]) /\ NewId(e)'
      PROVE  TxInv'
  BY <1>c DEF TxInv, Matches, Ks
<1>d. ASSUME tx' = NoJournal \/ tx'.entries = <<>> PROVE TxInv'
  <2>1. Len(tx'.entries) = 0 /\ Len(disk'.entries) \in Nat
    BY <1>a, <1>d DEF NoJournal, TypeOK, WorldOK, Journal
  <2> QED BY <1>c, <2>1 DEF Ks
<1>e. ASSUME tx' = disk' PROVE TxInv'
  <2>1. Len(disk'.entries) \in Nat
    BY <1>a DEF TypeOK, WorldOK, Journal
  <2>2. \A k \in Ks(disk') : \A e : e = disk'.entries[k] => NewId(e)'
    BY <1>a DEF EntriesInv, Ks
  <2> QED BY <1>c, <1>e, <2>1, <2>2 DEF Matches
<1>f. ASSUME UNCHANGED <<box, minted, disk, nonce, tx>> PROVE TxInv'
  BY <1>a, <1>f DEF TxInv, Ks, NewId, New, Ours, Live
<1>1. CASE Calm
  BY <1>1, <1>d, <1>e, <1>f DEF Calm, Still
<1>2. CASE Closes
  BY <1>2, <1>a, <1>d, CloseForgets
<1>3. CASE Prepare
  <2>1. CASE tx' = [nonce |-> nonce + 1, cand |-> job.cand, entries |-> <<>>]
    BY <1>d, <2>1
  <2>2. CASE Rest
    BY <1>d, <2>2 DEF Rest
  <2> QED BY <1>3, <2>1, <2>2, PrepareIs
<1>4. CASE Records
  <2>0. /\ pc = "record" /\ UNCHANGED <<box, minted, nonce, base>>
        /\ \E e : /\ Asked(e) /\ disk' \in {disk, Appended(tx, e)}
                  /\ tx' = disk' \/ tx' = tx
    BY <1>4, <1>a, RecordsIs DEF history
  <2>1. PICK e : Asked(e) /\ disk' \in {disk, Appended(tx, e)} /\ (tx' = disk' \/ tx' = tx)
    BY <2>0
  <2>2. CASE disk' = Appended(tx, e) /\ tx' = tx
    <3> DEFINE m == Len(tx.entries)
    <3>1. /\ m \in Nat /\ Ks(tx) = 1 .. m /\ Ks(disk') = 1 .. m + 1
          /\ \A k \in Ks(tx) : disk'.entries[k] = tx.entries[k]
      BY <2>0, <2>1, <2>2, AppendedIs
    <3>2. Len(disk'.entries) \in Nat
      BY <1>a DEF TypeOK, WorldOK, Journal
    <3>3. m <= Len(disk'.entries)
      <4> HIDE DEF m
      <4>1. m + 1 \in 1 .. Len(disk'.entries)
        BY <3>1 DEF Ks
      <4> QED BY <3>1, <3>2, <4>1
    <3>4. \A k \in Ks(tx) : \A d : d = tx.entries[k] => NewId(d)'
      BY <1>a, <2>0 DEF TxInv, NewId, New, Live, Ours
    <3> QED BY <1>c, <2>2, <3>1, <3>3, <3>4 DEF Matches
  <2> QED BY <1>e, <1>f, <2>0, <2>1, <2>2
<1>5. CASE Backfill
  <2> DEFINE m == Len(tx.entries)
  <2>1. /\ pc = "backfill" /\ UNCHANGED <<box, minted, nonce, base>> /\ disk' \in {disk, tx'}
        /\ m \in Ks(tx) /\ Ks(disk) = Ks(tx) /\ Ks(tx') = Ks(tx)
        /\ \A k \in Ks(tx) : /\ k # m => tx'.entries[k] = tx.entries[k]
                             /\ tx'.entries[k].kind = tx.entries[k].kind
                             /\ tx'.entries[k].name = tx.entries[k].name
                             /\ tx'.entries[k].id = tx.entries[k].id
                             /\ tx'.entries[k].was = tx.entries[k].was
        /\ tx'.entries[m].new = minted
    BY <1>5, BackfillIs DEF history
  <2>2. pc \in OnEntry /\ Last = tx.entries[m] /\ Last.name = cur
        /\ Len(disk.entries) = m
    BY <2>1, LastFacts DEF OnEntry, Last
  <2>3. m \in Nat /\ Len(tx'.entries) \in Nat
    BY <1>a DEF TypeOK, MemoryOK, Journal
  <2>4. Len(tx'.entries) = m
    <3>1. 1 .. m = 1 .. Len(tx'.entries)
      BY <2>1 DEF Ks
    <3> HIDE DEF m
    <3>2. m \in 1 .. Len(tx'.entries) /\ Len(tx'.entries) \in 1 .. m
      BY <2>1, <2>3, <3>1 DEF Ks
    <3> QED BY <2>3, <3>2
  <2> HIDE DEF m
  <2>5. ASSUME NEW d, d = tx'.entries[m] PROVE NewId(d)'
    <3>1. d.kind # "start" /\ d.name = cur /\ d.new = minted
      BY <2>1, <2>2, <2>5 DEF IInv, Core, LastInv
    <3>2. /\ minted \in Live(box) => New(box[minted]) /\ box[minted].name = cur
          /\ \A i \in Ours(box) : New(box[i]) /\ box[i].name = cur => i = minted
      BY <2>1 DEF IInv, Onward, MadeInv
    <3>3. NewId(d)
      BY <1>a, <3>1, <3>2, BoundsAssumption DEF NewId, TypeOK, WorldOK
    <3> QED BY <2>1, <3>3 DEF NewId, New, Live, Ours
  <2>6. ASSUME NEW k \in Ks(tx), NEW d, d = tx'.entries[k]
        PROVE  Matches(d, disk.entries[k]) /\ NewId(d)'
    <3>1. Matches(d, disk.entries[k])
      BY <1>a, <2>1, <2>6 DEF TxInv, Matches
    <3>2. k # m => NewId(d)'
      BY <1>a, <2>1, <2>6 DEF TxInv, NewId, New, Live, Ours
    <3> QED BY <2>5, <2>6, <3>1, <3>2
  <2>7. CASE disk' = disk
    BY <1>c, <2>1, <2>2, <2>3, <2>4, <2>6, <2>7
  <2> QED BY <1>e, <2>1, <2>7
<1>6. CASE Create \/ Touches \/ Loiters
  <2>1. UNCHANGED <<disk, nonce, base>> /\ tx' \in {tx, NoJournal}
    BY <1>6, <1>a, CreateIs, TouchForgets DEF Still, history, Forgets, IInv, Core
  <2>2. ASSUME Create, NEW k \in Ks(tx)
        PROVE  tx.entries[k].name # cur \/ tx.entries[k].new = 0
    <3>1. pc = "create" /\ pc \in OnEntry
      BY <2>2 DEF Create, OnEntry
    <3> DEFINE m == Len(tx.entries)
    <3>2. m \in Ks(tx) /\ Last = tx.entries[m] /\ Last.name = cur /\ Ks(tx) = Ks(disk)
      BY <3>1, LastFacts DEF Last
    <3>3. tx.entries[m].new = 0
      BY <3>1, <3>2 DEF IInv, Onward, AtHandInv
    <3>4. k # m => k < m
      BY <2>2, <1>a, EntryTypes DEF Ks
    <3>5. k # m => disk.entries[k].name < disk.entries[m].name
      BY <1>a, <2>2, <3>2, <3>4 DEF EntriesInv
    <3>6. disk.entries[k].name \in Nat /\ disk.entries[m].name \in Nat
      BY <1>a, <2>2, <3>2, EntryTypes DEF Names
    <3>7. /\ tx.entries[k].name = disk.entries[k].name
          /\ tx.entries[m].name = disk.entries[m].name
      BY <1>a, <2>2, <3>2 DEF TxInv
    <3> QED BY <3>2, <3>3, <3>5, <3>6, <3>7
  <2>3. ASSUME NEW k \in Ks(tx), NEW e, e = tx.entries[k]
        PROVE  NewId(e)'
    <3>1. NewId(e) /\ e.new \in Ids \cup {0}
      BY <1>a, <2>3, EntryTypes DEF TxInv
    <3>2. Create => e.name # cur \/ e.new = 0
      BY <2>2, <2>3
    <3> QED BY <1>6, <3>1, <3>2, NewIdStep
  <2>4. CASE tx' = tx
    BY <1>a, <1>c, <2>1, <2>3, <2>4 DEF TxInv, Matches
  <2> QED BY <1>d, <2>1, <2>4
<1> QED BY <1>1, <1>2, <1>3, <1>4, <1>5, <1>6, <1>a, StepKinds

LEMMA WorldInvStep ==
    ASSUME IInv, [Next]_vars PROVE World'
BY UniqueStep, AsideStep, BaseStep, OldStep, NewStep, EntriesStep, TxStep DEF World

-----------------------------------------------------------------------------
(* Going forward.                                                          *)

LEMMA LoitersIs ==
    ASSUME IInv, [Next]_vars, Loiters
    PROVE  /\ UNCHANGED memory /\ Still /\ cut' = cut
           /\ \A k \in Ours(box') : /\ k \in Ours(box) /\ SameLabels(box'[k], box[k])
                                    /\ box'[k].role = box[k].role
                                    /\ Up(box'[k]) => Up(box[k])
           /\ \A k \in Live(box') : k # Stranger => k \in Ours(box')
<1>1. UNCHANGED memory /\ Still /\ cut' = cut
  BY OutsideIs DEF Loiters, vars, docker, history, Still, IInv, Core
<1>2. IdsInv'
  BY CoreStep DEF IInv, Core
<1>3. \A k \in Live(box') : k # Stranger => k \in Ours(box')
  BY <1>2 DEF IdsInv, Ours
<1>4. ASSUME NEW k \in Ours(box')
      PROVE  /\ k \in Ours(box) /\ SameLabels(box'[k], box[k])
             /\ box'[k].role = box[k].role /\ (Up(box'[k]) => Up(box[k]))
  <2>1. CASE box' = box
    BY <1>4, <2>1 DEF Ours, Live, SameLabels
  <2>2. ASSUME NEW i \in Ours(box), Stops(i) \/ Drops(i)
        PROVE  /\ k \in Ours(box) /\ SameLabels(box'[k], box[k])
               /\ box'[k].role = box[k].role /\ (Up(box'[k]) => Up(box[k]))
    BY <1>4, <2>2 DEF Stops, Drops, Others, Stays, Ours, Live, SameLabels, Managed
  <2>3. CASE Squats
    BY <1>4, <2>3, ConstantTypes DEF Squats, Others, Ours, Live, SameLabels
  <2>4. box' = box \/ Exits \/ Leaves \/ Squats
    BY OutsideIs DEF Loiters, vars, docker, IInv, Core
  <2> QED BY <2>1, <2>2, <2>3, <2>4 DEF Exits, Leaves
<1> QED BY <1>1, <1>3, <1>4

(* What Inspect decides.                                                   *)
Upright(i) == i \in At(box, cur, "canonical") /\ Managed(box[i])

LEMMA InspectIs ==
    ASSUME Inspect
    PROVE  /\ pc = "inspect" /\ UNCHANGED <<docker, disk, nonce, meddling, history>>
           /\ cur \in Desired[job.cand]
           /\ \/ RollBack
              \/ Advance /\ \E i : Upright(i) /\ Same(box[i]) /\ ~job.force /\ Up(box[i])
              \/ /\ pc' = "record" /\ UNCHANGED <<job, cur, tx, written, bad>>
                 /\ \/ \E i : /\ Upright(i) /\ view' = Restrict(box, {i})
                             /\ ~(Same(box[i]) /\ ~job.force /\ Up(box[i]))
                    \/ At(box, cur, "canonical") = {} /\ view' = view
<1>1. /\ pc = "inspect" /\ UNCHANGED <<docker, disk, nonce, meddling, history>>
      /\ cur \in Desired[job.cand]
  BY DEF Inspect
<1>2. CASE \E i \in At(box, cur, "canonical") :
             CASE ~Managed(box[i]) -> RollBack
                  [] Managed(box[i]) /\ Same(box[i]) /\ ~job.force /\ Up(box[i])
                       -> Advance
                  [] OTHER -> /\ pc' = "record" /\ view' = Restrict(box, {i})
                              /\ UNCHANGED <<job, cur, tx, written, bad>>
  <2>1. PICK i \in At(box, cur, "canonical") :
             CASE ~Managed(box[i]) -> RollBack
                  [] Managed(box[i]) /\ Same(box[i]) /\ ~job.force /\ Up(box[i])
                       -> Advance
                  [] OTHER -> /\ pc' = "record" /\ view' = Restrict(box, {i})
                              /\ UNCHANGED <<job, cur, tx, written, bad>>
    BY <1>2
  <2>2. CASE ~Managed(box[i])
    BY <1>1, <2>1, <2>2
  <2>3. CASE Managed(box[i]) /\ Same(box[i]) /\ ~job.force /\ Up(box[i])
    BY <1>1, <2>1, <2>3 DEF Upright
  <2>4. CASE Managed(box[i]) /\ ~(Same(box[i]) /\ ~job.force /\ Up(box[i]))
    BY <1>1, <2>1, <2>4 DEF Upright
  <2> QED BY <2>2, <2>3, <2>4
<1>3. CASE At(box, cur, "canonical") = {} /\ Goto("record")
  BY <1>1, <1>3 DEF Goto
<1> QED BY <1>1, <1>2, <1>3 DEF Inspect

(* The ways of going on.                                                   *)
Gone == cur' = cur + 1 /\ view' = Nothing /\ UNCHANGED <<job, tx, written, bad>>
        /\ pc' = IF cur = Dev THEN "hooks" ELSE "inspect"

LEMMA ForwardKinds ==
    ASSUME IInv, [Next]_vars, pc' \in Forward, ~Loiters
    PROVE  \/ /\ pc = "prepare" /\ pc' = "inspect" /\ cur' = 1 /\ nonce' = nonce + 1
              /\ tx'.entries = <<>> /\ UNCHANGED <<box, disk, view>> /\ slipped' = {}
              /\ Prepare
           \/ Gone /\ Skip
           \/ Gone /\ Inspect
           \/ Gone /\ Start
           \/ /\ pc \in Forward /\ job'.cand = job.cand /\ job'.force = job.force
              /\ nonce' = nonce
              /\ pc' \in {"hooks", "gate"} => pc \in {"hooks", "gate"}
              /\ pc' \notin {"hooks", "gate"} => cur' = cur
              /\ \/ box' = box
                 \/ Create \/ StopOld \/ RetireOld \/ SwapIn
<1>a. TypeOK /\ CursorInv /\ ~Undo /\ ~Begin /\ ~Crash /\ ~Commit
      /\ ~(Sweep \/ ListDebris \/ ClearDebris \/ DownList \/ Teardown \/ DownErase)
  BY Leads DEF Takes, Forward, Undo, Begin, IInv, Core
<1>b. \A a : [job EXCEPT !.ip = a].cand = job.cand /\ [job EXCEPT !.ip = a].force = job.force
  BY <1>a DEF TypeOK, MemoryOK, Job
<1> USE DEF history, docker
<1>1. CASE Prepare
  <2>1. [nonce |-> nonce + 1, cand |-> job.cand, entries |-> <<>>].entries = <<>>
    OBVIOUS
  <2>2. pc' # "idle"
    BY DEF Forward
  <2> QED BY <1>1, <2>1, <2>2, PrepareIs DEF Rest
<1>2. CASE Skip
  BY <1>2 DEF Skip, Advance, Gone
<1>3. CASE ResolveDNS
  <2>1. job'.cand = job.cand /\ job'.force = job.force /\ cur' = cur
    BY <1>3, <1>b DEF ResolveDNS, RollBack, Goto
  <2>2. pc = "inspect" /\ pc' \in {"inspect", "rollback"}
    BY <1>3, Leads DEF Takes
  <2> QED BY <1>3, <2>1, <2>2 DEF ResolveDNS, Forward
<1>4. CASE Inspect
  BY <1>4, InspectIs DEF Advance, Gone, RollBack, Goto, Forward
<1>5. CASE Records
  <2>1. pc' # "hooks" /\ pc' # "gate"
    BY <1>5, Leads DEF Takes, Records
  <2>2. pc = "record" /\ UNCHANGED <<box, nonce, job, cur>>
    BY <1>5, <1>a, RecordsIs
  <2> QED BY <2>1, <2>2 DEF Forward
<1>6. CASE Create
  BY <1>6, <1>a, CreateIs DEF Forward, IInv, Core
<1>7. CASE Backfill
  BY <1>7, BackfillIs DEF Forward
<1>8. CASE StopOld
  BY <1>8, <1>a, StopOldIs DEF Held, Still, Forward
<1>9. CASE RetireOld
  BY <1>9, <1>a, RetireOldIs DEF Held, Still, Forward
<1>10. CASE SwapIn
  BY <1>10, <1>a, SwapInIs DEF Held, Still, Forward
<1>11. CASE Start
  BY <1>11, <1>a, StartOldIs DEF Forward, Advance, Gone
<1>12. CASE Hooks \/ Gate
  BY <1>12 DEF Hooks, Gate, RollBack, Goto, Forward
<1> QED
  BY <1>1, <1>2, <1>3, <1>4, <1>5, <1>6, <1>7, <1>8, <1>9, <1>10, <1>11, <1>12, <1>a
  DEF Next, Work, Reconcile, Records, Loiters

(* Whoever holds a name that was reconciled is of the candidate.           *)
Right(c) == c.cand = job.cand /\ (job.force => New(c))

LEMMA PastStep ==
    ASSUME IInv, [Next]_vars PROVE PastInv'
<1>a. TypeOK /\ PastInv /\ Unique /\ Unique' /\ CursorInv
  BY UniqueStep DEF IInv, Core, World, Onward
<1>b. cur \in Nat /\ Size \in Nat /\ Dev = Size
  BY <1>a, BoundsAssumption DEF TypeOK, MemoryOK, Dev
<1>c. \A k \in Ours(box) : Past(box[k].name) /\ box[k].name \in Desired[job.cand]
                           /\ box[k].role = "canonical" => Right(box[k])
  BY <1>a DEF PastInv, Right
<1>d. \A k \in Ours(box') : box'[k].name \in Names /\ box'[k].name \in Nat
  <2>1. box' \in [Ids -> Container]
    BY CoreStep DEF IInv, Core, TypeOK, WorldOK
  <2>2. \A c \in Container : c.name \in Names
    BY DEF Container
  <2> QED BY <2>1, <2>2 DEF Ours, Live, Names
<1> SUFFICES ASSUME pc' \in Forward, NEW k \in Ours(box'),
                    pc' \in {"hooks", "gate"} \/ box'[k].name < cur',
                    box'[k].name \in Desired[job'.cand], box'[k].role = "canonical"
             PROVE  box'[k].cand = job'.cand /\ (job'.force => box'[k].nonce = nonce')
  BY DEF PastInv, Past, New
<1>1. CASE Loiters
  <2>1. UNCHANGED memory /\ nonce' = nonce
    BY <1>1, LoitersIs DEF Still
  <2>2. k \in Ours(box) /\ SameLabels(box'[k], box[k]) /\ box'[k].role = box[k].role
    BY <1>1, LoitersIs
  <2> QED BY <1>c, <2>1, <2>2 DEF memory, SameLabels, Right, New, Past
<1>2. CASE pc' = "inspect" /\ cur' = 1
  BY <1>2, <1>d DEF Names
<1>3. ASSUME Gone, pc \in Forward, nonce' = nonce,
             k \in Ours(box), SameLabels(box'[k], box[k]),
             box[k].name < cur => box[k].role = "canonical",
             box'[k].name = cur => Right(box'[k])
      PROVE  box'[k].cand = job'.cand /\ (job'.force => box'[k].nonce = nonce')
  <2>1. box'[k].name = box[k].name /\ box'[k].cand = box[k].cand
        /\ box'[k].nonce = box[k].nonce
    BY <1>3 DEF SameLabels
  <2>2. box'[k].name <= cur
    <3>1. CASE cur = Dev
      BY <1>b, <1>d, <3>1 DEF Names
    <3>2. CASE cur # Dev
      <4>1. pc' = "inspect" /\ cur' = cur + 1
        BY <1>3, <3>2 DEF Gone
      <4> QED BY <1>b, <1>d, <4>1
    <3> QED BY <3>1, <3>2
  <2>3. CASE box'[k].name < cur
    <3>1. Past(box[k].name) /\ box[k].role = "canonical"
      BY <1>3, <2>1, <2>3 DEF Past
    <3>2. Right(box[k]) /\ job' = job
      BY <1>c, <1>3, <2>1, <3>1 DEF Gone
    <3> QED BY <1>3, <2>1, <3>2 DEF Right, New
  <2>4. CASE box'[k].name = cur
    BY <1>3, <2>4 DEF Gone, Right, New
  <2> QED BY <1>b, <1>d, <2>2, <2>3, <2>4
<1>4. CASE Gone /\ Skip
  <2>1. pc \in Forward /\ nonce' = nonce /\ box' = box /\ cur \notin Desired[job.cand]
    BY <1>4 DEF Skip, Forward, docker
  <2>2. box'[k].name # cur
    BY <1>4, <2>1 DEF Gone
  <2> QED BY <1>3, <1>4, <2>1, <2>2 DEF Ours, Live, SameLabels
<1>5. CASE Gone /\ Inspect
  <2>1. pc = "inspect" /\ UNCHANGED <<docker, nonce>>
    BY <1>5, InspectIs
  <2>2. PICK i : Upright(i) /\ Same(box[i]) /\ ~job.force
    <3>1. pc' # "rollback" /\ pc' # "record"
      BY <1>5 DEF Gone
    <3> QED BY <1>5, <3>1, InspectIs DEF RollBack, Goto
  <2>3. ASSUME box'[k].name = cur PROVE Right(box'[k])
    <3>1. k = i
      BY <1>a, <2>1, <2>2, <2>3 DEF Upright, At, Unique, Ours, Live, docker
    <3> QED BY <2>1, <2>2, <3>1 DEF Same, Right, docker
  <2>4. pc \in Forward /\ k \in Ours(box) /\ box' = box /\ SameLabels(box'[k], box[k])
    BY <2>1 DEF Forward, docker, Ours, Live, SameLabels
  <2> QED BY <1>3, <1>5, <2>1, <2>3, <2>4
<1>6. CASE Gone /\ Start
  <2>0. pc = "start" /\ Still /\ pc' # "rollback"
    BY <1>6, <1>a, StartOldIs DEF Gone
  <2>1. Runs(Begun) \/ (box' = box /\ Up(box[Begun]))
    BY <1>6, <1>a, <2>0, StartOldIs
  <2>2. pc \in OnEntry /\ pc \in Forward
    BY <2>0 DEF OnEntry, Forward
  <2>3. Kept(k) /\ ~Retires(k) /\ ~SwapsIn(k) /\ ~Parks(k) /\ ~Restores(k)
    BY <1>6, <2>0, TouchedOurs DEF Touches, Retires, SwapsIn, Parks, Restores
  <2>4. k \in Ours(box) /\ SameLabels(box'[k], box[k]) /\ box'[k].role = box[k].role
    BY <2>3 DEF Kept
  <2>5. ASSUME box'[k].name = cur PROVE Right(box'[k])
    <3>1. CASE Last.kind = "start"
      <4>1. Begun = Last.id /\ Last.id \in Live(view) /\ Same(view[Last.id]) /\ ~job.force
        BY <2>0, <2>2, <3>1, FoundFacts DEF Begun, IInv, Onward, AtHandInv
      <4>2. Last.id \in Live(box)
        BY <1>a, <2>1, <4>1, ConstantTypes
        DEF Runs, Stays, Up, Live
      <4>3. /\ Last.id \in Ours(box) /\ box[Last.id].name = cur
            /\ box[Last.id].role = "canonical" /\ SameLabels(box[Last.id], view[Last.id])
        BY <2>0, <2>2, <3>1, <4>1, <4>2, FoundFacts DEF IInv, Onward, FoundInv, SeenInv
      <4>4. k = Last.id
        BY <1>a, <2>4, <2>5, <4>3 DEF Unique, Ours, SameLabels
      <4> QED BY <2>4, <4>1, <4>3, <4>4 DEF Same, SameLabels, Right
    <3>2. CASE Last.kind # "start"
      <4>1. Begun = Last.new /\ Last.new # 0
        BY <2>0, <2>2, <3>2 DEF Begun, IInv, Onward, AtHandInv
      <4>2. Last \in Entry
        BY <2>2, LastFacts
      <4>3. Last.new \in Ids
        BY <4>1, <4>2 DEF Entry
      <4>4. Last.new \in Live(box)
        BY <2>1, <4>1, <4>3 DEF Runs, Stays, Up, Live
      <4>5. /\ Last.new \in Ours(box) /\ box[Last.new].name = cur /\ New(box[Last.new])
        BY <2>2, <4>1, <4>4, MadeFacts
      <4>6. box[Last.new].role = "canonical"
        BY <2>0, <4>5 DEF IInv, Onward, MadeInv
      <4>7. k = Last.new
        BY <1>a, <2>4, <2>5, <4>5, <4>6 DEF Unique, Ours, SameLabels
      <4>8. disk.cand = job.cand /\ disk # NoJournal
        BY <2>2, LastFacts
      <4>9. box[k].cand = job.cand
        BY <4>5, <4>7, <4>8 DEF IInv, World, NewInv, Open
      <4> QED BY <2>4, <4>5, <4>7, <4>9 DEF SameLabels, Right, New
    <3> QED BY <3>1, <3>2
  <2> QED BY <1>3, <1>6, <2>0, <2>2, <2>4, <2>5 DEF Still
<1>7. ASSUME /\ pc \in Forward /\ job'.cand = job.cand /\ job'.force = job.force
             /\ nonce' = nonce
             /\ pc' \in {"hooks", "gate"} => pc \in {"hooks", "gate"}
             /\ pc' \notin {"hooks", "gate"} => cur' = cur,
             box' = box \/ Create \/ StopOld \/ RetireOld \/ SwapIn
      PROVE  box'[k].cand = job'.cand /\ (job'.force => box'[k].nonce = nonce')
  <2>1. ASSUME k \in Ours(box), SameLabels(box'[k], box[k]), box'[k].role = box[k].role
        PROVE  box'[k].cand = job'.cand /\ (job'.force => box'[k].nonce = nonce')
    <3>1. Past(box[k].name)
      BY <1>7, <2>1 DEF Past, SameLabels
    <3> QED BY <1>c, <1>7, <2>1, <3>1 DEF SameLabels, Right, New
  <2>2. CASE box' = box
    BY <2>1, <2>2 DEF Ours, Live, SameLabels
  <2>3. CASE Create
    <3>1. pc = "create" /\ pc' \notin {"hooks", "gate"} /\ (Adds \/ box' = box)
      BY <2>3, <1>a, CreateIs DEF IInv, Core
    <3>2. box'[k].name < cur
      BY <1>7, <3>1
    <3>3. CASE Adds
      <4>1. k # minted + 1
        BY <1>b, <3>2, <3>3 DEF Adds
      <4> QED BY <2>1, <3>3, <4>1 DEF Adds, Others, Ours, Live, SameLabels
    <3> QED BY <2>2, <3>1, <3>3
  <2>4. CASE StopOld \/ RetireOld \/ SwapIn
    <3>1. pc \in {"stop", "retire", "swap"} /\ pc' \notin {"hooks", "gate"}
      BY <2>4, <1>a, StopOldIs, RetireOldIs, SwapInIs
    <3>2. Kept(k) /\ box'[k].name < cur
      BY <1>7, <2>4, <3>1, TouchedOurs DEF Touches
    <3>3. ~Retires(k) /\ ~Parks(k) /\ ~Restores(k)
      BY <3>1 DEF Retires, Parks, Restores, Moves
    <3>4. ~SwapsIn(k)
      <4> SUFFICES ASSUME SwapsIn(k) PROVE FALSE
        OBVIOUS
      <4>1. pc = "swap" /\ pc \in OnEntry /\ Last.new = k /\ k \in Live(box)
        BY DEF SwapsIn, OnEntry, Ours
      <4>2. Last.new # 0
        BY <4>1 DEF Live, Ids
      <4>3. box[k].name = cur
        BY <4>1, <4>2, MadeFacts
      <4> QED BY <1>b, <3>2, <4>3 DEF Kept, SameLabels
    <3> QED BY <2>1, <3>2, <3>3, <3>4 DEF Kept
  <2> QED BY <1>7, <2>2, <2>3, <2>4
<1> QED BY <1>1, <1>2, <1>4, <1>5, <1>6, <1>7, ForwardKinds

LEMMA AheadStep ==
    ASSUME IInv, [Next]_vars PROVE AheadInv'
<1>a. TypeOK /\ AheadInv /\ CursorInv /\ EntriesInv
  BY DEF IInv, Core, World, Onward
<1>b. /\ cur \in Nat /\ \A k \in Ks(disk) : disk.entries[k].name \in Nat
  BY <1>a, EntryTypes, BoundsAssumption DEF TypeOK, MemoryOK, Names
<1> SUFFICES ASSUME pc' \in {"inspect", "record"}, NEW k \in Ks(disk')
             PROVE  disk'.entries[k].name < cur'
  BY DEF AheadInv, Ks
<1>1. ASSUME disk' = disk, cur' = cur, pc \in {"inspect", "record"}
      PROVE  disk'.entries[k].name < cur'
  BY <1>a, <1>1 DEF AheadInv
<1>2. CASE Loiters
  BY <1>1, <1>2, LoitersIs DEF Still, memory
<1>3. CASE pc = "prepare" /\ disk' = disk
  <2>1. disk = NoJournal
    BY <1>3 DEF IInv, Core, PhaseInv, Quiet
  <2> QED BY <1>3, <2>1 DEF Ks, NoJournal
<1>4. CASE Gone /\ (Skip \/ Inspect)
  <2>1. pc = "inspect" /\ disk' = disk
    BY <1>4, InspectIs DEF Skip
  <2> QED BY <1>a, <1>b, <1>4, <2>1 DEF AheadInv, Gone
<1>5. CASE Gone /\ Start
  <2>1. pc \in OnEntry /\ disk' = disk
    BY <1>5, <1>a, StartOldIs DEF OnEntry, Still
  <2> DEFINE m == Len(disk.entries)
  <2>2. m \in Ks(disk) /\ disk.entries[m].name = cur
    BY <2>1, LastFacts
  <2>3. k \in Ks(disk) /\ (k = m \/ k < m)
    BY <1>a, <2>1, EntryTypes DEF Ks
  <2>4. k < m => disk.entries[k].name < disk.entries[m].name
    BY <1>a, <2>2, <2>3 DEF EntriesInv
  <2>5. disk.entries[k].name <= cur
    BY <1>b, <2>2, <2>3, <2>4
  <2> QED BY <1>b, <1>5, <2>1, <2>3, <2>5 DEF Gone
<1>6. CASE ResolveDNS
  <2>1. cur' = cur /\ disk' = disk
    BY <1>6 DEF ResolveDNS, RollBack, Goto
  <2> QED BY <1>1, <1>6, <2>1, Leads DEF Takes
<1>7. CASE Inspect /\ pc' = "record"
  BY <1>1, <1>7, InspectIs DEF RollBack, Goto, Advance
<1>8. CASE Inspect /\ pc' = "inspect"
  BY <1>4, <1>8, InspectIs DEF RollBack, Goto, Advance, Gone
<1>9. CASE Skip
  BY <1>4, <1>9 DEF Skip, Advance, Gone
<1>10. CASE Start
  BY <1>5, <1>10, <1>a, StartOldIs DEF Advance, Gone
<1>11. CASE Prepare
  BY <1>3, <1>11, PrepareIs
<1> QED BY <1>2, <1>6, <1>7, <1>8, <1>9, <1>10, <1>11, Arrives

LEMMA BlankStep ==
    ASSUME IInv, [Next]_vars PROVE BlankInv'
<1>a. TypeOK /\ BlankInv
  BY DEF IInv, Core, Onward
<1>b. Live(Nothing) = {}
  BY DEF Live, Nothing, NoContainer
<1> SUFFICES ASSUME pc' \in {"prepare", "inspect"} PROVE Live(view') = {}
  BY DEF BlankInv, Live
<1>1. ASSUME view' = view, pc \in {"prepare", "inspect"} PROVE Live(view') = {}
  BY <1>a, <1>1 DEF BlankInv
<1>2. CASE Loiters
  BY <1>1, <1>2, LoitersIs DEF memory
<1>3. CASE ClearDebris /\ pc' = "prepare"
  BY <1>3 DEF ClearDebris, Dispose, Call, Goto, Rest
<1>4. CASE Prepare
  BY <1>1, <1>4, <1>b, PrepareIs DEF Rest
<1>5. CASE Skip
  BY <1>5, <1>b DEF Skip, Advance
<1>6. CASE ResolveDNS
  BY <1>1, <1>6 DEF ResolveDNS, RollBack, Goto
<1>7. CASE Inspect
  BY <1>7, <1>b, InspectIs DEF RollBack, Goto, Advance
<1>8. CASE Start
  BY <1>8, <1>a, <1>b, StartOldIs DEF Advance
<1> QED BY <1>2, <1>3, <1>4, <1>5, <1>6, <1>7, <1>8, Arrives

(* While an entry is at hand, what Inspect showed of it stays true.        *)
LEMMA SeenStep ==
    ASSUME IInv, [Next]_vars PROVE SeenInv'
<1> DEFINE J(b, v, p) ==
        /\ \A i \in Live(v) :
              /\ \A k \in Live(v) : k = i
              /\ i # Stranger /\ v[i].name = cur /\ i \in base[cur].ids
              /\ i \in Live(b) => SameLabels(b[i], v[i])
              /\ p \in {"record", "create", "backfill", "stop", "retire"} /\ i \in Live(b) =>
                    b[i].role = "canonical" /\ (Up(b[i]) => Up(v[i]))
        /\ Live(v) = {} => \A i \in Ours(b) : b[i].name = cur => New(b[i])
<1>a. TypeOK /\ SeenInv /\ CursorInv /\ IdsInv
  BY DEF IInv, Core, Onward
<1>b. (pc \in {"record"} \cup OnEntry => cur \in Desired[job.cand] /\ J(box, view, pc))
  BY <1>a DEF SeenInv
<1>c. ASSUME cur' = cur, nonce' = nonce, base' = base, job'.cand = job.cand,
             pc' \in {"record"} \cup OnEntry,
             cur \in Desired[job.cand], J(box', view', pc')
      PROVE  SeenInv'
  BY <1>c DEF SeenInv, New, Live, Ours
<1>d. \A i \in Live(box') : i # Stranger => i \in Ours(box')
  <2>1. IdsInv'
    BY CoreStep DEF IInv, Core
  <2> QED BY <2>1 DEF IdsInv, Ours
<1> SUFFICES ASSUME pc' \in {"record"} \cup OnEntry PROVE SeenInv'
  BY DEF SeenInv, OnEntry
<1>1. CASE Inspect
  <2>1. /\ pc = "inspect" /\ pc' = "record"
        /\ UNCHANGED <<box, nonce, base, job, cur>> /\ cur \in Desired[job.cand]
        /\ \/ \E i : Upright(i) /\ view' = Restrict(box, {i})
           \/ At(box, cur, "canonical") = {} /\ view' = view
    BY <1>1, InspectIs DEF RollBack, Goto, Advance, OnEntry, docker, history
  <2>2. Open /\ nonce > 0 /\ cur \in Names
    BY <1>a, <2>1 DEF Open, IInv, Core, PhaseInv, JournalInv, Forward, CursorInv
  <2>3. \A kind : ~InDisk(cur, kind)
    <3>1. \A k \in Ks(disk) : disk.entries[k].name < cur
      BY <2>1 DEF IInv, Onward, AheadInv
    <3>2. cur \in Nat
      BY <2>2 DEF Names
    <3> QED BY <3>1, <3>2 DEF InDisk
  <2>4. \A i \in Ours(box) : box[i].name = cur => ~New(box[i]) /\ box[i].role = "canonical"
    BY <2>2, <2>3 DEF IInv, World, NewInv, OldInv, Made
  <2>5. CASE At(box, cur, "canonical") = {} /\ view' = view
    <3>1. Live(view) = {}
      BY <2>1 DEF IInv, Onward, BlankInv
    <3>2. \A i \in Ours(box) : box[i].name # cur
      BY <2>4, <2>5 DEF At, Ours
    <3>3. J(box', view', pc')
      BY <2>1, <2>5, <3>1, <3>2
    <3> QED BY <1>c, <2>1, <3>3
  <2>6. ASSUME NEW i, Upright(i), view' = Restrict(box, {i}) PROVE SeenInv'
    <3>1. i \in Ids /\ i \in Ours(box) /\ box[i].name = cur /\ box[i].role = "canonical"
          /\ i \in Live(box) /\ i # Stranger
      BY <1>a, <2>6 DEF Upright, At, Live, Ours, IdsInv
    <3>2. Live(view') = {i} /\ view'[i] = box[i]
      BY <2>6, <3>1 DEF Restrict, Live, NoContainer
    <3>3. i \in base[cur].ids
      BY <2>2, <2>4, <3>1 DEF IInv, World, BaseInv
    <3>4. J(box', view', pc')
      BY <2>1, <3>1, <3>2, <3>3 DEF SameLabels
    <3> QED BY <1>c, <2>1, <3>4
  <2> QED BY <2>1, <2>5, <2>6
<1>2. ASSUME UNCHANGED <<cur, nonce, base, view>>, job'.cand = job.cand,
             pc \in {"record"} \cup OnEntry,
             pc' \in {"record", "create", "backfill", "stop", "retire"} =>
                pc \in {"record", "create", "backfill", "stop", "retire"},
             \A i \in Live(view) : i \in Live(box') =>
                /\ i \in Live(box) /\ SameLabels(box'[i], box[i])
                /\ pc' \in {"record", "create", "backfill", "stop", "retire"} =>
                      box'[i].role = box[i].role /\ (Up(box'[i]) => Up(box[i])),
             Live(view) = {} => \A i \in Ours(box') : box'[i].name = cur =>
                New(box'[i]) \/ (i \in Ours(box) /\ SameLabels(box'[i], box[i]))
      PROVE  SeenInv'
  <2>1. J(box, view, pc) /\ cur \in Desired[job.cand]
    BY <1>b, <1>2
  <2>2. J(box', view', pc')
    BY <1>2, <2>1 DEF SameLabels, New
  <2> QED BY <1>c, <1>2, <2>1, <2>2
<1> HIDE DEF J
<1>3. CASE Loiters
  <2>1. \A i \in Live(view) : pc \in {"record"} \cup OnEntry => i # Stranger
    BY <1>a DEF SeenInv
  <2>2. pc' = pc
    BY <1>3, LoitersIs DEF memory
  <2>3. \A i \in Live(box') : i # Stranger =>
           i \in Ours(box) /\ SameLabels(box'[i], box[i]) /\ box'[i].role = box[i].role
           /\ (Up(box'[i]) => Up(box[i]))
    BY <1>3, <1>d, LoitersIs
  <2>4. \A i \in Ours(box') : i \in Ours(box) /\ SameLabels(box'[i], box[i])
    BY <1>3, LoitersIs
  <2>5. UNCHANGED <<cur, nonce, base, view, job>>
    BY <1>3, LoitersIs DEF memory, Still
  <2> QED BY <1>2, <2>1, <2>2, <2>3, <2>4, <2>5 DEF Ours
<1>4. CASE Records \/ Backfill
  <2>1. UNCHANGED <<box, cur, nonce, base, view, job>> /\ pc \in {"record", "backfill"}
    BY <1>4, <1>a, RecordsIs, BackfillIs DEF history
  <2> QED BY <1>2, <2>1 DEF OnEntry, SameLabels, Ours, Live
<1>5. CASE Create
  <2>1. UNCHANGED <<cur, nonce, base, view, job>> /\ pc = "create" /\ pc \in OnEntry
        /\ (Adds \/ box' = box)
    BY <1>5, <1>a, CreateIs DEF history, OnEntry
  <2>2. CASE Adds
    <3> DEFINE m == minted + 1
    <3>1. /\ m \in Ids /\ \A k \in Ids \ {m} : box'[k] = box[k]
          /\ box'[m].nonce = tx.nonce /\ m \notin Live(box) /\ m # Stranger
      BY <2>2 DEF Adds, Others
    <3>2. tx.nonce = nonce /\ cur \in Names
      BY <2>1, LastFacts
    <3>3. minted \in Nat
      BY <1>a, BoundsAssumption DEF TypeOK, WorldOK
    <3>4. m \notin base[cur].ids
      BY <3>1, <3>2, <3>3 DEF IInv, World, BaseInv
    <3>5. \A i \in Live(view) : i # m
      BY <1>a, <2>1, <3>4 DEF SeenInv
    <3> HIDE DEF m
    <3>6. \A i \in Live(box') : i # m => i \in Live(box) /\ box'[i] = box[i]
      BY <3>1 DEF Live
    <3>7. New(box'[m])
      BY <3>1, <3>2 DEF New
    <3> QED BY <1>2, <2>1, <3>5, <3>6, <3>7 DEF OnEntry, SameLabels, Ours
  <2> QED BY <1>2, <2>1, <2>2 DEF OnEntry, SameLabels, Ours, Live
<1>6. CASE StopOld \/ RetireOld \/ SwapIn
  <2>1. /\ pc \in {"stop", "retire", "swap"} /\ pc' \in {"retire", "swap", "start"}
        /\ pc = "stop" <=> pc' = "retire"
        /\ UNCHANGED <<cur, nonce, base, view, job>>
    BY <1>6, <1>a, StopOldIs, RetireOldIs, SwapInIs DEF Held, Still, OnEntry
  <2>2. pc \in OnEntry /\ \A i \in Live(view) : i # Stranger
    BY <1>a, <2>1 DEF SeenInv, OnEntry
  <2>3. \A k \in Ours(box') : Kept(k)
    BY <1>6, TouchedOurs DEF Touches
  <2>4. \A k \in Ours(box') : pc' = "retire" =>
           box'[k].role = box[k].role /\ (Up(box'[k]) => Up(box[k]))
    BY <2>1, <2>3 DEF Kept, Retires, SwapsIn, Parks, Restores, Starts, Revives
  <2>5. \A k \in Ours(box') : k \in Ours(box) /\ SameLabels(box'[k], box[k])
    BY <2>3 DEF Kept
  <2> QED BY <1>2, <1>d, <2>1, <2>2, <2>4, <2>5 DEF Ours
<1> QED BY <1>1, <1>3, <1>4, <1>5, <1>6, Arrives DEF OnEntry, Records

LEMMA AtHandStep ==
    ASSUME IInv, [Next]_vars PROVE AtHandInv'
<1> DEFINE K(e, d, p) ==
        /\ e.kind = "create" <=> Live(view) = {}
        /\ e.kind # "create" => e.id \in Live(view)
        /\ e.kind = "replace" => e.was = Up(view[e.id])
        /\ e.kind = "start" => p = "start" /\ Same(view[e.id]) /\ ~job.force
        /\ p \in {"stop", "retire", "swap"} => e.kind = "replace"
        /\ p \in {"create", "backfill"} => e.new = 0 /\ d.new = 0
        /\ p \in {"stop", "retire", "swap", "start"} /\ e.kind # "start" => e.new # 0
<1>a. TypeOK /\ CursorInv
  BY DEF IInv, Core
<1>b. pc \in OnEntry => K(Last, disk.entries[Len(disk.entries)], pc)
  BY DEF IInv, Onward, AtHandInv
<1> SUFFICES ASSUME pc' \in OnEntry PROVE AtHandInv'
  BY DEF AtHandInv
<1>c. ASSUME UNCHANGED <<view, cur, job>>, NEW e, e = tx'.entries[Len(tx'.entries)],
             NEW d, d = disk'.entries[Len(disk'.entries)], K(e, d, pc')
      PROVE  AtHandInv'
  BY <1>c DEF AtHandInv, Last, Same, Live
<1>d. ASSUME UNCHANGED <<view, cur, job, tx, disk>>, pc \in OnEntry,
             K(Last, disk.entries[Len(disk.entries)], pc')
      PROVE  AtHandInv'
  BY <1>c, <1>d DEF Last
<1>1. CASE Loiters
  BY <1>b, <1>d, <1>1, LoitersIs DEF memory, Still
<1>2. CASE Records
  <2>1. /\ pc = "record" /\ UNCHANGED <<view, cur, job>>
        /\ \E e : /\ Asked(e) /\ tx' = Appended(tx, e) /\ disk' = tx'
                  /\ pc' = IF e.kind = "start" THEN "start" ELSE "create"
    BY <1>2, <1>a, RecordsIs DEF OnEntry
  <2>2. PICK e : /\ Asked(e) /\ tx' = Appended(tx, e) /\ disk' = tx'
                 /\ pc' = IF e.kind = "start" THEN "start" ELSE "create"
    BY <2>1
  <2>3. tx \in Journal /\ e \in Entry
    BY <1>a, <2>2 DEF TypeOK, MemoryOK, Asked
  <2>4. e = tx'.entries[Len(tx'.entries)]
    BY <2>2, <2>3, AppendedType
  <2>5. K(e, e, pc')
    BY <2>2 DEF Asked
  <2> QED BY <1>c, <2>1, <2>2, <2>4, <2>5
<1>3. CASE Create
  <2>1. UNCHANGED <<view, cur, job, tx, disk>> /\ pc = "create" /\ pc' = "backfill"
    BY <1>3, <1>a, CreateIs DEF OnEntry, IInv, Core
  <2> QED BY <1>b, <1>d, <2>1 DEF OnEntry
<1>4. CASE Backfill
  <2> DEFINE m == Len(tx.entries)
  <2>1. /\ pc = "backfill" /\ pc \in OnEntry /\ UNCHANGED <<view, cur, job>> /\ disk' = tx'
        /\ pc' = IF Live(view) = {} THEN "start" ELSE "stop"
        /\ m \in Ks(tx) /\ Ks(tx') = Ks(tx)
        /\ tx'.entries[m].kind = tx.entries[m].kind
        /\ tx'.entries[m].id = tx.entries[m].id
        /\ tx'.entries[m].was = tx.entries[m].was
        /\ tx'.entries[m].new = minted
    BY <1>4, BackfillIs DEF OnEntry
  <2>2. Len(tx'.entries) = m
    <3>1. Len(tx.entries) \in Nat /\ Len(tx'.entries) \in Nat
      BY <1>4, <1>a, BackfillIs DEF TypeOK, MemoryOK, Journal
    <3>2. Len(tx'.entries) \in 1 .. Len(tx.entries) /\ m \in 1 .. Len(tx'.entries)
      <4>1. Len(tx'.entries) \in Ks(tx')
        <5>1. m \in 1 .. Len(tx'.entries)
          BY <2>1 DEF Ks
        <5> HIDE DEF m
        <5> QED BY <3>1, <5>1 DEF Ks
      <4> QED BY <2>1, <4>1 DEF Ks
    <3> QED BY <3>1, <3>2
  <2>3. PICK e : e = tx'.entries[Len(tx'.entries)]
    OBVIOUS
  <2>4. e.kind = Last.kind /\ e.id = Last.id /\ e.was = Last.was /\ e.new = minted
    BY <2>1, <2>2, <2>3 DEF Last
  <2>5. minted > 0 /\ minted \in Nat /\ Last.kind \in {"create", "replace"}
    BY <1>a, <2>1, BoundsAssumption
    DEF IInv, Onward, MadeInv, Core, LastInv, TypeOK, WorldOK
  <2>6. K(Last, disk.entries[Len(disk.entries)], pc)
    BY <1>b, <2>1
  <2>7. K(e, e, pc')
    BY <2>1, <2>4, <2>5, <2>6
  <2> HIDE DEF K, m
  <2> QED BY <1>c, <2>1, <2>3, <2>7
<1>5. CASE StopOld \/ RetireOld \/ SwapIn
  <2>1. /\ pc \in {"stop", "retire", "swap"} /\ pc' \in {"retire", "swap", "start"}
        /\ UNCHANGED <<view, cur, job, tx, disk>>
    BY <1>5, <1>a, StopOldIs, RetireOldIs, SwapInIs DEF Held, Still, OnEntry
  <2> QED BY <1>b, <1>d, <2>1 DEF OnEntry
<1> QED BY <1>1, <1>2, <1>3, <1>4, <1>5, Arrives DEF OnEntry, Records

(* The container made for the entry at hand.                               *)
LEMMA MadeInvStep ==
    ASSUME IInv, [Next]_vars PROVE MadeInv'
<1> DEFINE P == {"create", "backfill", "stop", "retire", "swap", "start"}
           Here(b, i) == i \in Ours(b) /\ New(b[i]) /\ b[i].name = cur
<1>a. TypeOK /\ CursorInv /\ MadeInv /\ IdsInv
  BY DEF IInv, Core, Onward
<1>b. pc \in P => pc \in OnEntry
  BY DEF OnEntry
<1>c. ASSUME pc' \in P, UNCHANGED <<nonce, cur>>,
             \A i \in Ids : Here(box', i) =>
                /\ pc' # "create"
                /\ pc' = "backfill" => i = minted'
                /\ pc' \in {"backfill", "stop", "retire", "swap"} => box'[i].role = Staging'
                /\ pc' = "start" => box'[i].role = "canonical",
             pc' = "backfill" =>
                /\ minted' > 0
                /\ minted' \in Live(box') => Here(box', minted')
      PROVE  MadeInv'
  BY <1>c DEF MadeInv, New, Ours, Live
<1> SUFFICES ASSUME pc' \in P PROVE MadeInv'
  BY DEF MadeInv
<1>d. \A i \in Ids : Here(box, i) => i \in Ours(box)
  OBVIOUS
<1>1. CASE Loiters
  <2>1. UNCHANGED <<pc, view, cur, nonce, minted>>
    BY <1>1, LoitersIs DEF memory, Still
  <2>2. \A i \in Ours(box') : i \in Ours(box) /\ SameLabels(box'[i], box[i])
                              /\ box'[i].role = box[i].role
    BY <1>1, LoitersIs
  <2>3. minted # Stranger
    BY <1>a, BoundsAssumption DEF TypeOK, WorldOK, Stranger
  <2>4. minted \in Live(box') => minted \in Ours(box')
    BY <1>1, <2>3, LoitersIs
  <2>5. Staging' = Staging
    BY <2>1 DEF Staging
  <2>6. \A i \in Ids : Here(box', i) => Here(box, i) /\ box'[i].role = box[i].role
    BY <2>2 DEF SameLabels, New
  <2>7. minted \in Live(box') => minted \in Live(box) /\ (Here(box, minted) => Here(box', minted))
    BY <2>2, <2>4 DEF SameLabels, New, Ours
  <2>8. \A i \in Ours(box) : New(box[i]) /\ box[i].name = cur =>
          /\ pc # "create"
          /\ pc = "backfill" => i = minted
          /\ pc \in {"backfill", "stop", "retire", "swap"} => box[i].role = Staging
          /\ pc = "start" => box[i].role = "canonical"
    BY <1>a DEF MadeInv
  <2>9. pc = "backfill" => minted > 0 /\ (minted \in Live(box') => Here(box', minted))
    BY <1>a, <2>2, <2>4 DEF MadeInv, Ours, SameLabels, New
  <2> QED BY <1>c, <2>1, <2>5, <2>6, <2>8, <2>9
<1>2. CASE Records
  <2>1. UNCHANGED <<box, nonce, cur>> /\ pc = "record" /\ pc' \in {"start", "create"}
    BY <1>2, <1>a, RecordsIs
  <2>2. Open /\ cur \in Nat
    BY <1>a, <2>1, BoundsAssumption
    DEF Open, IInv, Core, PhaseInv, Forward, TypeOK, MemoryOK
  <2>3. \A kind : ~InDisk(cur, kind)
    <3>1. \A k \in Ks(disk) : disk.entries[k].name < cur
      BY <2>1 DEF IInv, Onward, AheadInv
    <3> QED BY <2>2, <3>1 DEF InDisk
  <2>4. \A i \in Ids : ~Here(box', i)
    BY <2>1, <2>2, <2>3 DEF IInv, World, NewInv, Made, Ours, Live
  <2> QED BY <1>c, <2>1, <2>4
<1>3. CASE Create
  <2>1. UNCHANGED <<nonce, cur, view, tx>> /\ pc = "create" /\ pc' = "backfill" /\ Adds
    BY <1>3, <1>a, CreateIs DEF history
  <2>2. tx.nonce = nonce
    BY <2>1, LastFacts DEF OnEntry
  <2> DEFINE m == minted + 1
  <2>3. /\ m \in Ids /\ minted' = m /\ \A k \in Ids \ {m} : box'[k] = box[k]
        /\ box'[m].name = cur /\ box'[m].role = Staging /\ New(box'[m])
        /\ m \in Live(box') /\ m # Stranger
    BY <2>1, <2>2 DEF Adds, Others, New
  <2>4. m > 0
    BY <1>a, BoundsAssumption DEF TypeOK, WorldOK
  <2> HIDE DEF m
  <2>5. \A i \in Ours(box) : ~Here(box, i)
    BY <1>a, <2>1 DEF MadeInv
  <2>6. \A i \in Ids : Here(box', i) => i = m
    BY <2>3, <2>5 DEF Ours, Live
  <2>7. m \in Ours(box')
    <3>1. IdsInv'
      BY CoreStep DEF IInv, Core
    <3> QED BY <2>3, <3>1 DEF IdsInv, Ours
  <2>8. Staging' = Staging
    BY <2>1 DEF Staging
  <2>9. Here(box', m)
    BY <2>3, <2>7
  <2> HIDE DEF Here
  <2> QED BY <1>c, <2>1, <2>3, <2>4, <2>6, <2>8, <2>9
<1>4. CASE Backfill
  <2>1. /\ pc = "backfill" /\ UNCHANGED <<box, minted, nonce, cur, view>>
        /\ pc' = IF Live(view) = {} THEN "start" ELSE "stop"
    BY <1>4, BackfillIs
  <2>2. \A i \in Ids : Here(box, i) => box[i].role = Staging
    BY <1>a, <2>1 DEF MadeInv
  <2>3. Staging' = Staging /\ (Live(view) = {} => Staging = "canonical")
    BY <2>1 DEF Staging
  <2> QED BY <1>c, <2>1, <2>2, <2>3
<1>5. CASE StopOld \/ RetireOld \/ SwapIn
  <2>1. /\ pc \in {"stop", "retire", "swap"} /\ pc' \in {"retire", "swap", "start"}
        /\ pc' = "start" => SwapIn /\ Moves(Last.new, "canonical") /\ pc = "swap"
        /\ UNCHANGED <<nonce, cur, view>>
    BY <1>5, <1>a, StopOldIs, RetireOldIs, SwapInIs DEF Held, Still
  <2>2. \A k \in Ours(box') : Kept(k)
    BY <1>5, TouchedOurs DEF Touches
  <2>3. \A i \in Ids : Here(box', i) => Here(box, i)
    BY <2>2 DEF Kept, SameLabels, New
  <2>4. \A i \in Ids : Here(box, i) => box[i].role = Staging
    BY <1>a, <2>1 DEF MadeInv
  <2>5. Staging' = Staging
    BY <2>1 DEF Staging
  <2>6. CASE pc' # "start"
    <3>1. pc # "swap"
      BY <1>5, <1>a, <2>1, <2>6, StopOldIs, RetireOldIs, SwapInIs
    <3>2. \A i \in Ids : Here(box', i) => box'[i].role = box[i].role
      <4> SUFFICES ASSUME NEW i \in Ids, Here(box', i) PROVE box'[i].role = box[i].role
        OBVIOUS
      <4>1. ~Retires(i) /\ ~SwapsIn(i) /\ ~Parks(i) /\ ~Restores(i)
        BY <2>1, <2>3, <3>1 DEF Retires, SwapsIn, Parks, Restores
      <4> QED BY <2>2, <4>1 DEF Kept
    <3> HIDE DEF Here
    <3> QED BY <1>c, <2>1, <2>3, <2>4, <2>5, <2>6, <3>2
  <2>7. CASE pc' = "start"
    <3>1. pc = "swap" /\ pc \in OnEntry /\ Last.new # 0 /\ NewId(Last) /\ Last.name = cur
      BY <2>1, <2>7, LastFacts DEF OnEntry, IInv, Onward, AtHandInv
    <3>2. \A i \in Ids : Here(box, i) => i = Last.new
      BY <3>1 DEF NewId
    <3>3. box'[Last.new].role = "canonical"
      BY <2>1, <2>7 DEF Moves
    <3> HIDE DEF Here
    <3> QED BY <1>c, <2>1, <2>3, <2>7, <3>2, <3>3
  <2> QED BY <2>6, <2>7
<1> QED BY <1>1, <1>2, <1>3, <1>4, <1>5, Arrives DEF Records

(* The container found for it.                                             *)
LEMMA FoundStep ==
    ASSUME IInv, [Next]_vars PROVE FoundInv'
<1>a. TypeOK /\ CursorInv /\ FoundInv
  BY DEF IInv, Core, Onward
<1> SUFFICES ASSUME pc' \in {"retire", "swap", "start"} PROVE FoundInv'
  BY DEF FoundInv
<1>b. ASSUME NEW e, e = tx'.entries[Len(tx'.entries)],
             e.id \in Live(box') =>
                /\ e.kind = "replace" => ~Up(box'[e.id])
                /\ e.kind = "replace" /\ pc' # "retire" => box'[e.id].role = "prev"
                /\ e.kind = "start" => box'[e.id].role = "canonical"
      PROVE  FoundInv'
  BY <1>b DEF FoundInv, Last, Live
<1>1. CASE Loiters
  <2>1. pc' = pc /\ tx' = tx /\ pc \in OnEntry /\ view' = view
    BY <1>1, LoitersIs DEF memory, OnEntry
  <2>2. ASSUME Last.kind # "create", Last.id \in Live(box')
        PROVE  /\ Last.id \in Ours(box) /\ box'[Last.id].role = box[Last.id].role
               /\ Up(box'[Last.id]) => Up(box[Last.id])
    BY <1>1, <2>1, <2>2, LoitersIs, FoundFacts
  <2>3. Last.id \in Ours(box) => Last.id \in Live(box)
    BY DEF Ours
  <2>4. Last = tx'.entries[Len(tx'.entries)]
    BY <2>1 DEF Last
  <2>5. Last.id \in Live(box') =>
                /\ Last.kind = "replace" => ~Up(box'[Last.id])
                /\ Last.kind = "replace" /\ pc' # "retire" => box'[Last.id].role = "prev"
                /\ Last.kind = "start" => box'[Last.id].role = "canonical"
    BY <1>a, <2>1, <2>2, <2>3 DEF FoundInv
  <2>6. PICK e : e = Last
    OBVIOUS
  <2> QED BY <1>b, <2>4, <2>5, <2>6
<1>2. CASE Records
  <2>1. /\ pc = "record" /\ UNCHANGED <<box, view>> /\ pc' = "start"
        /\ \E e : Asked(e) /\ tx' = Appended(tx, e) /\ e.kind = "start"
    BY <1>2, <1>a, RecordsIs
  <2>2. PICK e : Asked(e) /\ tx' = Appended(tx, e) /\ e.kind = "start"
    BY <2>1
  <2>3. tx \in Journal /\ e \in Entry /\ e.id \in Live(view)
    BY <1>a, <2>2 DEF TypeOK, MemoryOK, Asked
  <2>4. e = tx'.entries[Len(tx'.entries)]
    BY <2>2, <2>3, AppendedType
  <2>5. e.id \in Live(box) => box[e.id].role = "canonical"
    BY <2>1, <2>3 DEF IInv, Onward, SeenInv
  <2> QED BY <1>b, <2>1, <2>2, <2>4, <2>5
<1>3. CASE Backfill
  <2>1. /\ pc = "backfill" /\ pc \in OnEntry /\ Live(view) = {} /\ tx' \in Journal
        /\ LET m == Len(tx.entries)
           IN m \in Ks(tx) /\ Ks(tx') = Ks(tx) /\ tx'.entries[m].kind = tx.entries[m].kind
    BY <1>3, BackfillIs DEF OnEntry
  <2>2. Last.kind = "create"
    BY <2>1 DEF IInv, Onward, AtHandInv
  <2>3. Len(tx'.entries) = Len(tx.entries)
    <3>1. Len(tx.entries) \in Nat /\ Len(tx'.entries) \in Nat
      BY <2>1, <1>a DEF TypeOK, MemoryOK, Journal
    <3>2. Len(tx.entries) \in 1 .. Len(tx'.entries)
      BY <2>1 DEF Ks
    <3>3. Len(tx'.entries) \in 1 .. Len(tx.entries)
      <4>1. Len(tx'.entries) \in 1 .. Len(tx'.entries)
        BY <3>1, <3>2
      <4> QED BY <2>1, <4>1 DEF Ks
    <3> QED BY <3>1, <3>2, <3>3
  <2>4. PICK e : e = tx'.entries[Len(tx'.entries)]
    OBVIOUS
  <2>5. e.kind = "create"
    BY <2>1, <2>2, <2>3, <2>4 DEF Last
  <2> QED BY <1>b, <2>4, <2>5
<1>4. CASE StopOld \/ RetireOld \/ SwapIn
  <2>1. /\ tx' = tx /\ pc \in {"stop", "retire", "swap"}
        /\ \/ /\ pc = "stop" /\ pc' = "retire"
              /\ IF Last.was THEN Stops(Last.id) ELSE box' = box
           \/ pc = "retire" /\ pc' = "swap" /\ Moves(Last.id, "prev")
           \/ pc = "swap" /\ pc' = "start" /\ Moves(Last.new, "canonical")
    BY <1>4, <1>a, StopOldIs, RetireOldIs, SwapInIs DEF Held
  <2>2. pc \in OnEntry /\ Last.kind = "replace" /\ Last.was = Up(view[Last.id])
    BY <2>1 DEF OnEntry, IInv, Onward, AtHandInv
  <2>3. Last.id \in Ids /\ Last.id \in Live(view)
    BY <2>2, FoundFacts DEF Live
  <2>4. CASE pc = "stop"
    <3>1. Last.id \in Live(box) => (Up(box[Last.id]) => Last.was)
      BY <2>2, <2>3, <2>4 DEF IInv, Onward, SeenInv
    <3>2. Last.id \in Live(box') => ~Up(box'[Last.id])
      BY <2>1, <2>4, <3>1 DEF Stops
    <3>3. PICK e : e = Last
      OBVIOUS
    <3> QED BY <1>b, <2>1, <2>2, <2>4, <3>2, <3>3 DEF Last
  <2>5. CASE pc = "retire"
    <3>1. Moves(Last.id, "prev") /\ pc' = "swap"
      BY <2>1, <2>5
    <3>2. Last.id \in Live(box) /\ box'[Last.id].role = "prev"
          /\ (Up(box'[Last.id]) <=> Up(box[Last.id]))
      BY <3>1 DEF Moves, Stays
    <3>3. ~Up(box[Last.id])
      BY <1>a, <2>2, <2>5, <3>2 DEF FoundInv
    <3>4. PICK e : e = Last
      OBVIOUS
    <3> QED BY <1>b, <2>1, <2>2, <3>1, <3>2, <3>3, <3>4 DEF Last
  <2>6. CASE pc = "swap"
    <3>1. Moves(Last.new, "canonical") /\ pc' = "start"
      BY <2>1, <2>6
    <3>2. Last.new \in Live(box) /\ Last.new # 0
      BY <3>1 DEF Moves, Stays, Live, Ids
    <3>3. New(box[Last.new])
      BY <2>2, <3>2, MadeFacts
    <3>4. Last.id \in Live(box) => Last.id # Last.new
      BY <2>2, <3>3, FoundFacts
    <3>5. Last.id \in Live(box') => Last.id \in Live(box) /\ box'[Last.id] = box[Last.id]
      BY <2>3, <3>1, <3>2, <3>4 DEF Moves, Others, Live
    <3>6. Last.id \in Live(box') => ~Up(box'[Last.id]) /\ box'[Last.id].role = "prev"
      BY <1>a, <2>2, <2>6, <3>5 DEF FoundInv
    <3>7. PICK e : e = Last
      OBVIOUS
    <3> QED BY <1>b, <2>1, <2>2, <3>1, <3>6, <3>7 DEF Last
  <2> QED BY <2>1, <2>4, <2>5, <2>6
<1> QED BY <1>1, <1>2, <1>3, <1>4, Arrives DEF Records

(* What the gate has seen running runs until somebody interferes.          *)
LEMMA AliveStep ==
    ASSUME IInv, [Next]_vars PROVE AliveInv'
<1>a. TypeOK /\ AliveInv
  BY DEF IInv, Core, Onward
<1>b. cur \in Nat
  BY <1>a, BoundsAssumption DEF TypeOK, MemoryOK
<1> SUFFICES ASSUME pc' = "gate", NEW n \in Desired[job'.cand] \ slipped', n < cur'
             PROVE  \E i \in At(box', n, "canonical") : Up(box'[i])
  BY DEF AliveInv, Alive, At, Live
<1>c. job'.cand = job.cand /\ job.cand \in Cands
  BY Arrives, LoitersIs
  DEF Hooks, Gate, RollBack, Goto, memory, IInv, Core, PhaseInv, Forward
<1>1. CASE Hooks
  <2>1. cur' = 1
    BY <1>1 DEF Hooks, RollBack, Goto
  <2>2. n \in Nat \ {0}
    BY <1>c, PlanAssumption DEF Names
  <2> QED BY <2>1, <2>2
<1>2. CASE Gate
  <2>1. /\ cur' = cur + 1 /\ (cur \in Desired[job.cand] => Alive(cur))
        /\ UNCHANGED <<box, slipped>> /\ pc = "gate"
    BY <1>2 DEF Gate, RollBack, Goto, docker, history
  <2>2. n \in Nat
    BY <1>c, PlanAssumption DEF Names
  <2>3. Alive(n)
    BY <1>a, <1>b, <1>c, <2>1, <2>2 DEF AliveInv
  <2> QED BY <2>1, <2>3 DEF Alive, At, Live
<1>3. CASE Loiters
  <2>1. pc = "gate" /\ cur' = cur
    BY <1>3, LoitersIs DEF memory
  <2>2. slipped \subseteq slipped'
    BY <1>3 DEF Loiters, vars, history, Outside, Exit, Vanish, Squat, Meddle
  <2>3. Alive(n)
    BY <1>a, <1>c, <2>1, <2>2 DEF AliveInv
  <2>4. PICK i \in At(box, n, "canonical") : Up(box[i])
    BY <2>3 DEF Alive
  <2>5. box'[i] = box[i]
    <3>1. CASE \E k \in Ids : Exit(k) \/ Vanish(k)
      <4>1. PICK k \in Ids : Exit(k) \/ Vanish(k)
        BY <3>1
      <4>2. Meddle(box[k].name) /\ k \in Live(box)
        BY <4>1 DEF Exit, Vanish
      <4>3. k # i
        <5>1. box[i].name = n
          BY <2>4 DEF At
        <5> QED BY <2>1, <4>2, <5>1 DEF Meddle
      <4>4. Stops(k) \/ Drops(k)
        BY <1>a, <4>1, StopIs, RemoveIs DEF Exit, Vanish
      <4> QED BY <2>4, <4>3, <4>4 DEF Stops, Drops, Others, At, Live
    <3>2. CASE \E m \in Names, r \in Roles : Squat(m, r)
      <4>1. Stranger \notin Live(box) /\ Others(Stranger)
        <5>1. PICK m \in Names, r \in Roles : Squat(m, r)
          BY <3>2
        <5> QED BY <1>a, <5>1 DEF Squat, Others, TypeOK, WorldOK
      <4> QED BY <2>4, <4>1 DEF Others, At, Live
    <3>3. CASE UNCHANGED vars
      BY <3>3 DEF vars, docker
    <3> QED BY <1>3, <3>1, <3>2, <3>3 DEF Loiters, Outside
  <2> QED BY <2>4, <2>5 DEF At, Live
<1> QED BY <1>1, <1>2, <1>3, Arrives

LEMMA OnwardStep ==
    ASSUME IInv, [Next]_vars PROVE Onward'
BY PastStep, AheadStep, BlankStep, SeenStep, AtHandStep, MadeInvStep, FoundStep,
   AliveStep
   DEF Onward

-----------------------------------------------------------------------------
(* Going back.                                                             *)

(* The entry to undo is the only one of its name.                          *)
LEMMA OnlyEntry ==
    ASSUME IInv, pc \in AtEntry \/ (pc = "undo" /\ cur > 0)
    PROVE  /\ \A k \in Ks(disk) : disk.entries[k].name = Undone.name => k = cur
           /\ \A kind : InDisk(Undone.name, kind) => kind = Undone.kind
<1>1. cur \in Ks(disk) /\ disk.entries[cur].name = Undone.name
      /\ disk.entries[cur].kind = Undone.kind
  BY UndoneFacts
<1>2. \A k \in Ks(disk) : k \in Nat /\ disk.entries[k].name \in Nat
  BY EntryTypes DEF IInv, Core, Names
<1>3. \A k, m \in Ks(disk) : k < m => disk.entries[k].name < disk.entries[m].name
  BY DEF IInv, World, EntriesInv
<1>4. ASSUME NEW k \in Ks(disk), disk.entries[k].name = Undone.name PROVE k = cur
  BY <1>1, <1>2, <1>3, <1>4
<1> QED BY <1>1, <1>4 DEF InDisk

(* The containers of the transaction that the listing finds for the entry. *)
LEMMA ListedNow ==
    ASSUME IInv, pc = "undo", cur > 0, ~OldGone(box)
    PROVE  LET M == Target(box, tx, Undone)
           IN  /\ \A i \in M : /\ \A k \in M : k = i
                               /\ i \in Live(box) /\ i # Stranger
                               /\ box[i].name = Undone.name
                               /\ Undone.kind # "start" => New(box[i])
                               /\ Undone.kind = "start" => i = Undone.id
               /\ \A i \in Ours(box) : New(box[i]) /\ box[i].name = Undone.name => i \in M
               /\ Undone.kind = "replace" =>
                     Undone.id \in Live(box) /\ Undone.id \notin M
<1> DEFINE M == Target(box, tx, Undone)
           e == Undone
<1>a. /\ e \in Entry /\ e.name \in Names
      /\ e.kind # "create" => e.id \in base[e.name].ids /\ e.id # Stranger
      /\ e.kind = "create" => e.id = 0
      /\ NewId(e) /\ nonce > 0 /\ tx.nonce = nonce /\ tx.cand = disk.cand
      /\ disk # NoJournal
  BY UndoneFacts
<1>b. e.kind \in {"replace", "create", "start"}
  BY <1>a DEF Entry
<1>c. TypeOK /\ IdsInv /\ NewInv /\ BaseInv /\ Open
  BY <1>a DEF IInv, Core, World, Open
<1>d. \A kind : InDisk(e.name, kind) => kind = e.kind
  BY OnlyEntry
<1>e. e.id \in Live(box) => ~New(box[e.id]) \/ e.kind = "create"
  BY <1>a, <1>b, <1>c DEF BaseInv
<1>f. \A i \in Ours(box) : i \in Live(box) /\ i # Stranger /\ Managed(box[i])
  BY <1>c DEF Ours, IdsInv
<1>g. ASSUME NEW i \in Ours(box), New(box[i]), box[i].name = e.name
      PROVE  /\ Owns(tx, box[i]) /\ i # e.id
             /\ \A k \in Ours(box) : New(box[k]) /\ box[k].name = e.name => k = i
             /\ e.kind # "start"
             /\ e.kind = "create" => box[i].role = "canonical"
             /\ box[i].role \in {"canonical", "next"}
  <2>1. /\ box[i].cand = disk.cand /\ Made(box[i])
        /\ \A k \in Ours(box) : New(box[k]) /\ box[k].name = box[i].name => k = i
    BY <1>c, <1>g DEF NewInv
  <2>2. i # 0 /\ Managed(box[i])
    BY <1>f, <1>g DEF Live, Ids
  <2>3. Owns(tx, box[i])
    BY <1>a, <1>g, <2>1, <2>2 DEF Owns, New
  <2>4. i # e.id
    BY <1>a, <1>b, <1>e, <1>f, <1>g, <2>2
  <2>5. /\ e.kind # "start" /\ (e.kind = "create" => box[i].role = "canonical")
        /\ box[i].role \in {"canonical", "next"}
    BY <1>d, <1>g, <2>1 DEF Made
  <2> QED BY <1>g, <2>1, <2>3, <2>4, <2>5
<1>h. \A r : \A i \in OwnedAt(box, tx, e, r) :
          /\ i \in Ours(box) /\ New(box[i]) /\ box[i].name = e.name /\ box[i].role = r
  BY <1>a DEF OwnedAt, At, Owns, Ours, New
<1>i. \A r : \A i \in Ours(box) : New(box[i]) /\ box[i].name = e.name /\ box[i].role = r
          => i \in OwnedAt(box, tx, e, r)
  BY <1>f, <1>g DEF OwnedAt, At
<1>j. ASSUME e.new # 0
      PROVE  /\ e.kind # "start"
             /\ e.new \in Live(box) => e.new \in Ours(box)
                    /\ New(box[e.new]) /\ box[e.new].name = e.name
             /\ \A i \in Ours(box) : New(box[i]) /\ box[i].name = e.name => i = e.new
  <2>1. e.new <= minted
    BY <1>a, <1>j DEF NewId
  <2>2. e.new # Stranger
    BY <1>c, <2>1, BoundsAssumption DEF TypeOK, WorldOK, Stranger
  <2> QED BY <1>a, <1>c, <1>j, <2>2 DEF NewId, IdsInv, Ours
<1> DEFINE Good == /\ \A i \in M : /\ i \in Ours(box) /\ New(box[i]) /\ box[i].name = e.name
                   /\ \A i \in Ours(box) : New(box[i]) /\ box[i].name = e.name => i \in M
<1> HIDE DEF e
<1>1. CASE e.kind # "start"
  <2>1. Good
    <3>1. CASE e.new # 0
      <4>1. M = {e.new} \cap Live(box)
        BY <1>1, <1>b, <3>1 DEF Target, FindNew, e
      <4> QED BY <1>f, <1>j, <3>1, <4>1
    <3>2. CASE e.new = 0 /\ e.kind = "create"
      <4>1. M = OwnedAt(box, tx, e, "canonical")
        BY <3>2 DEF Target, e
      <4>2. \A i \in Ours(box) : New(box[i]) /\ box[i].name = e.name
               => box[i].role = "canonical"
        BY <1>g, <3>2
      <4> QED BY <1>h, <1>i, <4>1, <4>2
    <3>3. CASE e.new = 0 /\ e.kind = "replace"
      <4>1. M = IF OwnedAt(box, tx, e, "canonical") # {}
                THEN OwnedAt(box, tx, e, "canonical") ELSE OwnedAt(box, tx, e, "next")
        BY <3>3 DEF Target, FindNew, e
      <4> HIDE DEF M
      <4>2. CASE OwnedAt(box, tx, e, "canonical") # {}
        <5>1. PICK k : k \in OwnedAt(box, tx, e, "canonical")
          BY <4>2
        <5>2. k \in Ours(box) /\ New(box[k]) /\ box[k].name = e.name
          BY <1>h, <5>1
        <5>3. \A i \in Ours(box) : New(box[i]) /\ box[i].name = e.name => i = k
          BY <1>g, <5>2
        <5> QED BY <1>h, <4>1, <4>2, <5>1, <5>3
      <4>3. CASE OwnedAt(box, tx, e, "canonical") = {}
        <5>1. \A i \in Ours(box) : New(box[i]) /\ box[i].name = e.name
                 => box[i].role = "next"
          BY <1>g, <1>i, <4>3
        <5> QED BY <1>h, <1>i, <4>1, <4>3, <5>1
      <4> QED BY <4>2, <4>3
    <3> QED BY <1>1, <1>b, <3>1, <3>2, <3>3
  <2> HIDE DEF M
  <2>2. \A i \in M : \A k \in M : k = i
    BY <1>g, <2>1
  <2>3. e.kind = "replace" => e.id \in Live(box) /\ e.id \notin M
    BY <1>e, <2>1 DEF OldGone, e
  <2> QED BY <1>1, <1>f, <2>1, <2>2, <2>3 DEF M, e
<1>2. CASE e.kind = "start"
  <2>1. M = {e.id} \cap Live(box)
    BY <1>2 DEF Target, e
  <2>2. e.id \in Live(box) => box[e.id].name = e.name /\ e.id # Stranger
    BY <1>2, <1>a, <1>c DEF BaseInv
  <2>3. \A i \in Ours(box) : ~(New(box[i]) /\ box[i].name = e.name)
    BY <1>2, <1>g
  <2> HIDE DEF M
  <2> QED BY <1>2, <2>1, <2>2, <2>3 DEF M, e
<1> QED BY <1>1, <1>2

LEMMA ListIs ==
    ASSUME UndoList, pc' = "undo-stop"
    PROVE  /\ pc = "undo" /\ cur > 0 /\ ~OldGone(box) /\ view' = box
           /\ UNCHANGED <<box, minted, disk, nonce, base, cur, tx, bad, job>>
BY DEF UndoList, Refuse, NextEntry, docker, history

(* Staying with an entry.                                                  *)
LEMMA EntryKinds ==
    ASSUME IInv, [Next]_vars, pc' \in AtEntry, ~Loiters
    PROVE  \/ UndoList /\ pc' = "undo-stop"
           \/ /\ pc \in AtEntry /\ UNCHANGED <<view, cur, tx, nonce, disk, base, bad>>
              /\ \/ UndoStop /\ AfterStop /\ pc = "undo-stop"
                      /\ pc' \in {"undo-park", "undo-drop"}
                 \/ UndoPark /\ pc = "undo-park" /\ pc' = "undo-restore"
                 \/ UndoRestore /\ AfterRestore /\ pc = "undo-restore"
                      /\ pc' \in {"undo-revive", "undo-drop"}
                 \/ UndoRevive /\ pc = "undo-revive" /\ pc' = "undo-confirm"
                 \/ UndoConfirm /\ box' = box /\ pc = "undo-confirm" /\ pc' = "undo-drop"
<1>a. TypeOK
  BY DEF IInv, Core
<1> USE DEF AtEntry, Refuse, Undid, NextEntry, Goto, Held, Still, docker, history
<1>1. CASE UndoStop
  BY <1>1, <1>a, UndoStopIs DEF AfterStop
<1>2. CASE UndoPark
  BY <1>2, <1>a, UndoParkIs
<1>3. CASE UndoRestore
  BY <1>3, <1>a, UndoRestoreIs DEF AfterRestore
<1>4. CASE UndoRevive
  BY <1>4, <1>a, UndoReviveIs
<1>5. CASE UndoConfirm
  BY <1>5 DEF UndoConfirm
<1>6. UndoList \/ UndoStop \/ UndoPark \/ UndoRestore \/ UndoRevive \/ UndoConfirm
  BY Arrives
<1>7. CASE UndoList
  BY <1>7 DEF UndoList
<1> QED BY <1>1, <1>2, <1>3, <1>4, <1>5, <1>6, <1>7

LEMMA ListedStep ==
    ASSUME IInv, [Next]_vars PROVE ListedInv'
<1> SUFFICES ASSUME pc' \in AtEntry PROVE ListedInv'
  BY DEF ListedInv
<1>1. ASSUME pc \in AtEntry, UNCHANGED <<view, cur, tx, nonce>> PROVE ListedInv'
  <2>1. ListedInv
    BY DEF IInv, Backward
  <2>2. Mine' = Mine /\ Undone' = Undone
    BY <1>1 DEF Mine, Undone, Target, FindNew, OwnedAt, At, Live, Owns
  <2> QED BY <1>1, <2>1, <2>2 DEF ListedInv, New, Ours, Live
<1>2. CASE Loiters
  BY <1>1, <1>2, LoitersIs DEF memory, Still
<1>3. CASE UndoList /\ pc' = "undo-stop"
  <2>1. /\ view' = box /\ UNCHANGED <<box, nonce, cur, tx>>
        /\ pc = "undo" /\ cur > 0 /\ ~OldGone(box)
    BY <1>3, ListIs
  <2>2. Undone' = Undone
    BY <2>1 DEF Undone
  <2>3. Mine' = Target(box, tx, Undone)
    BY <2>1, <2>2 DEF Mine, Target, FindNew, OwnedAt, At, Live, Owns
  <2> HIDE <1>3
  <2> QED BY <2>1, <2>2, <2>3, ListedNow DEF ListedInv, New, Ours, Live
<1> QED BY <1>1, <1>2, <1>3, EntryKinds

LEMMA FreshStep ==
    ASSUME IInv, [Next]_vars PROVE FreshInv'
<1>a. FreshInv /\ ListedInv /\ LastInv
  BY DEF IInv, Backward, Core
<1> SUFFICES ASSUME pc' \in AtEntry, NEW i \in Ours(box')
             PROVE  /\ i \in Ours(view') /\ SameLabels(view'[i], box'[i])
                    /\ pc' = "undo-stop" /\ Up(box'[i]) => Up(view'[i])
                    /\ pc' \in {"undo-stop", "undo-park"} => box'[i].role = view'[i].role
                    /\ pc' = "undo-restore" /\ i = Undone'.id => box'[i].role = view'[i].role
  BY DEF FreshInv, Ours, Live
<1>1. CASE Loiters
  <2>1. pc' = pc /\ view' = view /\ cur' = cur /\ tx' = tx
    BY <1>1, LoitersIs DEF memory
  <2>2. i \in Ours(box) /\ SameLabels(box'[i], box[i]) /\ box'[i].role = box[i].role
        /\ (Up(box'[i]) => Up(box[i]))
    BY <1>1, LoitersIs
  <2>3. Undone' = Undone
    BY <2>1 DEF Undone
  <2> QED BY <1>a, <2>1, <2>2, <2>3 DEF FreshInv, SameLabels
<1>2. CASE UndoList /\ pc' = "undo-stop"
  <2>1. view' = box /\ box' = box
    BY <1>2, ListIs
  <2> QED BY <2>1 DEF SameLabels
<1>3. CASE UndoConfirm /\ box' = box /\ pc = "undo-confirm" /\ pc' = "undo-drop"
           /\ UNCHANGED view
  <2>1. pc \in AtEntry
    BY <1>3 DEF AtEntry
  <2> QED BY <1>a, <1>3, <2>1 DEF FreshInv, SameLabels, Ours, Live
<1>4. ASSUME pc \in AtEntry, UNCHANGED <<view, cur, tx>>,
             UndoStop \/ UndoPark \/ UndoRestore \/ UndoRevive,
             pc' # "undo-stop",
             pc = "undo-stop" <=> UndoStop, pc = "undo-park" <=> UndoPark,
             pc' = "undo-park" => pc = "undo-stop",
             pc' = "undo-restore" => pc = "undo-park"
      PROVE  /\ i \in Ours(view') /\ SameLabels(view'[i], box'[i])
             /\ pc' = "undo-stop" /\ Up(box'[i]) => Up(view'[i])
             /\ pc' \in {"undo-stop", "undo-park"} => box'[i].role = view'[i].role
             /\ pc' = "undo-restore" /\ i = Undone'.id => box'[i].role = view'[i].role
  <2>1. Kept(i)
    BY <1>4, TouchedOurs DEF Touches
  <2>2. i \in Ours(view) /\ SameLabels(view[i], box'[i])
    BY <1>a, <1>4, <2>1 DEF Kept, FreshInv, SameLabels
  <2>3. CASE pc' = "undo-park"
    <3>1. pc = "undo-stop"
      BY <1>4, <2>3
    <3>2. ~Retires(i) /\ ~SwapsIn(i) /\ ~Parks(i) /\ ~Restores(i)
      BY <3>1 DEF Retires, SwapsIn, Parks, Restores
    <3> QED BY <1>a, <1>4, <2>1, <2>2, <2>3, <3>1, <3>2 DEF Kept, FreshInv
  <2>4. CASE pc' = "undo-restore" /\ i = Undone'.id
    <3>1. pc = "undo-park" /\ Undone' = Undone
      BY <1>4, <2>4 DEF Undone
    <3>2. Undone.kind = "replace"
      BY <1>a, <3>1 DEF LastInv, AtEntry
    <3>3. i \notin Mine
      BY <1>a, <1>4, <2>4, <3>1, <3>2 DEF ListedInv
    <3>4. ~Retires(i) /\ ~SwapsIn(i) /\ ~Parks(i) /\ ~Restores(i)
      BY <3>1, <3>3 DEF Retires, SwapsIn, Parks, Restores
    <3> QED BY <1>a, <1>4, <2>1, <2>2, <2>4, <3>1, <3>4 DEF Kept, FreshInv
  <2> QED BY <1>4, <2>2, <2>3, <2>4
<1>5. ASSUME pc \in AtEntry, UNCHANGED <<view, cur, tx>>,
             \/ UndoStop /\ pc = "undo-stop" /\ pc' \in {"undo-park", "undo-drop"}
             \/ UndoPark /\ pc = "undo-park" /\ pc' = "undo-restore"
             \/ UndoRestore /\ pc = "undo-restore" /\ pc' \in {"undo-revive", "undo-drop"}
             \/ UndoRevive /\ pc = "undo-revive" /\ pc' = "undo-confirm"
      PROVE  /\ UndoStop \/ UndoPark \/ UndoRestore \/ UndoRevive
             /\ pc' # "undo-stop"
             /\ pc = "undo-stop" <=> UndoStop
             /\ pc = "undo-park" <=> UndoPark
             /\ pc' = "undo-park" => pc = "undo-stop"
             /\ pc' = "undo-restore" => pc = "undo-park"
  BY <1>5, Leads DEF Takes
<1> QED BY <1>1, <1>2, <1>3, <1>4, <1>5, EntryKinds

LEMMA UndoInvStep ==
    ASSUME IInv, [Next]_vars PROVE UndoInv'
<1>a. TypeOK /\ FreshInv /\ ListedInv /\ LastInv /\ UndoInv /\ LastInv'
  BY CoreStep DEF IInv, Backward, Core
<1> SUFFICES ASSUME pc' \in AtEntry PROVE UndoInv'
  BY DEF UndoInv, AtEntry
<1>b. ASSUME pc \in AtEntry, UNCHANGED <<view, cur, tx>>,
             \A i \in Mine : i \in Live(box') /\ pc' # "undo-stop" => ~Up(box'[i]),
             pc' \notin {"undo-stop", "undo-park"} /\ Undone.kind = "replace" =>
                \A i \in Mine : i \in Live(box') => box'[i].role # "canonical",
             pc' \in {"undo-revive", "undo-confirm", "undo-drop"}
                /\ Undone.kind = "replace" /\ Undone.id \in Live(box')
                => box'[Undone.id].role = "canonical"
      PROVE  UndoInv'
  <2>1. Undone' = Undone /\ Mine' = Mine
    BY <1>b DEF Mine, Undone, Target, FindNew, OwnedAt, At, Live, Owns
  <2> QED BY <1>b, <2>1 DEF UndoInv, Live
<1>c. pc \in AtEntry => \A i \in Mine : i # Stranger
  BY <1>a DEF ListedInv
<1>d. pc \in AtEntry /\ Undone.kind # "create" => Undone.id # Stranger
  BY UndoneFacts
<1>e. \A i \in Live(box') : i # Stranger => i \in Ours(box')
  <2>1. IdsInv'
    BY CoreStep DEF IInv, Core
  <2> QED BY <2>1 DEF IdsInv, Ours
<1>f. \A i \in Ours(box) : i \in Live(box)
  BY DEF Ours
<1>1. CASE Loiters
  <2>1. pc' = pc /\ UNCHANGED <<view, cur, tx>>
    BY <1>1, LoitersIs DEF memory
  <2>2. \A i \in Live(box') : i # Stranger =>
           i \in Live(box) /\ box'[i].role = box[i].role /\ (Up(box'[i]) => Up(box[i]))
    BY <1>1, <1>e, <1>f, LoitersIs
  <2> QED BY <1>a, <1>b, <1>c, <1>d, <2>1, <2>2 DEF UndoInv
<1>2. CASE UndoList /\ pc' = "undo-stop"
  BY <1>2 DEF UndoInv
<1>g. ASSUME UndoStop \/ UndoPark \/ UndoRestore \/ UndoRevive, NEW i \in Live(box'),
             i # Stranger
      PROVE  i \in Live(box) /\ Kept(i)
  BY <1>e, <1>f, <1>g, TouchedOurs DEF Touches, Kept
<1>3. CASE UndoStop /\ AfterStop /\ pc = "undo-stop" /\ pc' \in {"undo-park", "undo-drop"}
           /\ UNCHANGED <<view, cur, tx>>
  <2>1. pc \in AtEntry /\ (pc' = "undo-drop" => Undone.kind = "create")
    BY <1>3 DEF AtEntry, AfterStop, Undid, NextEntry, Goto
  <2>2. (\E i \in Mine : Stops(i)) \/ (box' = box /\ \A i \in Mine : ~Up(view[i]))
    BY <1>3, <1>a, UndoStopIs DEF Refuse, NextEntry
  <2>3. ASSUME NEW i \in Mine, i \in Live(box') PROVE ~Up(box'[i])
    <3>1. CASE \E k \in Mine : Stops(k)
      <4>1. PICK k \in Mine : Stops(k)
        BY <3>1
      <4>2. k = i
        BY <1>a, <2>1, <2>3 DEF ListedInv
      <4> QED BY <4>1, <4>2 DEF Stops
    <3>2. CASE box' = box /\ ~Up(view[i])
      <4>1. i \in Ours(box)
        BY <1>c, <1>e, <2>1, <2>3, <3>2 DEF Ours, Live
      <4> QED BY <1>3, <1>a, <2>1, <3>2, <4>1 DEF FreshInv
    <3> QED BY <2>2, <2>3, <3>1, <3>2
  <2> QED BY <1>3, <1>b, <2>1, <2>3
<1>4. CASE UndoPark /\ pc = "undo-park" /\ pc' = "undo-restore"
           /\ UNCHANGED <<view, cur, tx>>
  <2>1. pc \in AtEntry
    BY <1>4 DEF AtEntry
  <2>2. \/ \E i \in Mine : Moves(i, "next")
        \/ box' = box /\ \A i \in Mine : view[i].role # "canonical"
    BY <1>4, <1>a, UndoParkIs DEF Refuse, NextEntry
  <2>3. ASSUME NEW i \in Mine, i \in Live(box')
        PROVE  ~Up(box'[i]) /\ box'[i].role # "canonical"
    <3>1. i \in Live(box) /\ Kept(i)
      BY <1>4, <1>c, <1>g, <2>1, <2>3
    <3>2. ~Up(box[i])
      BY <1>4, <1>a, <2>1, <3>1 DEF UndoInv
    <3>3. ~Up(box'[i])
      BY <1>4, <3>1, <3>2 DEF Kept, Starts, Revives
    <3>4. CASE \E k \in Mine : Moves(k, "next")
      <4>1. PICK k \in Mine : Moves(k, "next")
        BY <3>4
      <4>2. k = i
        BY <1>a, <2>1, <2>3 DEF ListedInv
      <4> QED BY <3>3, <4>1, <4>2 DEF Moves
    <3>5. CASE box' = box /\ view[i].role # "canonical"
      <4>1. i \in Ours(box)
        BY <3>1 DEF Kept
      <4> QED BY <1>4, <1>a, <2>1, <3>3, <3>5, <4>1 DEF FreshInv
    <3> QED BY <2>2, <2>3, <3>4, <3>5
  <2> QED BY <1>4, <1>b, <2>1, <2>3
<1>5. CASE UndoRestore /\ AfterRestore /\ pc = "undo-restore"
           /\ pc' \in {"undo-revive", "undo-drop"} /\ UNCHANGED <<view, cur, tx>>
  <2>1. pc \in AtEntry /\ Undone.kind = "replace"
    BY <1>5, <1>a DEF AtEntry, LastInv
  <2>2. \/ Moves(Undone.id, "canonical")
        \/ box' = box /\ view[Undone.id].role = "canonical"
    BY <1>5, <1>a, UndoRestoreIs DEF Refuse, NextEntry
  <2>3. ASSUME NEW i \in Mine, i \in Live(box')
        PROVE  ~Up(box'[i]) /\ box'[i].role # "canonical"
    <3>1. i \in Live(box) /\ Kept(i)
      BY <1>5, <1>c, <1>g, <2>1, <2>3
    <3>2. ~Up(box[i]) /\ box[i].role # "canonical"
      BY <1>5, <1>a, <2>1, <3>1 DEF UndoInv
    <3>3. ~Up(box'[i])
      BY <1>5, <3>1, <3>2 DEF Kept, Starts, Revives
    <3>4. ~Retires(i) /\ ~SwapsIn(i) /\ ~Parks(i) /\ ~Restores(i)
      BY <1>5, <1>a, <2>1, <2>3 DEF Retires, SwapsIn, Parks, Restores, ListedInv
    <3> QED BY <3>1, <3>2, <3>3, <3>4 DEF Kept
  <2>4. Undone.id \in Live(box') => box'[Undone.id].role = "canonical"
    <3>1. CASE Moves(Undone.id, "canonical")
      BY <3>1 DEF Moves
    <3>2. CASE box' = box /\ view[Undone.id].role = "canonical"
      <4>1. Undone.id \in Live(box') => Undone.id \in Ours(box)
        BY <1>d, <1>e, <2>1, <3>2 DEF Ours, Live
      <4> QED BY <1>5, <1>a, <2>1, <3>2, <4>1 DEF FreshInv
    <3> QED BY <2>2, <3>1, <3>2
  <2> QED BY <1>5, <1>b, <2>1, <2>3, <2>4
<1>6. CASE /\ (UndoRevive /\ pc = "undo-revive" /\ pc' = "undo-confirm")
              \/ (UndoConfirm /\ box' = box /\ pc = "undo-confirm" /\ pc' = "undo-drop")
           /\ UNCHANGED <<view, cur, tx>>
  <2>1. pc \in AtEntry /\ Undone.kind = "replace"
    BY <1>6, <1>a DEF AtEntry, LastInv
  <2>2. ASSUME NEW i \in Live(box'), i # Stranger
        PROVE  i \in Live(box) /\ box'[i].role = box[i].role
               /\ (i \in Mine /\ Up(box'[i]) => Up(box[i]))
    <3>1. CASE UndoRevive
      <4>1. pc = "undo-revive"
        BY <1>6, <3>1, Leads DEF Takes
      <4>2. i \in Live(box) /\ Kept(i)
        BY <1>g, <2>2, <3>1
      <4>3. ~Retires(i) /\ ~SwapsIn(i) /\ ~Parks(i) /\ ~Restores(i) /\ ~Starts(i)
        BY <4>1 DEF Retires, SwapsIn, Parks, Restores, Starts
      <4>4. i \in Mine => ~Revives(i)
        BY <1>a, <2>1 DEF ListedInv, Revives
      <4> QED BY <4>2, <4>3, <4>4 DEF Kept
    <3>2. CASE box' = box
      BY <2>2, <3>2 DEF Live
    <3> QED BY <1>6, <3>1, <3>2
  <2> QED BY <1>6, <1>a, <1>b, <1>c, <1>d, <2>1, <2>2 DEF UndoInv
<1> QED BY <1>1, <1>2, <1>3, <1>4, <1>5, <1>6, EntryKinds

(* What an entry that is not there never did.                              *)
LEMMA BlankIsClean ==
    ASSUME IInv, Open, NEW n, ~InDisk(n, "create"), ~InDisk(n, "replace")
    PROVE  Clean(n)
BY DEF IInv, World, OldInv, NewInv, Made, Clean

(* Steps that leave names, labels and roles alone.                         *)
LEMMA CleanKept ==
    ASSUME NEW n, Clean(n), nonce' = nonce,
           \A i \in Ours(box') : /\ i \in Ours(box) /\ SameLabels(box'[i], box[i])
                                 /\ box'[i].name = n => box'[i].role = box[i].role
    PROVE  Clean(n)'
BY DEF Clean, SameLabels, New

(* Giving up: which entries memory does not have.                          *)
LEMMA RollbackKinds ==
    ASSUME IInv, [Next]_vars, pc' = "rollback"
    PROVE  \/ Loiters /\ pc = "rollback" /\ UNCHANGED <<disk, tx, nonce>>
           \/ /\ Records /\ pc = "record" /\ UNCHANGED <<box, nonce, cur>>
              /\ \A k \in Ks(disk') : k > Len(tx'.entries) => disk'.entries[k].name = cur
           \/ \A k \in Ks(disk') : ~(k > Len(tx'.entries))
<1>a. TypeOK /\ CursorInv /\ MirrorInv /\ PhaseInv
  BY DEF IInv, Core
<1>1. CASE Loiters
  BY <1>1, LoitersIs DEF memory, Still
<1>b. Len(disk'.entries) \in Nat
  <2>1. TypeOK'
    BY CoreStep DEF IInv, Core
  <2> QED BY <2>1 DEF TypeOK, WorldOK, Journal
<1>2. CASE Records
  <2>1. PICK e : /\ Asked(e) /\ tx' = tx /\ disk' \in {disk, Appended(tx, e)}
                 /\ UNCHANGED <<box, nonce, cur>> /\ pc = "record"
    BY <1>2, <1>a, RecordsIs DEF Asked
  <2> DEFINE m == Len(tx.entries)
             j == Appended(tx, e)
  <2>2. m \in Nat /\ Ks(disk) = 1 .. m /\ Ks(j) = 1 .. m + 1 /\ j.entries[m + 1] = e
        /\ e.name = cur
    BY <2>1, AppendedIs DEF Asked
  <2>3. ASSUME NEW k \in Ks(disk'), k > Len(tx'.entries)
        PROVE  disk'.entries[k].name = cur
    <3>1. disk' = j
      BY <2>1, <2>2, <2>3
    <3>2. k = m + 1
      BY <2>1, <2>2, <2>3, <3>1
    <3> QED BY <2>2, <3>1, <3>2
  <2> QED BY <1>2, <2>1, <2>3
<1>3. CASE Backfill
  <2>1. Ks(disk') = Ks(tx') /\ Len(tx'.entries) \in Nat
    BY <1>3, BackfillIs DEF Journal
  <2> QED BY <2>1 DEF Ks
<1>4. CASE ResolveDNS \/ Inspect \/ Create \/ StopOld \/ RetireOld \/ SwapIn \/ Start
           \/ Hooks \/ Gate
  <2>1. UNCHANGED <<disk, tx>>
    <3> USE DEF RollBack, Goto, Advance, Held, Still
    <3>1. CASE ResolveDNS
      BY <3>1 DEF ResolveDNS
    <3>2. CASE Inspect
      BY <3>2, InspectIs
    <3>3. CASE Create
      BY <3>3, <1>a, CreateIs DEF IInv, Core
    <3>4. CASE StopOld \/ RetireOld \/ SwapIn
      BY <3>4, <1>a, StopOldIs, RetireOldIs, SwapInIs
    <3>5. CASE Start
      BY <3>5, <1>a, StartOldIs
    <3>6. CASE Hooks \/ Gate
      BY <3>6 DEF Hooks, Gate
    <3> QED BY <1>4, <3>1, <3>2, <3>3, <3>4, <3>5, <3>6
  <2>2. pc \in Forward
    BY <1>4, Leads DEF Takes, Forward
  <2>3. Len(tx.entries) = Len(disk.entries)
    BY <1>a, <2>2 DEF MirrorInv, SameShape
  <2>4. Len(tx.entries) \in Nat
    BY <1>a DEF TypeOK, MemoryOK, Journal
  <2> QED BY <2>1, <2>3, <2>4 DEF Ks
<1> QED BY <1>1, <1>2, <1>3, <1>4, Arrives DEF Records

LEMMA RollbackClean ==
    ASSUME IInv, [Next]_vars, pc' = "rollback"
    PROVE  \A n : \A k \in Ks(disk') :
              k > Len(tx'.entries) /\ n = disk'.entries[k].name => Clean(n)'
<1>1. CASE Loiters /\ pc = "rollback" /\ UNCHANGED <<disk, tx, nonce>>
  <2>1. \A k \in Ours(box') : /\ k \in Ours(box) /\ SameLabels(box'[k], box[k])
                              /\ box'[k].role = box[k].role
    BY <1>1, LoitersIs
  <2>2. \A k \in Ks(disk) : k > Len(tx.entries) => Clean(disk.entries[k].name)
    BY <1>1 DEF IInv, Backward, CleanInv
  <2>3. ASSUME NEW n, Clean(n) PROVE Clean(n)'
    BY <1>1, <2>1, <2>3, CleanKept
  <2> QED BY <1>1, <2>2, <2>3
<1>2. CASE /\ Records /\ pc = "record" /\ UNCHANGED <<box, nonce, cur>>
           /\ \A k \in Ks(disk') : k > Len(tx'.entries) => disk'.entries[k].name = cur
  <2>1. \A k \in Ks(disk) : disk.entries[k].name < cur
    BY <1>2 DEF IInv, Onward, AheadInv
  <2>2. ~InDisk(cur, "create") /\ ~InDisk(cur, "replace")
    <3>1. cur \in Nat
      BY DEF IInv, Core, TypeOK, MemoryOK
    <3> QED BY <2>1, <3>1 DEF InDisk
  <2>3. Open
    BY <1>2 DEF Open, IInv, Core, PhaseInv, Forward
  <2>4. Clean(cur)
    BY <2>2, <2>3, BlankIsClean
  <2>5. ASSUME NEW n, n = cur PROVE Clean(n)'
    BY <1>2, <2>4, <2>5, CleanKept DEF SameLabels, Ours, Live
  <2> QED BY <1>2, <2>5
<1> QED BY <1>1, <1>2, RollbackKinds

(* Undoing an entry cleans its name.                                       *)
LEMMA UndidIsClean ==
    ASSUME IInv, [Next]_vars, UndoStop \/ UndoDrop, pc' = "undo", ~bad', NEW n,
           n = Undone.name
    PROVE  Clean(n)'
<1>a. TypeOK /\ FreshInv /\ ListedInv /\ LastInv /\ UndoInv /\ BaseInv /\ OldInv /\ NewInv
  BY DEF IInv, Backward, World, Core
<1>b. pc \in AtEntry /\ pc \in {"undo-stop", "undo-drop"} /\ (UndoDrop => pc = "undo-drop")
      /\ (UndoStop => pc = "undo-stop")
  BY Leads DEF Takes, AtEntry
<1>c. nonce > 0 /\ Open
  BY <1>b, UndoneFacts DEF Open
<1>d. \A kind : InDisk(n, kind) => kind = Undone.kind
  BY <1>b, OnlyEntry
<1>e. \A i \in Ours(box') : /\ i \in Ours(box) /\ SameLabels(box'[i], box[i])
                            /\ box'[i].role = box[i].role
  BY <1>b, TouchedOurs DEF Touches, Kept, Retires, SwapsIn, Parks, Restores
<1>f. nonce' = nonce
  BY <1>a, UndoStopIs, UndoDropIs, MineFacts, <1>b DEF Still, TypeOK
<1>g. ~Refuse
  BY DEF Refuse, NextEntry
<1>1. CASE UndoStop
  <2>1. Undone.kind = "start"
    <3>1. AfterStop
      BY <1>1, <1>a, <1>g, UndoStopIs
    <3>2. Undone.kind \in {"replace", "create", "start"}
      BY <1>b, UndoneFacts DEF Entry
    <3> QED BY <3>1, <3>2 DEF AfterStop, Goto
  <2>2. Clean(n)
    BY <1>c, <1>d, <2>1, BlankIsClean
  <2> QED BY <1>e, <1>f, <2>2, CleanKept
<1>2. CASE UndoDrop
  <2>0. pc = "undo-drop" /\ Undone.kind \in {"replace", "create"}
    BY <1>2, <1>a, <1>b, UndoneFacts DEF LastInv, Entry
  <2>1. ASSUME NEW i \in Ours(box), New(box[i]), box[i].name = n
        PROVE  i \in Mine /\ i \in Live(box)
    <3>1. i \in Ours(view) /\ SameLabels(view[i], box[i])
      BY <1>a, <1>b, <2>1 DEF FreshInv
    <3> QED BY <1>a, <1>b, <2>1, <3>1 DEF ListedInv, SameLabels, New, Ours
  <2>2. CASE Undone.kind = "create"
    <3>1. (\E i \in Mine : Drops(i)) \/ Mine = {}
      BY <1>2, <1>a, <1>b, <1>g, <2>2, UndoDropIs, MineFacts DEF TypeOK
    <3>2. ASSUME NEW i \in Ours(box'), box'[i].name = n PROVE ~New(box[i])
      <4>1. i \notin Mine
        <5>1. \A k \in Mine : k = i => i \in Live(box')
          BY <3>2 DEF Ours
        <5>2. \A k, m \in Mine : k = m
          BY <1>b, MineFacts
        <5> QED BY <3>1, <5>1, <5>2 DEF Drops
      <4> QED BY <1>e, <2>1, <3>2, <4>1 DEF SameLabels
    <3>3. ASSUME NEW i \in Ours(box), box[i].name = n, ~New(box[i])
          PROVE  box[i].role = "canonical"
      BY <1>a, <1>c, <1>d, <2>2, <3>3 DEF OldInv
    <3> QED BY <1>e, <1>f, <3>2, <3>3 DEF Clean, SameLabels, New
  <2>3. CASE Undone.kind = "replace"
    <3>1. ASSUME NEW i \in Ours(box), New(box[i]), box[i].name = n
          PROVE  box[i].role # "canonical"
      <4>1. i \in Mine \cap Live(box)
        BY <2>1, <3>1
      <4> QED BY <1>a, <1>b, <2>0, <2>3, <4>1 DEF UndoInv
    <3>2. ASSUME NEW i \in Ours(box), ~New(box[i]), box[i].name = n
          PROVE  box[i].role = "canonical"
      <4>1. i \in base[n].ids /\ Undone.id \in base[n].ids /\ n \in Names
        BY <1>a, <1>b, <1>c, <2>3, <3>2, UndoneFacts DEF BaseInv
      <4>2. i = Undone.id /\ i \in Live(box)
        BY <1>a, <3>2, <4>1 DEF BaseInv, Ours
      <4> QED BY <1>a, <1>b, <2>0, <2>3, <4>2 DEF UndoInv
    <3>3. Clean(n)
      BY <3>1, <3>2 DEF Clean
    <3> QED BY <1>e, <1>f, <3>3, CleanKept
  <2> QED BY <2>0, <2>2, <2>3
<1> QED BY <1>1, <1>2

(* How an undo goes on: with an entry or between two, from the start, or   *)
(* with the entry before.                                                  *)
LEMMA UndoingKinds ==
    ASSUME IInv, [Next]_vars, pc' \in Undoing, ~bad'
    PROVE  \/ /\ pc \in Undoing /\ ~bad /\ UNCHANGED <<disk, nonce, cur>>
              /\ \/ Loiters \/ box' = box
                 \/ pc \in AtEntry /\ (UndoStop \/ UndoPark \/ UndoRestore \/ UndoRevive)
           \/ \A k \in Ks(disk') : ~(k > cur')
           \/ pc = "rollback" /\ UNCHANGED <<disk, box, nonce>> /\ cur' = Len(tx.entries)
           \/ /\ pc \in AtEntry /\ (UndoStop \/ UndoDrop) /\ UNCHANGED <<disk, nonce>>
              /\ cur' = cur - 1 /\ ~bad /\ pc' = "undo"
<1>a. TypeOK /\ AtEntry \subseteq Undoing
  BY DEF IInv, Core, AtEntry, Undoing
<1>1. CASE Loiters
  <2>1. UNCHANGED <<pc, disk, nonce, cur, bad>>
    BY <1>1, LoitersIs DEF memory, Still
  <2> QED BY <1>1, <2>1
<1>2. CASE pc' \in AtEntry /\ ~Loiters
  <2>1. CASE UndoList /\ pc' = "undo-stop"
    <3>1. pc = "undo" /\ UNCHANGED <<box, minted, disk, nonce, cur, bad>>
      BY <1>2, <2>1, ListIs DEF UndoList, docker
    <3> QED BY <3>1 DEF Undoing
  <2>2. CASE /\ pc \in AtEntry /\ UNCHANGED <<view, cur, tx, nonce, disk, base, bad>>
             /\ UndoStop \/ UndoPark \/ UndoRestore \/ UndoRevive
    BY <1>a, <2>2
  <2>3. CASE /\ pc \in AtEntry /\ UNCHANGED <<view, cur, tx, nonce, disk, base, bad>>
             /\ box' = box
    BY <1>a, <2>3
  <2> QED BY <1>2, <2>1, <2>2, <2>3, EntryKinds
<1>3. CASE pc' = "undo" /\ ~Loiters
  <2>a. ~Refuse
    BY DEF Refuse, NextEntry
  <2>1. CASE Sweep
    <3>1. disk' = disk /\ cur' = Len(disk.entries)
      BY <1>3, <2>1 DEF Sweep, BeginUndo, Goto, Rest
    <3>2. Len(disk.entries) \in Nat
      BY <1>a DEF TypeOK, WorldOK, Journal
    <3> QED BY <3>1, <3>2 DEF Ks
  <2>2. CASE Rollback
    BY <1>3, <2>2 DEF Rollback, BeginUndo, Rest, docker
  <2>3. CASE UndoStop \/ UndoDrop
    <3>1. pc \in AtEntry /\ (UndoDrop => pc = "undo-drop")
      BY <2>3, Leads DEF Takes, AtEntry
    <3>2. Undid /\ UNCHANGED <<disk, nonce>>
      <4>1. CASE UndoStop
        BY <1>3, <1>a, <2>a, <4>1, UndoStopIs DEF AfterStop, Goto, Still
      <4>2. CASE UndoDrop
        BY <1>3, <1>a, <2>a, <4>2, <3>1, UndoDropIs, MineFacts DEF Turns, Still, TypeOK
      <4> QED BY <2>3, <4>1, <4>2
    <3> QED BY <1>3, <2>3, <3>1, <3>2 DEF Undid, NextEntry
  <2>4. CASE UndoList \/ UndoPark \/ UndoRestore \/ UndoRevive \/ UndoConfirm
    <3>1. CASE UndoList
      BY <1>3, <2>a, <3>1 DEF UndoList
    <3>2. CASE UndoPark \/ UndoRevive
      BY <1>3, <1>a, <2>a, <3>2, UndoParkIs, UndoReviveIs
    <3>3. CASE UndoRestore
      BY <1>3, <1>a, <2>a, <3>3, UndoRestoreIs DEF AfterRestore, Goto
    <3>4. CASE UndoConfirm
      BY <1>3, <2>a, <3>4 DEF UndoConfirm, Goto
    <3> QED BY <2>4, <3>1, <3>2, <3>3, <3>4
  <2> QED BY <1>3, <2>1, <2>2, <2>3, <2>4, Arrives
<1>4. CASE pc' = "erase" /\ ~Loiters
  <2>1. UndoEnd
    BY <1>4, Arrives
  <2> QED BY <1>4, <2>1 DEF UndoEnd, Goto, Rest, docker, Undoing
<1> QED BY <1>1, <1>2, <1>3, <1>4 DEF Undoing, AtEntry

(* A later entry is of another name than the one touched.                  *)
LEMMA LaterIsClean ==
    ASSUME IInv, [Next]_vars, pc \in AtEntry, UNCHANGED <<disk, nonce>>, ~bad,
           UndoStop \/ UndoPark \/ UndoRestore \/ UndoRevive \/ UndoDrop,
           NEW k \in Ks(disk), k > cur, NEW n, n = disk.entries[k].name
    PROVE  Clean(n)'
<1>1. n # Undone.name
  <2>1. cur \in Nat
    BY DEF IInv, Core, TypeOK, MemoryOK
  <2> QED BY <2>1, OnlyEntry
<1>2. \A i \in Ours(box') : /\ i \in Ours(box) /\ SameLabels(box'[i], box[i])
                            /\ box'[i].name = n => box'[i].role = box[i].role
  <2>1. ASSUME NEW i \in Ours(box') PROVE Kept(i)
    BY <2>1, TouchedOurs DEF Touches
  <2>2. \A i \in Ours(box) : Parks(i) \/ Restores(i) => box[i].name = Undone.name
    <3>1. \A i \in Ours(box) : i \in Live(box)
      BY DEF Ours
    <3>2. \A i \in Mine \cap Live(box) : box[i].name = Undone.name
      BY MineFacts
    <3>3. ASSUME NEW i \in Ours(box), Restores(i) PROVE box[i].name = Undone.name
      <4>1. /\ Undone.kind = "replace" /\ i = Undone.id /\ pc = "undo-restore"
        BY <3>3 DEF Restores, IInv, Core, LastInv, AtEntry
      <4>2. /\ i \in base[Undone.name].ids /\ i # Stranger /\ Undone.name \in Names
            /\ nonce > 0
        BY <4>1, UndoneFacts
      <4> QED BY <3>1, <4>2 DEF IInv, World, BaseInv
    <3> QED BY <3>1, <3>2, <3>3 DEF Parks
  <2>3. \A i : ~Retires(i) /\ ~SwapsIn(i)
    BY DEF Retires, SwapsIn, AtEntry
  <2> QED BY <1>1, <2>1, <2>2, <2>3 DEF Kept, SameLabels
<1>3. Clean(n)
  BY DEF AtEntry, Undoing, IInv, Backward, CleanInv
<1> QED BY <1>2, <1>3, CleanKept

LEMMA UndoingClean ==
    ASSUME IInv, [Next]_vars, pc' \in Undoing, ~bad'
    PROVE  \A n : \A k \in Ks(disk') :
              k > cur' /\ n = disk'.entries[k].name => Clean(n)'
<1>b. pc \in Undoing /\ ~bad =>
          \A k \in Ks(disk) : k > cur => Clean(disk.entries[k].name)
  BY DEF IInv, Backward, CleanInv
<1>c. ASSUME NEW n, Clean(n), nonce' = nonce, Loiters \/ box' = box PROVE Clean(n)'
  <2>1. \A i \in Ours(box') : /\ i \in Ours(box) /\ SameLabels(box'[i], box[i])
                              /\ box'[i].role = box[i].role
    BY <1>c, LoitersIs DEF Ours, Live, SameLabels
  <2> QED BY <1>c, <2>1, CleanKept
<1>1. CASE /\ pc \in Undoing /\ ~bad /\ UNCHANGED <<disk, nonce, cur>>
           /\ \/ Loiters \/ box' = box
              \/ pc \in AtEntry /\ (UndoStop \/ UndoPark \/ UndoRestore \/ UndoRevive)
  BY <1>1, <1>b, <1>c, LaterIsClean
<1>2. CASE \A k \in Ks(disk') : ~(k > cur')
  BY <1>2
<1>3. CASE pc = "rollback" /\ UNCHANGED <<disk, box, nonce>> /\ cur' = Len(tx.entries)
  <2>1. \A k \in Ks(disk) : k > Len(tx.entries) => Clean(disk.entries[k].name)
    BY <1>3 DEF IInv, Backward, CleanInv
  <2> QED BY <1>3, <1>c, <2>1
<1>4. CASE /\ pc \in AtEntry /\ (UndoStop \/ UndoDrop) /\ UNCHANGED <<disk, nonce>>
           /\ cur' = cur - 1 /\ ~bad /\ pc' = "undo"
  <2>1. ASSUME NEW n, n = Undone.name PROVE Clean(n)'
    BY <1>4, <2>1, UndidIsClean
  <2>2. cur \in Nat /\ disk.entries[cur].name = Undone.name
    BY <1>4, UndoneFacts DEF IInv, Core, TypeOK, MemoryOK
  <2>3. ASSUME NEW n, NEW k \in Ks(disk), k > cur - 1, n = disk.entries[k].name
        PROVE  Clean(n)'
    <3>0. k \in Nat
      BY EntryTypes DEF IInv, Core
    <3>1. CASE k = cur
      BY <2>1, <2>2, <2>3, <3>1
    <3>2. CASE k > cur
      BY <1>4, <2>3, <3>2, LaterIsClean
    <3> QED BY <2>2, <2>3, <3>0, <3>1, <3>2
  <2> QED BY <1>4, <2>3
<1> QED BY <1>1, <1>2, <1>3, <1>4, UndoingKinds

LEMMA BadStep ==
    ASSUME IInv, [Next]_vars
    PROVE  /\ bad' => pc' \in Undoing \ {"erase"}
           /\ pc' = "erase" => cur' = 0
<1>a. TypeOK /\ (bad => pc \in Undoing \ {"erase"}) /\ (pc = "erase" => cur = 0)
  BY DEF IInv, Core, Backward, CleanInv
<1>1. CASE Loiters
  BY <1>1, <1>a, LoitersIs DEF memory
<1> USE DEF Rest, Goto, RollBack, Advance, Refuse, Undid, NextEntry, BeginUndo, Undoing
<1>2. CASE Begin \/ Sweep \/ ListDebris \/ ClearDebris \/ Prepare
  BY <1>2, <1>a
     DEF Begin, UpBegin, DownBegin, Sweep, ListDebris, ClearDebris, Dispose, Call, Prepare
<1>3. CASE Skip \/ ResolveDNS \/ Inspect
  BY <1>3, <1>a, InspectIs DEF Skip, ResolveDNS
<1>4. CASE Records \/ Create \/ Backfill
  <2>1. UNCHANGED bad /\ pc' # "erase" /\ pc \notin Undoing
    BY <1>4, <1>a, RecordsIs, CreateIs, BackfillIs, Leads
       DEF Takes, Records, IInv, Core
  <2> QED BY <1>a, <2>1
<1>5. CASE StopOld \/ RetireOld \/ SwapIn \/ Start
  <2>1. UNCHANGED bad /\ pc' # "erase" /\ pc \notin Undoing
    BY <1>5, <1>a, StopOldIs, RetireOldIs, SwapInIs, StartOldIs, Leads DEF Takes, Held
  <2> QED BY <1>a, <2>1
<1>6. CASE Hooks \/ Gate \/ Commit
  BY <1>6, <1>a DEF Hooks, Gate, Commit
<1>7. CASE Rollback \/ UndoList \/ UndoEnd \/ Erase
  BY <1>7, <1>a DEF Rollback, UndoList, UndoEnd, Erase
<1>8. CASE UndoStop \/ UndoPark \/ UndoRestore \/ UndoRevive \/ UndoConfirm \/ UndoDrop
  BY <1>8, Leads DEF Takes
<1>9. CASE DownList \/ Teardown \/ DownErase \/ Crash
  BY <1>9, <1>a DEF DownList, Teardown, Dispose, Call, DownErase, Crash
<1> QED BY <1>1, <1>2, <1>3, <1>4, <1>5, <1>6, <1>7, <1>8, <1>9
   DEF Next, Work, Reconcile, Undo, Records, Loiters

LEMMA CleanStep ==
    ASSUME IInv, [Next]_vars PROVE CleanInv'
BY BadStep, RollbackClean, UndoingClean DEF CleanInv

(* Clearing away.                                                          *)
LEMMA DisposeStep ==
    ASSUME IInv, [Next]_vars, ClearDebris \/ Teardown, Dispose, pc' = pc,
           pc \in {"clear", "teardown"}
    PROVE  /\ \A k \in Ours(box') : /\ k \in Ours(box) /\ box'[k].role = box[k].role
                                    /\ k \in Live(view) => k \in Live(view')
           /\ Live(view') \subseteq Live(view) /\ job' = job
<1>1. /\ UNCHANGED <<pc, job, cur, tx, written, bad>>
      /\ \A k \in Live(view) : k \notin Live(view') => k \notin Live(box')
      /\ Live(view') \subseteq Live(view)
  BY DisposeIs DEF IInv, Core, Rest
<1>2. \A k \in Ours(box') : Kept(k) /\ k \in Live(box')
  BY TouchedOurs DEF Touches, Ours
<1> QED BY <1>1, <1>2 DEF Kept, Retires, SwapsIn, Parks, Restores

LEMMA SweptStep ==
    ASSUME IInv, [Next]_vars PROVE SweptInv'
<1>a. TypeOK /\ SweptInv /\ IdsInv /\ IdsInv'
  BY CoreStep DEF IInv, Core, Backward
<1>b. \A i \in Live(box') : i # Stranger => i \in Ours(box')
  BY <1>a DEF IdsInv, Ours
<1>1. CASE Loiters
  <2>1. /\ UNCHANGED <<pc, job, view>>
        /\ \A k \in Ours(box') : k \in Ours(box) /\ box'[k].role = box[k].role
    BY <1>1, LoitersIs DEF memory
  <2>2. Live(view') = Live(view) /\ \A i \in Ours(box) : i \in Live(box)
    BY <2>1 DEF Live, Ours
  <2> QED BY <1>a, <1>b, <2>1, <2>2 DEF SweptInv
<1>c. ASSUME pc' \notin {"clear", "prepare", "teardown", "down-erase"} PROVE SweptInv'
  BY <1>c DEF SweptInv
<1>2. CASE ListDebris
  <2>1. CASE pc' = "clear"
    <3>1. view' = Restrict(box, Debris(box)) /\ box' = box
      BY <1>2, <2>1 DEF ListDebris, Rest, docker
    <3>2. Live(view') = Debris(box)
      BY <3>1 DEF Live, Restrict, Debris, NoContainer
    <3>3. \A i \in Debris(box) : i # Stranger /\ box[i].role # "canonical"
      BY <1>a DEF Debris, IdsInv
    <3>4. \A i \in Ours(box) : box[i].role # "canonical" => i \in Debris(box)
      BY DEF Ours, Debris
    <3>5. Ours(box') = Ours(box)
      BY <3>1 DEF Ours, Live
    <3> QED BY <2>1, <3>1, <3>2, <3>3, <3>4, <3>5 DEF SweptInv
  <2> QED BY <1>2, <1>c, <2>1, Leads DEF Takes
<1>3. CASE ClearDebris
  <2>0. pc = "clear"
    BY <1>3 DEF ClearDebris
  <2>1. CASE Dispose /\ pc' = "clear"
    <3>1. /\ \A k \in Ours(box') : /\ k \in Ours(box) /\ box'[k].role = box[k].role
                                   /\ k \in Live(view) => k \in Live(view')
          /\ Live(view') \subseteq Live(view) /\ job' = job
      BY <1>3, <2>0, <2>1, DisposeStep
    <3>2. \A i \in Ours(box) : i \in Live(box)
      BY DEF Ours
    <3> QED BY <1>a, <1>b, <2>0, <2>1, <3>1, <3>2 DEF SweptInv
  <2>2. CASE Dispose /\ pc' # "clear"
    <3>1. pc' = "idle"
      BY <2>2, <2>0, <1>a, DisposeIs DEF Rest
    <3> QED BY <1>c, <3>1
  <2>3. CASE Live(view) = {} /\ box' = box /\ pc' = "prepare" /\ job.phase = "sweep"
    <3>1. \A i \in Ours(box) : box[i].role = "canonical"
      BY <1>a, <2>0, <2>3 DEF SweptInv
    <3>2. Ours(box') = Ours(box)
      BY <2>3 DEF Ours, Live
    <3> QED BY <2>3, <3>1, <3>2 DEF SweptInv
  <2>4. CASE pc' = "idle"
    BY <1>c, <2>4
  <2> QED BY <1>3, <2>1, <2>2, <2>3, <2>4 DEF ClearDebris, Goto, Rest
<1>4. CASE DownList
  <2>1. CASE pc' = "teardown"
    <3>1. view' = Restrict(box, Ours(box)) /\ box' = box
      BY <1>4, <2>1 DEF DownList, Rest, docker
    <3>2. Live(view') = Ours(box)
      BY <3>1 DEF Live, Restrict, Ours, NoContainer
    <3>3. Ours(box') = Ours(box) /\ Stranger \notin Ours(box)
      BY <1>a, <3>1 DEF Ours, Live, IdsInv
    <3> QED BY <2>1, <3>2, <3>3 DEF SweptInv
  <2> QED BY <1>4, <1>c, <2>1, Leads DEF Takes
<1>5. CASE Teardown
  <2>0. pc = "teardown"
    BY <1>5 DEF Teardown
  <2>1. CASE Dispose /\ pc' = "teardown"
    <3>1. /\ \A k \in Ours(box') : k \in Ours(box) /\ (k \in Live(view) => k \in Live(view'))
          /\ Live(view') \subseteq Live(view)
      BY <1>5, <2>0, <2>1, DisposeStep
    <3> QED BY <1>a, <2>0, <2>1, <3>1 DEF SweptInv
  <2>2. CASE Dispose /\ pc' # "teardown"
    <3>1. pc' = "idle"
      BY <2>2, <2>0, <1>a, DisposeIs DEF Rest
    <3> QED BY <1>c, <3>1
  <2>3. CASE Live(view) = {} /\ box' = box /\ pc' = "down-erase"
    <3>1. Ours(box) = {}
      BY <1>a, <2>0, <2>3 DEF SweptInv
    <3>2. Ours(box') = Ours(box)
      BY <2>3 DEF Ours, Live
    <3> QED BY <2>3, <3>1, <3>2 DEF SweptInv
  <2> QED BY <1>5, <2>1, <2>2, <2>3 DEF Teardown, Goto
<1> QED BY <1>1, <1>2, <1>3, <1>4, <1>5, <1>c, Arrives

LEMMA BackwardStep ==
    ASSUME IInv, [Next]_vars PROVE Backward'
BY ListedStep, FreshStep, UndoInvStep, CleanStep, SweptStep DEF Backward

LEMMA IInvStep ==
    ASSUME IInv, [Next]_vars PROVE IInv'
BY CoreStep, WorldInvStep, OnwardStep, BackwardStep DEF IInv

-----------------------------------------------------------------------------
(* The invariant and what it says.                                         *)

LEMMA InitBox ==
    ASSUME Init
    PROVE  \A i \in Live(box) : box[i].role = "canonical" /\ box[i].name = i
<1>1. CASE box = Nothing
  BY <1>1 DEF Nothing, NoContainer, Live
<1>2. CASE box # Nothing
  <2>1. PICK c \in Cands : \E up : box = Installed(c, up)
    BY <1>2 DEF Init
  <2> QED BY <2>1 DEF Live, Installed, NoContainer
<1> QED BY <1>1, <1>2

LEMMA InitIInv == Init => IInv
<1> SUFFICES ASSUME Init PROVE IInv
  OBVIOUS
<1>a. /\ pc = "idle" /\ disk = NoJournal /\ job.phase = "none" /\ tx = NoJournal
      /\ nonce = 0 /\ cur = 0 /\ bad = FALSE /\ base = Topology(box) /\ view = Nothing
  BY DEF Init, NoJob
<1>b. Core
  BY InitCore
<1>c. ~Open /\ Ks(disk) = {} /\ Ks(tx) = {} /\ Len(tx.entries) = 0 /\ Len(disk.entries) = 0
  BY <1>a DEF Open, Ks, NoJournal
<1>d. \A i \in Ours(box) : i \in Live(box) /\ box[i].name \in Names
  BY <1>b, ContainerTypes DEF Ours, Live, Core, TypeOK, WorldOK, Container
<1>1. Unique /\ Aside
  BY <1>d, InitBox DEF Unique, Aside
<1>2. BaseInv
  <2>1. \A n \in Names : base[n].ids = At(box, n, "canonical")
    BY <1>a DEF Topology
  <2>2. \A n \in Names : \A i \in base[n].ids : i \in Live(box) /\ i = n
    BY <2>1, InitBox DEF At
  <2>3. \A i \in Live(box) : i # Stranger => i <= minted
    BY <1>b DEF Core, IdsInv
  <2> QED BY <1>a, <2>2, <2>3 DEF BaseInv
<1>3. OldInv /\ NewInv /\ EntriesInv /\ TxInv
  BY <1>c DEF OldInv, NewInv, EntriesInv, TxInv
<1>4. Onward
  <2>1. MadeInv
    <3>1. \A i \in Ours(box) : box[i].name # cur
      BY <1>a, <1>d, BoundsAssumption DEF Names
    <3> QED BY <1>a, <3>1 DEF MadeInv
  <2>2. PastInv /\ AheadInv /\ BlankInv /\ SeenInv /\ AtHandInv /\ FoundInv /\ AliveInv
    BY <1>a DEF PastInv, Past, AheadInv, BlankInv, SeenInv, AtHandInv, FoundInv,
                AliveInv, Forward, OnEntry
  <2> QED BY <2>1, <2>2 DEF Onward
<1>5. Backward
  BY <1>a DEF Backward, ListedInv, FreshInv, UndoInv, CleanInv, SweptInv, AtEntry, Undoing
<1> QED BY <1>b, <1>1, <1>2, <1>3, <1>4, <1>5 DEF IInv, World

(* Every reachable state keeps the whole invariant: what the journal says  *)
(* of the containers, and what a running operation knows of both, is true  *)
(* between any two Docker calls and journal writes.                        *)
THEOREM Invariant == Spec => []IInv
<1>2. IInv /\ [Next]_vars => IInv'
  BY IInvStep
<1> QED BY <1>2, InitIInv, PTL DEF Spec

(* However an Up is interrupted, undone or meddled with, two containers of *)
(* one name are never both running: the old one is stopped before it is    *)
(* parked, the new one is started only under the canonical name, and undo  *)
(* stops it before it gives the name back.                                 *)
THEOREM OneGenerationTheorem == Spec => []OneGenerationRuns
<1>1. IInv => OneGenerationRuns
  <2> SUFFICES ASSUME IInv, NEW i \in Ours(box), NEW k \in Ours(box),
                      Up(box[i]), Up(box[k]), box[i].name = box[k].name
               PROVE  i = k
    BY DEF OneGenerationRuns
  <2>1. box[i].role = "canonical" /\ box[k].role = "canonical"
    BY DEF IInv, World, Aside
  <2>2. i \in Live(box) /\ k \in Live(box)
    BY DEF Ours
  <2> QED BY <2>1, <2>2 DEF IInv, World, Unique
<1> QED BY <1>1, Invariant, PTL

(* The liveness gate is sound: what it has passed runs at the commit,      *)
(* unless somebody stopped it after the gate had looked.                   *)
THEOREM CommitSawAliveTheorem == Spec => CommitSawAlive
<1>1. IInv /\ [Next]_vars =>
         (pc = "gate" /\ pc' = "debris" =>
            \A n \in Desired[job.cand] \ slipped : Alive(n))
  <2> SUFFICES ASSUME IInv, [Next]_vars, pc = "gate", pc' = "debris",
                      NEW n \in Desired[job.cand] \ slipped
               PROVE  Alive(n)
    OBVIOUS
  <2>1. ~Loiters
    BY Leads DEF Takes
  <2>2. Commit
    BY <2>1, Arrives, Leads DEF Takes
  <2>3. cur = Size + 1
    BY <2>2 DEF Commit
  <2>4. job.cand \in Cands
    BY DEF IInv, Core, PhaseInv, Forward
  <2>5. n < cur
    BY <2>3, <2>4, PlanAssumption, BoundsAssumption DEF Names
  <2> QED BY <2>5 DEF IInv, Onward, AliveInv
<1>2. IInv /\ [Next]_vars =>
         [pc = "gate" /\ pc' = "debris" =>
            \A n \in Desired[job.cand] \ slipped : Alive(n)]_vars
  BY <1>1
<1> QED BY <1>2, Invariant, PTL DEF Spec, CommitSawAlive

(* What a step removes from the daemon.                                    *)
LEMMA Removals ==
    ASSUME IInv, [Next]_vars, meddling' = meddling, job.phase # "down",
           NEW i \in Live(box), i \notin Live(box')
    PROVE  /\ Managed(box[i])
           /\ IF disk = NoJournal THEN box[i].role # "canonical" ELSE Owns(disk, box[i])
<1>a. TypeOK /\ PhaseInv /\ IdsInv /\ SweptInv /\ NewInv /\ LastInv
  BY DEF IInv, Core, World, Backward
<1>b. i \in Ids
  BY DEF Live
<1>1. CASE ClearDebris
  <2>1. pc = "clear" /\ disk = NoJournal
    BY <1>1, <1>a DEF ClearDebris, PhaseInv, Quiet
  <2>2. Dispose
    BY <1>1 DEF ClearDebris, Live
  <2>3. \E k \in Live(view) : Stops(k) \/ Drops(k)
    BY <1>a, <2>2, DisposeIs DEF Disposes, Live
  <2>4. i \in Live(view)
    BY <1>b, <2>3 DEF Stops, Drops, Stays, Others, Live
  <2> QED BY <1>a, <2>1, <2>4 DEF SweptInv, IdsInv
<1>2. CASE UndoDrop
  <2>1. pc = "undo-drop" /\ pc \in AtEntry
    BY <1>2 DEF UndoDrop, AtEntry
  <2>2. \E k \in Mine : Drops(k)
    BY <1>2, <1>a, <2>1, UndoDropIs, MineFacts DEF TypeOK, Live
  <2>3. i \in Mine \cap Live(box)
    BY <1>b, <2>2 DEF Drops, Others, Live
  <2>4. i \in Ours(box) /\ New(box[i])
    BY <1>a, <2>1, <2>3, MineFacts DEF LastInv
  <2>5. disk # NoJournal /\ disk.nonce = nonce
    BY <2>1, UndoneFacts
  <2>6. box[i].cand = disk.cand
    BY <1>a, <2>4, <2>5 DEF NewInv, Open
  <2> QED BY <2>4, <2>5, <2>6 DEF Owns, New, Ours
<1>3. CASE Teardown
  BY <1>3, <1>a DEF Teardown, PhaseInv
<1>4. CASE Outside
  BY <1>4, <1>a DEF Outside, Exit, Vanish, Squat, Meddle, TypeOK, WorldOK
<1>5. CASE StopOld \/ RetireOld \/ SwapIn \/ Start \/ UndoStop \/ UndoPark
           \/ UndoRestore \/ UndoRevive
  <2>1. box' = box \/ \E k \in Ids : Stops(k) \/ Runs(k) \/ \E r : Moves(k, r)
    <3>1. \A k : Stops(k) \/ Runs(k) \/ (\E r : Moves(k, r)) => k \in Ids
      BY DEF Stops, Runs, Moves, Stays, Live
    <3> QED BY <1>5, <1>a, <3>1, StopOldIs, RetireOldIs, SwapInIs, StartOldIs, UndoStopIs,
               UndoParkIs, UndoRestoreIs, UndoReviveIs
  <2> QED BY <1>b, <2>1 DEF Stops, Runs, Moves, Stays, Others, Live
<1>6. CASE Create
  BY <1>6, <1>a, <1>b, CreateIs DEF Adds, Others, Live
<1>7. CASE Calm \/ Prepare \/ Records \/ Backfill \/ Closes \/ UNCHANGED vars
  <2>1. box' = box
    BY <1>7, <1>a, PrepareIs, RecordsIs, BackfillIs, CloseForgets
       DEF Calm, IInv, Core, vars, docker
  <2> QED BY <2>1 DEF Live
<1> QED BY <1>a, <1>1, <1>2, <1>3, <1>4, <1>5, <1>6, <1>7, StepKinds DEF Touches, Loiters

(* Up never removes the old generation: what it removes is a leftover of a *)
(* committed transaction, or what the journal on disk proves to be a       *)
(* container the uncommitted transaction made.                             *)
THEOREM OldKeptTheorem == Spec => OldKept
<1>1. IInv /\ [Next]_vars =>
         [meddling' = meddling /\ job.phase # "down" =>
            \A i \in Live(box) \ Live(box') :
               /\ Managed(box[i])
               /\ IF disk = NoJournal THEN box[i].role # "canonical"
                  ELSE Owns(disk, box[i])]_vars
  BY Removals
<1> QED BY <1>1, Invariant, PTL DEF Spec, OldKept

-----------------------------------------------------------------------------
(* Up is atomic: the refinement of Generations.                            *)

(* Who is in charge of a name.                                             *)
Holding(n) == {i \in Ours(box) : IF disk = NoJournal
                                 THEN box[i].name = n /\ box[i].role = "canonical"
                                 ELSE i \in base[n].ids}
Hold(i) == [id |-> i, cand |-> box[i].cand]

LEMMA InChargeIs ==
    /\ InCharge = [n \in Names |-> {Hold(i) : i \in Holding(n)}]
    /\ \A n \in Names : InCharge[n] = {Hold(i) : i \in Holding(n)}
<1>1. \A n \in Names :
          Holding(n) = Ours(box) \cap (IF disk = NoJournal THEN At(box, n, "canonical")
                                       ELSE base[n].ids)
  BY DEF Holding, Ours, At
<1> QED BY <1>1 DEF InCharge, Hold

LEMMA InChargeNext ==
    InCharge' = [n \in Names |-> {Hold(i)' : i \in Holding(n)'}]
<1>1. \A n \in Names :
          Holding(n)' = Ours(box') \cap (IF disk' = NoJournal THEN At(box', n, "canonical")
                                        ELSE base'[n].ids)
  BY DEF Holding, Ours, At
<1> QED BY <1>1 DEF InCharge, Hold, Ours, At, Live

LEMMA HoldersAre ==
    ASSUME IInv
    PROVE  /\ InCharge \in [Names -> SUBSET Promise!Holder]
           /\ \A n \in Names : Promise!AtMostOne(InCharge[n])
<1>a. TypeOK /\ Unique /\ BaseInv
  BY DEF IInv, Core, World
<1>1. \A i \in Ours(box) : i \in Ids /\ i \in Live(box) /\ box[i].cand \in Cands
  BY <1>a, ContainerTypes DEF Ours, Live, Managed, TypeOK, WorldOK, Container
<1>2. ASSUME NEW n \in Names PROVE \A i, k \in Holding(n) : i = k
  <2>1. CASE disk = NoJournal
    BY <1>a, <1>1, <2>1 DEF Holding, Unique
  <2>2. CASE disk # NoJournal
    BY <1>a, <1>1, <2>2 DEF Holding, BaseInv
  <2> QED BY <2>1, <2>2
<1>3. \A n \in Names : \A i \in Holding(n) : Hold(i) \in Promise!Holder
  BY <1>1 DEF Holding, Hold, Promise!Holder
<1> QED BY <1>2, <1>3, InChargeIs DEF Promise!AtMostOne

(* Nothing seen from outside.                                              *)
LEMMA SameHolders ==
    ASSUME \A n \in Names : Holding(n)' = Holding(n),
           \A n \in Names : \A i \in Holding(n) : box'[i].cand = box[i].cand
    PROVE  InCharge' = InCharge
<1>1. InCharge' = [n \in Names |-> {Hold(i)' : i \in Holding(n)'}]
  BY InChargeNext
<1> QED BY <1>1, InChargeIs DEF Hold

LEMMA SameState ==
    ASSUME UNCHANGED <<box, disk, base>>
    PROVE  InCharge' = InCharge
BY DEF InCharge, Ours, At, Live

(* Once every entry is undone, or where there never was one, what was      *)
(* found is what stands.                                                   *)
LEMMA CleanIsBase ==
    ASSUME IInv, nonce > 0, NEW n \in Names, Clean(n)
    PROVE  {i \in Ours(box) : box[i].name = n /\ box[i].role = "canonical"}
              = {i \in Ours(box) : i \in base[n].ids}
<1>1. \A i \in Ours(box) : i # Stranger /\ i \in Live(box)
  BY DEF Ours, IInv, Core, IdsInv
<1>2. BaseInv
  BY DEF IInv, World
<1>3. \A i \in Ours(box) : i \in base[n].ids => box[i].name = n /\ ~New(box[i])
  BY <1>1, <1>2 DEF BaseInv
<1>4. \A i \in Ours(box) : box[i].name = n /\ ~New(box[i]) => i \in base[n].ids
  BY <1>2 DEF BaseInv
<1> QED BY <1>3, <1>4 DEF Clean

(* The journal comes or goes while each name stands as it was found.       *)
LEMMA JournalTurns ==
    ASSUME IInv, nonce > 0, \A n \in Names : Clean(n), UNCHANGED <<box, base>>
    PROVE  InCharge' = InCharge
<1>1. ASSUME NEW n \in Names PROVE Holding(n)' = Holding(n)
  <2>1. {i \in Ours(box) : box[i].name = n /\ box[i].role = "canonical"}
              = {i \in Ours(box) : i \in base[n].ids}
    BY <1>1, CleanIsBase
  <2>2. Ours(box') = Ours(box)
    BY DEF Ours, Live
  <2> QED BY <2>1, <2>2 DEF Holding
<1> QED BY <1>1, SameHolders

(* One container is touched, or one is lost.                               *)
LEMMA KeepsOrLoses ==
    ASSUME IInv, IInv', UNCHANGED <<disk, base>>, NEW i \in Ids,
           \A k \in Ids \ {i} : box'[k] = box[k],
           \/ /\ i \in Live(box) /\ i \in Live(box') /\ SameLabels(box'[i], box[i])
              /\ disk = NoJournal => box'[i].role = box[i].role
           \/ i \notin Live(box')
           \/ i \notin Ours(box) /\ ~Managed(box'[i])
           \/ i \notin Ours(box) /\ disk # NoJournal /\ \A n \in Names : i \notin base[n].ids
    PROVE  InCharge' = InCharge \/ \E n \in Names : Promise!Lose(n)
<1>a. TypeOK /\ Unique /\ BaseInv /\ IdsInv /\ TypeOK'
  BY DEF IInv, Core, World
<1>b. \A k \in Ids \ {i} : /\ k \in Ours(box') <=> k \in Ours(box)
                           /\ box'[k].cand = box[k].cand
  BY DEF Ours, Live
<1>c. \A k \in Ours(box) : k \in Ids /\ k \in Live(box)
  BY DEF Ours, Live
<1>d. \A k \in Ours(box') : k \in Ids
  BY DEF Ours, Live
<1>1. CASE \/ /\ i \in Live(box) /\ i \in Live(box') /\ SameLabels(box'[i], box[i])
              /\ disk = NoJournal => box'[i].role = box[i].role
           \/ i \notin Ours(box) /\ ~Managed(box'[i])
           \/ i \notin Ours(box) /\ disk # NoJournal /\ \A n \in Names : i \notin base[n].ids
           \/ i \notin Live(box') /\ \A n \in Names : i \notin Holding(n)
  <2>1. ASSUME NEW n \in Names, NEW k \in Ids
        PROVE  /\ k \in Holding(n)' <=> k \in Holding(n)
               /\ k \in Holding(n) => box'[k].cand = box[k].cand
    <3>1. CASE k # i
      BY <1>b, <3>1 DEF Holding
    <3>2. CASE k = i /\ i \in Live(box) /\ i \in Live(box') /\ SameLabels(box'[i], box[i])
               /\ (disk = NoJournal => box'[i].role = box[i].role)
      BY <3>2 DEF Holding, Ours, Managed, SameLabels
    <3>3. CASE k = i /\ i \notin Ours(box) /\ i \notin Ours(box')
      BY <3>3 DEF Holding
    <3>4. CASE k = i /\ i \notin Ours(box) /\ disk # NoJournal /\ i \notin base[n].ids
      BY <3>4 DEF Holding
    <3>5. CASE k = i /\ i \notin Ours(box') /\ i \notin Holding(n)
      BY <3>5 DEF Holding
    <3> QED BY <1>1, <3>1, <3>2, <3>3, <3>4, <3>5 DEF Ours
  <2>2. \A n \in Names : Holding(n)' = Holding(n)
    <3> SUFFICES ASSUME NEW n \in Names PROVE Holding(n)' = Holding(n)
      OBVIOUS
    <3>1. Holding(n) \subseteq Ids /\ Holding(n)' \subseteq Ids
      BY <1>c, <1>d DEF Holding
    <3> QED BY <2>1, <3>1
  <2>3. \A n \in Names : \A k \in Holding(n) : box'[k].cand = box[k].cand
    BY <1>c, <2>1 DEF Holding
  <2> QED BY <2>2, <2>3, SameHolders
<1>2. ASSUME i \notin Live(box'), NEW n \in Names, i \in Holding(n)
      PROVE  Promise!Lose(n)
  <2>1. i \in Ours(box) /\ i \notin Ours(box')
    BY <1>2 DEF Holding, Ours
  <2>2. ASSUME NEW m \in Names, m # n PROVE Holding(m)' = Holding(m)
    <3>1. i \notin Holding(m)
      <4>1. CASE disk = NoJournal
        BY <1>2, <2>2, <4>1 DEF Holding
      <4>2. CASE disk # NoJournal
        <5>1. nonce > 0 /\ i # Stranger
          BY <1>a, <1>c, <2>1, <4>2 DEF IdsInv, Ours, IInv, Core, JournalInv
        <5> QED BY <1>a, <1>2, <1>c, <2>1, <2>2, <4>2, <5>1 DEF Holding, BaseInv
      <4> QED BY <4>1, <4>2
    <3>2. \A k \in Ids : k \in Holding(m)' <=> k \in Holding(m)
      BY <1>b, <2>1, <3>1 DEF Holding
    <3>3. Holding(m) \subseteq Ids /\ Holding(m)' \subseteq Ids
      BY <1>c, <1>d DEF Holding
    <3> QED BY <3>2, <3>3
  <2>3. Holding(n)' = {}
    <3>1. \A k \in Holding(n) : k = i
      <4>1. CASE disk = NoJournal
        BY <1>a, <1>2, <1>c, <4>1 DEF Holding, Unique
      <4>2. CASE disk # NoJournal
        BY <1>a, <1>2, <4>2 DEF Holding, BaseInv
      <4> QED BY <4>1, <4>2
    <3>2. \A k \in Ids : k \in Holding(n)' => k \in Holding(n) /\ k # i
      BY <1>b, <2>1 DEF Holding
    <3> QED BY <1>d, <3>1, <3>2 DEF Holding
  <2>4. InCharge' = [m \in Names |-> {Hold(k)' : k \in Holding(m)'}]
    BY InChargeNext
  <2>5. ASSUME NEW m \in Names
        PROVE  InCharge'[m] = IF m = n THEN {} ELSE InCharge[m]
    <3>1. CASE m = n
      BY <2>3, <2>4, <3>1
    <3>2. CASE m # n
      <4>1. Holding(m)' = Holding(m)
        BY <2>2, <3>2
      <4>2. \A k \in Holding(m) : Hold(k)' = Hold(k)
        <5>1. \A k \in Holding(m) : k # i /\ k \in Ids
          BY <1>c, <1>d, <2>1, <4>1 DEF Holding
        <5> QED BY <1>b, <5>1 DEF Hold
      <4> QED BY <2>4, <3>2, <4>1, <4>2, InChargeIs
    <3> QED BY <3>1, <3>2
  <2>6. InCharge' = [InCharge EXCEPT ![n] = {}]
    BY <2>4, <2>5, InChargeIs
  <2> QED BY <2>6 DEF Promise!Lose
<1> QED BY <1>1, <1>2

(* Steps on containers.                                                    *)
LEMMA TouchOrLose ==
    ASSUME IInv, [Next]_vars, Create \/ Touches \/ Loiters
    PROVE  InCharge' = InCharge \/ \E n \in Names : Promise!Lose(n)
<1>a. TypeOK /\ BaseInv /\ IdsInv /\ PhaseInv /\ JournalInv /\ IInv'
  BY IInvStep DEF IInv, Core, World
<1>b. ASSUME NEW name, NEW kind, InDisk(name, kind) PROVE disk # NoJournal
  BY <1>b DEF InDisk, Ks, NoJournal
<1>1. CASE Create
  <2>1. /\ disk # NoJournal /\ UNCHANGED <<disk, base>>
    BY <1>1, <1>a, CreateIs DEF PhaseInv, JournalInv, OnEntry, Forward, history
  <2>2. CASE box' = box
    BY <2>1, <2>2, SameState
  <2>3. CASE Adds
    <3> DEFINE m == minted + 1
    <3>1. /\ m \in Ids /\ m # Stranger /\ m \notin Live(box)
          /\ \A k \in Ids \ {m} : box'[k] = box[k]
      BY <2>3 DEF Adds, Others
    <3>2. \A n \in Names : m \notin base[n].ids
      BY <1>a, <3>1 DEF BaseInv, TypeOK, WorldOK
    <3>3. m \notin Ours(box)
      BY <3>1 DEF Ours
    <3> HIDE DEF m
    <3> QED BY <1>a, <2>1, <3>1, <3>2, <3>3, KeepsOrLoses
  <2> QED BY <1>1, <1>a, <2>2, <2>3, CreateIs
<1>2. CASE Touches \/ Loiters
  <2>1. UNCHANGED <<disk, base>>
    BY <1>2, <1>a, TouchForgets DEF Still
  <2>2. CASE box' = box
    BY <2>1, <2>2, SameState
  <2>3. ASSUME NEW i \in Ids,
               \/ Stops(i) \/ Drops(i) \/ Retires(i) \/ SwapsIn(i)
               \/ Parks(i) \/ Restores(i) \/ Starts(i) \/ Revives(i)
        PROVE  InCharge' = InCharge \/ \E n \in Names : Promise!Lose(n)
    <3>1. \A k \in Ids \ {i} : box'[k] = box[k]
      BY <2>3 DEF Stops, Drops, Retires, SwapsIn, Parks, Restores, Starts, Revives,
                  Moves, Runs, Others
    <3>2. CASE Stops(i) \/ Starts(i) \/ Revives(i)
      <4>1. /\ i \in Live(box) /\ i \in Live(box') /\ SameLabels(box'[i], box[i])
            /\ box'[i].role = box[i].role
        BY <3>2 DEF Stops, Starts, Revives, Runs, Stays
      <4> QED BY <1>a, <2>1, <3>1, <4>1, KeepsOrLoses
    <3>3. CASE Drops(i)
      BY <1>a, <2>1, <3>1, <3>3, KeepsOrLoses DEF Drops
    <3>4. CASE Retires(i) \/ SwapsIn(i) \/ Parks(i) \/ Restores(i)
      <4>1. i \in Live(box) /\ i \in Live(box') /\ SameLabels(box'[i], box[i])
        BY <3>4 DEF Retires, SwapsIn, Parks, Restores, Moves, Stays
      <4>2. disk # NoJournal
        BY <1>a, <1>b, <3>4 DEF Retires, SwapsIn, Parks, Restores, PhaseInv, Undoing
      <4> QED BY <1>a, <2>1, <3>1, <4>1, <4>2, KeepsOrLoses
    <3> QED BY <2>3, <3>2, <3>3, <3>4
  <2>4. CASE Squats
    <3>1. /\ Stranger \in Ids /\ Stranger \notin Ours(box) /\ ~Managed(box'[Stranger])
          /\ \A k \in Ids \ {Stranger} : box'[k] = box[k]
      BY <2>4, ConstantTypes DEF Squats, Ours, Others
    <3> QED BY <1>a, <2>1, <3>1, KeepsOrLoses
  <2> QED BY <1>2, <2>2, <2>3, <2>4, Touched
<1> QED BY <1>1, <1>2

(* Writing the journal.                                                    *)
LEMMA WriteStutters ==
    ASSUME IInv, [Next]_vars, Records \/ Backfill
    PROVE  InCharge' = InCharge
<1>a. TypeOK /\ CursorInv /\ OldInv /\ NewInv /\ PhaseInv /\ JournalInv
  BY DEF IInv, Core, World
<1>1. UNCHANGED <<box, base>>
  BY <1>a, RecordsIs, BackfillIs DEF history
<1>2. CASE disk # NoJournal /\ disk' # NoJournal
  <2>1. Ours(box') = Ours(box)
    BY <1>1 DEF Ours, Live
  <2>2. \A n \in Names : Holding(n)' = Holding(n)
    BY <1>1, <1>2, <2>1 DEF Holding
  <2> QED BY <1>1, <2>2, SameHolders
<1>3. CASE Backfill
  <2>1. disk # NoJournal
    BY <1>3, <1>a DEF Backfill, PhaseInv, JournalInv, OnEntry, Forward
  <2>2. disk' # NoJournal
    BY <1>3, BackfillIs DEF Ks, NoJournal
  <2> QED BY <1>2, <2>1, <2>2
<1>4. CASE Records /\ disk' # disk
  <2>1. PICK e : Asked(e) /\ disk' = Appended(tx, e) /\ pc = "record"
    BY <1>4, <1>a, RecordsIs
  <2>2. disk' # NoJournal
    BY <2>1, AppendedIs DEF Ks, NoJournal
  <2>3. CASE disk = NoJournal
    <3>1. Open /\ nonce > 0
      BY <1>a, <2>1 DEF Open, PhaseInv, JournalInv, Forward
    <3>2. \A n, kind : ~InDisk(n, kind)
      BY <2>3 DEF InDisk, Ks, NoJournal
    <3>3. \A n \in Names : Clean(n)
      BY <3>1, <3>2, BlankIsClean
    <3> QED BY <1>1, <3>1, <3>3, JournalTurns
  <2> QED BY <1>2, <2>2, <2>3
<1>5. CASE disk' = disk
  BY <1>1, <1>5, SameState
<1> QED BY <1>3, <1>4, <1>5

(* The unlink that commits the candidate.                                  *)
LEMMA CommitIs ==
    ASSUME IInv, IInv', [Next]_vars, Commit
    PROVE  InCharge' = InCharge \/ \E c \in Cands : Promise!Commit(c)
<1>a. TypeOK /\ CursorInv /\ EntriesInv /\ PhaseInv /\ JournalInv /\ PastInv /\ BaseInv
  BY DEF IInv, Core, World, Onward
<1>1. /\ pc = "gate" /\ UNCHANGED <<box, base, nonce>> /\ disk' \in {disk, NoJournal}
  BY DEF Commit, docker, history
<1>2. CASE disk' = disk
  BY <1>1, <1>2, SameState
<1>3. CASE disk # NoJournal /\ disk' = NoJournal
  <2>1. /\ Open /\ nonce > 0 /\ job.cand \in Cands /\ disk.cand = job.cand
    BY <1>a, <1>1, <1>3 DEF Open, PhaseInv, JournalInv, Forward
  <2>2. Ours(box') = Ours(box)
    BY <1>1 DEF Ours, Live
  <2>3. /\ InCharge' \in [Names -> SUBSET Promise!Holder]
        /\ \A n \in Names : Promise!AtMostOne(InCharge'[n])
    <3>1. (/\ InCharge \in [Names -> SUBSET Promise!Holder]
           /\ \A n \in Names : Promise!AtMostOne(InCharge[n]))'
      BY HoldersAre, PTL
    <3> QED BY <3>1 DEF Promise!Holder, Promise!AtMostOne
  <2>4. InCharge' = [n \in Names |-> {Hold(i)' : i \in Holding(n)'}]
    BY InChargeNext
  <2>5. ASSUME NEW n \in Desired[job.cand]
        PROVE  \A h \in InCharge'[n] : h.cand = job.cand
    <3>0. n \in Names
      BY <2>1, <2>5, PlanAssumption
    <3>1. \A i \in Holding(n)' :
             i \in Ours(box) /\ box[i].name = n /\ box[i].role = "canonical"
      BY <1>1, <1>3, <2>2 DEF Holding
    <3>2. \A i \in Holding(n)' : box'[i].cand = job.cand
      BY <1>a, <1>1, <2>5, <3>1 DEF PastInv, Past, Forward
    <3>3. \A h \in InCharge'[n] : \E i \in Holding(n)' : h = Hold(i)'
      BY <2>4, <3>0
    <3> QED BY <3>2, <3>3 DEF Hold
  <2>6. ASSUME NEW n \in Names \ Desired[job.cand] PROVE InCharge'[n] = InCharge[n]
    <3>1. \A kind : ~InDisk(n, kind)
      BY <1>a, <2>1, <2>6 DEF InDisk, EntriesInv
    <3>2. Clean(n)
      BY <2>1, <3>1, BlankIsClean
    <3>3. Holding(n)' = Holding(n)
      <4>1. {i \in Ours(box) : box[i].name = n /\ box[i].role = "canonical"}
              = {i \in Ours(box) : i \in base[n].ids}
        BY <2>1, <2>6, <3>2, CleanIsBase
      <4> QED BY <1>1, <1>3, <2>2, <4>1 DEF Holding
    <3> QED BY <1>1, <2>4, <3>3, InChargeIs DEF Hold
  <2>7. Promise!Commit(job.cand)
    <3>1. \A n \in Desired[job.cand] : n \in Names
      BY <2>1, PlanAssumption
    <3> QED BY <2>3, <2>5, <2>6, <3>1 DEF Promise!Commit
  <2> QED BY <2>1, <2>7
<1> QED BY <1>1, <1>2, <1>3

LEMMA UpStep ==
    ASSUME IInv, [Next]_vars
    PROVE  Promise!Next \/ InCharge' = InCharge
<1>a. TypeOK /\ PhaseInv /\ CursorInv /\ JournalInv /\ IInv'
  BY IInvStep DEF IInv, Core
<1>1. CASE Create \/ Touches \/ Loiters
  BY <1>1, TouchOrLose DEF Promise!Next
<1>2. CASE Records \/ Backfill
  BY <1>2, WriteStutters
<1>3. CASE Calm
  BY <1>3, SameState DEF Calm, Still
<1>4. CASE Prepare
  <2>1. disk = NoJournal /\ UNCHANGED <<box, disk>>
    BY <1>4, <1>a, PrepareIs DEF PhaseInv, Quiet
  <2>2. Ours(box') = Ours(box)
    BY <2>1 DEF Ours, Live
  <2>3. \A n \in Names : Holding(n)' = Holding(n)
    BY <2>1, <2>2 DEF Holding
  <2> QED BY <2>1, <2>3, SameHolders
<1>5. CASE Commit
  BY <1>5, <1>a, CommitIs DEF Promise!Next
<1>6. CASE Erase
  <2>1. /\ pc = "erase" /\ UNCHANGED <<box, base>> /\ disk' \in {disk, NoJournal}
    BY <1>6 DEF Erase, docker, history
  <2>2. CleanInv /\ disk # NoJournal /\ nonce > 0 /\ cur = 0 /\ ~bad
    BY <1>a, <2>1 DEF IInv, Backward, CleanInv, PhaseInv, JournalInv, Undoing
  <2>3. ASSUME NEW n \in Names PROVE Clean(n)
    <3>1. CASE \E k \in Ks(disk) : disk.entries[k].name = n
      BY <2>1, <2>2, <3>1 DEF CleanInv, Ks, Undoing
    <3>2. CASE \A k \in Ks(disk) : disk.entries[k].name # n
      BY <2>2, <3>2, BlankIsClean DEF InDisk, Open
    <3> QED BY <3>1, <3>2
  <2> QED BY <2>1, <2>2, <2>3, JournalTurns
<1>7. CASE DownErase
  <2>1. pc = "down-erase" /\ UNCHANGED <<box, base>>
    BY <1>7 DEF DownErase, docker, history
  <2>2. Ours(box) = {} /\ Ours(box') = {}
    BY <2>1 DEF IInv, Backward, SweptInv, Ours, Live
  <2>3. \A n \in Names : Holding(n)' = {} /\ Holding(n) = {}
    BY <2>2 DEF Holding
  <2> QED BY <2>3, SameHolders
<1> QED BY <1>a, <1>1, <1>2, <1>3, <1>4, <1>5, <1>6, <1>7, StepKinds DEF Closes

(* Seen through the journal an Up happens at once or not at all.           *)
THEOREM UpIsAtomicTheorem == Spec => UpIsAtomic
<1>1. Init => Promise!Init
  BY InitIInv, HoldersAre DEF Promise!Init
<1>2. IInv /\ [Next]_vars => [Promise!Next]_InCharge
  BY UpStep
<1> QED BY <1>1, <1>2, Invariant, PTL DEF Spec, UpIsAtomic, Promise!Spec

-----------------------------------------------------------------------------
(* Names that nobody has interfered with.                                  *)

(* A transaction is opened, ...                                            *)
Anew == Prepare /\ nonce' = nonce + 1

LEMMA AnewIs ==
    ASSUME IInv, Anew
    PROVE  /\ pc = "prepare" /\ UNCHANGED <<box, minted, disk, view>> /\ disk = NoJournal
           /\ base' = Topology(box) /\ hurt' = {} /\ cut' = {} /\ tx'.entries = <<>>
           /\ pc' = "inspect" /\ cur' = 1 /\ job'.cand = job.cand /\ job'.ip = job.ip
           /\ job.phase = "sweep" /\ job'.phase = "txn"
<1>1. nonce \in Nat /\ nonce + 1 # nonce /\ job \in Job
  BY DEF IInv, Core, TypeOK, WorldOK, MemoryOK
<1>2. pc = "prepare" /\ disk = NoJournal /\ job.phase = "sweep"
  BY PrepareIs DEF Anew, IInv, Core, PhaseInv, Quiet
<1>3. /\ UNCHANGED <<box, minted, disk, view>>
      /\ base' = Topology(box) /\ hurt' = {} /\ cut' = {}
      /\ pc' = "inspect" /\ cur' = 1 /\ job' = [job EXCEPT !.phase = "txn"]
      /\ tx' = [nonce |-> nonce + 1, cand |-> job.cand, entries |-> <<>>]
  BY <1>1, PrepareIs DEF Anew
<1>4. tx'.entries = <<>>
  BY <1>3
<1> QED BY <1>1, <1>2, <1>3, <1>4 DEF Job

(* ... and until the next one nothing is forgotten.                        *)
LEMMA Remembered ==
    ASSUME IInv, [Next]_vars, ~Anew
    PROVE  UNCHANGED <<base, nonce>> /\ hurt \subseteq hurt' /\ cut \subseteq cut'
<1> USE DEF history, docker
<1>1. CASE Loiters
  BY <1>1 DEF Loiters, Outside, Exit, Vanish, Squat, Meddle, vars
<1>2. CASE Begin \/ Crash
  BY <1>2 DEF Begin, UpBegin, DownBegin, Crash
<1>3. CASE Prepare
  BY <1>3, PrepareIs DEF Anew
<1>4. CASE Sweep \/ ListDebris \/ ClearDebris \/ DownList \/ Teardown \/ DownErase
  BY <1>4 DEF Sweep, ListDebris, ClearDebris, DownList, Teardown, DownErase
<1>5. CASE Skip \/ ResolveDNS \/ Inspect \/ RecordCreate \/ RecordStart \/ RecordReplace
  BY <1>5 DEF Skip, ResolveDNS, Inspect, RecordCreate, RecordStart, RecordReplace
<1>6. CASE Create \/ Backfill \/ StopOld \/ RetireOld \/ SwapIn \/ Start
  BY <1>6 DEF Create, Backfill, StopOld, RetireOld, SwapIn, Start
<1>7. CASE Hooks \/ Gate \/ Commit
  BY <1>7 DEF Hooks, Gate, Commit
<1>8. CASE Undo
  BY <1>8 DEF Undo, Rollback, UndoList, UndoStop, UndoPark, UndoRestore, UndoRevive,
              UndoConfirm, UndoDrop, UndoEnd, Erase
<1> QED BY <1>1, <1>2, <1>3, <1>4, <1>5, <1>6, <1>7, <1>8
   DEF Next, Work, Reconcile, Loiters

LEMMA StaysSpared ==
    ASSUME IInv, [Next]_vars, ~Anew, NEW n, Spared(n)'
    PROVE  Spared(n)
BY Remembered DEF Spared

LEMMA OpenBefore ==
    ASSUME IInv, [Next]_vars, ~Anew, Open'
    PROVE  Open /\ nonce > 0
<1> SUFFICES Open
  BY DEF Open, IInv, Core, JournalInv
<1>a. TypeOK /\ CursorInv /\ PhaseInv
  BY DEF IInv, Core
<1>1. CASE Calm \/ Touches \/ Loiters
  BY <1>1, <1>a, TouchForgets DEF Calm, Still, Forgets, Open
<1>2. CASE Prepare
  <2>1. disk' = disk /\ Rest
    BY <1>2, PrepareIs DEF Anew
  <2>2. job'.phase = "none"
    BY <2>1 DEF Rest, NoJob
  <2> QED BY <2>1, <2>2 DEF Open
<1>3. CASE Records \/ Create \/ Backfill
  <2>1. pc \in Forward
    BY <1>3, Leads DEF Takes, Records, Forward
  <2> QED BY <1>a, <2>1 DEF PhaseInv, Open
<1>4. CASE Closes
  BY <1>4, <1>a, CloseForgets DEF Open
<1> QED BY <1>1, <1>2, <1>3, <1>4, <1>a, StepKinds

(* The journal on disk grows at its end only.                              *)
LEMMA EntriesKeep ==
    ASSUME IInv, [Next]_vars, ~Anew, Open'
    PROVE  /\ \A k \in Ks(disk) : /\ k \in Ks(disk')
                                  /\ disk'.entries[k].name = disk.entries[k].name
                                  /\ disk'.entries[k].kind = disk.entries[k].kind
                                  /\ disk'.entries[k].was = disk.entries[k].was
           /\ \A k \in Ks(disk') : k \notin Ks(disk) =>
                 /\ Records /\ pc = "record" /\ Asked(disk'.entries[k])
<1>a. TypeOK /\ CursorInv /\ TxInv
  BY DEF IInv, Core, World
<1>1. CASE disk' = disk
  BY <1>1
<1>2. CASE Records
  <2>1. pc = "record" /\ \E e : Asked(e) /\ disk' \in {disk, Appended(tx, e)}
    BY <1>2, <1>a, RecordsIs
  <2>2. PICK e : Asked(e) /\ disk' \in {disk, Appended(tx, e)}
    BY <2>1
  <2>3. CASE disk' = Appended(tx, e)
    <3> DEFINE m == Len(tx.entries)
    <3>1. /\ m \in Nat /\ Ks(tx) = 1 .. m /\ Ks(disk) = 1 .. m /\ Ks(disk') = 1 .. m + 1
          /\ \A k \in Ks(tx) : disk'.entries[k] = tx.entries[k]
          /\ disk'.entries[m + 1] = e
      BY <2>1, <2>2, <2>3, AppendedIs
    <3>2. \A k \in Ks(tx) : /\ tx.entries[k].name = disk.entries[k].name
                            /\ tx.entries[k].kind = disk.entries[k].kind
                            /\ tx.entries[k].was = disk.entries[k].was
      BY <1>a DEF TxInv
    <3>3. \A k \in Ks(disk') : k \notin Ks(disk) => k = m + 1
      BY <3>1
    <3> HIDE DEF m
    <3>4. \A k \in Ks(disk') : k \notin Ks(disk) => disk'.entries[k] = e
      BY <3>1, <3>3
    <3>5. \A k \in Ks(disk) : k \in Ks(disk') /\ k \in Ks(tx)
      BY <3>1
    <3> QED BY <1>2, <2>1, <2>2, <3>1, <3>2, <3>4, <3>5
  <2> QED BY <1>1, <2>2, <2>3
<1>3. CASE Backfill
  <2>1. /\ disk' \in {disk, tx'} /\ Ks(disk) = Ks(tx) /\ Ks(tx') = Ks(tx)
        /\ \A k \in Ks(tx) : /\ tx'.entries[k].kind = tx.entries[k].kind
                             /\ tx'.entries[k].name = tx.entries[k].name
                             /\ tx'.entries[k].was = tx.entries[k].was
    BY <1>3, BackfillIs
  <2>2. \A k \in Ks(tx) : /\ tx.entries[k].name = disk.entries[k].name
                          /\ tx.entries[k].kind = disk.entries[k].kind
                          /\ tx.entries[k].was = disk.entries[k].was
    BY <1>a DEF TxInv
  <2> QED BY <2>1, <2>2
<1>4. CASE Calm \/ Prepare \/ Create \/ Touches \/ Loiters
  <2>1. disk' = disk
    BY <1>4, <1>a, TouchForgets, PrepareIs DEF Calm, Still, Create
  <2> QED BY <1>1, <2>1
<1>5. CASE Closes
  <2>1. disk' = disk
    BY <1>5, <1>a, CloseForgets DEF Open
  <2> QED BY <1>1, <2>1
<1> QED BY <1>2, <1>3, <1>4, <1>5, <1>a, StepKinds

(* Whose doing it is that a container changes.                             *)
LEMMA ActsOn ==
    ASSUME IInv, NEW i, Acts(i)
    PROVE  /\ i \in Live(box) => i \in Ours(box)
           /\ i \in Live(box) => \/ pc \in OnEntry /\ box[i].name = cur
                                 \/ pc \in AtEntry /\ box[i].name = Undone.name
           /\ i \in Live(box) => Listed(box[i].name)
<1> SUFFICES ASSUME i \in Live(box)
             PROVE  /\ i \in Ours(box)
                    /\ \/ pc \in OnEntry /\ box[i].name = cur
                       \/ pc \in AtEntry /\ box[i].name = Undone.name
  <2>1. pc \in OnEntry => \E k \in Ks(disk) : disk.entries[k].name = cur
    BY LastFacts
  <2>2. pc \in AtEntry => \E k \in Ks(disk) : disk.entries[k].name = Undone.name
    BY UndoneFacts
  <2> QED BY <2>1, <2>2 DEF Listed
<1>1. i \in Ours(box)
  BY DEF Acts, StopsOld, Retires, SwapsIn, Starts, UndoStops, Parks, Restores, Revives,
         UndoDrops
<1>2. CASE StopsOld(i) \/ Retires(i)
  <2>1. pc \in OnEntry /\ i = Last.id /\ Last.kind = "replace"
    BY <1>2 DEF StopsOld, Retires, OnEntry, IInv, Onward, AtHandInv
  <2> QED BY <1>1, <2>1, FoundFacts
<1>3. CASE SwapsIn(i)
  <2>1. pc \in OnEntry /\ i = Last.new /\ Last.new # 0
    BY <1>3 DEF SwapsIn, OnEntry, IInv, Onward, AtHandInv
  <2> QED BY <1>1, <2>1, MadeFacts
<1>4. CASE Starts(i)
  <2>1. pc \in OnEntry /\ pc = "start" /\ i = Begun
    BY <1>4 DEF Starts, OnEntry
  <2>2. CASE Last.kind = "start"
    BY <1>1, <2>1, <2>2, FoundFacts DEF Begun
  <2>3. CASE Last.kind # "start"
    <3>1. i = Last.new /\ Last.new # 0
      BY <2>1, <2>3 DEF Begun, IInv, Onward, AtHandInv
    <3> QED BY <1>1, <2>1, <3>1, MadeFacts
  <2> QED BY <2>2, <2>3
<1>5. CASE UndoStops(i) \/ Parks(i) \/ UndoDrops(i)
  <2>1. pc \in AtEntry /\ i \in Mine
    BY <1>5 DEF UndoStops, Parks, UndoDrops, AtEntry
  <2> QED BY <1>1, <2>1, MineFacts
<1>6. CASE Restores(i) \/ Revives(i)
  <2>1. pc \in AtEntry /\ i = Undone.id /\ Undone.kind = "replace"
    BY <1>6 DEF Restores, Revives, AtEntry, IInv, Core, LastInv
  <2>2. nonce > 0 /\ i # Stranger /\ i \in base[Undone.name].ids /\ Undone.name \in Names
    BY <2>1, UndoneFacts
  <2> QED BY <1>1, <2>1, <2>2 DEF IInv, World, BaseInv
<1> QED BY <1>2, <1>3, <1>4, <1>5, <1>6 DEF Acts

LEMMA ActsAre ==
    ASSUME NEW i, Acts(i)
    PROVE  Others(i)
BY DEF Acts, StopsOld, Retires, SwapsIn, Starts, UndoStops, Parks, Restores, Revives,
       UndoDrops, Stops, Drops, Moves, Runs

LEMMA WhoIsTouched ==
    ASSUME IInv, [Next]_vars, NEW i \in Live(box), box'[i] # box[i]
    PROVE  /\ i # Stranger /\ i \in Ours(box)
           /\ \/ Acts(i)
              \/ box[i].name \in hurt'
              \/ ClearDebris
              \/ Teardown /\ (disk # NoJournal => box[i].name \in cut')
<1>a. TypeOK /\ IdsInv /\ SweptInv /\ i \in Ids
  BY DEF IInv, Core, Backward, Live
<1>b. i # Stranger <=> i \in Ours(box)
  BY <1>a DEF IdsInv, Ours
<1>1. CASE Touches \/ Loiters
  <2>1. ASSUME NEW k \in Ids, Acts(k) PROVE i = k
    BY <1>a, <2>1, ActsAre DEF Others
  <2>2. CASE \E k \in Ids : Acts(k)
    <3>1. Acts(i)
      BY <2>1, <2>2
    <3> QED BY <1>b, <3>1, ActsOn
  <2>3. CASE (ClearDebris \/ Teardown) /\ Disposes
    <3>1. i \in Live(view)
      BY <1>a, <2>3 DEF Disposes, Stops, Drops, Others
    <3>2. i # Stranger
      BY <1>a, <2>3, <3>1 DEF ClearDebris, Teardown, SweptInv
    <3>3. Teardown /\ disk # NoJournal => box[i].name \in cut'
      BY <1>a DEF Teardown
    <3> QED BY <1>b, <2>3, <3>2, <3>3
  <2>4. CASE Exits \/ Leaves
    <3>1. PICK k \in Ours(box) : (Stops(k) \/ Drops(k)) /\ box[k].name \in hurt'
      BY <2>4 DEF Exits, Leaves
    <3>2. k = i
      BY <1>a, <3>1 DEF Stops, Drops, Others
    <3> QED BY <1>b, <3>1, <3>2
  <2>5. CASE Squats
    BY <1>a, <2>5 DEF Squats, Others
  <2> QED BY <1>1, <2>2, <2>3, <2>4, <2>5, Acted
<1>2. CASE Create
  BY <1>2, <1>a, CreateIs DEF Adds, Others
<1>3. CASE Calm \/ Prepare \/ Records \/ Backfill \/ Closes
  <2>1. box' = box
    BY <1>3, <1>a, CloseForgets, PrepareIs
    DEF Calm, Records, RecordCreate, RecordStart, RecordReplace, Backfill, docker
  <2> QED BY <2>1
<1> QED BY <1>1, <1>2, <1>3, <1>a, StepKinds

(* With a transaction open, it is the operation's own doing, or somebody's *)
(* whom the history names.                                                 *)
LEMMA OpenTouched ==
    ASSUME IInv, [Next]_vars, Open, NEW i \in Live(box), box'[i] # box[i],
           NEW n, n = box[i].name, Spared(n)'
    PROVE  Acts(i) /\ i # Stranger /\ i \in Ours(box) /\ Listed(n)
           /\ \/ pc \in OnEntry /\ n = cur
              \/ pc \in AtEntry /\ n = Undone.name
<1>1. ~ClearDebris
  <2>1. ~(pc = "clear")
    BY DEF Open, IInv, Core, PhaseInv, Quiet
  <2> QED BY <2>1 DEF ClearDebris
<1>2. Teardown => disk # NoJournal
  <2>1. pc = "teardown" => job.phase = "down"
    BY DEF IInv, Core, PhaseInv
  <2> QED BY <2>1 DEF Open, Teardown
<1>3. n \notin hurt' /\ n \notin cut'
  BY DEF Spared
<1>4. Acts(i) /\ i # Stranger /\ i \in Ours(box)
  BY <1>1, <1>2, <1>3, WhoIsTouched
<1> QED BY <1>4, ActsOn

(* Where a container comes from.                                           *)
LEMMA Newcomers ==
    ASSUME IInv, [Next]_vars, NEW i \in Live(box'), i \notin Live(box)
    PROVE  \/ Create /\ Adds /\ i = minted + 1 /\ i # Stranger
           \/ Squats /\ i = Stranger
<1>a. TypeOK /\ i \in Ids
  BY DEF IInv, Core, Live
<1>1. CASE Touches \/ Loiters
  <2>1. ASSUME NEW k \in Ids, Stops(k) \/ Drops(k) \/ Runs(k) \/ \E r : Moves(k, r) PROVE FALSE
    BY <1>a, <2>1 DEF Stops, Drops, Runs, Moves, Stays, Others, Live
  <2>2. CASE Squats
    BY <1>a, <2>2 DEF Squats, Others, Live
  <2> QED
    BY <1>1, <1>a, <2>1, <2>2, Touched
       DEF Live, Retires, SwapsIn, Parks, Restores, Starts, Revives
<1>2. CASE Create
  BY <1>2, <1>a, CreateIs DEF IInv, Core, Adds, Others, Live
<1>3. CASE Calm \/ Prepare \/ Records \/ Backfill \/ Closes
  <2>1. box' = box
    BY <1>3, <1>a, CloseForgets, PrepareIs
    DEF Calm, Records, RecordCreate, RecordStart, RecordReplace, Backfill, docker
  <2> QED BY <2>1 DEF Live
<1> QED BY <1>1, <1>2, <1>3, <1>a, StepKinds

(* Who survives keeps its labels.                                          *)
LEMMA LabelsStay ==
    ASSUME IInv, [Next]_vars, NEW i \in Live(box), i \in Live(box')
    PROVE  SameLabels(box'[i], box[i]) /\ (i \in Ours(box') <=> i \in Ours(box))
<1>1. i \in Ours(box') <=> i \in Ours(box)
  <2>1. IInv'
    BY IInvStep
  <2> QED BY <2>1 DEF IInv, Core, IdsInv, Ours
<1>2. CASE box'[i] = box[i]
  BY <1>1, <1>2 DEF SameLabels
<1>3. CASE box'[i] # box[i]
  <2>1. i \in Ours(box')
    BY <1>1, <1>3, WhoIsTouched
  <2>2. CASE Touches \/ Loiters
    BY <1>1, <2>1, <2>2, TouchedOurs DEF Kept
  <2>3. CASE Create
    BY <1>3, <2>3, CreateIs DEF IInv, Core, Adds, Others, Live
  <2>4. CASE Calm \/ Prepare \/ Records \/ Backfill \/ Closes
    <3>1. box' = box
      BY <2>4, CloseForgets, PrepareIs
      DEF Calm, Records, RecordCreate, RecordStart, RecordReplace, Backfill, docker, IInv, Core
    <3> QED BY <1>3, <3>1
  <2> QED BY <2>2, <2>3, <2>4, StepKinds DEF IInv, Core
<1> QED BY <1>2, <1>3

(* Nobody stops, renames or removes the stranger.                          *)
LEMMA StrangerStep ==
    ASSUME IInv, StrangerInv, [Next]_vars PROVE StrangerInv'
<1>a. TypeOK /\ TypeOK'
  BY CoreStep DEF IInv, Core
<1>1. Stranger \in Live(box) => box'[Stranger] = box[Stranger] /\ Stranger \in Live(box')
  BY WhoIsTouched DEF Live
<1>2. Stranger \in Live(box') => Up(box'[Stranger])
  <2>1. CASE Stranger \in Live(box)
    BY <1>1, <2>1 DEF StrangerInv
  <2>2. CASE Stranger \notin Live(box)
    BY <2>2, Newcomers DEF Squats
  <2> QED BY <2>1, <2>2
<1>3. CASE Anew
  <2>1. base' = Topology(box) /\ box' = box
    BY <1>3, AnewIs
  <2>2. \A n \in Names : /\ base'[n].ids = At(box, n, "canonical")
                         /\ base'[n].up <=> \E i \in At(box, n, "canonical") : Up(box[i])
    BY <2>1 DEF Topology
  <2> QED BY <1>2, <2>1, <2>2 DEF StrangerInv, At, Live
<1>4. CASE ~Anew
  <2>1. base' = base
    BY <1>4, Remembered
  <2> QED BY <1>1, <1>2, <2>1 DEF StrangerInv
<1> QED BY <1>3, <1>4

(* What was found is there.                                                *)
LEMMA NoneYet ==
    ASSUME IInv, Open, pc \in {"inspect", "record"}
    PROVE  /\ ~Listed(cur) /\ \A kind : ~InDisk(cur, kind)
           /\ \A i \in Ours(box) : box[i].name = cur => ~New(box[i])
<1>1. cur \in Nat
  BY DEF IInv, Core, TypeOK, MemoryOK
<1>2. ~Listed(cur) /\ \A kind : ~InDisk(cur, kind)
  BY <1>1 DEF IInv, Onward, AheadInv, Listed, InDisk
<1> QED BY <1>2 DEF IInv, World, NewInv, Made

LEMMA FoundStays ==
    ASSUME IInv, StrangerInv, HereInv, [Next]_vars, ~Anew, Open', NEW n \in Names, Spared(n)',
           NEW i \in base[n].ids
    PROVE  /\ i \in Live(box) /\ i \in Live(box')
           /\ box[i].name = n
           /\ i # Stranger => i \in Ours(box) /\ ~New(box[i])
           /\ box'[i] # box[i] => /\ Acts(i) /\ Listed(n)
                                  /\ \/ pc \in OnEntry /\ n = cur
                                     \/ pc \in AtEntry /\ n = Undone.name
<1>1. Spared(n) /\ Open /\ nonce > 0
  BY StaysSpared, OpenBefore
<1>2. i \in Live(box)
  BY <1>1 DEF HereInv
<1>3. box[i].name = n /\ (i # Stranger => i \in Ours(box) /\ ~New(box[i]))
  <2>1. i = Stranger => box[i].name = n
    BY DEF StrangerInv
  <2> QED BY <1>1, <1>2, <2>1 DEF IInv, World, BaseInv, Core, IdsInv, Ours
<1>4. box'[i] # box[i] => /\ Acts(i) /\ Listed(n) /\ i # Stranger
                          /\ \/ pc \in OnEntry /\ n = cur
                             \/ pc \in AtEntry /\ n = Undone.name
  BY <1>1, <1>2, <1>3, OpenTouched
<1>5. i \in Live(box')
  <2>1. CASE box'[i] = box[i]
    BY <1>2, <2>1 DEF Live
  <2>2. CASE box'[i] # box[i]
    <3>1. Acts(i) /\ ~New(box[i])
      BY <1>3, <1>4, <2>2
    <3> QED BY <1>2, <3>1 DEF Acts, StopsOld, Retires, SwapsIn, Starts, UndoStops, Parks,
               Restores, Revives, UndoDrops, Stops, Moves, Runs, Stays
  <2> QED BY <2>1, <2>2
<1> QED BY <1>2, <1>3, <1>4, <1>5

(* ... and a replacement is not staged where a stranger stands.            *)
LEMMA BesideStep ==
    ASSUME IInv, HereInv, [Next]_vars, ~Anew, Open', NEW n \in Names, Spared(n)',
           Stranger \in Live(box), box[Stranger].name = n, box[Stranger].role = "next",
           InDisk(n, "replace")', NEW i \in Ours(box'), box'[i].name = n
    PROVE  box'[i].nonce # nonce
<1>a. TypeOK /\ EntriesInv
  BY DEF IInv, Core, World
<1>1. Spared(n) /\ Open
  BY StaysSpared, OpenBefore
<1>2. ASSUME ~InDisk(n, "replace")
      PROVE  /\ Records /\ n = cur /\ pc = "record"
             /\ box' = box
  <2>1. PICK k \in Ks(disk') : disk'.entries[k].name = n /\ disk'.entries[k].kind = "replace"
    BY DEF InDisk, Ks
  <2>2. k \notin Ks(disk)
    BY <1>2, <2>1, EntriesKeep DEF InDisk
  <2>3. Records /\ pc = "record" /\ Asked(disk'.entries[k])
    BY <2>2, EntriesKeep
  <2>4. box' = box
    BY <2>3, <1>a, RecordsIs DEF IInv, Core
  <2> QED BY <2>1, <2>3, <2>4 DEF Asked
<1>3. CASE ~InDisk(n, "replace")
  <2>1. i \in Ours(box)
    BY <1>2, <1>3 DEF Ours, Live
  <2> QED BY <1>1, <1>2, <1>3, <2>1, NoneYet DEF New
<1>4. CASE InDisk(n, "replace")
  <2>1. \A k \in Ours(box) : box[k].name = n => ~New(box[k])
    BY <1>1, <1>4 DEF HereInv
  <2>2. CASE i \in Live(box)
    <3>1. i \in Ours(box) /\ box[i].name = n /\ box[i].nonce = box'[i].nonce
      BY <2>2, LabelsStay DEF SameLabels, Ours
    <3> QED BY <2>1, <3>1 DEF New
  <2>3. CASE i \notin Live(box)
    <3>1. i \in Live(box') /\ Managed(box'[i])
      BY DEF Ours
    <3>2. Create /\ Adds /\ i = minted + 1
      BY <2>3, <3>1, Newcomers DEF Squats
    <3>3. n = cur /\ At(box, cur, Staging) = {} /\ pc \in OnEntry /\ pc = "create"
      BY <3>2 DEF Adds, Create, OnEntry
    <3>4. Staging # "next"
      BY <3>3 DEF At
    <3>5. Last.kind = "create"
      BY <3>3, <3>4 DEF Staging, IInv, Onward, AtHandInv
    <3>6. PICK k \in Ks(disk) : disk.entries[k].name = cur /\ disk.entries[k].kind = "create"
      BY <3>3, <3>5, LastFacts
    <3>7. PICK m \in Ks(disk) : disk.entries[m].name = cur /\ disk.entries[m].kind = "replace"
      BY <1>4, <3>3 DEF InDisk
    <3>8. k \in Nat /\ m \in Nat /\ disk.entries[k].name \in Nat /\ disk.entries[m].name \in Nat
      BY <1>a, EntryTypes DEF Names
    <3>9. k = m
      BY <1>a, <3>6, <3>7, <3>8 DEF EntriesInv
    <3> QED BY <3>6, <3>7, <3>9
  <2> QED BY <2>2, <2>3
<1> QED BY <1>3, <1>4

LEMMA HereStep ==
    ASSUME IInv, StrangerInv, HereInv, [Next]_vars PROVE HereInv'
<1>1. CASE Anew
  <2>1. base' = Topology(box) /\ box' = box /\ disk' = NoJournal
    BY <1>1, AnewIs
  <2>2. \A n \in Names : base'[n].ids = At(box, n, "canonical")
    BY <2>1 DEF Topology
  <2> QED BY <2>1, <2>2 DEF HereInv, At, Live, InDisk, Ks, NoJournal
<1>2. CASE ~Anew
  <2>0. base' = base /\ nonce' = nonce
    BY <1>2, Remembered
  <2> SUFFICES ASSUME Open', NEW n \in Names, Spared(n)'
               PROVE  /\ base[n].ids \subseteq Live(box')
                      /\ Stranger \in Live(box') /\ box'[Stranger].name = n =>
                            /\ box'[Stranger].role = "canonical" => Stranger \in base[n].ids
                            /\ box'[Stranger].role = "next" /\ InDisk(n, "replace")' =>
                                  \A i \in Ours(box') : box'[i].name = n => box'[i].nonce # nonce
    BY <2>0 DEF HereInv, New, Ours
  <2>1. base[n].ids \subseteq Live(box')
    BY <1>2, FoundStays
  <2>2. CASE Stranger \in Live(box)
    <3>1. box'[Stranger] = box[Stranger]
      BY <2>2, WhoIsTouched
    <3>2. Spared(n) /\ Open
      BY <1>2, StaysSpared, OpenBefore
    <3>3. box[Stranger].name = n /\ box[Stranger].role = "canonical" => Stranger \in base[n].ids
      BY <2>2, <3>2 DEF HereInv
    <3> QED BY <1>2, <2>1, <2>2, <3>1, <3>3, BesideStep
  <2>3. CASE Stranger \notin Live(box) /\ Stranger \in Live(box')
    <3>1. box'[Stranger].name \in hurt'
      BY <2>3, Newcomers DEF Squats
    <3> QED BY <2>1, <3>1 DEF Spared
  <2> QED BY <2>1, <2>2, <2>3
<1> QED BY <1>1, <1>2

(* Nothing is in the way of an undo.                                       *)
LEMMA ClearNow ==
    ASSUME IInv, StrangerInv, HereInv, pc = "undo", cur > 0, ~OldGone(box),
           Undone.kind = "replace", Spared(Undone.name)
    PROVE  LET M == Target(box, tx, Undone)
           IN  /\ ~((\E i \in M : box[i].role = "canonical")
                    /\ At(box, Undone.name, "next") \ M # {})
               /\ At(box, Undone.name, "canonical") \ ({Undone.id} \cup M) = {}
<1> DEFINE M == Target(box, tx, Undone)
           n == Undone.name
<1>a. /\ n \in Names /\ nonce > 0 /\ Undone.id \in base[n].ids /\ Undone.id # Stranger
      /\ Open /\ InDisk(n, "replace")
  BY UndoneFacts DEF Open, InDisk
<1>b. BaseInv /\ OldInv /\ IdsInv
  BY DEF IInv, World, Core
<1>1. /\ \A i \in M : i \in Live(box) /\ i # Stranger /\ box[i].name = n /\ New(box[i])
      /\ \A i \in Ours(box) : New(box[i]) /\ box[i].name = n => i \in M
  BY ListedNow
<1> HIDE DEF M
<1> HIDE DEF n
<1>2. ASSUME NEW k \in Live(box), k \notin M, k # Undone.id, box[k].name = n
      PROVE  k = Stranger \/ box[k].role = "prev"
  <2> SUFFICES ASSUME k # Stranger PROVE box[k].role = "prev"
    OBVIOUS
  <2>1. k \in Ours(box) /\ ~New(box[k])
    BY <1>1, <1>2, <1>b DEF Ours, IdsInv
  <2>2. k \in base[n].ids
    BY <1>a, <1>2, <1>b, <2>1 DEF BaseInv
  <2>3. k = Undone.id
    BY <1>a, <1>b, <2>2 DEF BaseInv
  <2> QED BY <1>2, <2>3
<1>3. ASSUME NEW i \in M, NEW k \in At(box, n, "next"), k \notin M PROVE FALSE
  <2>1. k \in Live(box) /\ box[k].name = n /\ box[k].role = "next" /\ i \in Ours(box)
    BY <1>1, <1>3, <1>b DEF At, Ours, IdsInv
  <2>2. k = Undone.id => box[k].role = "canonical" \/ box[k].role = "prev"
    <3> SUFFICES ASSUME k = Undone.id, box[k].role # "canonical" PROVE box[k].role = "prev"
      OBVIOUS
    <3>1. k \in Ours(box) /\ ~New(box[k])
      BY <1>a, <1>b, <2>1 DEF Ours, IdsInv, BaseInv
    <3> QED BY <1>a, <1>b, <3>1 DEF OldInv
  <2>3. k = Stranger
    BY <1>2, <1>3, <2>1, <2>2
  <2>4. ~New(box[i])
    BY <1>a, <1>1, <2>1, <2>3 DEF HereInv, n
  <2> QED BY <1>1, <2>4
<1>4. ASSUME NEW k \in At(box, n, "canonical"), k \notin M, k # Undone.id PROVE FALSE
  <2>1. k \in Live(box) /\ box[k].name = n /\ box[k].role = "canonical"
    BY <1>4 DEF At
  <2>2. k = Stranger
    BY <1>2, <1>4, <2>1
  <2>3. Stranger \in base[n].ids
    BY <1>a, <2>1, <2>2 DEF HereInv, n
  <2> QED BY <1>a, <1>b, <2>3 DEF BaseInv
<1> QED BY <1>3, <1>4 DEF M, n

LEMMA ClearStep ==
    ASSUME IInv, StrangerInv, HereInv, ClearInv, [Next]_vars PROVE ClearInv'
<1> SUFFICES ASSUME pc' \in AtEntry, (Undone.kind = "replace")', Spared(Undone.name)'
             PROVE  ~StageTaken(view)' /\ ~NameTaken(view)'
  BY DEF ClearInv
<1>a. ~Anew
  BY AnewIs DEF AtEntry
<1>b. hurt \subseteq hurt' /\ cut \subseteq cut'
  BY <1>a, Remembered
<1>1. ASSUME pc \in AtEntry, UNCHANGED <<view, cur, tx>>
      PROVE  ~StageTaken(view)' /\ ~NameTaken(view)'
  <2>1. Mine' = Mine /\ Undone' = Undone
    BY <1>1 DEF Mine, Undone, Target, FindNew, OwnedAt, At, Live, Owns
  <2>2. ~StageTaken(view) /\ ~NameTaken(view)
    BY <1>1, <1>b, <2>1 DEF ClearInv, Spared
  <2> QED BY <1>1, <2>1, <2>2 DEF StageTaken, NameTaken, At, Live
<1>2. CASE Loiters
  BY <1>1, <1>2, LoitersIs DEF memory
<1>3. CASE UndoList /\ pc' = "undo-stop"
  <2>1. /\ view' = box /\ UNCHANGED <<box, cur, tx>>
        /\ pc = "undo" /\ cur > 0 /\ ~OldGone(box)
    BY <1>3, ListIs
  <2>2. Undone' = Undone /\ Spared(Undone.name)
    BY <1>b, <2>1 DEF Undone, Spared
  <2>3. Mine' = Target(box, tx, Undone)
    BY <2>1, <2>2 DEF Mine, Target, FindNew, OwnedAt, At, Live, Owns
  <2>4. Undone.kind = "replace"
    BY <2>2
  <2> HIDE <1>3
  <2>5. LET M == Target(box, tx, Undone)
        IN  /\ ~((\E i \in M : box[i].role = "canonical")
                 /\ At(box, Undone.name, "next") \ M # {})
            /\ At(box, Undone.name, "canonical") \ ({Undone.id} \cup M) = {}
    BY <2>1, <2>2, <2>4, ClearNow
  <2>6. StageTaken(view)' <=> /\ \E i \in Mine' : view'[i].role = "canonical"
                              /\ At(view', Undone'.name, "next") \ Mine' # {}
    BY DEF StageTaken, At, Live
  <2>7. NameTaken(view)' <=> At(view', Undone'.name, "canonical")
                                \ ({Undone'.id} \cup Mine') # {}
    BY DEF NameTaken, At, Live
  <2> QED BY <2>1, <2>2, <2>3, <2>5, <2>6, <2>7
<1> QED BY <1>1, <1>2, <1>3, EntryKinds

(* What was found runs if it ran.                                          *)
LEMMA ListedGrows ==
    ASSUME IInv, [Next]_vars, ~Anew, Open'
    PROVE  /\ \A n : Listed(n) => Listed(n)'
           /\ \A n, kind : InDisk(n, kind) => InDisk(n, kind)'
BY EntriesKeep DEF Listed, InDisk

LEMMA RunStep ==
    ASSUME IInv, StrangerInv, HereInv, RunInv, SeenRunInv, RevivedInv, [Next]_vars
    PROVE  RunInv'
<1>1. CASE Anew
  <2>1. base' = Topology(box) /\ box' = box /\ disk' = NoJournal /\ Unique
    BY <1>1, AnewIs DEF IInv, World
  <2>2. \A n \in Names : /\ base'[n].ids = At(box, n, "canonical")
                         /\ base'[n].up <=> \E i \in At(box, n, "canonical") : Up(box[i])
    BY <2>1 DEF Topology
  <2>3. \A n \in Names : \A i \in base'[n].ids : Up(box[i]) <=> base'[n].up
    BY <2>1, <2>2 DEF Unique, At
  <2> QED BY <2>1, <2>3 DEF RunInv, Settled, Ks, NoJournal
<1>2. CASE ~Anew
  <2>0. base' = base
    BY <1>2, Remembered
  <2> SUFFICES ASSUME Open', NEW n \in Names, Spared(n)'
               PROVE  /\ ~Listed(n)' => Settled(n)'
                      /\ \A i \in base[n].ids : Up(box'[i]) => base[n].up \/ InDisk(n, "start")'
                      /\ \A k \in Ks(disk') : disk'.entries[k].name = n =>
                           /\ disk'.entries[k].kind = "replace" =>
                                 (disk'.entries[k].was <=> base[n].up)
                           /\ disk'.entries[k].kind = "start" => ~base[n].up
    BY <2>0 DEF RunInv, Ks
  <2>1. Spared(n) /\ Open
    BY <1>2, StaysSpared, OpenBefore
  <2>2. /\ ~Listed(n) => Settled(n)
        /\ \A i \in base[n].ids : Up(box[i]) => base[n].up \/ InDisk(n, "start")
        /\ \A k \in Ks(disk) : disk.entries[k].name = n =>
              /\ disk.entries[k].kind = "replace" => (disk.entries[k].was <=> base[n].up)
              /\ disk.entries[k].kind = "start" => ~base[n].up
    BY <2>1 DEF RunInv
  <2>3. ~Listed(n)' => Settled(n)'
    <3> SUFFICES ASSUME ~Listed(n)' PROVE Settled(n)'
      OBVIOUS
    <3>1. ~Listed(n)
      BY <1>2, ListedGrows
    <3>2. \A i \in base[n].ids : box'[i] = box[i]
      BY <1>2, <3>1, FoundStays
    <3> QED BY <2>0, <2>2, <3>1, <3>2 DEF Settled
  <2>4. ASSUME NEW i \in base[n].ids, Up(box'[i])
        PROVE  base[n].up \/ InDisk(n, "start")'
    <3>1. CASE Up(box[i])
      BY <1>2, <2>2, <3>1, ListedGrows
    <3>2. CASE ~Up(box[i])
      <4>1. Acts(i) /\ i \in Live(box) /\ box[i].name = n /\ i \in Ours(box) /\ ~New(box[i])
        <5>1. box'[i] # box[i]
          BY <2>4, <3>2
        <5>2. Acts(i) /\ i # Stranger
          BY <1>2, <2>1, <5>1, FoundStays, OpenTouched
        <5> QED BY <1>2, <5>2, FoundStays
      <4>2. Starts(i) \/ Revives(i)
        BY <2>4, <3>2, <4>1 DEF Acts, StopsOld, Retires, SwapsIn, UndoStops, Parks, Restores,
                                UndoDrops, Stops, Drops, Moves
      <4>3. CASE Starts(i)
        <5>1. pc \in OnEntry /\ i = Begun /\ pc = "start"
          BY <4>3 DEF Starts, OnEntry
        <5>2. Last.kind = "start"
          <6> SUFFICES ASSUME Last.kind # "start" PROVE FALSE
            OBVIOUS
          <6>1. i = Last.new /\ Last.new # 0
            BY <5>1 DEF Begun, IInv, Onward, AtHandInv
          <6> QED BY <4>1, <5>1, <6>1, MadeFacts
        <5>3. n = cur
          BY <4>1, <5>1, <5>2, FoundFacts DEF Begun
        <5>4. InDisk(n, "start")
          BY <5>1, <5>2, <5>3, LastFacts DEF InDisk
        <5> QED BY <1>2, <5>4, ListedGrows
      <4>4. CASE Revives(i)
        <5>1. pc = "undo-revive" /\ pc \in AtEntry
          BY <4>4 DEF Revives, AtEntry
        <5>2. Undone.kind = "replace"
          BY <5>1 DEF IInv, Core, LastInv
        <5>3. Undone.was
          BY <5>1, <5>2 DEF RevivedInv
        <5>4. n = Undone.name
          BY <4>1, <5>1, ActsOn DEF OnEntry
        <5>5. /\ cur \in Ks(tx) /\ cur \in Ks(disk) /\ disk.entries[cur].name = n
              /\ disk.entries[cur].kind = "replace"
          BY <5>1, <5>2, <5>4, UndoneFacts
        <5>6. disk.entries[cur].was = Undone.was
          BY <5>5 DEF IInv, World, TxInv, Undone
        <5> QED BY <2>2, <5>3, <5>5, <5>6
      <4> QED BY <4>2, <4>3, <4>4
    <3> QED BY <3>1, <3>2
  <2>5. ASSUME NEW k \in Ks(disk'), disk'.entries[k].name = n
        PROVE  /\ disk'.entries[k].kind = "replace" => (disk'.entries[k].was <=> base[n].up)
               /\ disk'.entries[k].kind = "start" => ~base[n].up
    <3>1. CASE k \in Ks(disk)
      BY <1>2, <2>2, <2>5, <3>1, EntriesKeep
    <3>2. CASE k \notin Ks(disk)
      <4>1. pc = "record" /\ Asked(disk'.entries[k])
        BY <1>2, <3>2, EntriesKeep
      <4>2. /\ n = cur
            /\ disk'.entries[k].kind = "replace" =>
                  /\ disk'.entries[k].id \in Live(view)
                  /\ disk'.entries[k].was = Up(view[disk'.entries[k].id])
            /\ disk'.entries[k].kind = "start" =>
                  /\ disk'.entries[k].id \in Live(view)
                  /\ Same(view[disk'.entries[k].id]) /\ ~job.force
        BY <2>5, <4>1 DEF Asked
      <4>3. \A i \in Live(view) : /\ Up(view[i]) <=> base[cur].up
                                  /\ Same(view[i]) /\ ~job.force => ~Up(view[i])
        BY <2>1, <4>1, <4>2 DEF SeenRunInv
      <4> QED BY <4>2, <4>3
    <3> QED BY <3>1, <3>2
  <2> QED BY <2>3, <2>4, <2>5
<1> QED BY <1>1, <1>2

LEMMA SeenRunStep ==
    ASSUME IInv, StrangerInv, HereInv, RunInv, SeenRunInv, [Next]_vars
    PROVE  SeenRunInv'
<1> SUFFICES ASSUME pc' = "record" PROVE SeenRunInv'
  BY DEF SeenRunInv
<1>a. ~Anew
  BY AnewIs
<1>b. hurt \subseteq hurt' /\ cut \subseteq cut' /\ base' = base
  BY <1>a, Remembered
<1>1. CASE Loiters
  <2>1. UNCHANGED memory
    BY <1>1, LoitersIs
  <2> QED BY <1>b, <2>1 DEF SeenRunInv, memory, Spared, Live, Same
<1>2. CASE Inspect
  <2>1. /\ pc = "inspect" /\ UNCHANGED <<job, cur>>
        /\ \/ \E i : /\ Upright(i) /\ view' = Restrict(box, {i})
                     /\ ~(Same(box[i]) /\ ~job.force /\ Up(box[i]))
           \/ view' = view
    BY <1>2, InspectIs DEF RollBack, Goto, Advance
  <2>2. CASE view' = view
    <3>1. Live(view) = {}
      BY <2>1 DEF IInv, Onward, BlankInv
    <3> QED BY <2>2, <3>1 DEF SeenRunInv, Live
  <2>3. CASE \E i : /\ Upright(i) /\ view' = Restrict(box, {i})
                    /\ ~(Same(box[i]) /\ ~job.force /\ Up(box[i]))
    <3>1. PICK i : /\ Upright(i) /\ view' = Restrict(box, {i})
                   /\ ~(Same(box[i]) /\ ~job.force /\ Up(box[i]))
      BY <2>3
    <3>2. i \in Ours(box) /\ i \in Ids /\ box[i].name = cur
      BY <3>1 DEF Upright, At, Ours, Live
    <3>3. \A k \in Live(view') : k = i /\ view'[k] = box[k]
      BY <3>1 DEF Live, Restrict, NoContainer
    <3>4. Open /\ cur \in Names /\ nonce > 0
      BY <2>1 DEF Open, IInv, Core, PhaseInv, Forward, CursorInv, JournalInv
    <3>5. ~Listed(cur) /\ ~New(box[i])
      BY <2>1, <3>2, <3>4, NoneYet
    <3>6. i \in base[cur].ids
      BY <3>2, <3>4, <3>5 DEF IInv, World, BaseInv
    <3>7. Spared(cur) => (Up(box[i]) <=> base[cur].up)
      BY <3>4, <3>5, <3>6 DEF RunInv, Settled
    <3>8. (Spared(cur))' => Spared(cur)
      BY <1>b, <2>1 DEF Spared
    <3>9. \A k \in Live(view') : /\ (Spared(cur))' => (Up(view'[k]) <=> base[cur].up)
                                 /\ Same(view'[k]) /\ ~job.force => ~Up(view'[k])
      BY <3>1, <3>3, <3>7, <3>8
    <3> QED BY <1>b, <2>1, <3>9 DEF SeenRunInv, Same, Live
  <2> QED BY <2>1, <2>2, <2>3
<1> QED BY <1>1, <1>2, Arrives

(* The old container of an entry that is being undone goes on running.     *)
LEMMA OldRuns ==
    ASSUME IInv, StrangerInv, HereInv, [Next]_vars, ~Anew, Open', pc \in AtEntry,
           Undone.kind = "replace", NEW n, n = Undone.name, Spared(n)'
    PROVE  /\ Undone.id \in Ours(box)
           /\ Up(box[Undone.id]) => Up(box'[Undone.id])
           /\ pc # "undo-revive" => (Up(box[Undone.id]) <=> Up(box'[Undone.id]))
<1> DEFINE i == Undone.id
<1>1. i \in base[n].ids /\ n \in Names /\ i # Stranger
  BY UndoneFacts
<1>2. i \in Live(box) /\ i \in Ours(box) /\ ~New(box[i])
  BY <1>1, FoundStays
<1>3. i \notin Mine
  <2>1. \A k \in Mine : New(view[k]) /\ k \in Live(view)
    BY DEF IInv, Backward, ListedInv
  <2> QED BY DEF IInv, Backward, ListedInv
<1> HIDE DEF i
<1>4. CASE box'[i] # box[i]
  <2>1. Acts(i)
    BY <1>1, <1>4, FoundStays
  <2>2. Restores(i) \/ Revives(i)
    BY <1>2, <1>3, <2>1 DEF Acts, StopsOld, Retires, SwapsIn, Starts, UndoStops, Parks,
       UndoDrops, AtEntry
  <2>3. Restores(i) => (Up(box[i]) <=> Up(box'[i]))
    BY DEF Restores, Moves
  <2>4. Revives(i) => Up(box'[i]) /\ pc = "undo-revive"
    BY DEF Revives, Runs
  <2> QED BY <1>2, <2>2, <2>3, <2>4 DEF i
<1>5. CASE box'[i] = box[i]
  BY <1>2, <1>5 DEF i
<1> QED BY <1>4, <1>5

LEMMA RevivedStep ==
    ASSUME IInv, StrangerInv, HereInv, RevivedInv, [Next]_vars
    PROVE  RevivedInv'
<1> SUFFICES ASSUME pc' \in AtEntry, (Undone.kind = "replace")' PROVE RevivedInv'
  BY DEF RevivedInv
<1>a. ~Anew
  BY AnewIs DEF AtEntry
<1>b. TypeOK /\ LastInv
  BY DEF IInv, Core
<1>c. Open'
  <2>1. IInv'
    BY IInvStep
  <2>2. disk' # NoJournal
    BY <2>1 DEF IInv, Core, PhaseInv, AtEntry, Undoing
  <2> QED BY <2>2 DEF Open
<1>1. ASSUME pc \in AtEntry, UNCHANGED <<view, cur, tx>>,
             pc' \in {"undo-revive", "undo-confirm"} => Undone.was,
             \A n : n = Undone.name /\ Spared(n)' =>
                /\ pc' = "undo-confirm" => Up(box'[Undone.id])
                /\ pc' = "undo-drop" /\ Undone.was => Up(box'[Undone.id])
      PROVE  RevivedInv'
  <2>1. Undone' = Undone
    BY <1>1 DEF Undone
  <2>2. Undone.kind = "replace"
    BY <2>1
  <2>3. ASSUME NEW n, n = Undone.name, Spared(n)'
        PROVE  Up(view[Undone.id]) => Up(box'[Undone.id])
    <3>1. Spared(n)
      BY <1>a, <2>3, StaysSpared
    <3>2. Up(view[Undone.id]) => Up(box[Undone.id])
      BY <1>1, <2>2, <2>3, <3>1 DEF RevivedInv
    <3> QED BY <1>1, <1>a, <1>c, <2>2, <2>3, <3>2, OldRuns
  <2>4. \A n : n = Undone.name /\ Spared(n)' => (Up(view[Undone.id]) => Up(box'[Undone.id]))
    BY <2>3
  <2>5. \A n : n = Undone.name => (Spared(n)' <=> (Spared(Undone.name))')
    BY <2>1 DEF Spared
  <2> QED BY <1>1, <2>1, <2>4, <2>5 DEF RevivedInv
<1>d. ASSUME pc \in AtEntry, NEW n, n = Undone.name, Spared(n)', Undone.kind = "replace",
             pc' = pc \/ pc = "undo-restore" \/ pc = "undo-confirm",
             pc = "undo-restore" /\ pc' = "undo-drop" /\ Undone.was => Up(view[Undone.id])
      PROVE  /\ pc' = "undo-confirm" => Up(box'[Undone.id]) \/ pc = "undo-restore"
             /\ pc' = "undo-drop" /\ Undone.was => Up(box'[Undone.id])
  <2>1. Spared(n)
    BY <1>a, <1>d, StaysSpared
  <2>2. /\ Up(view[Undone.id]) => Up(box[Undone.id])
        /\ pc = "undo-confirm" => Up(box[Undone.id])
        /\ pc = "undo-drop" /\ Undone.was => Up(box[Undone.id])
    BY <1>d, <2>1 DEF RevivedInv
  <2>3. Up(box[Undone.id]) => Up(box'[Undone.id])
    BY <1>a, <1>c, <1>d, OldRuns
  <2> QED BY <1>d, <2>2, <2>3
<1>2. CASE Loiters
  <2>1. pc' = pc /\ UNCHANGED <<view, cur, tx>> /\ Undone' = Undone
    BY <1>2, LoitersIs DEF memory, Undone
  <2>2. pc \in AtEntry /\ Undone.kind = "replace"
    BY <2>1
  <2>3. pc' \in {"undo-revive", "undo-confirm"} => Undone.was
    BY <2>1, <2>2 DEF RevivedInv
  <2>4. \A n : n = Undone.name /\ Spared(n)' =>
                /\ pc' = "undo-confirm" => Up(box'[Undone.id])
                /\ pc' = "undo-drop" /\ Undone.was => Up(box'[Undone.id])
    BY <1>d, <2>1, <2>2
  <2> QED BY <1>1, <2>1, <2>2, <2>3, <2>4
<1>3. CASE UndoList /\ pc' = "undo-stop"
  <2>1. view' = box /\ box' = box
    BY <1>3, ListIs
  <2> QED BY <1>3, <2>1 DEF RevivedInv
<1>4. CASE /\ pc \in AtEntry /\ UNCHANGED <<view, cur, tx>>
           /\ \/ UndoStop /\ AfterStop /\ pc = "undo-stop"
                   /\ pc' \in {"undo-park", "undo-drop"}
              \/ UndoPark /\ pc = "undo-park" /\ pc' = "undo-restore"
  <2>1. Undone' = Undone
    BY <1>4 DEF Undone
  <2>2. pc' # "undo-drop"
    BY <1>4, <2>1 DEF AfterStop, Goto
  <2> QED BY <1>1, <1>4, <2>2
<1>5. CASE /\ pc \in AtEntry /\ UNCHANGED <<view, cur, tx>>
           /\ UndoRestore /\ AfterRestore /\ pc = "undo-restore"
           /\ pc' \in {"undo-revive", "undo-drop"}
  <2>1. /\ pc' = "undo-revive" => Undone.was
        /\ pc' = "undo-drop" /\ Undone.was => Up(view[Undone.id])
    BY <1>5 DEF AfterRestore, Goto
  <2>2. Undone.kind = "replace"
    BY <1>5, <1>b DEF LastInv
  <2>3. \A n : n = Undone.name /\ Spared(n)' =>
           (pc' = "undo-drop" /\ Undone.was => Up(box'[Undone.id]))
    BY <1>5, <1>d, <2>1, <2>2
  <2> QED BY <1>1, <1>5, <2>1, <2>3
<1>6. CASE /\ pc \in AtEntry /\ UNCHANGED <<view, cur, tx>>
           /\ UndoRevive /\ pc = "undo-revive" /\ pc' = "undo-confirm"
  <2>1. Undone.was
    BY <1>6, <1>b DEF LastInv, RevivedInv
  <2>2. Runs(Undone.id) \/ (box' = box /\ Up(box[Undone.id]))
    BY <1>6, <1>b, UndoReviveIs DEF Refuse, NextEntry
  <2>3. Up(box'[Undone.id])
    BY <2>2 DEF Runs
  <2> QED BY <1>1, <1>6, <2>1, <2>3
<1>7. CASE /\ pc \in AtEntry /\ UNCHANGED <<view, cur, tx>>
           /\ UndoConfirm /\ box' = box /\ pc = "undo-confirm" /\ pc' = "undo-drop"
  <2>1. Undone.kind = "replace"
    BY <1>7, <1>b DEF LastInv
  <2>2. \A n : n = Undone.name /\ Spared(n)' => Up(box'[Undone.id])
    <3> SUFFICES ASSUME NEW n, n = Undone.name, Spared(n)' PROVE Up(box[Undone.id])
      BY <1>7
    <3>1. Spared(n)
      BY <1>a, StaysSpared
    <3> QED BY <1>7, <2>1, <3>1 DEF RevivedInv
  <2> QED BY <1>1, <1>7, <2>2
<1> QED BY <1>2, <1>3, <1>4, <1>5, <1>6, <1>7, EntryKinds

(* Names that were undone, or never acted upon, run as they did.           *)
LEMMA SettledKept ==
    ASSUME IInv, StrangerInv, HereInv, [Next]_vars, ~Anew, Open', NEW n \in Names,
           Spared(n)', Settled(n), pc \in OnEntry => n # cur, pc \in AtEntry => n # Undone.name
    PROVE  Settled(n)'
<1>1. base' = base
  BY Remembered
<1>2. \A i \in base[n].ids : box'[i] = box[i]
  BY FoundStays
<1> QED BY <1>1, <1>2 DEF Settled

LEMMA StillOpen ==
    ASSUME IInv, [Next]_vars, pc' = "rollback" \/ pc' \in Undoing
    PROVE  Open' /\ ~Anew /\ \A k \in Ks(disk') : disk'.entries[k].name \in Names
<1>1. IInv'
  BY IInvStep
<1>2. Open'
  BY <1>1 DEF IInv, Core, PhaseInv, Open
<1>3. ~Anew
  BY AnewIs DEF Undoing
<1>4. \A k \in Ks(disk') : disk'.entries[k].name \in Names
  <2>1. TypeOK'
    BY <1>1 DEF IInv, Core
  <2>2. disk'.entries \in Seq(Entry)
    BY <2>1 DEF TypeOK, WorldOK, Journal
  <2>3. \A k \in Ks(disk') : disk'.entries[k] \in Entry
    BY <2>2 DEF Ks
  <2> QED BY <2>3 DEF Entry
<1> QED BY <1>2, <1>3, <1>4

LEMMA RollbackSettled ==
    ASSUME IInv, StrangerInv, HereInv, RunInv, SettledInv, [Next]_vars, pc' = "rollback",
           NEW n, Spared(n)', NEW k \in Ks(disk'), k > Len(tx'.entries),
           n = disk'.entries[k].name
    PROVE  Settled(n)'
<1>a. Open' /\ ~Anew /\ n \in Names
  BY StillOpen
<1>b. Open /\ Spared(n)
  BY <1>a, OpenBefore, StaysSpared
<1>1. CASE Loiters /\ pc = "rollback" /\ UNCHANGED <<disk, tx, nonce>>
  <2>1. Settled(n)
    BY <1>1, <1>b DEF SettledInv
  <2> QED BY <1>1, <1>a, <2>1, SettledKept DEF OnEntry, AtEntry
<1>2. CASE /\ Records /\ pc = "record" /\ UNCHANGED <<box, nonce, cur>>
           /\ \A m \in Ks(disk') : m > Len(tx'.entries) => disk'.entries[m].name = cur
  <2>1. n = cur /\ ~Listed(n)
    BY <1>2, <1>b, NoneYet
  <2>2. Settled(n)
    BY <1>a, <1>b, <2>1 DEF RunInv
  <2> QED BY <1>2, <1>a, <2>2, SettledKept DEF OnEntry, AtEntry
<1> QED BY <1>1, <1>2, RollbackKinds

(* The undo of an entry leaves its name running as it was found.           *)
LEMMA UndidIsSettled ==
    ASSUME IInv, StrangerInv, HereInv, RunInv, RevivedInv, [Next]_vars,
           UndoStop \/ UndoDrop, pc' = "undo", ~bad', NEW n, n = Undone.name, Spared(n)'
    PROVE  Settled(n)'
<1>a. TypeOK /\ FreshInv /\ ListedInv /\ LastInv /\ BaseInv /\ EntriesInv /\ TxInv
  BY DEF IInv, Backward, World, Core
<1>b. pc \in AtEntry /\ (UndoDrop => pc = "undo-drop") /\ (UndoStop => pc = "undo-stop")
      /\ pc \notin OnEntry
  BY Leads DEF Takes, AtEntry, OnEntry
<1>c. Open' /\ ~Anew /\ n \in Names
  BY <1>b, StillOpen, UndoneFacts DEF Undoing
<1>d. base' = base /\ Open /\ Spared(n)
  BY <1>c, Remembered, OpenBefore, StaysSpared
<1>e. /\ cur \in Ks(tx) /\ cur \in Ks(disk) /\ disk.entries[cur].name = n
      /\ disk.entries[cur].kind = Undone.kind
      /\ Undone.kind # "create" => Undone.id \in base[n].ids /\ Undone.id # Stranger
      /\ Undone.kind \in {"replace", "create", "start"}
  BY <1>b, UndoneFacts DEF Entry
<1>f. disk.entries[cur].was = Undone.was
  BY <1>a, <1>e DEF TxInv, Undone
<1>g. Undone.kind # "create" => \A i \in base[n].ids : i = Undone.id
  BY <1>a, <1>c, <1>e DEF BaseInv
<1>h. ~Refuse
  BY DEF Refuse, NextEntry
<1>1. CASE UndoStop
  <2>0. AfterStop /\ ((\E i \in Mine : Stops(i)) \/ (box' = box /\ \A i \in Mine : ~Up(view[i])))
    BY <1>1, <1>a, <1>h, UndoStopIs
  <2>1. Undone.kind = "start"
    BY <1>e, <2>0 DEF AfterStop, Goto
  <2> DEFINE i == Undone.id
  <2>2. i \in base[n].ids /\ i \in Ours(box) /\ ~base[n].up
    BY <1>c, <1>d, <1>e, <2>1, FoundStays DEF RunInv
  <2>3. i \in Ours(view) /\ (Up(box[i]) => Up(view[i]))
    BY <1>a, <1>b, <1>1, <2>2 DEF FreshInv
  <2>4. Mine = {i}
    BY <2>1, <2>3 DEF Mine, Target, Ours
  <2>5. ~Up(box'[i])
    BY <2>0, <2>3, <2>4 DEF Stops
  <2> QED BY <1>d, <1>e, <1>g, <2>1, <2>2, <2>5 DEF Settled
<1>2. CASE UndoDrop /\ Undone.kind = "create"
  <2> SUFFICES ASSUME NEW i \in base[n].ids PROVE Up(box'[i]) /\ base[n].up
    BY <1>d DEF Settled
  <2>1. i = Stranger
    <3>1. \A k \in Ours(box) : k \notin base[n].ids
      BY <1>a, <1>2, <1>e DEF EntriesInv
    <3> QED BY <1>c, <3>1, FoundStays
  <2>2. i \in Live(box') /\ StrangerInv'
    BY <1>c, FoundStays, StrangerStep
  <2> QED BY <1>c, <2>1, <2>2 DEF StrangerInv
<1>3. CASE UndoDrop /\ Undone.kind = "replace"
  <2> DEFINE i == Undone.id
  <2>1. pc = "undo-drop" /\ i \in base[n].ids
    BY <1>3, <1>b, <1>e
  <2>2. Undone.was <=> base[n].up
    BY <1>3, <1>c, <1>d, <1>e, <1>f DEF RunInv
  <2>3. Up(box[i]) => base[n].up
    <3>1. ~InDisk(n, "start")
      BY <1>3, <1>b, OnlyEntry
    <3> QED BY <1>c, <1>d, <2>1, <3>1 DEF RunInv
  <2>4. Undone.was => Up(box[i])
    BY <1>3, <1>b, <1>d, <2>1 DEF RevivedInv
  <2>5. Up(box[i]) <=> Up(box'[i])
    BY <1>3, <1>b, <1>c, <2>1, OldRuns
  <2> QED BY <1>3, <1>d, <1>g, <2>2, <2>3, <2>4, <2>5 DEF Settled
<1>4. UndoDrop => Undone.kind # "start"
  BY <1>a, <1>b DEF LastInv
<1> QED BY <1>1, <1>2, <1>3, <1>4, <1>e

LEMMA UndoingSettled ==
    ASSUME IInv, StrangerInv, HereInv, RunInv, RevivedInv, SettledInv, [Next]_vars,
           pc' \in Undoing, ~bad', NEW n, Spared(n)', NEW k \in Ks(disk'), k > cur',
           n = disk'.entries[k].name
    PROVE  Settled(n)'
<1>a. Open' /\ ~Anew /\ n \in Names
  BY StillOpen
<1>b. Open /\ Spared(n)
  BY <1>a, OpenBefore, StaysSpared
<1>c. cur \in Nat
  BY DEF IInv, Core, TypeOK, MemoryOK
<1>d. ASSUME pc \in Undoing, ~bad, disk' = disk, k > cur PROVE Settled(n)'
  <2>1. Settled(n)
    BY <1>b, <1>d DEF SettledInv
  <2>2. pc \in AtEntry => n # Undone.name
    BY <1>c, <1>d, OnlyEntry
  <2> QED BY <1>a, <1>d, <2>1, <2>2, SettledKept DEF OnEntry, Undoing
<1>1. CASE pc \in Undoing /\ ~bad /\ UNCHANGED <<disk, nonce, cur>>
  BY <1>1, <1>d
<1>2. CASE pc = "rollback" /\ UNCHANGED <<disk, box, nonce>> /\ cur' = Len(tx.entries)
  <2>1. Settled(n)
    BY <1>2, <1>b DEF SettledInv
  <2> QED BY <1>2, <1>a, <2>1, SettledKept DEF OnEntry, AtEntry
<1>3. CASE /\ pc \in AtEntry /\ (UndoStop \/ UndoDrop) /\ UNCHANGED <<disk, nonce>>
           /\ cur' = cur - 1 /\ ~bad /\ pc' = "undo"
  <2>1. k \in Nat /\ disk.entries[cur].name = Undone.name /\ pc \in Undoing
    BY <1>3, EntryTypes, UndoneFacts DEF IInv, Core
  <2>2. CASE k = cur
    BY <1>3, <2>1, <2>2, UndidIsSettled
  <2>3. CASE k > cur
    BY <1>3, <1>d, <2>1, <2>3
  <2> QED BY <1>3, <1>c, <2>1, <2>2, <2>3
<1> QED BY <1>1, <1>2, <1>3, UndoingKinds

LEMMA SettledStep ==
    ASSUME IInv, StrangerInv, HereInv, RunInv, RevivedInv, SettledInv, [Next]_vars
    PROVE  SettledInv'
<1>1. ASSUME pc' = "rollback", NEW k \in Ks(disk'), k > Len(tx'.entries),
             (Spared(disk.entries[k].name))'
      PROVE  (Settled(disk.entries[k].name))'
  <2>1. \A n : n = disk'.entries[k].name =>
           /\ (Spared(disk.entries[k].name))' <=> Spared(n)'
           /\ (Settled(disk.entries[k].name))' <=> Settled(n)'
    BY DEF Spared, Settled
  <2> QED BY <1>1, <2>1, RollbackSettled
<1>2. ASSUME pc' \in Undoing, ~bad', NEW k \in Ks(disk'), k > cur',
             (Spared(disk.entries[k].name))'
      PROVE  (Settled(disk.entries[k].name))'
  <2>1. \A n : n = disk'.entries[k].name =>
           /\ (Spared(disk.entries[k].name))' <=> Spared(n)'
           /\ (Settled(disk.entries[k].name))' <=> Settled(n)'
    BY DEF Spared, Settled
  <2> QED BY <1>2, <2>1, UndoingSettled
<1>3. Ks(disk') = Ks(disk)'
  BY DEF Ks
<1> QED BY <1>1, <1>2, <1>3 DEF SettledInv

LEMMA UntouchedStep ==
    ASSUME IInv, Untouched, [Next]_vars PROVE Untouched'
BY StrangerStep, HereStep, ClearStep, RunStep, SeenRunStep, RevivedStep, SettledStep
DEF Untouched

LEMMA InitUntouched == Init => Untouched
<1> SUFFICES ASSUME Init PROVE Untouched
  OBVIOUS
<1>1. /\ base = Topology(box) /\ disk = NoJournal /\ pc = "idle" /\ job = NoJob
      /\ IInv
  BY InitIInv DEF Init
<1>2. Stranger \notin Live(box)
  <2>1. CASE box = Nothing
    BY <2>1 DEF Nothing, NoContainer, Live
  <2>2. CASE box # Nothing
    <3>1. Size <= MaxIds /\ \E c \in Cands : \E up : box = Installed(c, up)
      BY <2>2 DEF Init
    <3>2. \A c \in Cands : Stranger \notin Desired[c]
      BY <3>1, BoundsAssumption, PlanAssumption DEF Stranger, Names
    <3> QED BY <3>1, <3>2 DEF Live, Installed, NoContainer
  <2> QED BY <2>1, <2>2
<1>3. \A n \in Names : /\ base[n].ids = At(box, n, "canonical")
                       /\ base[n].up <=> \E i \in At(box, n, "canonical") : Up(box[i])
  BY <1>1 DEF Topology
<1>4. StrangerInv
  BY <1>2, <1>3 DEF StrangerInv, At
<1>5. ~Open
  BY <1>1 DEF Open, NoJob
<1> QED BY <1>1, <1>4, <1>5 DEF Untouched, HereInv, ClearInv, RunInv, SeenRunInv, RevivedInv,
           SettledInv, AtEntry, Undoing

-----------------------------------------------------------------------------
(* What the commit promises.                                               *)

(* The container that is started is the name's.                            *)
LEMMA BegunFacts ==
    ASSUME IInv, pc = "start", Begun \in Live(box)
    PROVE  /\ Begun \in Ours(box) /\ box[Begun].name = cur /\ box[Begun].role = "canonical"
           /\ Last.kind = "start" => Begun = Last.id
           /\ Last.kind # "start" => New(box[Begun])
<1>1. pc \in OnEntry
  BY DEF OnEntry
<1>2. CASE Last.kind = "start"
  BY <1>1, <1>2, FoundFacts DEF Begun, IInv, Onward, FoundInv
<1>3. CASE Last.kind # "start"
  <2>1. Begun = Last.new /\ Last.new # 0
    BY <1>1, <1>3 DEF Begun, IInv, Onward, AtHandInv
  <2>2. Last.new \in Ours(box) /\ box[Last.new].name = cur /\ New(box[Last.new])
    BY <1>1, <2>1, MadeFacts
  <2> QED BY <1>3, <2>1, <2>2 DEF IInv, Onward, MadeInv
<1> QED BY <1>2, <1>3

LEMMA StartedIs ==
    ASSUME IInv, [Next]_vars, Start, pc' # "rollback"
    PROVE  /\ pc = "start" /\ Begun \in Live(box) /\ Begun \in Live(box')
           /\ box'[Begun].role = box[Begun].role
<1>1. TypeOK /\ pc = "start"
  BY StartOldIs DEF IInv, Core
<1>2. Runs(Begun) \/ (box' = box /\ Up(box[Begun]))
  BY <1>1, StartOldIs
<1>3. Begun \in Ids
  <2>1. Last \in Entry /\ (Last.kind = "start" => Last.id \in Live(view))
        /\ (Last.kind # "start" => Last.new # 0)
    BY <1>1, LastFacts DEF OnEntry, IInv, Onward, AtHandInv
  <2> QED BY <2>1 DEF Begun, Entry, Live
<1> QED BY <1>1, <1>2, <1>3 DEF Runs, Stays, Live, Up

(* A name stays held as long as it is not being worked on.                 *)
LEMMA HeldKept ==
    ASSUME IInv, [Next]_vars, pc \in Forward, NEW n \in Names, n \notin hurt',
           pc \in OnEntry => n # cur, Held1(n)
    PROVE  Held1(n)'
<1>1. PICK i \in Ours(box) : box[i].name = n /\ box[i].role = "canonical"
  BY DEF Held1
<1>2. box'[i] = box[i]
  <2> SUFFICES ASSUME box'[i] # box[i] PROVE FALSE
    OBVIOUS
  <2>1. i \in Live(box) /\ ~ClearDebris /\ ~Teardown /\ pc \notin AtEntry
    BY DEF Ours, ClearDebris, Teardown, Forward, AtEntry
  <2>2. Acts(i)
    BY <1>1, <2>1, WhoIsTouched
  <2> QED BY <1>1, <2>1, <2>2, ActsOn
<1>3. i \in Ours(box')
  BY <1>2 DEF Ours, Live
<1> QED BY <1>1, <1>2, <1>3 DEF Held1

LEMMA HeldStep ==
    ASSUME IInv, HeldInv, [Next]_vars PROVE HeldInv'
<1> SUFFICES ASSUME NEW n \in Names, n \notin hurt', Past(n)', n \in Desired[job'.cand]
             PROVE  Held1(n)'
  BY DEF HeldInv
<1>a. pc' \in Forward /\ (pc' \in {"hooks", "gate"} \/ n < cur')
  BY DEF Past
<1>b. TypeOK /\ cur \in Nat /\ n \in Nat /\ Size \in Nat /\ Dev = Size /\ n <= Size
      /\ nonce \in Nat
  BY BoundsAssumption DEF IInv, Core, TypeOK, MemoryOK, WorldOK, Names, Dev
<1>c. ~Anew => n \notin hurt
  BY Remembered
<1>d. ASSUME Past(n), job'.cand = job.cand, ~Anew PROVE Held1(n)'
  <2>1. Held1(n)
    BY <1>c, <1>d DEF HeldInv
  <2>2. pc \in Forward /\ (pc \in OnEntry => n # cur)
    BY <1>b, <1>d DEF Past, OnEntry
  <2> QED BY <2>1, <2>2, HeldKept
<1>1. CASE Loiters
  <2>1. UNCHANGED memory /\ Still
    BY <1>1, LoitersIs
  <2>2. Past(n) /\ ~Anew
    <3>1. pc = "prepare" => FALSE
      BY <1>a, <2>1 DEF memory, Forward
    <3> QED BY <1>a, <2>1, <3>1, AnewIs DEF Past, memory
  <2> QED BY <1>d, <2>1, <2>2 DEF memory
<1>e. ASSUME Gone, pc \in {"inspect", "start"}
      PROVE  /\ job'.cand = job.cand /\ ~Anew /\ n <= cur
             /\ n # cur => Past(n)
  <2>1. n <= cur
    BY <1>a, <1>b, <1>e DEF Gone
  <2> QED BY <1>b, <1>e, <2>1, AnewIs DEF Gone, Past, Forward
<1>2. CASE Gone /\ Skip
  <2>1. cur \notin Desired[job.cand] /\ pc = "inspect"
    BY <1>2 DEF Skip
  <2> QED BY <1>2, <1>d, <1>e, <2>1
<1>3. CASE Gone /\ Inspect
  <2>1. /\ pc = "inspect" /\ box' = box
        /\ n = cur => \E i : Upright(i)
    BY <1>3, <1>a, InspectIs DEF RollBack, Goto, Gone, Forward, docker
  <2>2. CASE n = cur
    <3>1. Held1(n)
      BY <2>1, <2>2 DEF Upright, At, Ours, Held1
    <3> QED BY <2>1, <3>1, HeldKept DEF Forward, OnEntry
  <2> QED BY <1>3, <1>d, <1>e, <2>1, <2>2
<1>4. CASE Gone /\ Start
  <2>1. /\ pc = "start" /\ Begun \in Live(box) /\ Begun \in Live(box')
        /\ box'[Begun].role = box[Begun].role
    BY <1>4, <1>a, StartedIs DEF Forward
  <2>2. CASE n = cur
    <3>1. Begun \in Ours(box) /\ box[Begun].name = n /\ box[Begun].role = "canonical"
      BY <2>1, <2>2, BegunFacts
    <3>2. Begun \in Ours(box') /\ box'[Begun].name = n
      BY <2>1, <3>1, LabelsStay DEF SameLabels
    <3>3. \E i \in Ours(box') : box'[i].name = n /\ box'[i].role = "canonical"
      BY <2>1, <3>1, <3>2
    <3> QED BY <3>3 DEF Held1, Ours, Live
  <2> QED BY <1>4, <1>d, <1>e, <2>1, <2>2
<1>5. CASE /\ pc \in Forward /\ job'.cand = job.cand /\ nonce' = nonce
           /\ pc' \in {"hooks", "gate"} => pc \in {"hooks", "gate"}
           /\ pc' \notin {"hooks", "gate"} => cur' = cur
  <2>1. Past(n) /\ ~Anew
    BY <1>a, <1>b, <1>5 DEF Past, Anew
  <2> QED BY <1>5, <1>d, <2>1
<1>6. CASE cur' = 1 /\ pc' = "inspect"
  BY <1>a, <1>b, <1>6 DEF Names
<1> QED BY <1>a, <1>1, <1>2, <1>3, <1>4, <1>5, <1>6, ForwardKinds

(* The dev container's address.                                            *)
LEMMA JobKinds ==
    ASSUME IInv, [Next]_vars
    PROVE  \/ /\ job'.ip = job.ip /\ job'.cand = job.cand
              /\ job'.phase = "sweep" => job.phase = "sweep"
           \/ job'.ip = 0 /\ pc' \notin Forward
           \/ /\ ResolveDNS /\ pc = "inspect" /\ pc' = "inspect" /\ cur = Dev /\ cur' = cur
              /\ job.cand \in Linked /\ job'.cand = job.cand /\ job'.phase = job.phase
              /\ box' = box /\ hurt' = hurt
              /\ \E i \in At(box, 1, "canonical") : job'.ip = box[i].addr
<1>a. TypeOK /\ PhaseInv /\ job \in Job
  BY DEF IInv, Core, TypeOK, MemoryOK
<1>b. \A p : LET j == [job EXCEPT !.phase = p]
             IN  j.ip = job.ip /\ j.cand = job.cand /\ j.phase = p
  BY <1>a DEF Job
<1>c. \A a : LET j == [job EXCEPT !.ip = a]
             IN  j.ip = a /\ j.cand = job.cand /\ j.phase = job.phase
  BY <1>a DEF Job
<1>d. Rest => job'.ip = 0 /\ pc' \notin Forward
  BY DEF Rest, NoJob, Forward
<1> USE DEF Goto, RollBack, Advance, Refuse, Undid, NextEntry, BeginUndo
<1>1. CASE Begin
  BY <1>1 DEF Begin, UpBegin, DownBegin, NoJob, Forward
<1>2. CASE Sweep \/ ListDebris \/ Rollback \/ UndoEnd \/ Erase \/ DownList \/ DownErase \/ Crash
  BY <1>2, <1>d DEF Sweep, ListDebris, Rollback, UndoEnd, Erase, DownList, DownErase, Crash
<1>3. CASE ClearDebris \/ Teardown
  <2>1. Dispose => Rest \/ job' = job
    BY <1>a, DisposeIs
  <2> QED BY <1>3, <1>d, <2>1 DEF ClearDebris, Teardown
<1>4. CASE Prepare
  BY <1>4, <1>b, <1>d, PrepareIs
<1>5. CASE Commit
  BY <1>5, <1>b, <1>d DEF Commit
<1>6. CASE ResolveDNS
  <2>1. CASE pc' = "rollback" /\ job' = job
    BY <2>1
  <2>2. CASE \E i \in At(box, 1, "canonical") :
                /\ job' = [job EXCEPT !.ip = box[i].addr]
                /\ UNCHANGED <<pc, cur>>
    BY <1>6, <1>c, <2>2 DEF ResolveDNS, NeedsAddress, docker, history
  <2> QED BY <1>6, <2>1, <2>2 DEF ResolveDNS
<1>7. CASE Skip \/ Inspect \/ Hooks \/ Gate \/ UndoList \/ UndoConfirm
  <2>1. job' = job
    BY <1>7, InspectIs DEF Skip, Hooks, Gate, UndoList, UndoConfirm
  <2> QED BY <2>1
<1>8. CASE Records \/ Create \/ Backfill \/ StopOld \/ RetireOld \/ SwapIn \/ Start
  <2>1. job' = job
    BY <1>8, <1>a, RecordsIs, CreateIs, BackfillIs, StopOldIs, RetireOldIs, SwapInIs,
       StartOldIs DEF Held, IInv, Core
  <2> QED BY <2>1
<1>9. CASE UndoStop \/ UndoPark \/ UndoRestore \/ UndoRevive \/ UndoDrop
  <2>1. job' = job
    <3>1. CASE UndoDrop
      BY <3>1 DEF UndoDrop, Call
    <3> QED BY <1>9, <1>a, <3>1, UndoStopIs, UndoParkIs, UndoRestoreIs, UndoReviveIs
        DEF AfterStop, AfterRestore, Held
  <2> QED BY <2>1
<1>10. CASE Loiters
  BY <1>10, LoitersIs DEF memory
<1> QED BY <1>1, <1>2, <1>3, <1>4, <1>5, <1>6, <1>7, <1>8, <1>9, <1>10
   DEF Next, Work, Reconcile, Undo, Records, Loiters

(* An address that nobody disturbs stays.                                  *)
LEMMA AddrKept ==
    ASSUME IInv, [Next]_vars, pc \in Forward, pc \in OnEntry => cur # 1, 1 \notin hurt',
           NEW k \in At(box', 1, "canonical")
    PROVE  k \in At(box, 1, "canonical") /\ box'[k] = box[k]
<1>1. k \in Live(box') /\ box'[k].name = 1 /\ box'[k].role = "canonical"
  BY DEF At
<1>2. k \in Live(box)
  <2> SUFFICES ASSUME k \notin Live(box) PROVE FALSE
    OBVIOUS
  <2>1. Create /\ Adds /\ k = minted + 1
    BY <1>1, Newcomers DEF Squats
  <2>2. box'[k].name = cur /\ pc \in OnEntry
    BY <2>1 DEF Adds, Create, OnEntry
  <2> QED BY <1>1, <2>2
<1>3. box[k].name = 1
  BY <1>1, <1>2, LabelsStay DEF SameLabels
<1>4. box'[k] = box[k]
  <2> SUFFICES ASSUME box'[k] # box[k] PROVE FALSE
    OBVIOUS
  <2>1. ~ClearDebris /\ ~Teardown /\ pc \notin AtEntry
    BY DEF ClearDebris, Teardown, Forward, AtEntry
  <2>2. Acts(k)
    BY <1>2, <1>3, <2>1, WhoIsTouched
  <2> QED BY <1>2, <1>3, <2>1, <2>2, ActsOn
<1> QED BY <1>1, <1>2, <1>3, <1>4 DEF At

(* Where a step within the transaction leads.                              *)
LEMMA ForwardFrom ==
    ASSUME [Next]_vars, pc' \in Forward, ~Loiters
    PROVE  /\ pc \in {"hooks", "gate"} => pc' = "gate"
           /\ pc' = "gate" => pc \in {"hooks", "gate"}
           /\ pc' \in OnEntry => (Records /\ pc = "record") \/ pc \in OnEntry
           /\ pc' = "hooks" => Skip \/ Inspect \/ Start
           /\ pc' = "record" => Inspect
<1>1. pc \in {"hooks", "gate"} => pc' = "gate"
  <2> SUFFICES ASSUME pc \in {"hooks", "gate"} PROVE pc' = "gate"
    OBVIOUS
  <2>1. ~Begin /\ ~Crash /\ ~Undo /\ ~Commit
    BY Leads DEF Takes, Forward, Undo, Begin, UpBegin, DownBegin
  <2>2. ~(Sweep \/ ListDebris \/ ClearDebris \/ DownList \/ Teardown \/ DownErase)
    BY Leads DEF Takes
  <2>3. Hooks \/ Gate
    BY <2>1, <2>2, Leads DEF Takes, Next, Work, Reconcile, Loiters
  <2> QED BY <2>3, Leads DEF Takes, Forward
<1>2. pc' = "gate" => pc \in {"hooks", "gate"}
  BY Leads, Arrives DEF Takes
<1>3. pc' \in OnEntry => (Records /\ pc = "record") \/ pc \in OnEntry
  BY Leads, Arrives DEF Takes, OnEntry, Records
<1> QED BY <1>1, <1>2, <1>3, Arrives

(* One clause of DnsInv after another.                                     *)
LEMMA ResolvedStep ==
    ASSUME IInv, DnsInv, [Next]_vars
    PROVE  /\ job'.ip # 0 => job'.cand \in Linked
           /\ job'.phase = "sweep" => job'.ip = 0
           /\ pc' \in Forward /\ job'.ip # 0 => Resolved'
<1>a. PhaseInv
  BY DEF IInv, Core
<1>1. CASE ResolveDNS /\ pc = "inspect" /\ pc' = "inspect" /\ cur = Dev /\ cur' = cur
           /\ job.cand \in Linked /\ job'.cand = job.cand /\ job'.phase = job.phase
  BY <1>1, <1>a DEF PhaseInv, Forward, Resolved
<1>2. CASE job'.ip = 0 /\ pc' \notin Forward
  BY <1>2
<1>3. CASE /\ job'.ip = job.ip /\ job'.cand = job.cand
           /\ job'.phase = "sweep" => job.phase = "sweep"
  <2>1. /\ job'.ip # 0 => job'.cand \in Linked
        /\ job'.phase = "sweep" => job'.ip = 0
    BY <1>3 DEF DnsInv
  <2> SUFFICES ASSUME pc' \in Forward, job'.ip # 0 PROVE Resolved'
    BY <2>1
  <2>2. CASE Loiters
    <3>1. UNCHANGED memory
      BY <2>2, LoitersIs
    <3> QED BY <3>1 DEF memory, DnsInv, Resolved
  <2>3. CASE pc \in Forward /\ ~Loiters
    <3>1. Resolved
      BY <1>3, <2>3 DEF DnsInv
    <3>2. pc \in {"hooks", "gate"} => pc' = "gate"
      BY <2>3, ForwardFrom
    <3>3. (Gone /\ cur = Dev => pc' = "hooks")
      BY DEF Gone
    <3>4. \/ Gone \/ pc = "prepare"
          \/ pc' \notin {"hooks", "gate"} => cur' = cur
      BY <2>3, ForwardKinds
    <3> QED BY <1>3, <2>3, <3>1, <3>2, <3>3, <3>4 DEF Resolved, Forward
  <2>4. CASE pc \notin Forward /\ ~Loiters
    <3>1. Prepare
      BY <2>4, ForwardKinds DEF Skip, Inspect, Start, Forward
    <3>2. pc = "prepare" /\ pc' # "idle"
      BY <3>1, PrepareIs DEF Forward
    <3>3. job.phase = "sweep"
      BY <1>a, <3>1, <3>2, AnewIs, PrepareIs DEF Anew, Rest
    <3> QED BY <1>3, <3>3 DEF DnsInv
  <2> QED BY <2>2, <2>3, <2>4
<1> QED BY <1>1, <1>2, <1>3, JobKinds

(* The dev container is not looked at before its sidecar's address is      *)
(* known.                                                                  *)
LEMMA WaitStep ==
    ASSUME IInv, DnsInv, [Next]_vars, pc' \in {"record", "hooks", "gate"} \cup OnEntry,
           Resolved'
    PROVE  job'.ip # 0
<1>a. pc' \in Forward /\ pc' # "inspect"
  BY DEF Forward, OnEntry
<1>b. job'.ip = job.ip /\ job'.cand = job.cand
  BY <1>a, JobKinds
<1>1. CASE Loiters
  <2>1. UNCHANGED memory
    BY <1>1, LoitersIs
  <2> QED BY <2>1 DEF memory, DnsInv, Resolved
<1>2. CASE Inspect
  <2>1. ~NeedsAddress
    BY <1>2 DEF Inspect
  <2>2. cur = Dev
    <3>1. Gone \/ cur' = cur
      BY <1>2, InspectIs DEF Gone, Advance, RollBack, Goto
    <3>2. cur' # cur => pc' = "hooks"
      BY <1>a, <3>1 DEF Gone
    <3>3. pc' = "hooks" => cur = Dev
      BY <1>2, InspectIs DEF Advance, RollBack, Goto
    <3> QED BY <1>2, <3>1, <3>2, <3>3, Leads DEF Takes, Resolved
  <2> QED BY <1>b, <2>1, <2>2 DEF NeedsAddress, Resolved
<1>3. CASE Skip
  <2>1. cur \notin Desired[job.cand] /\ pc = "inspect" /\ cur = Dev
    BY <1>3, <1>a DEF Skip, Advance
  <2>2. job.cand \in Cands
    BY <2>1 DEF IInv, Core, PhaseInv, Forward
  <2> QED BY <2>1, <2>2, PlanAssumption
<1>4. CASE Start
  <2>1. pc = "start" /\ (Advance \/ pc' = "rollback")
    BY <1>4, StartOldIs DEF IInv, Core
  <2>2. cur = Dev
    BY <1>a, <2>1 DEF Advance, Forward, OnEntry
  <2>3. Resolved
    BY <1>b, <2>2 DEF Resolved
  <2> QED BY <1>b, <2>1, <2>3 DEF DnsInv, OnEntry
<1>5. CASE pc' \in OnEntry /\ ~Loiters
  <2>1. pc = "record" \/ pc \in OnEntry
    BY <1>5, <1>a, ForwardFrom
  <2>2. cur' = cur
    BY <1>5, <1>a, <2>1, ForwardKinds DEF Gone, OnEntry
  <2>3. Resolved
    BY <1>5, <1>b, <2>2 DEF Resolved, OnEntry
  <2> QED BY <1>b, <2>1, <2>3 DEF DnsInv
<1>6. CASE pc' = "gate" /\ ~Loiters
  <2>1. pc \in {"hooks", "gate"}
    BY <1>6, <1>a, ForwardFrom
  <2>2. Resolved
    BY <1>b, <2>1 DEF Resolved
  <2> QED BY <1>b, <2>1, <2>2 DEF DnsInv
<1> QED BY <1>a, <1>1, <1>2, <1>3, <1>4, <1>5, <1>6, ForwardFrom

LEMMA AddressStep ==
    ASSUME IInv, DnsInv, [Next]_vars, pc' \in Forward, job'.ip # 0, 1 \notin hurt',
           NEW k \in At(box', 1, "canonical")
    PROVE  box'[k].addr = job'.ip
<1>1. CASE /\ ResolveDNS /\ box' = box
           /\ \E i \in At(box, 1, "canonical") : job'.ip = box[i].addr
  <2>1. PICK i \in At(box, 1, "canonical") : job'.ip = box[i].addr
    BY <1>1
  <2>2. k \in At(box, 1, "canonical")
    BY <1>1 DEF At, Live
  <2>3. k = i
    BY <2>2 DEF At, IInv, World, Unique
  <2> QED BY <1>1, <2>1, <2>3
<1>2. CASE /\ job'.ip = job.ip /\ job'.cand = job.cand
           /\ job'.phase = "sweep" => job.phase = "sweep"
  <2>1. pc \in Forward
    <3> SUFFICES ASSUME pc \notin Forward PROVE FALSE
      OBVIOUS
    <3>1. ~Loiters
      BY LoitersIs DEF memory
    <3>2. Prepare /\ pc = "prepare" /\ pc' # "idle"
      BY <3>1, ForwardKinds, PrepareIs DEF Skip, Inspect, Start, Forward
    <3>3. job.phase = "sweep"
      BY <3>2, AnewIs, PrepareIs DEF Anew, Rest
    <3> QED BY <1>2, <3>3 DEF DnsInv
  <2>2. Resolved /\ ~Anew
    BY <1>2, <2>1, AnewIs DEF DnsInv, Forward
  <2>3. 1 \notin hurt
    BY <2>2, Remembered
  <2>4. pc \in OnEntry => cur # 1
    BY <2>2, PlanAssumption, BoundsAssumption DEF Resolved, OnEntry, Dev
  <2>5. k \in At(box, 1, "canonical") /\ box'[k] = box[k]
    BY <2>1, <2>4, AddrKept
  <2> QED BY <1>2, <2>1, <2>3, <2>5 DEF DnsInv
<1> QED BY <1>1, <1>2, JobKinds

(* The container made for the dev container's name resolves through it.    *)
LEMMA MadeDnsStep ==
    ASSUME IInv, DnsInv, [Next]_vars, pc' \in OnEntry, cur' = Dev, NEW i \in Ours(box'),
           box'[i].nonce = nonce', box'[i].name = Dev
    PROVE  box'[i].dns = job'.ip
<1>a. pc' \in Forward /\ pc' \notin {"inspect", "hooks", "gate"}
  BY DEF OnEntry, Forward
<1>b. job'.ip = job.ip
  BY <1>a, JobKinds
<1>c. i \in Live(box') /\ i # Stranger
  <2>1. IInv'
    BY IInvStep
  <2> QED BY <2>1 DEF IInv, Core, IdsInv, Ours
<1>1. ASSUME pc \in OnEntry, cur = Dev, nonce' = nonce PROVE box'[i].dns = job'.ip
  <2>1. CASE i \in Live(box)
    <3>1. i \in Ours(box) /\ SameLabels(box'[i], box[i])
      BY <1>c, <2>1, LabelsStay
    <3>2. New(box[i]) /\ box[i].name = Dev
      BY <1>1, <3>1 DEF SameLabels, New
    <3>3. box[i].dns = job.ip
      BY <1>1, <3>1, <3>2 DEF DnsInv
    <3> QED BY <1>b, <3>1, <3>3 DEF SameLabels
  <2>2. CASE i \notin Live(box)
    <3>1. Adds /\ i = minted + 1
      BY <1>c, <2>2, Newcomers
    <3> QED BY <1>1, <1>b, <3>1 DEF Adds
  <2> QED BY <2>1, <2>2
<1>2. CASE Loiters
  <2>1. UNCHANGED memory /\ Still
    BY <1>2, LoitersIs
  <2> QED BY <1>1, <2>1 DEF memory, Still
<1>3. CASE Records /\ pc = "record"
  <2>1. UNCHANGED <<box, nonce, cur>>
    BY <1>3, RecordsIs DEF IInv, Core
  <2>2. Open
    BY <1>3 DEF Open, IInv, Core, PhaseInv, Forward
  <2>3. i \in Ours(box) /\ New(box[i]) /\ box[i].name = cur
    BY <2>1 DEF Ours, Live, New
  <2> QED BY <1>3, <2>2, <2>3, NoneYet
<1>4. CASE pc \in OnEntry /\ ~Loiters
  <2>1. cur' = cur /\ nonce' = nonce
    BY <1>4, <1>a, ForwardKinds DEF Gone, OnEntry
  <2> QED BY <1>1, <1>4, <2>1
<1> QED BY <1>a, <1>2, <1>3, <1>4, ForwardFrom

(* The dev container that has been reconciled resolves through it.         *)
LEMMA GateDnsStep ==
    ASSUME IInv, DnsInv, [Next]_vars, pc' \in {"hooks", "gate"}, Dev \in Desired[job'.cand],
           NEW i \in Ours(box'), box'[i].name = Dev, box'[i].role = "canonical"
    PROVE  box'[i].dns = job'.ip
<1>a. pc' \in Forward
  BY DEF Forward
<1>b. job'.ip = job.ip /\ job'.cand = job.cand
  BY <1>a, JobKinds
<1>1. ASSUME pc \in {"hooks", "gate"}, i \in Ours(box), SameLabels(box'[i], box[i]),
             box'[i].role = box[i].role
      PROVE  box'[i].dns = job'.ip
  BY <1>1, <1>b DEF DnsInv, SameLabels
<1>2. CASE Loiters
  <2>1. UNCHANGED memory /\ i \in Ours(box) /\ SameLabels(box'[i], box[i])
        /\ box'[i].role = box[i].role
    BY <1>2, LoitersIs
  <2> QED BY <1>1, <2>1 DEF memory
<1>3. CASE pc' = "gate" /\ ~Loiters
  <2>1. pc \in {"hooks", "gate"} /\ (Hooks \/ Gate)
    BY <1>3, <1>a, ForwardFrom, Arrives
  <2>2. box' = box
    BY <2>1 DEF Hooks, Gate, docker
  <2> QED BY <1>1, <2>1, <2>2 DEF SameLabels, Ours, Live
<1>4. CASE Skip
  BY <1>4, <1>b, Leads DEF Takes, Skip, Advance
<1>5. CASE Inspect /\ pc' = "hooks"
  <2>1. /\ box' = box /\ cur = Dev
        /\ \E k : Upright(k) /\ Same(box[k])
    BY <1>5, InspectIs DEF RollBack, Goto, Advance, docker
  <2>2. PICK k : Upright(k) /\ Same(box[k])
    BY <2>1
  <2>3. k = i
    BY <2>1, <2>2 DEF Upright, At, Ours, Live, IInv, World, Unique
  <2> QED BY <1>b, <2>1, <2>2, <2>3 DEF Same
<1>6. CASE Start /\ pc' = "hooks"
  <2>1. /\ pc = "start" /\ Begun \in Live(box) /\ Begun \in Live(box')
        /\ box'[Begun].role = box[Begun].role
    BY <1>6, StartedIs
  <2>2. cur = Dev /\ pc \in OnEntry
    BY <1>6, <2>1, StartOldIs DEF Advance, OnEntry, IInv, Core
  <2>3. Begun \in Ours(box) /\ box[Begun].name = Dev /\ box[Begun].role = "canonical"
    BY <2>1, <2>2, BegunFacts
  <2>4. i = Begun
    <3>1. IInv'
      BY IInvStep
    <3>2. Begun \in Live(box') /\ box'[Begun].name = Dev /\ box'[Begun].role = "canonical"
      BY <2>1, <2>3, LabelsStay DEF SameLabels
    <3>3. i \in Live(box')
      BY DEF Ours
    <3> QED BY <3>1, <3>2, <3>3 DEF IInv, World, Unique
  <2>5. box'[i].dns = box[i].dns
    BY <2>1, <2>4, LabelsStay DEF SameLabels
  <2>6. CASE Last.kind = "start"
    <3>1. i = Last.id /\ i \in Live(view) /\ Same(view[i])
      BY <2>1, <2>2, <2>4, <2>6, BegunFacts DEF IInv, Onward, AtHandInv
    <3>2. SameLabels(box[i], view[i])
      BY <2>1, <2>2, <2>4, <3>1 DEF IInv, Onward, SeenInv
    <3> QED BY <1>b, <2>2, <2>5, <3>1, <3>2 DEF SameLabels, Same
  <2>7. CASE Last.kind # "start"
    <3>1. New(box[i])
      BY <2>1, <2>4, <2>7, BegunFacts
    <3> QED BY <1>b, <2>2, <2>3, <2>4, <2>5, <3>1 DEF DnsInv
  <2> QED BY <2>6, <2>7
<1> QED BY <1>a, <1>2, <1>3, <1>4, <1>5, <1>6, ForwardFrom

LEMMA DnsStep ==
    ASSUME IInv, DnsInv, [Next]_vars PROVE DnsInv'
<1>1. /\ job'.ip # 0 => job'.cand \in Linked
      /\ job'.phase = "sweep" => job'.ip = 0
      /\ pc' \in Forward /\ job'.ip # 0 => Resolved'
  BY ResolvedStep
<1>2. pc' \in {"record", "hooks", "gate"} \cup OnEntry /\ Resolved' => job'.ip # 0
  BY WaitStep
<1>3. pc' \in Forward /\ job'.ip # 0 /\ 1 \notin hurt' =>
          \A k \in At(box', 1, "canonical") : box'[k].addr = job'.ip
  BY AddressStep
<1>4. pc' \in {"hooks", "gate"} => \A i \in Ours(box') :
          box'[i].name = Dev /\ box'[i].role = "canonical" /\ Dev \in Desired[job'.cand] =>
             box'[i].dns = job'.ip
  BY GateDnsStep
<1>5. pc' \in OnEntry /\ cur' = Dev => \A i \in Ours(box') :
          box'[i].nonce = nonce' /\ box'[i].name = Dev => box'[i].dns = job'.ip
  BY MadeDnsStep
<1>6. At(box', 1, "canonical") = At(box, 1, "canonical")' /\ Ours(box') = Ours(box)'
  BY DEF At, Ours, Live
<1> QED BY <1>1, <1>2, <1>3, <1>4, <1>5, <1>6 DEF DnsInv, New

LEMMA InitPromised == Init => Promised
BY DEF Init, Promised, HeldInv, DnsInv, Past, NoJob, Forward, OnEntry

LEMMA PromisedStep ==
    ASSUME IInv, Promised, [Next]_vars PROVE Promised'
BY HeldStep, DnsStep DEF Promised

-----------------------------------------------------------------------------
(* What Up promises about names that nobody interferes with.               *)

(* IInv, and with it everything said of the names that were left alone, of *)
(* what the candidate holds and of the address it resolves through.        *)
THEOREM PromisesHold == Spec => [](IInv /\ Untouched /\ Promised)
<1>1. IInv /\ Untouched /\ Promised /\ [Next]_vars => (Untouched /\ Promised)'
  BY UntouchedStep, PromisedStep
<1> QED BY <1>1, InitIInv, IInvStep, InitUntouched, InitPromised, PTL DEF Spec

(* No failed call, crash or recovery of Up leaves an entry that its undo   *)
(* would refuse: a refusal is always due to somebody else's container, or  *)
(* to a Down that has torn at the name.                                    *)
THEOREM RefusalHasCauseTheorem == Spec => []RefusalHasCause
<1>1. IInv /\ Untouched => RefusalHasCause
  <2> SUFFICES ASSUME IInv, Untouched, Refused, Spared(Undone.name) PROVE FALSE
    BY DEF RefusalHasCause, Spared
  <2>1. CASE pc = "undo" /\ cur > 0 /\ OldGone(box)
    <3>1. /\ Undone.id \in base[Undone.name].ids /\ Undone.name \in Names /\ Open
          /\ Undone.id \notin Live(box)
      BY <2>1, UndoneFacts DEF OldGone, Open
    <3> QED BY <3>1 DEF Untouched, HereInv
  <2>2. CASE pc \in {"undo-park", "undo-restore"} /\ (StageTaken(view) \/ NameTaken(view))
    <3>1. pc \in AtEntry /\ Undone.kind = "replace"
      BY <2>2 DEF AtEntry, IInv, Core, LastInv
    <3> QED BY <2>2, <3>1 DEF Untouched, ClearInv
  <2> QED BY <2>1, <2>2 DEF Refused
<1> QED BY <1>1, PromisesHold, PTL

(* A name whose journal is about to go is as the transaction found it.     *)
LEMMA BackAsFound ==
    ASSUME IInv, Untouched, pc = "erase", disk # NoJournal, NEW n \in Names, Spared(n)
    PROVE  Topology(box)[n] = base[n]
<1>1. Open /\ nonce > 0 /\ pc \in Undoing /\ ~bad /\ cur = 0
  BY DEF Open, Undoing, IInv, Core, JournalInv, Backward, CleanInv
<1>2. \A k \in Ks(disk) : k > cur
  BY <1>1, EntryTypes DEF IInv, Core, Ks
<1>3. Clean(n)
  <2>1. CASE Listed(n)
    BY <1>1, <1>2, <2>1 DEF Listed, IInv, Backward, CleanInv
  <2>2. CASE ~Listed(n)
    BY <1>1, <2>2, BlankIsClean DEF Listed, InDisk
  <2> QED BY <2>1, <2>2
<1>4. Settled(n)
  <2>1. CASE Listed(n)
    BY <1>1, <1>2, <2>1 DEF Listed, Untouched, SettledInv
  <2>2. CASE ~Listed(n)
    BY <1>1, <2>2 DEF Untouched, RunInv
  <2> QED BY <2>1, <2>2
<1>5. {i \in Ours(box) : box[i].name = n /\ box[i].role = "canonical"}
         = {i \in Ours(box) : i \in base[n].ids}
  BY <1>1, <1>3, CleanIsBase
<1>6. \A i \in Live(box) : i \in Ours(box) \/ i = Stranger
  BY DEF IInv, Core, IdsInv, Ours
<1>7. /\ base[n].ids \subseteq Live(box)
      /\ Stranger \in Live(box) /\ box[Stranger].name = n /\ box[Stranger].role = "canonical" =>
            Stranger \in base[n].ids
      /\ Stranger \in base[n].ids =>
            box[Stranger].name = n /\ box[Stranger].role = "canonical"
      /\ base[n].up => base[n].ids # {}
  BY <1>1 DEF Untouched, HereInv, StrangerInv
<1>8. At(box, n, "canonical") = base[n].ids
  <2>1. ASSUME NEW i \in At(box, n, "canonical") PROVE i \in base[n].ids
    BY <1>5, <1>6, <1>7, <2>1 DEF At
  <2>2. ASSUME NEW i \in base[n].ids PROVE i \in At(box, n, "canonical")
    BY <1>5, <1>6, <1>7, <2>2 DEF At
  <2> QED BY <2>1, <2>2
<1>9. (\E i \in At(box, n, "canonical") : Up(box[i])) <=> base[n].up
  BY <1>4, <1>7, <1>8 DEF Settled
<1>10. base[n] \in [ids : SUBSET Ids, up : BOOLEAN]
  BY DEF IInv, Core, TypeOK, WorldOK
<1>11. base[n] = [ids |-> base[n].ids, up |-> base[n].up] /\ base[n].up \in BOOLEAN
  BY <1>10
<1>12. (\E i \in At(box, n, "canonical") : Up(box[i])) \in BOOLEAN
  OBVIOUS
<1>13. (\E i \in At(box, n, "canonical") : Up(box[i])) = base[n].up
  BY <1>9, <1>11, <1>12
<1> QED BY <1>8, <1>11, <1>13 DEF Topology

(* Rollback and recovery restore what they found: when a journal is given  *)
(* up, each name that no outsider and no unfinished Down interfered with is*)
(* held by the container that held it when the transaction was opened, and *)
(* that container runs if and only if it ran then.                         *)
THEOREM RestoredTheorem == Spec => Restored
<1>1. IInv /\ Untouched /\ [Next]_vars =>
         [pc = "erase" /\ disk # NoJournal /\ disk' = NoJournal =>
            \A n \in Names \ (hurt \cup cut) : Topology(box)[n] = base[n]]_vars
  BY BackAsFound DEF Spared
<1> QED BY <1>1, PromisesHold, PTL DEF Spec, Restored

(* What gets committed is the candidate's plan: no name is skipped, kept   *)
(* from another candidate or, under Force, from another transaction, and   *)
(* the dev container resolves through the address its sidecar has now.     *)
THEOREM CommitMatchesPlanTheorem == Spec => CommitMatchesPlan
<1> DEFINE AsPlanned ==
         /\ \A n \in Desired[job.cand] \ hurt :
               \E i \in At(box, n, "canonical") :
                  /\ box[i].cand = job.cand
                  /\ job.force => box[i].nonce = nonce
         /\ job.cand \in Linked /\ {1, Dev} \cap hurt = {} =>
               \E i \in At(box, Dev, "canonical"), k \in At(box, 1, "canonical") :
                  box[i].dns = box[k].addr
<1>1. IInv /\ Promised /\ pc = "gate" => AsPlanned
  <2> SUFFICES ASSUME IInv, Promised, pc = "gate" PROVE AsPlanned
    OBVIOUS
  <2>1. pc \in Forward /\ job.cand \in Cands
    BY DEF IInv, Core, PhaseInv, Forward
  <2>2. Desired[job.cand] \subseteq Names /\ Dev \in Desired[job.cand]
    BY <2>1, PlanAssumption
  <2>3. ASSUME NEW n \in Desired[job.cand] \ hurt
        PROVE  \E i \in Ours(box) : /\ i \in At(box, n, "canonical")
                                    /\ box[i].cand = job.cand
                                    /\ job.force => box[i].nonce = nonce
    <3>1. Past(n) /\ n \in Names
      BY <2>1, <2>2 DEF Past
    <3>2. PICK i \in Ours(box) : box[i].name = n /\ box[i].role = "canonical"
      BY <2>3, <3>1 DEF Promised, HeldInv, Held1
    <3>3. box[i].cand = job.cand /\ (job.force => New(box[i]))
      BY <2>3, <3>1, <3>2 DEF IInv, Onward, PastInv
    <3> QED BY <3>2, <3>3 DEF At, Ours, New
  <2>4. ASSUME job.cand \in Linked, 1 \notin hurt, Dev \notin hurt
        PROVE  \E i \in At(box, Dev, "canonical"), k \in At(box, 1, "canonical") :
                  box[i].dns = box[k].addr
    <3>1. 1 \in Desired[job.cand]
      BY <2>4, PlanAssumption
    <3>2. job.ip # 0
      BY <2>4 DEF Promised, DnsInv, Resolved
    <3>3. PICK i \in Ours(box) : i \in At(box, Dev, "canonical")
      BY <2>2, <2>3, <2>4
    <3>4. PICK k \in Ours(box) : k \in At(box, 1, "canonical")
      BY <2>3, <2>4, <3>1
    <3>5. box[k].addr = job.ip
      BY <2>1, <2>4, <3>2, <3>4 DEF Promised, DnsInv
    <3>6. box[i].dns = job.ip
      BY <2>2, <3>3 DEF Promised, DnsInv, At
    <3> QED BY <3>3, <3>4, <3>5, <3>6
  <2> QED BY <2>3, <2>4
<1> HIDE DEF AsPlanned
<1>2. IInv /\ Promised /\ [Next]_vars => [pc = "gate" /\ pc' = "debris" => AsPlanned]_vars
  BY <1>1
<1>3. Spec => [][pc = "gate" /\ pc' = "debris" => AsPlanned]_vars
  BY <1>2, PromisesHold, PTL DEF Spec
<1> QED BY <1>3 DEF AsPlanned, CommitMatchesPlan
=============================================================================
