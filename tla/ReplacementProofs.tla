------------------------- MODULE ReplacementProofs -------------------------
(***************************************************************************)
(* Theorems about Replacement, for every plan, every number of containers, *)
(* transactions, faults and interferences.                                 *)
(***************************************************************************)
EXTENDS ReplacementInv, TLAPS

-----------------------------------------------------------------------------
(* Types of constants and of the daemon's effects.                         *)

LEMMA ConstantTypes ==
    /\ Ids \subseteq Nat /\ Stranger \in Ids /\ Dev \in Names
    /\ NoContainer \in Container /\ NoJob \in Job /\ NoJournal \in Journal
    /\ Nothing \in [Ids -> Container]
  <1>1. Ids \subseteq Nat /\ Stranger \in Ids /\ Dev \in Names
    BY BoundsAssumption DEF Ids, Stranger, Dev, Names
  <1>2. NoContainer \in Container
    BY <1>1, BoundsAssumption DEF NoContainer, Container, Roles, States
  <1>3. NoJob \in Job /\ NoJournal \in Journal
    BY BoundsAssumption DEF NoJob, Job, NoJournal, Journal, Phases
  <1>4. Nothing \in [Ids -> Container]
    BY <1>2 DEF Nothing
  <1> QED BY <1>1, <1>2, <1>3, <1>4

LEMMA AddressType ==
    ASSUME NEW n PROVE Address(n) \subseteq Addrs \cup {0}
  BY DEF Address

LEMMA ContainerTypes ==
    ASSUME NEW c \in Container
    PROVE  /\ Halt(c) \in Container
           /\ \A a \in Addrs \cup {0} : Run(c, a) \in Container
           /\ \A r \in Roles : [c EXCEPT !.role = r] \in Container
  BY DEF Container, Halt, Run, States, Roles

LEMMA EffectTypes ==
    ASSUME TypeOK
    PROVE  /\ \A i : Stopped(i) \in [Ids -> Container]
           /\ \A i : Removed(i) \in [Ids -> Container]
           /\ \A i : Started(i) \subseteq [Ids -> Container]
           /\ \A i : \A r \in Roles : Renamed(i, r) \in [Ids -> Container]
           /\ \A S : Restrict(box, S) \in [Ids -> Container]
  <1> USE DEF TypeOK, WorldOK
  <1>1. \A i : Stopped(i) \in [Ids -> Container]
    BY ContainerTypes DEF Stopped
  <1>2. \A i : Removed(i) \in [Ids -> Container]
    BY ConstantTypes DEF Removed
  <1>3. \A i : Started(i) \subseteq [Ids -> Container]
    BY AddressType, ContainerTypes DEF Started
  <1>4. \A i : \A r \in Roles : Renamed(i, r) \in [Ids -> Container]
    BY ContainerTypes DEF Renamed
  <1>5. \A S : Restrict(box, S) \in [Ids -> Container]
    BY ConstantTypes DEF Restrict
  <1> QED BY <1>1, <1>2, <1>3, <1>4, <1>5

(* Journals.                                                               *)
LEMMA AppendedType ==
    ASSUME NEW j \in Journal, NEW e \in Entry
    PROVE  /\ Appended(j, e) \in Journal
           /\ Appended(j, e).nonce = j.nonce /\ Appended(j, e).cand = j.cand
           /\ Len(Appended(j, e).entries) = Len(j.entries) + 1
           /\ \A k \in 1 .. Len(j.entries) : Appended(j, e).entries[k] = j.entries[k]
           /\ Appended(j, e).entries[Len(j.entries) + 1] = e
  <1>1. Append(j.entries, e) \in Seq(Entry)
    BY DEF Journal
  <1>2. \A s : [j EXCEPT !.entries = s] = [nonce |-> j.nonce, cand |-> j.cand,
                                         entries |-> s]
    BY DEF Journal
  <1>3. Appended(j, e) = [nonce |-> j.nonce, cand |-> j.cand,
                          entries |-> Append(j.entries, e)]
    BY <1>2, Zenon DEF Appended
  <1> QED BY <1>1, <1>3 DEF Journal

LEMMA FilledType ==
    ASSUME NEW j \in Journal, NEW i \in Ids \cup {0}, Len(j.entries) > 0
    PROVE  /\ Filled(j, i) \in Journal
           /\ Filled(j, i).nonce = j.nonce /\ Filled(j, i).cand = j.cand
           /\ Len(Filled(j, i).entries) = Len(j.entries)
           /\ \A k \in 1 .. Len(j.entries) :
                 /\ k # Len(j.entries) => Filled(j, i).entries[k] = j.entries[k]
                 /\ Filled(j, i).entries[k].kind = j.entries[k].kind
                 /\ Filled(j, i).entries[k].name = j.entries[k].name
                 /\ Filled(j, i).entries[k].id = j.entries[k].id
           /\ Filled(j, i).entries[Len(j.entries)].new = i
  <1> DEFINE n == Len(j.entries)
             e == [j.entries[n] EXCEPT !.new = i]
             s == [j.entries EXCEPT ![n] = e]
  <1>1. n \in 1 .. Len(j.entries) /\ j.entries \in Seq(Entry) /\ j.entries[n] \in Entry
    BY DEF Journal
  <1>2. /\ e \in Entry /\ e.new = i /\ e.kind = j.entries[n].kind
        /\ e.name = j.entries[n].name /\ e.id = j.entries[n].id
    BY <1>1 DEF Entry
  <1>3. /\ s \in Seq(Entry) /\ Len(s) = n /\ s[n] = e
        /\ \A k \in 1 .. n : k # n => s[k] = j.entries[k]
    <2> HIDE DEF e
    <2> QED BY <1>1, <1>2
  <1>4. Filled(j, i) = [nonce |-> j.nonce, cand |-> j.cand, entries |-> s]
    BY DEF Filled, Journal
  <1> HIDE DEF s, e
  <1> QED BY <1>1, <1>2, <1>3, <1>4 DEF Journal

LEMMA RecordWorld ==
    ASSUME TypeOK, NEW e \in Entry, NEW l, Record(e, l),
           UNCHANGED <<docker, nonce, meddling, history>>
    PROVE  WorldOK'
  BY AppendedType, BoundsAssumption
  DEF Record, Fault, docker, history, TypeOK, WorldOK, MemoryOK

LEMMA CreatedType ==
    ASSUME TypeOK, cur \in Names
    PROVE  Created(Staging) \in [Ids -> Container]
  <1> DEFINE c == [name |-> cur, role |-> Staging, state |-> "stopped",
                   cand |-> job.cand, nonce |-> tx.nonce,
                   dns |-> IF cur = Dev THEN job.ip ELSE 0, addr |-> 0]
  <1>1. c \in Container
    BY DEF Staging, TypeOK, MemoryOK, Container, Roles, States, Job, Journal
  <1>2. Created(Staging) = [box EXCEPT ![minted + 1] = c]
    BY DEF Created
  <1> HIDE DEF c
  <1> QED BY <1>1, <1>2 DEF TypeOK, WorldOK

(* What the shapes of the steps do to the process memory.                  *)
LEMMA RestType == ASSUME Rest PROVE MemoryOK'
  <1>1. pc' \in Labels /\ written' \in BOOLEAN /\ bad' \in BOOLEAN
    BY DEF Rest, Labels
  <1>2. job' \in Job /\ tx' \in Journal /\ view' \in [Ids -> Container]
    BY ConstantTypes DEF Rest
  <1>3. cur' \in 0 .. Size + 1
    BY BoundsAssumption DEF Rest
  <1> QED BY <1>1, <1>2, <1>3 DEF MemoryOK

LEMMA GotoType ==
    ASSUME MemoryOK, NEW l \in Labels, Goto(l) PROVE MemoryOK'
  BY DEF Goto, MemoryOK

LEMMA RollBackType == ASSUME MemoryOK, RollBack PROVE MemoryOK'
  BY GotoType DEF RollBack, Labels

LEMMA AdvanceType == ASSUME MemoryOK, cur \in Names, Advance PROVE MemoryOK'
  BY ConstantTypes, BoundsAssumption DEF Advance, MemoryOK, Names, Labels, Forward

LEMMA NextEntryType ==
    ASSUME MemoryOK, cur > 0, NEW f \in BOOLEAN, NextEntry(f) PROVE MemoryOK'
  BY ConstantTypes, BoundsAssumption DEF NextEntry, MemoryOK, Labels, Undoing

LEMMA BeginUndoType ==
    ASSUME MemoryOK, NEW j \in Journal, Len(j.entries) <= Size, BeginUndo(j)
    PROVE  MemoryOK'
  <1>1. Len(j.entries) \in 0 .. Size + 1
    BY BoundsAssumption DEF Journal
  <1> QED BY <1>1, ConstantTypes DEF BeginUndo, MemoryOK, Labels, Undoing

(* One step of the type invariant: the daemon, the disk, the budgets.      *)
LEMMA WorldStep ==
    ASSUME TypeOK, CursorInv, PhaseInv, [Next]_vars
    PROVE  WorldOK'
  <1> USE DEF TypeOK, WorldOK
  <1>1. CASE UNCHANGED vars
    BY <1>1 DEF vars, docker, history
  <1>2. CASE \E c \in Cands, force \in BOOLEAN : UpBegin(c, force)
    BY <1>2, BoundsAssumption DEF UpBegin, docker, history, Fault
  <1>3. CASE Sweep
    BY <1>3, BoundsAssumption DEF Sweep, docker, history, Fault
  <1>4. CASE ListDebris
    BY <1>4, BoundsAssumption DEF ListDebris, docker, history, Fault
  <1>5. CASE ClearDebris
    BY <1>5, EffectTypes, BoundsAssumption DEF ClearDebris, Call, Fault, history, Dispose
  <1>6. CASE Prepare
    <2>1. Topology(box) \in [Names -> [ids : SUBSET Ids, up : BOOLEAN]]
      BY DEF Topology, At, Live
    <2> QED BY <1>6, <2>1, BoundsAssumption DEF Prepare, docker, history
  <1>7. CASE Skip
    BY <1>7, BoundsAssumption DEF Skip, docker, history, Fault
  <1>8. CASE ResolveDNS
    BY <1>8, BoundsAssumption DEF ResolveDNS, docker, history, Fault
  <1>9. CASE Inspect
    <2>1. UNCHANGED <<docker, disk, nonce, meddling, history>>
      BY <1>9 DEF Inspect
    <2>2. faults' = faults \/ (faults > 0 /\ faults' = faults - 1)
      BY <1>9, Zenon DEF Inspect, Fault
    <2> QED BY <2>1, <2>2, BoundsAssumption DEF docker, history
  <1>10. CASE RecordCreate
    <2> DEFINE e == [kind |-> "create", name |-> cur, id |-> 0, was |-> FALSE, new |-> 0]
    <2>1. e \in Entry
      BY <1>10 DEF RecordCreate, CursorInv, Entry
    <2>2. RecordCreate => Record(e, "create") /\ UNCHANGED <<docker, nonce, meddling, history>>
      BY DEF RecordCreate
    <2> HIDE DEF e
    <2> QED BY <1>10, <2>1, <2>2, RecordWorld
  <1>11. CASE RecordStart
    <2>1. PICK i \in Live(view) :
             Record([kind |-> "start", name |-> cur, id |-> i, was |-> FALSE,
                     new |-> 0], "start")
      BY <1>11 DEF RecordStart
    <2> DEFINE e == [kind |-> "start", name |-> cur, id |-> i, was |-> FALSE, new |-> 0]
    <2>2. e \in Entry
      BY <1>11 DEF RecordStart, CursorInv, Entry, Live
    <2>3. UNCHANGED <<docker, nonce, meddling, history>>
      BY <1>11 DEF RecordStart
    <2> HIDE DEF e
    <2> QED BY <2>1, <2>2, <2>3, RecordWorld DEF e
  <1>12. CASE RecordReplace
    <2>1. PICK i \in Live(view) :
             Record([kind |-> "replace", name |-> cur, id |-> i, was |-> Up(view[i]),
                     new |-> 0], "create")
      BY <1>12 DEF RecordReplace
    <2> DEFINE e == [kind |-> "replace", name |-> cur, id |-> i, was |-> Up(view[i]), new |-> 0]
    <2>2. e \in Entry
      BY <1>12 DEF RecordReplace, CursorInv, Entry, Live, Up
    <2>3. UNCHANGED <<docker, nonce, meddling, history>>
      BY <1>12 DEF RecordReplace
    <2> HIDE DEF e
    <2> QED BY <2>1, <2>2, <2>3, RecordWorld DEF e
  <1>13. CASE Create
    <2>1. Created(Staging) \in [Ids -> Container]
      BY <1>13, CreatedType DEF Create, CursorInv, OnEntry, PhaseInv, Forward
    <2> QED BY <1>13, <2>1, BoundsAssumption DEF Create, Call, Fault, history
  <1>14. CASE Backfill
    BY <1>14, FilledType, BoundsAssumption DEF Backfill, Fault, docker, history, CursorInv, OnEntry, Ids, Stranger, MemoryOK
  <1>15. CASE StopOld
    BY <1>15, EffectTypes, BoundsAssumption DEF StopOld, Call, Fault, history
  <1>16. CASE RetireOld
    BY <1>16, EffectTypes, BoundsAssumption DEF RetireOld, Call, Fault, history, Roles
  <1>17. CASE SwapIn
    BY <1>17, EffectTypes, BoundsAssumption DEF SwapIn, Call, Fault, history, Roles
  <1>18. CASE Start
    BY <1>18, EffectTypes, BoundsAssumption DEF Start, Call, Fault, history
  <1>19. CASE Hooks
    BY <1>19, BoundsAssumption DEF Hooks, docker, history, Fault
  <1>20. CASE Gate
    BY <1>20, BoundsAssumption DEF Gate, docker, history, Fault
  <1>21. CASE Commit
    BY <1>21, ConstantTypes, BoundsAssumption DEF Commit, docker, history, Fault
  <1>22. CASE Rollback
    BY <1>22, BoundsAssumption DEF Rollback, docker, history, Fault
  <1>23. CASE UndoList
    BY <1>23, BoundsAssumption DEF UndoList, docker, history, Fault
  <1>24. CASE UndoStop
    BY <1>24, EffectTypes, BoundsAssumption DEF UndoStop, Call, Fault, history
  <1>25. CASE UndoPark
    BY <1>25, EffectTypes, BoundsAssumption DEF UndoPark, Call, Fault, history, Roles
  <1>26. CASE UndoRestore
    BY <1>26, EffectTypes, BoundsAssumption DEF UndoRestore, Call, Fault, history, Roles
  <1>27. CASE UndoRevive
    BY <1>27, EffectTypes, BoundsAssumption DEF UndoRevive, Call, Fault, history
  <1>28. CASE UndoConfirm
    BY <1>28, BoundsAssumption DEF UndoConfirm, docker, history, Fault
  <1>29. CASE UndoDrop
    BY <1>29, EffectTypes, BoundsAssumption DEF UndoDrop, Call, Fault, history
  <1>30. CASE UndoEnd
    BY <1>30, BoundsAssumption DEF UndoEnd, docker, history, Fault
  <1>31. CASE Erase
    BY <1>31, ConstantTypes, BoundsAssumption DEF Erase, docker, history, Fault
  <1>32. CASE DownBegin
    BY <1>32, BoundsAssumption DEF DownBegin, docker, history, Fault
  <1>33. CASE DownList
    BY <1>33, BoundsAssumption DEF DownList, docker, history, Fault
  <1>34. CASE Teardown
    <2>1. box' \in [Ids -> Container] /\ faults' \in 0 .. MaxFaults
      BY <1>34, EffectTypes, BoundsAssumption DEF Teardown, Dispose, Call, Fault
    <2>2. \A i \in Ids : box[i].name \in Names
      BY DEF Container
    <2>3. cut' \subseteq Names
      BY <1>34, <2>2 DEF Teardown, Live
    <2> QED BY <1>34, <2>1, <2>3 DEF Teardown
  <1>35. CASE DownErase
    BY <1>35, ConstantTypes, BoundsAssumption DEF DownErase, docker, history, Fault
  <1>36. CASE Crash
    BY <1>36, BoundsAssumption DEF Crash, docker, history, Fault
  <1>37. CASE \E i \in Ids : Exit(i)
    <2>1. \A i \in Ids : box[i].name \in Names
      BY DEF Container
    <2> QED BY <1>37, <2>1, EffectTypes, BoundsAssumption DEF Exit, Meddle, Live
  <1>38. CASE \E i \in Ids : Vanish(i)
    <2>1. \A i \in Ids : box[i].name \in Names
      BY DEF Container
    <2> QED BY <1>38, <2>1, EffectTypes, BoundsAssumption DEF Vanish, Meddle, Live
  <1>39. CASE \E n \in Names, r \in Roles : Squat(n, r)
    <2>1. \A n \in Names, r \in Roles :
             [name |-> n, role |-> r, state |-> "running", cand |-> Foreign,
              nonce |-> 0, dns |-> 0, addr |-> 0] \in Container
      BY BoundsAssumption DEF Container, States
    <2>2. PICK n \in Names, r \in Roles : Squat(n, r)
      BY <1>39
    <2>3. box' \in [Ids -> Container]
      BY <2>1, <2>2 DEF Squat
    <2>4. Meddle(n)
      BY <2>2 DEF Squat
    <2> QED BY <2>3, <2>4, BoundsAssumption DEF Meddle
  <1> QED
    BY <1>1, <1>2, <1>3, <1>4, <1>5, <1>6, <1>7, <1>8, <1>9, <1>10, <1>11, <1>12, <1>13, <1>14, <1>15, <1>16, <1>17, <1>18, <1>19, <1>20, <1>21, <1>22, <1>23, <1>24, <1>25, <1>26, <1>27, <1>28, <1>29, <1>30, <1>31, <1>32, <1>33, <1>34, <1>35, <1>36, <1>37, <1>38, <1>39
    DEF Next, Begin, Work, Reconcile, Undo, Outside

LEMMA RecordMemory ==
    ASSUME MemoryOK, NEW e \in Entry, NEW l \in Labels, Record(e, l)
    PROVE  MemoryOK'
  <1>1. Appended(tx, e) \in Journal
    BY AppendedType DEF MemoryOK
  <1> QED BY <1>1, RollBackType DEF Record, MemoryOK

LEMMA EntryDoneType ==
    ASSUME MemoryOK, CursorInv, pc \in AtEntry, Refuse \/ Undid PROVE MemoryOK'
  <1>1. cur > 0
    BY DEF CursorInv, MemoryOK
  <1> QED BY <1>1, NextEntryType DEF Refuse, Undid

LEMMA DisposeMemory == ASSUME MemoryOK, Dispose PROVE MemoryOK'
  <1>1. \A i \in Ids : /\ [view EXCEPT ![i] = Halt(@)] \in [Ids -> Container]
                      /\ [view EXCEPT ![i] = NoContainer] \in [Ids -> Container]
    BY ContainerTypes, ConstantTypes DEF MemoryOK
  <1> QED BY <1>1, RestType DEF Dispose, Call, Newest, Live, MemoryOK

(* ... and the memory of the running operation.                            *)
LEMMA MemoryStep ==
    ASSUME TypeOK, CursorInv, PhaseInv, [Next]_vars
    PROVE  MemoryOK'
  <1> USE DEF TypeOK
  <1>1. CASE UNCHANGED vars
    BY <1>1 DEF vars, memory, MemoryOK
  <1>2. CASE \E c \in Cands, force \in BOOLEAN : UpBegin(c, force)
    BY <1>2, BoundsAssumption DEF UpBegin, MemoryOK, Job, Phases, Labels, Forward, Undoing
  <1>3. CASE Sweep
    BY <1>3, RestType, GotoType, BeginUndoType DEF Sweep, Labels, Forward, Undoing, WorldOK, CursorInv
  <1>4. CASE ListDebris
    BY <1>4, RestType, EffectTypes DEF ListDebris, Labels, Forward, Undoing, MemoryOK
  <1>5. CASE ClearDebris
    <2>1. CASE Dispose
      BY <1>5, <2>1, DisposeMemory
    <2>2. CASE Live(view) = {} /\ IF job.phase = "sweep" THEN Goto("prepare") ELSE Rest
      BY <2>2, RestType, GotoType DEF Labels
    <2> QED BY <1>5, <2>1, <2>2 DEF ClearDebris
  <1>6. CASE Prepare
    <2>1. CASE Rest
      BY <2>1, RestType
    <2>2. CASE ~Rest
      <3>1. /\ tx' = [nonce |-> nonce + 1, cand |-> job.cand, entries |-> <<>>]
            /\ nonce < MaxTxns /\ written' = FALSE /\ pc' = "inspect" /\ cur' = 1
            /\ job' = [job EXCEPT !.phase = "txn"] /\ UNCHANGED <<view, bad>>
        BY <1>6, <2>2 DEF Prepare
      <3>2. tx' \in Journal
        BY <3>1, BoundsAssumption DEF Journal, WorldOK, MemoryOK, Job
      <3>3. job' \in Job
        BY <3>1 DEF Job, MemoryOK, Phases
      <3>4. pc' \in Labels /\ cur' \in 0 .. Size + 1
        BY <3>1, BoundsAssumption DEF Labels, Forward
      <3> QED BY <3>1, <3>2, <3>3, <3>4 DEF MemoryOK
    <2> QED BY <2>1, <2>2
  <1>7. CASE Skip
    BY <1>7, AdvanceType DEF Skip, MemoryOK, PhaseInv, CursorInv, Forward
  <1>8. CASE ResolveDNS
    <2>1. CASE \E i \in At(box, 1, "canonical") :
             /\ job' = [job EXCEPT !.ip = box[i].addr]
             /\ UNCHANGED <<pc, cur, tx, written, view, bad>>
      <3>1. PICK i \in Ids : job' = [job EXCEPT !.ip = box[i].addr]
        BY <2>1 DEF At, Live
      <3>2. box[i].addr \in Addrs \cup {0}
        BY DEF WorldOK, Container
      <3> QED BY <2>1, <3>1, <3>2 DEF MemoryOK, Job
    <2>2. CASE RollBack
      BY <2>2, RollBackType
    <2> QED BY <1>8, <2>1, <2>2 DEF ResolveDNS
  <1>9. CASE Inspect
    <2>1. cur \in Names
      BY <1>9 DEF Inspect, CursorInv
    <2>2. CASE \E S : pc' = "record" /\ view' = Restrict(box, S)
                     /\ UNCHANGED <<job, cur, tx, written, bad>>
      BY <2>2, EffectTypes DEF MemoryOK, Labels, Forward
    <2>3. CASE Goto("record")
      BY <2>3, GotoType DEF Labels, Forward
    <2> QED BY <1>9, <2>1, <2>2, <2>3, RollBackType, AdvanceType DEF Inspect
  <1>10. CASE RecordCreate
    <2>1. PICK e \in Entry : Record(e, "create")
      BY <1>10 DEF RecordCreate, CursorInv, Entry, Live, Up, MemoryOK
    <2> QED BY <2>1, RecordMemory DEF Labels, Forward
  <1>11. CASE RecordStart
    <2>1. PICK e \in Entry : Record(e, "start")
      BY <1>11 DEF RecordStart, CursorInv, Entry, Live, Up, MemoryOK
    <2> QED BY <2>1, RecordMemory DEF Labels, Forward
  <1>12. CASE RecordReplace
    <2>1. PICK e \in Entry : Record(e, "create")
      BY <1>12 DEF RecordReplace, CursorInv, Entry, Live, Up, MemoryOK
    <2> QED BY <2>1, RecordMemory DEF Labels, Forward
  <1>13. CASE Create
    BY <1>13, GotoType, RollBackType DEF Create, Call, Labels, Forward, Undoing
  <1>14. CASE Backfill
    BY <1>14, FilledType, BoundsAssumption DEF Backfill, Labels, Forward, Undoing, MemoryOK, WorldOK, CursorInv, OnEntry, Ids, Stranger
  <1>15. CASE StopOld
    BY <1>15, GotoType, RollBackType DEF StopOld, Call, Labels, Forward, Undoing
  <1>16. CASE RetireOld
    BY <1>16, GotoType, RollBackType DEF RetireOld, Call, Labels, Forward, Undoing
  <1>17. CASE SwapIn
    BY <1>17, GotoType, RollBackType DEF SwapIn, Call, Labels, Forward, Undoing
  <1>18. CASE Start
    BY <1>18, AdvanceType, RollBackType DEF Start, Call, CursorInv, OnEntry
  <1>19. CASE Hooks
    BY <1>19, RollBackType, BoundsAssumption DEF Hooks, MemoryOK, Labels, Forward, Undoing
  <1>20. CASE Gate
    BY <1>20, RollBackType, BoundsAssumption DEF Gate, MemoryOK, Names
  <1>21. CASE Commit
    BY <1>21, RestType, ConstantTypes DEF Commit, MemoryOK, Job, Phases, Labels, Forward, Undoing
  <1>22. CASE Rollback
    BY <1>22, RestType, BeginUndoType DEF Rollback, MemoryOK, CursorInv
  <1>23. CASE UndoList
    BY <1>23, NextEntryType DEF UndoList, Refuse, MemoryOK, WorldOK, Labels, Forward, Undoing
  <1>24. CASE UndoStop
    BY <1>24, EntryDoneType, GotoType DEF UndoStop, Call, AfterStop, AtEntry, Labels, Forward, Undoing
  <1>25. CASE UndoPark
    BY <1>25, EntryDoneType, GotoType DEF UndoPark, Call, AtEntry, Labels, Forward, Undoing
  <1>26. CASE UndoRestore
    BY <1>26, EntryDoneType, GotoType DEF UndoRestore, Call, AfterRestore, AtEntry, Labels, Forward, Undoing
  <1>27. CASE UndoRevive
    BY <1>27, EntryDoneType, GotoType DEF UndoRevive, Call, AtEntry, Labels, Forward, Undoing
  <1>28. CASE UndoConfirm
    BY <1>28, EntryDoneType, GotoType DEF UndoConfirm, AtEntry, Labels, Forward, Undoing
  <1>29. CASE UndoDrop
    BY <1>29, EntryDoneType DEF UndoDrop, Call, AtEntry
  <1>30. CASE UndoEnd
    BY <1>30, RestType, GotoType DEF UndoEnd, Labels, Forward, Undoing
  <1>31. CASE Erase
    BY <1>31, RestType, ConstantTypes DEF Erase, MemoryOK, Labels, Forward, Undoing
  <1>32. CASE DownBegin
    BY <1>32 DEF DownBegin, MemoryOK, NoJob, Job, Phases, Labels, Forward, Undoing
  <1>33. CASE DownList
    BY <1>33, RestType, EffectTypes DEF DownList, Labels, Forward, Undoing, MemoryOK
  <1>34. CASE Teardown
    BY <1>34, DisposeMemory, GotoType DEF Teardown, Labels
  <1>35. CASE DownErase
    BY <1>35, RestType DEF DownErase
  <1>36. CASE Crash
    BY <1>36, RestType DEF Crash
  <1>37. CASE \E i \in Ids : Exit(i)
    BY <1>37 DEF Exit, Meddle, memory, MemoryOK
  <1>38. CASE \E i \in Ids : Vanish(i)
    BY <1>38 DEF Vanish, Meddle, memory, MemoryOK
  <1>39. CASE \E n \in Names, r \in Roles : Squat(n, r)
    BY <1>39 DEF Squat, Meddle, memory, MemoryOK
  <1> QED
    BY <1>1, <1>2, <1>3, <1>4, <1>5, <1>6, <1>7, <1>8, <1>9, <1>10, <1>11, <1>12, <1>13, <1>14, <1>15, <1>16, <1>17, <1>18, <1>19, <1>20, <1>21, <1>22, <1>23, <1>24, <1>25, <1>26, <1>27, <1>28, <1>29, <1>30, <1>31, <1>32, <1>33, <1>34, <1>35, <1>36, <1>37, <1>38, <1>39
    DEF Next, Begin, Work, Reconcile, Undo, Outside

LEMMA RecordCases ==
    ASSUME NEW e, NEW l, Record(e, l)
    PROVE  /\ cur' = cur
           /\ \/ /\ tx' = Appended(tx, e) /\ disk' = tx' /\ pc' = l
                 /\ written' /\ UNCHANGED <<job, view, bad>>
              \/ /\ UNCHANGED <<tx, job, written, view, bad>> /\ pc' = "rollback"
                 /\ disk' = disk \/ disk' = Appended(tx, e)
  BY DEF Record, RollBack, Goto

(* The cursors stay within the plan and the journal.                       *)
LEMMA CursorStep ==
    ASSUME TypeOK, CursorInv, PhaseInv, [Next]_vars
    PROVE  CursorInv'
  <1>a. /\ Len(disk.entries) \in Nat /\ Len(tx.entries) \in Nat
        /\ cur \in Nat /\ Size \in Nat \ {0} /\ Len(NoJournal.entries) = 0
    BY BoundsAssumption DEF TypeOK, WorldOK, MemoryOK, Journal, NoJournal
  <1>1. CASE UNCHANGED vars
    BY <1>1 DEF vars, memory, CursorInv, OnEntry, AtEntry
  <1>2. CASE \E c \in Cands, force \in BOOLEAN : UpBegin(c, force)
    BY <1>2, <1>a DEF UpBegin, CursorInv, OnEntry, AtEntry
  <1>3. CASE Sweep
    BY <1>3, <1>a DEF Sweep, Goto, BeginUndo, Rest, CursorInv, OnEntry, AtEntry
  <1>4. CASE ListDebris
    BY <1>4, <1>a DEF ListDebris, Rest, CursorInv, OnEntry, AtEntry
  <1>5. CASE ClearDebris
    BY <1>5, <1>a DEF ClearDebris, Dispose, Call, Goto, Rest, CursorInv, OnEntry, AtEntry
  <1>6. CASE Prepare
    BY <1>6, <1>a DEF Prepare, Rest, Names, CursorInv, OnEntry, AtEntry
  <1>7. CASE Skip
    BY <1>7, <1>a DEF Skip, Advance, Names, Dev, CursorInv, OnEntry, AtEntry
  <1>8. CASE ResolveDNS
    BY <1>8, <1>a DEF ResolveDNS, RollBack, Goto, CursorInv, OnEntry, AtEntry
  <1>9. CASE Inspect
    <2>1. /\ UNCHANGED <<disk, tx>> /\ pc = "inspect"
          /\ \/ pc' \in {"record", "rollback"} /\ cur' = cur
             \/ pc' = "inspect" /\ cur' = cur + 1 /\ cur # Dev
             \/ pc' = "hooks"
      BY <1>9 DEF Inspect, RollBack, Goto, Advance
    <2> QED BY <1>a, <2>1 DEF Names, Dev, CursorInv, OnEntry, AtEntry
  <1>10. CASE RecordCreate
    <2>1. PICK e : e \in Entry /\ Record(e, "create")
      BY <1>10 DEF RecordCreate, CursorInv, Entry, Live, Up, TypeOK, MemoryOK
    <2>2. pc = "record"
      BY <1>10 DEF RecordCreate
    <2>3. Len(Appended(tx, e).entries) = Len(tx.entries) + 1
      BY <2>1, AppendedType DEF TypeOK, MemoryOK
    <2> DEFINE j == Appended(tx, e)
    <2>4. /\ disk' = disk \/ disk' = j
          /\ \/ tx' = j /\ disk' = j /\ pc' = "create"
             \/ tx' = tx /\ pc' = "rollback"
          /\ cur' = cur
      BY <2>1, RecordCases
    <2> HIDE DEF j
    <2>5. Len(j.entries) = Len(tx.entries) + 1
      BY <2>3 DEF j
    <2> QED BY <1>a, <2>2, <2>4, <2>5 DEF Names, CursorInv, OnEntry, AtEntry
  <1>11. CASE RecordStart
    <2>1. PICK e : e \in Entry /\ Record(e, "start")
      BY <1>11 DEF RecordStart, CursorInv, Entry, Live, Up, TypeOK, MemoryOK
    <2>2. pc = "record"
      BY <1>11 DEF RecordStart
    <2>3. Len(Appended(tx, e).entries) = Len(tx.entries) + 1
      BY <2>1, AppendedType DEF TypeOK, MemoryOK
    <2> DEFINE j == Appended(tx, e)
    <2>4. /\ disk' = disk \/ disk' = j
          /\ \/ tx' = j /\ disk' = j /\ pc' = "start"
             \/ tx' = tx /\ pc' = "rollback"
          /\ cur' = cur
      BY <2>1, RecordCases
    <2> HIDE DEF j
    <2>5. Len(j.entries) = Len(tx.entries) + 1
      BY <2>3 DEF j
    <2> QED BY <1>a, <2>2, <2>4, <2>5 DEF Names, CursorInv, OnEntry, AtEntry
  <1>12. CASE RecordReplace
    <2>1. PICK e : e \in Entry /\ Record(e, "create")
      BY <1>12 DEF RecordReplace, CursorInv, Entry, Live, Up, TypeOK, MemoryOK
    <2>2. pc = "record"
      BY <1>12 DEF RecordReplace
    <2>3. Len(Appended(tx, e).entries) = Len(tx.entries) + 1
      BY <2>1, AppendedType DEF TypeOK, MemoryOK
    <2> DEFINE j == Appended(tx, e)
    <2>4. /\ disk' = disk \/ disk' = j
          /\ \/ tx' = j /\ disk' = j /\ pc' = "create"
             \/ tx' = tx /\ pc' = "rollback"
          /\ cur' = cur
      BY <2>1, RecordCases
    <2> HIDE DEF j
    <2>5. Len(j.entries) = Len(tx.entries) + 1
      BY <2>3 DEF j
    <2> QED BY <1>a, <2>2, <2>4, <2>5 DEF Names, CursorInv, OnEntry, AtEntry
  <1>13. CASE Create
    BY <1>13, <1>a DEF Create, Call, Goto, RollBack, Advance, Names, Dev, CursorInv, OnEntry, AtEntry
  <1>14. CASE Backfill
    <2> DEFINE j == Filled(tx, minted)
    <2>1. /\ disk' = disk \/ disk' = j
          /\ tx' = j /\ cur' = cur /\ pc = "backfill"
          /\ pc' \in {"start", "stop", "rollback"}
      BY <1>14 DEF Backfill
    <2>2. minted \in Ids \cup {0} /\ tx \in Journal /\ Len(tx.entries) > 0
      BY <2>1, <1>a, BoundsAssumption
      DEF CursorInv, OnEntry, TypeOK, WorldOK, MemoryOK, Ids, Stranger
    <2>3. Len(j.entries) = Len(tx.entries)
      BY <2>2, FilledType
    <2> HIDE DEF j
    <2> QED BY <1>a, <2>1, <2>3 DEF CursorInv, OnEntry, AtEntry
  <1>15. CASE StopOld
    BY <1>15, <1>a DEF StopOld, Call, Goto, RollBack, Advance, Names, Dev, CursorInv, OnEntry, AtEntry
  <1>16. CASE RetireOld
    BY <1>16, <1>a DEF RetireOld, Call, Goto, RollBack, Advance, Names, Dev, CursorInv, OnEntry, AtEntry
  <1>17. CASE SwapIn
    BY <1>17, <1>a DEF SwapIn, Call, Goto, RollBack, Advance, Names, Dev, CursorInv, OnEntry, AtEntry
  <1>18. CASE Start
    BY <1>18, <1>a DEF Start, Call, Goto, RollBack, Advance, Names, Dev, CursorInv, OnEntry, AtEntry
  <1>19. CASE Hooks
    BY <1>19, <1>a DEF Hooks, RollBack, Goto, CursorInv, OnEntry, AtEntry
  <1>20. CASE Gate
    BY <1>20, <1>a DEF Gate, RollBack, Goto, Names, CursorInv, OnEntry, AtEntry
  <1>21. CASE Commit
    BY <1>21, <1>a DEF Commit, Rest, CursorInv, OnEntry, AtEntry
  <1>22. CASE Rollback
    BY <1>22, <1>a DEF Rollback, BeginUndo, Rest, CursorInv, OnEntry, AtEntry
  <1>23. CASE UndoList
    BY <1>23, <1>a DEF UndoList, Call, Goto, AfterStop, AfterRestore, Refuse, Undid, NextEntry, CursorInv, OnEntry, AtEntry
  <1>24. CASE UndoStop
    BY <1>24, <1>a DEF UndoStop, Call, Goto, AfterStop, AfterRestore, Refuse, Undid, NextEntry, CursorInv, OnEntry, AtEntry
  <1>25. CASE UndoPark
    BY <1>25, <1>a DEF UndoPark, Call, Goto, AfterStop, AfterRestore, Refuse, Undid, NextEntry, CursorInv, OnEntry, AtEntry
  <1>26. CASE UndoRestore
    BY <1>26, <1>a DEF UndoRestore, Call, Goto, AfterStop, AfterRestore, Refuse, Undid, NextEntry, CursorInv, OnEntry, AtEntry
  <1>27. CASE UndoRevive
    BY <1>27, <1>a DEF UndoRevive, Call, Goto, AfterStop, AfterRestore, Refuse, Undid, NextEntry, CursorInv, OnEntry, AtEntry
  <1>28. CASE UndoConfirm
    BY <1>28, <1>a DEF UndoConfirm, Call, Goto, AfterStop, AfterRestore, Refuse, Undid, NextEntry, CursorInv, OnEntry, AtEntry
  <1>29. CASE UndoDrop
    BY <1>29, <1>a DEF UndoDrop, Call, Goto, AfterStop, AfterRestore, Refuse, Undid, NextEntry, CursorInv, OnEntry, AtEntry
  <1>30. CASE UndoEnd
    BY <1>30, <1>a DEF UndoEnd, Rest, Goto, CursorInv, OnEntry, AtEntry
  <1>31. CASE Erase
    BY <1>31, <1>a DEF Erase, Rest, CursorInv, OnEntry, AtEntry
  <1>32. CASE DownBegin
    BY <1>32, <1>a DEF DownBegin, CursorInv, OnEntry, AtEntry
  <1>33. CASE DownList
    BY <1>33, <1>a DEF DownList, Rest, CursorInv, OnEntry, AtEntry
  <1>34. CASE Teardown
    BY <1>34, <1>a DEF Teardown, Dispose, Call, Goto, Rest, CursorInv, OnEntry, AtEntry
  <1>35. CASE DownErase
    BY <1>35, <1>a DEF DownErase, Rest, CursorInv, OnEntry, AtEntry
  <1>36. CASE Crash
    BY <1>36, <1>a DEF Crash, Rest, CursorInv, OnEntry, AtEntry
  <1>37. CASE \E i \in Ids : Exit(i)
    BY <1>37, <1>a DEF Exit, Meddle, memory, CursorInv, OnEntry, AtEntry
  <1>38. CASE \E i \in Ids : Vanish(i)
    BY <1>38, <1>a DEF Vanish, Meddle, memory, CursorInv, OnEntry, AtEntry
  <1>39. CASE \E n \in Names, r \in Roles : Squat(n, r)
    BY <1>39, <1>a DEF Squat, Meddle, memory, CursorInv, OnEntry, AtEntry
  <1> QED
    BY <1>1, <1>2, <1>3, <1>4, <1>5, <1>6, <1>7, <1>8, <1>9, <1>10, <1>11, <1>12, <1>13, <1>14, <1>15, <1>16, <1>17, <1>18, <1>19, <1>20, <1>21, <1>22, <1>23, <1>24, <1>25, <1>26, <1>27, <1>28, <1>29, <1>30, <1>31, <1>32, <1>33, <1>34, <1>35, <1>36, <1>37, <1>38, <1>39
    DEF Next, Begin, Work, Reconcile, Undo, Outside

(* Which operation runs where, and whose journal is on disk.               *)
LEMMA PhaseStep ==
    ASSUME TypeOK, CursorInv, PhaseInv, JournalInv, [Next]_vars
    PROVE  PhaseInv' /\ JournalInv'
  <1>a. /\ nonce \in Nat /\ NoJournal.nonce = 0 /\ written \in BOOLEAN
        /\ \A c \in Cands : c # Foreign
    BY BoundsAssumption, PlanAssumption DEF TypeOK, WorldOK, MemoryOK, NoJournal
  <1>b. /\ \A p : [job EXCEPT !.phase = p].phase = p
        /\ \A p : [job EXCEPT !.phase = p].cand = job.cand
        /\ \A a : [job EXCEPT !.ip = a].phase = job.phase
        /\ \A a : [job EXCEPT !.ip = a].cand = job.cand
    BY DEF TypeOK, MemoryOK, Job
  <1>1. CASE UNCHANGED vars
    BY <1>1 DEF vars, memory, PhaseInv, JournalInv, Quiet, OnEntry, Forward, Undoing
  <1>2. CASE \E c \in Cands, force \in BOOLEAN : UpBegin(c, force)
    BY <1>2, <1>a DEF UpBegin, PhaseInv, JournalInv, Quiet, OnEntry, Forward, Undoing
  <1>3. CASE Sweep
    BY <1>3, <1>a DEF Sweep, Goto, BeginUndo, Rest, NoJob, PhaseInv, JournalInv, Quiet, OnEntry, Forward, Undoing
  <1>4. CASE ListDebris
    BY <1>4, <1>a DEF ListDebris, Rest, NoJob, PhaseInv, JournalInv, Quiet, OnEntry, Forward, Undoing
  <1>5. CASE ClearDebris
    BY <1>5, <1>a DEF ClearDebris, Dispose, Call, Goto, Rest, NoJob, PhaseInv, JournalInv, Quiet, OnEntry, Forward, Undoing
  <1>6. CASE Prepare
    <2>1. CASE Rest
      <3>1. disk' = disk /\ nonce' = nonce
        BY <1>6, <2>1 DEF Prepare, Rest
      <3> QED BY <1>a, <2>1, <3>1 DEF Rest, NoJob, PhaseInv, JournalInv, Quiet, OnEntry, Forward, Undoing
    <2>2. CASE ~Rest
      <3>1. /\ tx'.nonce = nonce' /\ tx'.cand = job.cand /\ nonce' = nonce + 1
            /\ written' = FALSE /\ pc = "prepare" /\ pc' = "inspect" /\ disk' = disk
        BY <1>6, <2>2 DEF Prepare
      <3>2. job'.phase = "txn" /\ job'.cand = job.cand
        BY <1>6, <2>2, <1>b DEF Prepare
      <3> QED BY <1>a, <3>1, <3>2 DEF PhaseInv, JournalInv, Quiet, OnEntry, Forward, Undoing
    <2> QED BY <2>1, <2>2
  <1>7. CASE Skip
    BY <1>7, <1>a DEF Skip, Advance, PhaseInv, JournalInv, Quiet, OnEntry, Forward, Undoing
  <1>8. CASE ResolveDNS
    <2>1. /\ UNCHANGED <<disk, tx, written, nonce>> /\ pc = "inspect"
          /\ pc' \in {"rollback", "inspect"}
      BY <1>8 DEF ResolveDNS, RollBack, Goto
    <2>2. job'.phase = job.phase /\ job'.cand = job.cand
      BY <1>8, <1>b, ZenonT(60) DEF ResolveDNS, RollBack, Goto
    <2> QED BY <1>a, <2>1, <2>2 DEF PhaseInv, JournalInv, Quiet, OnEntry, Forward, Undoing
  <1>9. CASE Inspect
    <2>1. /\ UNCHANGED <<disk, tx, job, written, nonce>> /\ pc = "inspect"
          /\ pc' \in {"record", "rollback", "inspect", "hooks"}
      BY <1>9 DEF Inspect, RollBack, Goto, Advance
    <2> QED BY <1>a, <2>1 DEF PhaseInv, JournalInv, Quiet, OnEntry, Forward, Undoing
  <1>10. CASE RecordCreate
    <2>1. PICK e : e \in Entry /\ Record(e, "create")
      BY <1>10, <1>a DEF RecordCreate, CursorInv, Entry, Live, Up, TypeOK, MemoryOK
    <2>2. pc = "record" /\ nonce' = nonce
      BY <1>10 DEF RecordCreate
    <2> DEFINE j == Appended(tx, e)
    <2>3. j.nonce = tx.nonce /\ j.cand = tx.cand
      BY <2>1, AppendedType DEF TypeOK, MemoryOK
    <2>4. /\ disk' = disk \/ disk' = j
          /\ UNCHANGED job
          /\ \/ tx' = j /\ disk' = j /\ pc' = "create" /\ written'
             \/ UNCHANGED <<tx, written>> /\ pc' = "rollback"
      BY <2>1, RecordCases
    <2> HIDE DEF j
    <2> QED BY <1>a, <2>2, <2>3, <2>4 DEF PhaseInv, JournalInv, Quiet, OnEntry, Forward, Undoing
  <1>11. CASE RecordStart
    <2>1. PICK e : e \in Entry /\ Record(e, "start")
      BY <1>11, <1>a DEF RecordStart, CursorInv, Entry, Live, Up, TypeOK, MemoryOK
    <2>2. pc = "record" /\ nonce' = nonce
      BY <1>11 DEF RecordStart
    <2> DEFINE j == Appended(tx, e)
    <2>3. j.nonce = tx.nonce /\ j.cand = tx.cand
      BY <2>1, AppendedType DEF TypeOK, MemoryOK
    <2>4. /\ disk' = disk \/ disk' = j
          /\ UNCHANGED job
          /\ \/ tx' = j /\ disk' = j /\ pc' = "start" /\ written'
             \/ UNCHANGED <<tx, written>> /\ pc' = "rollback"
      BY <2>1, RecordCases
    <2> HIDE DEF j
    <2> QED BY <1>a, <2>2, <2>3, <2>4 DEF PhaseInv, JournalInv, Quiet, OnEntry, Forward, Undoing
  <1>12. CASE RecordReplace
    <2>1. PICK e : e \in Entry /\ Record(e, "create")
      BY <1>12, <1>a DEF RecordReplace, CursorInv, Entry, Live, Up, TypeOK, MemoryOK
    <2>2. pc = "record" /\ nonce' = nonce
      BY <1>12 DEF RecordReplace
    <2> DEFINE j == Appended(tx, e)
    <2>3. j.nonce = tx.nonce /\ j.cand = tx.cand
      BY <2>1, AppendedType DEF TypeOK, MemoryOK
    <2>4. /\ disk' = disk \/ disk' = j
          /\ UNCHANGED job
          /\ \/ tx' = j /\ disk' = j /\ pc' = "create" /\ written'
             \/ UNCHANGED <<tx, written>> /\ pc' = "rollback"
      BY <2>1, RecordCases
    <2> HIDE DEF j
    <2> QED BY <1>a, <2>2, <2>3, <2>4 DEF PhaseInv, JournalInv, Quiet, OnEntry, Forward, Undoing
  <1>13. CASE Create
    BY <1>13, <1>a DEF Create, Call, Goto, RollBack, Advance, PhaseInv, JournalInv, Quiet, OnEntry, Forward, Undoing
  <1>14. CASE Backfill
    <2> DEFINE j == Filled(tx, minted)
    <2>1. /\ disk' = disk \/ disk' = j
          /\ tx' = j /\ UNCHANGED <<job, written, nonce>> /\ pc = "backfill"
          /\ \/ pc' \in {"start", "stop"} /\ disk' = j
             \/ pc' = "rollback"
      BY <1>14 DEF Backfill
    <2>2. minted \in Ids \cup {0} /\ tx \in Journal /\ Len(tx.entries) > 0
      BY <2>1, BoundsAssumption
      DEF CursorInv, OnEntry, TypeOK, WorldOK, MemoryOK, Ids, Stranger
    <2>3. j.nonce = tx.nonce /\ j.cand = tx.cand
      BY <2>2, FilledType
    <2> HIDE DEF j
    <2> QED BY <1>a, <2>1, <2>3 DEF PhaseInv, JournalInv, Quiet, OnEntry, Forward, Undoing
  <1>15. CASE StopOld
    BY <1>15, <1>a DEF StopOld, Call, Goto, RollBack, Advance, PhaseInv, JournalInv, Quiet, OnEntry, Forward, Undoing
  <1>16. CASE RetireOld
    BY <1>16, <1>a DEF RetireOld, Call, Goto, RollBack, Advance, PhaseInv, JournalInv, Quiet, OnEntry, Forward, Undoing
  <1>17. CASE SwapIn
    BY <1>17, <1>a DEF SwapIn, Call, Goto, RollBack, Advance, PhaseInv, JournalInv, Quiet, OnEntry, Forward, Undoing
  <1>18. CASE Start
    BY <1>18, <1>a DEF Start, Call, Goto, RollBack, Advance, PhaseInv, JournalInv, Quiet, OnEntry, Forward, Undoing
  <1>19. CASE Hooks
    BY <1>19, <1>a DEF Hooks, RollBack, Goto, PhaseInv, JournalInv, Quiet, OnEntry, Forward, Undoing
  <1>20. CASE Gate
    BY <1>20, <1>a DEF Gate, RollBack, Goto, PhaseInv, JournalInv, Quiet, OnEntry, Forward, Undoing
  <1>21. CASE Commit
    <2>1. CASE Rest
      <3>1. nonce' = nonce /\ disk' \in {disk, NoJournal}
        BY <1>21, <2>1 DEF Commit, Rest
      <3> QED BY <1>a, <2>1, <3>1 DEF Rest, NoJob, PhaseInv, JournalInv, Quiet, OnEntry, Forward, Undoing
    <2>2. CASE ~Rest
      <3>1. /\ disk' = (IF written THEN NoJournal ELSE disk) /\ tx' = NoJournal
            /\ nonce' = nonce /\ pc = "gate" /\ pc' = "debris"
        BY <1>21, <2>2 DEF Commit
      <3>2. job'.phase = "done" /\ job'.cand = job.cand
        BY <1>21, <2>2, <1>b DEF Commit
      <3>3. disk' = NoJournal /\ job.phase = "txn"
        BY <1>a, <3>1 DEF PhaseInv, JournalInv, Forward
      <3> QED BY <1>a, <3>1, <3>2, <3>3 DEF PhaseInv, JournalInv, Quiet, OnEntry, Forward, Undoing
    <2> QED BY <2>1, <2>2
  <1>22. CASE Rollback
    BY <1>22, <1>a DEF Rollback, BeginUndo, Rest, NoJob, PhaseInv, JournalInv, Quiet, OnEntry, Forward, Undoing
  <1>23. CASE UndoList
    BY <1>23, <1>a DEF UndoList, Call, Goto, AfterStop, AfterRestore, Refuse, Undid, NextEntry, PhaseInv, JournalInv, Quiet, OnEntry, Forward, Undoing
  <1>24. CASE UndoStop
    BY <1>24, <1>a DEF UndoStop, Call, Goto, AfterStop, AfterRestore, Refuse, Undid, NextEntry, PhaseInv, JournalInv, Quiet, OnEntry, Forward, Undoing
  <1>25. CASE UndoPark
    BY <1>25, <1>a DEF UndoPark, Call, Goto, AfterStop, AfterRestore, Refuse, Undid, NextEntry, PhaseInv, JournalInv, Quiet, OnEntry, Forward, Undoing
  <1>26. CASE UndoRestore
    BY <1>26, <1>a DEF UndoRestore, Call, Goto, AfterStop, AfterRestore, Refuse, Undid, NextEntry, PhaseInv, JournalInv, Quiet, OnEntry, Forward, Undoing
  <1>27. CASE UndoRevive
    BY <1>27, <1>a DEF UndoRevive, Call, Goto, AfterStop, AfterRestore, Refuse, Undid, NextEntry, PhaseInv, JournalInv, Quiet, OnEntry, Forward, Undoing
  <1>28. CASE UndoConfirm
    BY <1>28, <1>a DEF UndoConfirm, Call, Goto, AfterStop, AfterRestore, Refuse, Undid, NextEntry, PhaseInv, JournalInv, Quiet, OnEntry, Forward, Undoing
  <1>29. CASE UndoDrop
    BY <1>29, <1>a DEF UndoDrop, Call, Goto, AfterStop, AfterRestore, Refuse, Undid, NextEntry, PhaseInv, JournalInv, Quiet, OnEntry, Forward, Undoing
  <1>30. CASE UndoEnd
    BY <1>30, <1>a DEF UndoEnd, Rest, Goto, NoJob, PhaseInv, JournalInv, Quiet, OnEntry, Forward, Undoing
  <1>31. CASE Erase
    BY <1>31, <1>a DEF Erase, Rest, NoJob, NoJournal, PhaseInv, JournalInv, Quiet, OnEntry, Forward, Undoing
  <1>32. CASE DownBegin
    BY <1>32, <1>a DEF DownBegin, NoJob, PhaseInv, JournalInv, Quiet, OnEntry, Forward, Undoing
  <1>33. CASE DownList
    BY <1>33, <1>a DEF DownList, Rest, NoJob, PhaseInv, JournalInv, Quiet, OnEntry, Forward, Undoing
  <1>34. CASE Teardown
    BY <1>34, <1>a DEF Teardown, Dispose, Call, Goto, Rest, NoJob, PhaseInv, JournalInv, Quiet, OnEntry, Forward, Undoing
  <1>35. CASE DownErase
    BY <1>35, <1>a DEF DownErase, Rest, NoJob, PhaseInv, JournalInv, Quiet, OnEntry, Forward, Undoing
  <1>36. CASE Crash
    BY <1>36, <1>a DEF Crash, Rest, NoJob, PhaseInv, JournalInv, Quiet, OnEntry, Forward, Undoing
  <1>37. CASE \E i \in Ids : Exit(i)
    BY <1>37, <1>a DEF Exit, Meddle, memory, PhaseInv, JournalInv, Quiet, OnEntry, Forward, Undoing
  <1>38. CASE \E i \in Ids : Vanish(i)
    BY <1>38, <1>a DEF Vanish, Meddle, memory, PhaseInv, JournalInv, Quiet, OnEntry, Forward, Undoing
  <1>39. CASE \E n \in Names, r \in Roles : Squat(n, r)
    BY <1>39, <1>a DEF Squat, Meddle, memory, PhaseInv, JournalInv, Quiet, OnEntry, Forward, Undoing
  <1> QED
    BY <1>1, <1>2, <1>3, <1>4, <1>5, <1>6, <1>7, <1>8, <1>9, <1>10, <1>11, <1>12, <1>13, <1>14, <1>15, <1>16, <1>17, <1>18, <1>19, <1>20, <1>21, <1>22, <1>23, <1>24, <1>25, <1>26, <1>27, <1>28, <1>29, <1>30, <1>31, <1>32, <1>33, <1>34, <1>35, <1>36, <1>37, <1>38, <1>39
    DEF Next, Begin, Work, Reconcile, Undo, Outside

LEMMA InstalledType ==
    ASSUME NEW c \in Cands, NEW up \in SUBSET Desired[c]
    PROVE  Installed(c, up) \in [Ids -> Container]
  <1>1. Linked # {} => (CHOOSE a \in Addrs : TRUE) \in Addrs
    BY PlanAssumption
  <1>2. ASSUME NEW i \in Ids PROVE Installed(c, up)[i] \in Container
    <2>1. CASE i \notin Desired[c]
      BY <2>1, ConstantTypes DEF Installed
    <2>2. CASE i \in Desired[c]
      <3>1. i \in Names
        BY <2>2, PlanAssumption
      <3> QED BY <1>1, <2>2, <3>1, BoundsAssumption DEF Installed, Container, Roles, States
    <2> QED BY <2>1, <2>2
  <1> QED BY <1>2 DEF Installed

LEMMA InitType ==
    ASSUME Init PROVE TypeOK /\ CursorInv /\ PhaseInv /\ JournalInv
  <1>1. box \in [Ids -> Container] /\ minted \in 0 .. MaxIds
    BY InstalledType, ConstantTypes, BoundsAssumption DEF Init
  <1>2. base \in [Names -> [ids : SUBSET Ids, up : BOOLEAN]]
    BY DEF Init, Topology, At, Live
  <1>3. WorldOK
    BY <1>1, <1>2, ConstantTypes, BoundsAssumption DEF Init, WorldOK
  <1>4. MemoryOK
    <2>1. pc \in Labels /\ written \in BOOLEAN /\ bad \in BOOLEAN
      BY DEF Init, Labels
    <2>2. job \in Job /\ tx \in Journal /\ view \in [Ids -> Container]
      BY ConstantTypes DEF Init
    <2>3. cur \in 0 .. Size + 1
      BY BoundsAssumption DEF Init
    <2> QED BY <2>1, <2>2, <2>3 DEF MemoryOK
  <1>5. CursorInv
    BY BoundsAssumption DEF Init, CursorInv, OnEntry, AtEntry, NoJournal
  <1>6. PhaseInv /\ JournalInv
    BY DEF Init, PhaseInv, JournalInv, NoJob, Quiet, Forward, Undoing, OnEntry
  <1> QED BY <1>3, <1>4, <1>5, <1>6 DEF TypeOK

(* Every reachable state is well typed, whatever the plans, faults and     *)
(* interferences: in particular the gate and the reconcile loop never run  *)
(* past the plan, and undo never past the journal.                         *)
THEOREM TypeInvariant == Spec => []TypeOK
  <1> DEFINE Inv == TypeOK /\ CursorInv /\ PhaseInv /\ JournalInv
  <1>1. Init => Inv
    BY InitType
  <1>2. Inv /\ [Next]_vars => Inv'
    BY WorldStep, MemoryStep, CursorStep, PhaseStep DEF TypeOK
  <1>3. Inv => TypeOK
    OBVIOUS
  <1> QED BY <1>1, <1>2, <1>3, PTL DEF Spec

LEMMA TameUpdate ==
    ASSUME TypeOK, NEW i \in Live(box), NEW c, SameLabels(c, box[i])
    PROVE  Tame([box EXCEPT ![i] = c])
  BY DEF Tame, Live, SameLabels, TypeOK, WorldOK

LEMMA TameRename ==
    ASSUME TypeOK, NEW i \in Live(box), NEW r PROVE Tame(Renamed(i, r))
  <1>1. i \in Ids /\ box[i] \in Container
    BY DEF Live, TypeOK, WorldOK
  <1>2. SameLabels([box[i] EXCEPT !.role = r], box[i])
    BY <1>1 DEF SameLabels, Container
  <1>3. Renamed(i, r) = [box EXCEPT ![i] = [box[i] EXCEPT !.role = r]]
    BY <1>1 DEF Renamed, TypeOK, WorldOK
  <1> QED BY <1>2, <1>3, TameUpdate

LEMMA TameEffects ==
    ASSUME TypeOK
    PROVE  /\ Tame(box)
           /\ \A i : Tame(Removed(i))
           /\ \A i \in Live(box) : Tame(Stopped(i)) /\ \A b \in Started(i) : Tame(b)
  <1>1. \A c \in Container : SameLabels(Halt(c), c) /\ \A a : SameLabels(Run(c, a), c)
    BY DEF Container, SameLabels, Halt, Run
  <1>2. Tame(box)
    BY DEF Tame, SameLabels
  <1>3. ASSUME NEW i PROVE Tame(Removed(i))
    BY DEF Removed, Tame, Live, SameLabels, NoContainer, TypeOK, WorldOK
  <1>4. ASSUME NEW i \in Live(box)
        PROVE  Tame(Stopped(i)) /\ \A b \in Started(i) : Tame(b)
    <2>1. i \in Ids /\ box[i] \in Container
      BY DEF Live, TypeOK, WorldOK
    <2>2. Tame(Stopped(i))
      BY <1>1, <2>1, TameUpdate DEF Stopped
    <2>3. ASSUME NEW b \in Started(i) PROVE Tame(b)
      <3>1. b = box \/ \E a : b = [box EXCEPT ![i] = Run(box[i], a)]
        BY <2>1, <2>3 DEF Started
      <3> QED BY <1>1, <1>2, <2>1, <3>1, TameUpdate
    <2> QED BY <2>2, <2>3
  <1> QED BY <1>2, <1>3, <1>4

(* Only Create and a stranger make a container; no step relabels one.      *)
LEMMA TameStep ==
    ASSUME TypeOK, [Next]_vars, ~Create,
           ~\E n \in Names, r \in Roles : Squat(n, r)
    PROVE  Tame(box')
  <1>a. Tame(box)
    BY TameEffects
  <1>1. CASE UNCHANGED vars
    BY <1>1, <1>a DEF vars, docker
  <1>2. CASE \E c \in Cands, force \in BOOLEAN : UpBegin(c, force)
    BY <1>2, <1>a DEF UpBegin, docker
  <1>3. CASE Sweep
    BY <1>3, <1>a DEF Sweep, docker
  <1>4. CASE ListDebris
    BY <1>4, <1>a DEF ListDebris, docker
  <1>5. CASE ClearDebris
    BY <1>5, <1>a, TameEffects DEF ClearDebris, Dispose, Call
  <1>6. CASE Prepare
    BY <1>6, <1>a DEF Prepare, docker
  <1>7. CASE Skip
    BY <1>7, <1>a DEF Skip, docker
  <1>8. CASE ResolveDNS
    BY <1>8, <1>a DEF ResolveDNS, docker
  <1>9. CASE Inspect
    BY <1>9, <1>a DEF Inspect, docker
  <1>10. CASE RecordCreate
    BY <1>10, <1>a DEF RecordCreate, docker
  <1>11. CASE RecordStart
    BY <1>11, <1>a DEF RecordStart, docker
  <1>12. CASE RecordReplace
    BY <1>12, <1>a DEF RecordReplace, docker
  <1>14. CASE Backfill
    BY <1>14, <1>a DEF Backfill, docker
  <1>15. CASE StopOld
    BY <1>15, <1>a, TameEffects DEF StopOld, Call
  <1>16. CASE RetireOld
    <2>1. \/ box' = box
          \/ Last.id \in Live(box) /\ box' = Renamed(Last.id, "prev")
      BY <1>16 DEF RetireOld, Call
    <2> QED BY <1>a, <2>1, TameRename DEF Roles
  <1>17. CASE SwapIn
    <2>1. \/ box' = box
          \/ Last.new \in Live(box) /\ box' = Renamed(Last.new, "canonical")
      BY <1>17 DEF SwapIn, Call
    <2> QED BY <1>a, <2>1, TameRename DEF Roles
  <1>18. CASE Start
    BY <1>18, <1>a, TameEffects DEF Start, Call
  <1>19. CASE Hooks
    BY <1>19, <1>a DEF Hooks, docker
  <1>20. CASE Gate
    BY <1>20, <1>a DEF Gate, docker
  <1>21. CASE Commit
    BY <1>21, <1>a DEF Commit, docker
  <1>22. CASE Rollback
    BY <1>22, <1>a DEF Rollback, docker
  <1>23. CASE UndoList
    BY <1>23, <1>a DEF UndoList, docker
  <1>24. CASE UndoStop
    BY <1>24, <1>a, TameEffects DEF UndoStop, Call
  <1>25. CASE UndoPark
    <2>1. \/ box' = box
          \/ \E i \in Live(box) : box' = Renamed(i, "next")
      BY <1>25 DEF UndoPark, Call
    <2> QED BY <1>a, <2>1, TameRename DEF Roles
  <1>26. CASE UndoRestore
    <2>1. \/ box' = box
          \/ Undone.id \in Live(box) /\ box' = Renamed(Undone.id, "canonical")
      BY <1>26 DEF UndoRestore, Call
    <2> QED BY <1>a, <2>1, TameRename DEF Roles
  <1>27. CASE UndoRevive
    BY <1>27, <1>a, TameEffects DEF UndoRevive, Call
  <1>28. CASE UndoConfirm
    BY <1>28, <1>a DEF UndoConfirm, docker
  <1>29. CASE UndoDrop
    BY <1>29, <1>a, TameEffects DEF UndoDrop, Call
  <1>30. CASE UndoEnd
    BY <1>30, <1>a DEF UndoEnd, docker
  <1>31. CASE Erase
    BY <1>31, <1>a DEF Erase, docker
  <1>32. CASE DownBegin
    BY <1>32, <1>a DEF DownBegin, docker
  <1>33. CASE DownList
    BY <1>33, <1>a DEF DownList, docker
  <1>34. CASE Teardown
    BY <1>34, <1>a, TameEffects DEF Teardown, Dispose, Call
  <1>35. CASE DownErase
    BY <1>35, <1>a DEF DownErase, docker
  <1>36. CASE Crash
    BY <1>36, <1>a DEF Crash, docker
  <1>37. CASE \E i \in Ids : Exit(i)
    BY <1>37, TameEffects DEF Exit
  <1>38. CASE \E i \in Ids : Vanish(i)
    BY <1>38, TameEffects DEF Vanish
  <1> QED
    BY <1>1, <1>2, <1>3, <1>4, <1>5, <1>6, <1>7, <1>8, <1>9, <1>10, <1>11, <1>12, <1>14, <1>15, <1>16, <1>17, <1>18, <1>19, <1>20, <1>21, <1>22, <1>23, <1>24, <1>25, <1>26, <1>27, <1>28, <1>29, <1>30, <1>31, <1>32, <1>33, <1>34, <1>35, <1>36, <1>37, <1>38
    DEF Next, Begin, Work, Reconcile, Undo, Outside

(* The steps that neither write the journal nor open a transaction.        *)
Writes == RecordCreate \/ RecordStart \/ RecordReplace \/ Backfill
Opens  == Prepare
Closes == Commit \/ Erase \/ DownErase
Makes  == Create \/ \E n \in Names, r \in Roles : Squat(n, r)

LEMMA OrdinaryStep ==
    ASSUME TypeOK, [Next]_vars, ~Writes, ~Opens, ~Closes, ~Makes
    PROVE  /\ UNCHANGED <<disk, nonce, minted>>
           /\ job'.phase = "txn" => job.phase = "txn"
  <1>a. \A a : [job EXCEPT !.ip = a].phase = job.phase
    BY DEF TypeOK, MemoryOK, Job
  <1>1. CASE UNCHANGED vars
    BY <1>1 DEF vars, docker, memory
  <1>2. CASE \E c \in Cands, force \in BOOLEAN : UpBegin(c, force)
    BY <1>2, <1>a DEF UpBegin, docker
  <1>3. CASE Sweep
    BY <1>3, <1>a DEF Sweep, docker, BeginUndo, Goto, Rest, NoJob
  <1>4. CASE ListDebris
    BY <1>4, <1>a DEF ListDebris, docker, Goto, Rest, NoJob
  <1>5. CASE ClearDebris
    BY <1>5, <1>a DEF ClearDebris, Dispose, Call, Goto, Rest, NoJob
  <1>7. CASE Skip
    BY <1>7, <1>a DEF Skip, docker, Advance
  <1>8. CASE ResolveDNS
    <2>1. UNCHANGED <<disk, nonce, minted>>
      BY <1>8 DEF ResolveDNS, docker
    <2>2. job'.phase = job.phase
      BY <1>8, <1>a DEF ResolveDNS, RollBack, Goto
    <2> QED BY <2>1, <2>2
  <1>9. CASE Inspect
    BY <1>9, <1>a DEF Inspect, docker, RollBack, Goto, Advance
  <1>15. CASE StopOld
    BY <1>15, <1>a DEF StopOld, Call, RollBack, Goto
  <1>16. CASE RetireOld
    BY <1>16, <1>a DEF RetireOld, Call, RollBack, Goto
  <1>17. CASE SwapIn
    BY <1>17, <1>a DEF SwapIn, Call, RollBack, Goto
  <1>18. CASE Start
    BY <1>18, <1>a DEF Start, Call, RollBack, Goto, Advance
  <1>19. CASE Hooks
    BY <1>19, <1>a DEF Hooks, docker, RollBack, Goto
  <1>20. CASE Gate
    BY <1>20, <1>a DEF Gate, docker, RollBack, Goto
  <1>22. CASE Rollback
    BY <1>22, <1>a DEF Rollback, docker, BeginUndo, Goto, Rest, NoJob
  <1>23. CASE UndoList
    BY <1>23, <1>a DEF UndoList, docker, Refuse, NextEntry
  <1>24. CASE UndoStop
    BY <1>24, <1>a DEF UndoStop, Call, AfterStop, AfterRestore, Refuse, Undid, NextEntry, Goto
  <1>25. CASE UndoPark
    BY <1>25, <1>a DEF UndoPark, Call, AfterStop, AfterRestore, Refuse, Undid, NextEntry, Goto
  <1>26. CASE UndoRestore
    BY <1>26, <1>a DEF UndoRestore, Call, AfterStop, AfterRestore, Refuse, Undid, NextEntry, Goto
  <1>27. CASE UndoRevive
    BY <1>27, <1>a DEF UndoRevive, Call, AfterStop, AfterRestore, Refuse, Undid, NextEntry, Goto
  <1>28. CASE UndoConfirm
    BY <1>28, <1>a DEF UndoConfirm, docker, Refuse, NextEntry, Goto
  <1>29. CASE UndoDrop
    BY <1>29, <1>a DEF UndoDrop, Call, AfterStop, AfterRestore, Refuse, Undid, NextEntry, Goto
  <1>30. CASE UndoEnd
    BY <1>30, <1>a DEF UndoEnd, docker, Goto, Rest, NoJob
  <1>32. CASE DownBegin
    BY <1>32, <1>a DEF DownBegin, docker, NoJob
  <1>33. CASE DownList
    BY <1>33, <1>a DEF DownList, docker, Goto, Rest, NoJob
  <1>34. CASE Teardown
    BY <1>34, <1>a DEF Teardown, Dispose, Call, Goto, Rest, NoJob
  <1>36. CASE Crash
    BY <1>36, <1>a DEF Crash, docker, Goto, Rest, NoJob
  <1>37. CASE \E i \in Ids : Exit(i)
    BY <1>37 DEF Exit, Meddle, memory
  <1>38. CASE \E i \in Ids : Vanish(i)
    BY <1>38 DEF Vanish, Meddle, memory
  <1> QED
    BY <1>1, <1>2, <1>3, <1>4, <1>5, <1>7, <1>8, <1>9, <1>15, <1>16, <1>17, <1>18, <1>19, <1>20, <1>22, <1>23, <1>24, <1>25, <1>26, <1>27, <1>28, <1>29, <1>30, <1>32, <1>33, <1>34, <1>36, <1>37, <1>38
    DEF Next, Writes, Opens, Closes, Makes, Begin, Work, Reconcile, Undo, Outside

(* Where a new container comes from.                                       *)
LEMMA CreateBox ==
    ASSUME TypeOK, PhaseInv, JournalInv, CursorInv, Create
    PROVE  /\ UNCHANGED <<disk, nonce>> /\ minted < MaxIds
           /\ \/ box' = box
              \/ /\ minted' = minted + 1
                 /\ Live(box') \subseteq Live(box) \cup {minted + 1}
                 /\ \A i \in Live(box') : i # minted + 1 => box'[i] = box[i]
                 /\ minted + 1 \in Ids
                 /\ box'[minted + 1].name = cur /\ box'[minted + 1].cand = job.cand
                 /\ box'[minted + 1].nonce = tx.nonce
                 /\ box'[minted + 1].state = "stopped"
           /\ minted' \in {minted, minted + 1}
  <1>1. minted < MaxIds /\ UNCHANGED <<disk, nonce>> /\ minted' \in {minted, minted + 1}
    BY DEF Create
  <1>2. /\ box' = box \/ box' = Created(Staging)
        /\ minted' = (IF box' # box THEN minted + 1 ELSE minted)
    BY DEF Create, Call
  <1>3. minted + 1 \in Ids
    BY <1>1, BoundsAssumption DEF TypeOK, WorldOK, Ids, Stranger
  <1>4. /\ Live(Created(Staging)) \subseteq Live(box) \cup {minted + 1}
        /\ \A i \in Ids : i # minted + 1 => Created(Staging)[i] = box[i]
        /\ Created(Staging)[minted + 1].name = cur
        /\ Created(Staging)[minted + 1].cand = job.cand
        /\ Created(Staging)[minted + 1].nonce = tx.nonce
        /\ Created(Staging)[minted + 1].state = "stopped"
    BY <1>3 DEF Created, Live, TypeOK, WorldOK
  <1> QED BY <1>1, <1>2, <1>3, <1>4 DEF Live

LEMMA IdsStep ==
    ASSUME TypeOK, CursorInv, PhaseInv, JournalInv, IdsInv, [Next]_vars
    PROVE  IdsInv'
  <1>a. /\ minted \in Nat /\ nonce \in Nat /\ minted <= MaxIds /\ MaxIds \in Nat
        /\ \A i \in Ids : box[i].nonce \in Nat
    BY BoundsAssumption DEF TypeOK, WorldOK, Container
  <1>1. CASE Create
    <2>1. tx.nonce = nonce /\ job.cand \in Cands /\ job.cand # Foreign
      BY <1>1, PlanAssumption DEF Create, PhaseInv, JournalInv, Forward
    <2>2. minted + 1 # Stranger /\ minted + 1 \in Ids
      BY <1>1, <1>a, CreateBox DEF Stranger, Ids
    <2>3. /\ minted' \in {minted, minted + 1} /\ nonce' = nonce
          /\ \/ box' = box
             \/ /\ Live(box') \subseteq Live(box) \cup {minted + 1} /\ minted' = minted + 1
                /\ \A i \in Live(box') : i # minted + 1 => box'[i] = box[i]
                /\ box'[minted + 1].cand = job.cand /\ box'[minted + 1].nonce = nonce
      BY <1>1, <2>1, CreateBox
    <2>4. CASE box' = box
      <3>1. \A i \in Live(box) : i \in Nat
        BY ConstantTypes DEF Live
      <3>2. Live(box') = Live(box) /\ minted \in Nat /\ minted' >= minted
        BY <1>a, <2>3, <2>4 DEF Live
      <3> QED BY <1>a, <2>3, <2>4, <3>1, <3>2 DEF IdsInv
    <2>5. CASE box' # box
      <3> SUFFICES ASSUME NEW i \in Live(box')
                   PROVE  /\ Managed(box'[i]) <=> i # Stranger
                          /\ i # Stranger => i <= minted'
                          /\ box'[i].nonce <= nonce'
        BY DEF IdsInv
      <3>a. i \in Ids /\ i \in Nat
        BY ConstantTypes DEF Live
      <3>1. CASE i = minted + 1
        BY <1>a, <2>1, <2>2, <2>3, <2>5, <3>1 DEF Managed
      <3>2. CASE i # minted + 1
        <4>1. i \in Live(box) /\ box'[i] = box[i] /\ minted' = minted + 1
          BY <2>3, <2>5, <3>2
        <4> QED BY <1>a, <2>3, <3>a, <4>1 DEF IdsInv
      <3> QED BY <3>1, <3>2
    <2> QED BY <2>4, <2>5
  <1>2. CASE \E n \in Names, r \in Roles : Squat(n, r)
    <2>1. /\ UNCHANGED <<minted, nonce>>
          /\ \A i \in Ids : i # Stranger => box'[i] = box[i]
          /\ box'[Stranger].cand = Foreign /\ box'[Stranger].nonce = 0
      BY <1>2, ConstantTypes DEF Squat, Meddle, TypeOK, WorldOK
    <2> QED BY <1>a, <2>1 DEF IdsInv, Managed, Live
  <1>3. CASE ~Makes
    <2>1. Tame(box')
      BY <1>3, TameStep DEF Makes
    <2>2. minted' = minted /\ nonce' \in {nonce, nonce + 1}
      <3>1. CASE ~Writes /\ ~Opens /\ ~Closes
        BY <1>3, <3>1, OrdinaryStep
      <3>2. CASE Writes \/ Opens \/ Closes
        BY <3>2 DEF Writes, Opens, Closes, RecordCreate, RecordStart, RecordReplace,
                    Backfill, Prepare, Commit, Erase, DownErase, docker
      <3> QED BY <3>1, <3>2
    <2> QED BY <1>a, <2>1, <2>2 DEF IdsInv, Tame, SameLabels, Managed, Live
  <1> QED BY <1>1, <1>2, <1>3 DEF Makes

(* Memory mirrors disk, and the last entry is the one being worked on.     *)
LEMMA EntryStep ==
    ASSUME TypeOK, CursorInv, PhaseInv, MirrorInv, LastInv, [Next]_vars
    PROVE  MirrorInv' /\ LastInv'
  <1>1. CASE UNCHANGED vars
    BY <1>1 DEF vars, memory, MirrorInv, LastInv, Last, Undone, OnEntry, AtEntry, Forward
  <1>2. CASE \E c \in Cands, force \in BOOLEAN : UpBegin(c, force)
    BY <1>2 DEF UpBegin, MirrorInv, LastInv, Last, Undone, OnEntry, AtEntry, Forward
  <1>3. CASE Sweep
    BY <1>3 DEF Sweep, Goto, BeginUndo, Rest, MirrorInv, LastInv, Last, Undone, OnEntry, AtEntry, Forward
  <1>4. CASE ListDebris
    BY <1>4 DEF ListDebris, Rest, MirrorInv, LastInv, Last, Undone, OnEntry, AtEntry, Forward
  <1>5. CASE ClearDebris
    BY <1>5 DEF ClearDebris, Dispose, Call, Goto, Rest, MirrorInv, LastInv, Last, Undone, OnEntry, AtEntry, Forward
  <1>6. CASE Prepare
    <2>1. CASE Rest
      BY <2>1 DEF Rest, MirrorInv, LastInv, Last, Undone, OnEntry, AtEntry, Forward
    <2>2. CASE ~Rest
      <3>1. /\ tx'.entries = <<>> /\ disk' = NoJournal /\ pc' = "inspect"
        BY <1>6, <2>2 DEF Prepare, PhaseInv, Quiet
      <3> QED BY <3>1 DEF SameShape, NoJournal, MirrorInv, LastInv, Last, Undone, OnEntry, AtEntry, Forward
    <2> QED BY <2>1, <2>2
  <1>7. CASE Skip
    BY <1>7 DEF Skip, Advance, MirrorInv, LastInv, Last, Undone, OnEntry, AtEntry, Forward
  <1>8. CASE ResolveDNS
    BY <1>8 DEF ResolveDNS, RollBack, Goto, MirrorInv, LastInv, Last, Undone, OnEntry, AtEntry, Forward
  <1>9. CASE Inspect
    BY <1>9 DEF Inspect, RollBack, Goto, Advance, MirrorInv, LastInv, Last, Undone, OnEntry, AtEntry, Forward
  <1>10. CASE RecordCreate
    <2>1. PICK e : /\ Record(e, "create")
                 /\ e = [kind |-> "create", name |-> cur, id |-> 0, was |-> FALSE, new |-> 0]
      BY <1>10 DEF RecordCreate
    <2>2. e \in Entry /\ e.name = cur /\ e.kind = "create"
      BY <2>1, <1>10 DEF RecordCreate, CursorInv, Entry, Live, Up, TypeOK, MemoryOK
    <2>3. CASE tx' = Appended(tx, e) /\ disk' = tx' /\ pc' = "create" /\ cur' = cur
      <3>1. Last' = e
        BY <2>3, <2>2, AppendedType DEF Last, TypeOK, MemoryOK
      <3>2. SameShape(tx', disk')
        BY <2>3 DEF SameShape
      <3> QED BY <2>1, <2>2, <2>3, <3>1, <3>2 DEF MirrorInv, LastInv, OnEntry, AtEntry
    <2>4. CASE pc' = "rollback"
      BY <2>4 DEF MirrorInv, LastInv, Last, Undone, OnEntry, AtEntry, Forward
    <2> QED BY <2>1, <2>3, <2>4, RecordCases
  <1>11. CASE RecordStart
    <2>1. PICK e : /\ Record(e, "start")
                 /\ \E i \in Live(view) :
                e = [kind |-> "start", name |-> cur, id |-> i, was |-> FALSE, new |-> 0]
      BY <1>11 DEF RecordStart
    <2>2. e \in Entry /\ e.name = cur
      BY <2>1, <1>11 DEF RecordStart, CursorInv, Entry, Live, Up, TypeOK, MemoryOK
    <2>3. CASE tx' = Appended(tx, e) /\ disk' = tx' /\ pc' = "start" /\ cur' = cur
      <3>1. Last' = e
        BY <2>3, <2>2, AppendedType DEF Last, TypeOK, MemoryOK
      <3>2. SameShape(tx', disk')
        BY <2>3 DEF SameShape
      <3> QED BY <2>1, <2>2, <2>3, <3>1, <3>2 DEF MirrorInv, LastInv, OnEntry, AtEntry
    <2>4. CASE pc' = "rollback"
      BY <2>4 DEF MirrorInv, LastInv, Last, Undone, OnEntry, AtEntry, Forward
    <2> QED BY <2>1, <2>3, <2>4, RecordCases
  <1>12. CASE RecordReplace
    <2>1. PICK e : /\ Record(e, "create")
                 /\ \E i \in Live(view) :
                e = [kind |-> "replace", name |-> cur, id |-> i, was |-> Up(view[i]), new |-> 0]
      BY <1>12 DEF RecordReplace
    <2>2. e \in Entry /\ e.name = cur /\ e.kind = "replace"
      BY <2>1, <1>12 DEF RecordReplace, CursorInv, Entry, Live, Up, TypeOK, MemoryOK
    <2>3. CASE tx' = Appended(tx, e) /\ disk' = tx' /\ pc' = "create" /\ cur' = cur
      <3>1. Last' = e
        BY <2>3, <2>2, AppendedType DEF Last, TypeOK, MemoryOK
      <3>2. SameShape(tx', disk')
        BY <2>3 DEF SameShape
      <3> QED BY <2>1, <2>2, <2>3, <3>1, <3>2 DEF MirrorInv, LastInv, OnEntry, AtEntry
    <2>4. CASE pc' = "rollback"
      BY <2>4 DEF MirrorInv, LastInv, Last, Undone, OnEntry, AtEntry, Forward
    <2> QED BY <2>1, <2>3, <2>4, RecordCases
  <1>13. CASE Create
    BY <1>13 DEF Create, Call, Goto, RollBack, Advance, MirrorInv, LastInv, Last, Undone, OnEntry, AtEntry, Forward
  <1>14. CASE Backfill
    <2>1. /\ tx' = Filled(tx, minted) /\ cur' = cur /\ pc = "backfill"
          /\ (pc' \in {"start", "stop"} /\ disk' = tx') \/ pc' = "rollback"
      BY <1>14 DEF Backfill
    <2>2. minted \in Ids \cup {0} /\ tx \in Journal /\ Len(tx.entries) \in Nat \ {0}
      BY <2>1, BoundsAssumption
      DEF CursorInv, OnEntry, TypeOK, WorldOK, MemoryOK, Ids, Stranger, Journal
    <2>3. Last'.name = Last.name
      BY <2>1, <2>2, FilledType DEF Last
    <2>4. SameShape(tx', tx')
      BY DEF SameShape
    <2> QED BY <2>1, <2>3, <2>4 DEF MirrorInv, LastInv, OnEntry, AtEntry, Forward
  <1>15. CASE StopOld
    BY <1>15 DEF StopOld, Call, Goto, RollBack, Advance, MirrorInv, LastInv, Last, Undone, OnEntry, AtEntry, Forward
  <1>16. CASE RetireOld
    BY <1>16 DEF RetireOld, Call, Goto, RollBack, Advance, MirrorInv, LastInv, Last, Undone, OnEntry, AtEntry, Forward
  <1>17. CASE SwapIn
    BY <1>17 DEF SwapIn, Call, Goto, RollBack, Advance, MirrorInv, LastInv, Last, Undone, OnEntry, AtEntry, Forward
  <1>18. CASE Start
    BY <1>18 DEF Start, Call, Goto, RollBack, Advance, MirrorInv, LastInv, Last, Undone, OnEntry, AtEntry, Forward
  <1>19. CASE Hooks
    BY <1>19 DEF Hooks, RollBack, Goto, MirrorInv, LastInv, Last, Undone, OnEntry, AtEntry, Forward
  <1>20. CASE Gate
    BY <1>20 DEF Gate, RollBack, Goto, MirrorInv, LastInv, Last, Undone, OnEntry, AtEntry, Forward
  <1>21. CASE Commit
    BY <1>21 DEF Commit, Rest, MirrorInv, LastInv, Last, Undone, OnEntry, AtEntry, Forward
  <1>22. CASE Rollback
    BY <1>22 DEF Rollback, BeginUndo, Rest, MirrorInv, LastInv, Last, Undone, OnEntry, AtEntry, Forward
  <1>23. CASE UndoList
    BY <1>23 DEF UndoList, Call, Goto, AfterStop, AfterRestore, Refuse, Undid, NextEntry, MirrorInv, LastInv, Last, Undone, OnEntry, AtEntry, Forward
  <1>24. CASE UndoStop
    BY <1>24 DEF UndoStop, Call, Goto, AfterStop, AfterRestore, Refuse, Undid, NextEntry, MirrorInv, LastInv, Last, Undone, OnEntry, AtEntry, Forward
  <1>25. CASE UndoPark
    BY <1>25 DEF UndoPark, Call, Goto, AfterStop, AfterRestore, Refuse, Undid, NextEntry, MirrorInv, LastInv, Last, Undone, OnEntry, AtEntry, Forward
  <1>26. CASE UndoRestore
    BY <1>26 DEF UndoRestore, Call, Goto, AfterStop, AfterRestore, Refuse, Undid, NextEntry, MirrorInv, LastInv, Last, Undone, OnEntry, AtEntry, Forward
  <1>27. CASE UndoRevive
    BY <1>27 DEF UndoRevive, Call, Goto, AfterStop, AfterRestore, Refuse, Undid, NextEntry, MirrorInv, LastInv, Last, Undone, OnEntry, AtEntry, Forward
  <1>28. CASE UndoConfirm
    BY <1>28 DEF UndoConfirm, Call, Goto, AfterStop, AfterRestore, Refuse, Undid, NextEntry, MirrorInv, LastInv, Last, Undone, OnEntry, AtEntry, Forward
  <1>29. CASE UndoDrop
    BY <1>29 DEF UndoDrop, Call, Goto, AfterStop, AfterRestore, Refuse, Undid, NextEntry, MirrorInv, LastInv, Last, Undone, OnEntry, AtEntry, Forward
  <1>30. CASE UndoEnd
    BY <1>30 DEF UndoEnd, Rest, Goto, MirrorInv, LastInv, Last, Undone, OnEntry, AtEntry, Forward
  <1>31. CASE Erase
    BY <1>31 DEF Erase, Rest, MirrorInv, LastInv, Last, Undone, OnEntry, AtEntry, Forward
  <1>32. CASE DownBegin
    BY <1>32 DEF DownBegin, MirrorInv, LastInv, Last, Undone, OnEntry, AtEntry, Forward
  <1>33. CASE DownList
    BY <1>33 DEF DownList, Rest, MirrorInv, LastInv, Last, Undone, OnEntry, AtEntry, Forward
  <1>34. CASE Teardown
    BY <1>34 DEF Teardown, Dispose, Call, Goto, Rest, MirrorInv, LastInv, Last, Undone, OnEntry, AtEntry, Forward
  <1>35. CASE DownErase
    BY <1>35 DEF DownErase, Rest, MirrorInv, LastInv, Last, Undone, OnEntry, AtEntry, Forward
  <1>36. CASE Crash
    BY <1>36 DEF Crash, Rest, MirrorInv, LastInv, Last, Undone, OnEntry, AtEntry, Forward
  <1>37. CASE \E i \in Ids : Exit(i)
    BY <1>37 DEF Exit, Meddle, memory, MirrorInv, LastInv, Last, Undone, OnEntry, AtEntry, Forward
  <1>38. CASE \E i \in Ids : Vanish(i)
    BY <1>38 DEF Vanish, Meddle, memory, MirrorInv, LastInv, Last, Undone, OnEntry, AtEntry, Forward
  <1>39. CASE \E n \in Names, r \in Roles : Squat(n, r)
    BY <1>39 DEF Squat, Meddle, memory, MirrorInv, LastInv, Last, Undone, OnEntry, AtEntry, Forward
  <1> QED
    BY <1>1, <1>2, <1>3, <1>4, <1>5, <1>6, <1>7, <1>8, <1>9, <1>10, <1>11, <1>12, <1>13, <1>14, <1>15, <1>16, <1>17, <1>18, <1>19, <1>20, <1>21, <1>22, <1>23, <1>24, <1>25, <1>26, <1>27, <1>28, <1>29, <1>30, <1>31, <1>32, <1>33, <1>34, <1>35, <1>36, <1>37, <1>38, <1>39
    DEF Next, Begin, Work, Reconcile, Undo, Outside

(* What is recorded is an entry.                                           *)
LEMMA RecordShape ==
    ASSUME TypeOK, CursorInv, RecordCreate \/ RecordStart \/ RecordReplace
    PROVE  \E e \in Entry : \E l : Record(e, l)
  <1>1. CASE RecordCreate
    <2>1. PICK e : /\ Record(e, "create")
                   /\ e = [kind |-> "create", name |-> cur, id |-> 0,
                           was |-> FALSE, new |-> 0]
      BY <1>1 DEF RecordCreate
    <2> QED BY <1>1, <2>1 DEF RecordCreate, CursorInv, Entry
  <1>2. CASE RecordStart
    <2>1. PICK e : /\ Record(e, "start")
                   /\ \E i \in Live(view) :
                        e = [kind |-> "start", name |-> cur, id |-> i,
                             was |-> FALSE, new |-> 0]
      BY <1>2 DEF RecordStart
    <2> QED BY <1>2, <2>1 DEF RecordStart, CursorInv, Entry, Live
  <1>3. CASE RecordReplace
    <2>1. PICK e : /\ Record(e, "create")
                   /\ \E i \in Live(view) :
                        e = [kind |-> "replace", name |-> cur, id |-> i,
                             was |-> Up(view[i]), new |-> 0]
      BY <1>3 DEF RecordReplace
    <2> QED BY <1>3, <2>1 DEF RecordReplace, CursorInv, Entry, Live, Up
  <1> QED BY <1>1, <1>2, <1>3

(* What a journal describes.                                               *)
LEMMA DescribesMirror ==
    ASSUME NEW j \in Journal, NEW k \in Journal, SameShape(j, k)
    PROVE  \A n : Describes(j, n) <=> Describes(k, n)
  BY DEF SameShape, Describes

LEMMA DescribesAppended ==
    ASSUME NEW j \in Journal, NEW e \in Entry
    PROVE  \A n : Describes(j, n) => Describes(Appended(j, e), n)
  <1> DEFINE a == Appended(j, e)
  <1>a. Len(j.entries) \in Nat
    BY DEF Journal
  <1>1. /\ Len(a.entries) = Len(j.entries) + 1
        /\ \A k \in 1 .. Len(j.entries) : a.entries[k] = j.entries[k]
    BY AppendedType
  <1> HIDE DEF a
  <1>2. \A k \in 1 .. Len(j.entries) : k \in 1 .. Len(a.entries)
    BY <1>a, <1>1
  <1>3. \A n : Describes(j, n) => Describes(a, n)
    BY <1>1, <1>2 DEF Describes
  <1> QED BY <1>3 DEF a

LEMMA DescribesFilled ==
    ASSUME NEW j \in Journal, NEW i \in Ids \cup {0}, Len(j.entries) > 0
    PROVE  \A n : Describes(j, n) => Describes(Filled(j, i), n)
  BY FilledType DEF Describes

(* Recorded survives a step that makes no container and forgets nothing.   *)
LEMMA RecordedFrame ==
    ASSUME Recorded, Tame(box'), nonce' = nonce,
           disk # NoJournal \/ job.phase = "txn",
           disk.nonce = nonce => disk'.nonce = nonce,
           \A n : Describes(disk, n) => Describes(disk', n)
    PROVE  Recorded'
  <1>1. \A i \in Ours(box') : /\ i \in Ours(box) /\ box'[i].nonce = box[i].nonce
                              /\ box'[i].name = box[i].name
    BY DEF Tame, SameLabels, Ours, Live, Managed
  <1> QED BY <1>1 DEF Recorded

(* Every container of an open transaction is described by the journal on   *)
(* disk: recording comes first, and only Create makes one.                 *)
LEMMA RecordedStep ==
    ASSUME TypeOK, IdsInv, CursorInv, PhaseInv, JournalInv, MirrorInv, LastInv,
           Recorded, [Next]_vars
    PROVE  Recorded'
  <1>a. /\ tx \in Journal /\ disk \in Journal /\ nonce \in Nat
        /\ NoJournal \in Journal /\ NoJournal.nonce = 0
    BY ConstantTypes, BoundsAssumption DEF TypeOK, WorldOK, MemoryOK, NoJournal
  <1>1. CASE ~Writes /\ ~Opens /\ ~Closes /\ ~Makes
    <2>1. /\ UNCHANGED <<disk, nonce>> /\ Tame(box')
          /\ job'.phase = "txn" => job.phase = "txn"
      BY <1>1, OrdinaryStep, TameStep DEF Makes
    <2>2. CASE disk # NoJournal \/ job.phase = "txn"
      BY <2>1, <2>2, RecordedFrame
    <2>3. CASE ~(disk # NoJournal \/ job.phase = "txn")
      BY <2>1, <2>3 DEF Recorded
    <2> QED BY <2>2, <2>3
  <1>2. CASE RecordCreate \/ RecordStart \/ RecordReplace
    <2>1. PICK e \in Entry : \E l : Record(e, l)
      BY <1>2, RecordShape
    <2>2. /\ disk' = disk \/ disk' = Appended(tx, e)
          /\ e \in Entry
      BY <2>1, RecordCases
    <2>3. /\ pc = "record" /\ nonce' = nonce /\ box' = box
      BY <1>2 DEF RecordCreate, RecordStart, RecordReplace, docker
    <2>4. job.phase = "txn" /\ tx.nonce = nonce /\ SameShape(tx, disk)
      BY <2>3 DEF PhaseInv, JournalInv, MirrorInv, Forward
    <2>5. /\ disk.nonce = nonce => disk'.nonce = nonce
          /\ \A n : Describes(disk, n) => Describes(disk', n)
      BY <1>a, <2>2, <2>4, AppendedType, DescribesMirror, DescribesAppended
    <2>6. Tame(box')
      BY <2>3, TameEffects
    <2> QED BY <2>3, <2>4, <2>5, <2>6, RecordedFrame
  <1>3. CASE Backfill
    <2>1. /\ disk' = disk \/ disk' = Filled(tx, minted)
          /\ pc = "backfill" /\ nonce' = nonce /\ box' = box
      BY <1>3 DEF Backfill, docker
    <2>2. minted \in Ids \cup {0} /\ Len(tx.entries) > 0
      BY <2>1, BoundsAssumption
      DEF CursorInv, OnEntry, TypeOK, WorldOK, MemoryOK, Ids, Stranger, Journal
    <2>3. job.phase = "txn" /\ tx.nonce = nonce /\ SameShape(tx, disk)
      BY <2>1 DEF PhaseInv, JournalInv, MirrorInv, Forward
    <2>4. /\ disk.nonce = nonce => disk'.nonce = nonce
          /\ \A n : Describes(disk, n) => Describes(disk', n)
      BY <1>a, <2>1, <2>2, <2>3, FilledType, DescribesMirror, DescribesFilled
    <2>5. Tame(box')
      BY <2>1, TameEffects
    <2> QED BY <2>1, <2>3, <2>4, <2>5, RecordedFrame
  <1>4. CASE Prepare
    <2>1. CASE Rest
      <3>1. disk' = NoJournal /\ job'.phase # "txn"
        BY <1>4, <2>1 DEF Prepare, Rest, NoJob, PhaseInv, Quiet
      <3> QED BY <3>1 DEF Recorded
    <2>2. CASE ~Rest
      <3>1. nonce' = nonce + 1 /\ box' = box
        BY <1>4, <2>2 DEF Prepare, docker
      <3>2. \A i \in Ours(box) : box[i].nonce <= nonce /\ box[i].nonce \in Nat
        BY BoundsAssumption DEF Ours, IdsInv, TypeOK, WorldOK, Container, Live
      <3> QED BY <1>a, <3>1, <3>2 DEF Recorded
    <2> QED BY <2>1, <2>2
  <1>5. CASE Closes
    <2>1. box' = box /\ nonce' = nonce /\ (disk' = disk \/ disk' = NoJournal)
      BY <1>5 DEF Closes, Commit, Erase, DownErase, docker
    <2>2. job'.phase # "txn"
      <3>1. \A p : [job EXCEPT !.phase = p].phase = p
        BY DEF TypeOK, MemoryOK, Job
      <3>2. CASE Commit
        <4>1. job' = [job EXCEPT !.phase = "done"] \/ job' = NoJob
          BY <3>2 DEF Commit, Rest
        <4>2. [job EXCEPT !.phase = "done"].phase = "done" /\ NoJob.phase = "none"
          BY <3>1 DEF NoJob
        <4>3. job'.phase \in {"done", "none"}
          BY <4>1, <4>2, Zenon
        <4> QED BY <4>3
      <3>3. CASE Erase
        BY <3>3 DEF Erase, Rest, NoJob
      <3>4. CASE DownErase
        BY <3>4 DEF DownErase, Rest, NoJob
      <3> QED BY <1>5, <3>2, <3>3, <3>4 DEF Closes
    <2>3. CASE disk' = NoJournal
      BY <2>2, <2>3 DEF Recorded
    <2>4. CASE disk' = disk /\ disk # NoJournal
      BY <2>1, <2>4, TameEffects, RecordedFrame
    <2> QED BY <2>1, <2>3, <2>4
  <1>6. CASE Create
    <2>1. /\ UNCHANGED <<disk, nonce>>
          /\ \/ box' = box
             \/ /\ Live(box') \subseteq Live(box) \cup {minted + 1}
                /\ \A i \in Live(box') : i # minted + 1 => box'[i] = box[i]
                /\ box'[minted + 1].name = cur
      BY <1>6, CreateBox
    <2>2. /\ pc = "create" /\ job.phase = "txn" /\ tx.nonce = nonce
          /\ written /\ disk # NoJournal /\ SameShape(tx, disk)
      BY <1>6 DEF Create, PhaseInv, JournalInv, MirrorInv, Forward, OnEntry
    <2>3. disk.nonce = nonce
      BY <2>2 DEF JournalInv
    <2>4. Len(tx.entries) \in 1 .. Len(tx.entries)
      BY <2>2, <1>a DEF CursorInv, OnEntry, Journal
    <2>5. Describes(tx, cur)
      BY <2>2, <2>4 DEF LastInv, Last, OnEntry, Describes
    <2>6. Describes(disk, cur)
      BY <1>a, <2>2, <2>5, DescribesMirror
    <2>7. \A i \in Ours(box') : box'[i].name = cur \/ (i \in Ours(box) /\ box'[i] = box[i])
      BY <2>1 DEF Ours, Managed
    <2> QED BY <2>1, <2>2, <2>3, <2>6, <2>7 DEF Recorded
  <1>7. CASE \E n \in Names, r \in Roles : Squat(n, r)
    <2>1. /\ UNCHANGED <<disk, nonce, job>>
          /\ \A i \in Ids : i # Stranger => box'[i] = box[i]
          /\ box'[Stranger].cand = Foreign
      BY <1>7, ConstantTypes DEF Squat, Meddle, memory, TypeOK, WorldOK
    <2>2. \A i \in Ours(box') : i \in Ours(box) /\ box'[i] = box[i]
      BY <2>1 DEF Ours, Managed, Live
    <2> QED BY <2>1, <2>2 DEF Recorded
  <1> QED BY <1>1, <1>2, <1>3, <1>4, <1>5, <1>6, <1>7
      DEF Writes, Opens, Makes

LEMMA InitIds ==
    ASSUME Init PROVE IdsInv
  <1>a. \/ box = Nothing
        \/ /\ Size <= MaxIds /\ minted = Size
           /\ \E c \in Cands : \E up \in SUBSET Desired[c] : box = Installed(c, up)
    BY DEF Init
  <1>1. CASE box = Nothing
    BY <1>1 DEF Nothing, NoContainer, IdsInv, Live
  <1>2. CASE box # Nothing
    <2>1. PICK c \in Cands : /\ Size <= MaxIds /\ minted = Size /\ nonce = 0
                             /\ \E up : box = Installed(c, up)
      BY <1>a, <1>2 DEF Init
    <2>2. \A i \in Live(box) : /\ i \in Desired[c] /\ box[i].cand = c
                               /\ box[i].nonce = 0
      BY <2>1 DEF Live, Installed, NoContainer
    <2>3. /\ \A i \in Desired[c] : i \in 1 .. Size
          /\ c # Foreign /\ Size \in Nat /\ MaxIds \in Nat
      BY PlanAssumption, BoundsAssumption DEF Names
    <2> QED BY <2>1, <2>2, <2>3 DEF IdsInv, Managed, Stranger
  <1> QED BY <1>1, <1>2

(* In no reachable state, whatever failed or died on the way, does a       *)
(* container of an open or interrupted transaction exist that the journal  *)
(* on disk does not describe: undo can always find what it must remove.    *)
THEOREM RecordedTheorem == Spec => []Recorded
  <1> DEFINE Inv == /\ TypeOK /\ CursorInv /\ PhaseInv /\ JournalInv
                    /\ IdsInv /\ MirrorInv /\ LastInv /\ Recorded
  <1>1. Init => Inv
    <2> SUFFICES ASSUME Init PROVE Inv
      OBVIOUS
    <2>1. pc = "idle" /\ disk = NoJournal /\ job.phase = "none"
      BY DEF Init, NoJob
    <2>2. MirrorInv /\ LastInv /\ Recorded
      BY <2>1 DEF MirrorInv, LastInv, Recorded, Forward, OnEntry, AtEntry
    <2> QED BY <2>2, InitType, InitIds
  <1>2. Inv /\ [Next]_vars => Inv'
    BY WorldStep, MemoryStep, CursorStep, PhaseStep, IdsStep, EntryStep, RecordedStep
    DEF TypeOK
  <1>3. Inv => Recorded
    OBVIOUS
  <1> QED BY <1>1, <1>2, <1>3, PTL DEF Spec

=============================================================================
