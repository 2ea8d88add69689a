---------------------------- MODULE IntentGate -----------------------------
(***************************************************************************)
(* One lock name of internal/lock: flock_unix.go in several processes.     *)
(*                                                                         *)
(* Every caller first passes the name's intent gate, and keeps the intent  *)
(* while it polls the main lock.  A process has one gate: its callers      *)
(* queue under gate.mu, and one worker goroutine takes the kernel's intent *)
(* flock for them, one at a time.  Each action is what the code does       *)
(* without letting go of gate.mu, or one blocking step outside of it.      *)
(*                                                                         *)
(* `mutant of D' marks a version of D with a plausible bug; it is no part  *)
(* of the model and only shows that a property notices.                    *)
(***************************************************************************)
EXTENDS Naturals, Sequences, FiniteSets

CONSTANTS
    Procs,      \* processes
    Callers,    \* goroutines that acquire the name
    Proc,       \* [Callers -> Procs]: whose goroutine it is
    MaxQueue    \* bound: requests in one queue, canceled ones included

ASSUME CallersAssumption == Proc \in [Callers -> Procs] /\ MaxQueue \in Nat

VARIABLES
    queue,      \* [Procs -> Seq(Request)]
    active,     \* the worker is draining the queue
    broken,     \* a failed unlock poisoned the gate
    wake,       \* a value lies in the wake channel
    worker,     \* where the worker goroutine is
    serving,    \* the request whose done channel is still open, if any
    intent,     \* the process that holds the kernel's intent flock, if any
    inside,     \* the callers that hold the main flock
    pc, how,    \* where a caller is, and the mode it asks for
    granted     \* [Callers -> Channel]: what lies in req.granted

gate    == <<queue, active, broken>>
callers == <<pc, how, granted>>
vars    == <<gate, wake, worker, serving, intent, inside, callers>>

Request   == [by : Callers, canceled : BOOLEAN]
Outcome   == {"intent", "error"}
Channel   == {<<>>} \cup {<<o>> : o \in Outcome}      \* buffered 1
Mode      == {"shared", "exclusive"}
WorkerPC  == {"asleep", "look", "flock", "grant", "serve", "unlock", "dead"}
CallerPC  == {"idle", "select", "cancel", "poll", "back", "hold"}

Mates(p)  == {c \in Callers : Proc[c] = p}

(* The state's type.  A send on a full granted channel would block its     *)
(* sender under gate.mu for good; no state needs a second place in it.     *)
TypeOK ==
    /\ queue \in [Procs -> Seq(Request)]
    /\ active \in [Procs -> BOOLEAN] /\ broken \in [Procs -> BOOLEAN]
    /\ wake \in [Procs -> BOOLEAN]
    /\ worker \in [Procs -> WorkerPC]
    /\ serving \in [Procs -> SUBSET Callers]
    /\ intent \in SUBSET Procs
    /\ inside \in SUBSET Callers
    /\ pc \in [Callers -> CallerPC]
    /\ how \in [Callers -> Mode \cup {"none"}]
    /\ granted \in [Callers -> Channel]

Init ==
    /\ queue = [p \in Procs |-> <<>>]
    /\ active = [p \in Procs |-> FALSE] /\ broken = [p \in Procs |-> FALSE]
    /\ wake = [p \in Procs |-> FALSE]
    /\ worker = [p \in Procs |-> "asleep"]
    /\ serving = [p \in Procs |-> {}]
    /\ intent = {} /\ inside = {}
    /\ pc = [c \in Callers |-> "idle"] /\ how = [c \in Callers |-> "none"]
    /\ granted = [c \in Callers |-> <<>>]

----------------------------------------------------------------------------
(* Callers.                                                                *)

Leave(c) == pc' = [pc EXCEPT ![c] = "idle"] /\ how' = [how EXCEPT ![c] = "none"]
Move(c, l) == pc' = [pc EXCEPT ![c] = l] /\ UNCHANGED how

(* A poisoned gate refuses at once; the caller stays where it was.         *)
Acquire(c, h) ==
    LET p == Proc[c]
    IN  /\ pc[c] = "idle" /\ ~broken[p] /\ Len(queue[p]) < MaxQueue
        /\ queue' = [queue EXCEPT ![p] = Append(@, [by |-> c, canceled |-> FALSE])]
        /\ active' = [active EXCEPT ![p] = TRUE]
        /\ wake' = [wake EXCEPT ![p] = @ \/ ~active[p]]
        /\ pc' = [pc EXCEPT ![c] = "select"] /\ how' = [how EXCEPT ![c] = h]
        /\ UNCHANGED <<broken, worker, serving, intent, inside, granted>>

(* mutant of Receive: intent is handed back before the lock is polled *)
ReceiveAndLetGo(c) ==
    /\ pc[c] = "select" /\ granted[c] # <<>>
    /\ granted' = [granted EXCEPT ![c] = Tail(@)]
    /\ IF Head(granted[c]) = "intent" THEN Move(c, "poll") ELSE Leave(c)
    /\ serving' = [serving EXCEPT ![Proc[c]] = {}]
    /\ UNCHANGED <<gate, wake, worker, intent, inside>>

(* The select's two branches: the worker's answer, or ctx.Done.            *)
Receive(c) ==
    /\ pc[c] = "select" /\ granted[c] # <<>>
    /\ granted' = [granted EXCEPT ![c] = Tail(@)]
    /\ IF Head(granted[c]) = "intent" THEN Move(c, "poll") ELSE Leave(c)
    /\ UNCHANGED <<gate, wake, worker, serving, intent, inside>>

Done(c) ==
    /\ pc[c] = "select" /\ Move(c, "cancel")
    /\ UNCHANGED <<gate, wake, worker, serving, intent, inside, granted>>

Struck(c) ==
    [i \in DOMAIN queue[Proc[c]] |->
        IF queue[Proc[c]][i].by = c THEN [queue[Proc[c]][i] EXCEPT !.canceled = TRUE]
        ELSE queue[Proc[c]][i]]

(* mutant of Cancel: a grant that raced the cancellation is forgotten *)
CancelKeeping(c) ==
    /\ pc[c] = "cancel" /\ Leave(c)
    /\ granted' = [granted EXCEPT ![c] = <<>>]
    /\ queue' = [queue EXCEPT ![Proc[c]] = Struck(c)]
    /\ UNCHANGED <<active, broken, wake, worker, serving, intent, inside>>

(* Under gate.mu: either the answer is already there, and an intent is     *)
(* released, or the request is marked canceled.                            *)
Cancel(c) ==
    /\ pc[c] = "cancel" /\ Leave(c)
    /\ \/ /\ granted[c] # <<>> /\ granted' = [granted EXCEPT ![c] = Tail(@)]
          /\ serving' = (IF Head(granted[c]) = "intent"
                         THEN [serving EXCEPT ![Proc[c]] = {}] ELSE serving)
          /\ UNCHANGED queue
       \/ /\ granted[c] = <<>>
          /\ queue' = [queue EXCEPT ![Proc[c]] = Struck(c)]
          /\ UNCHANGED <<granted, serving>>
    /\ UNCHANGED <<active, broken, wake, worker, intent, inside>>

(* flock(LOCK_NB) on the main lock; the kernel's shared/exclusive rule.    *)
Compatible(c) == \A d \in inside : how[c] = "shared" /\ how[d] = "shared"

Poll(c) ==
    /\ pc[c] = "poll" /\ Compatible(c)
    /\ inside' = inside \cup {c} /\ Move(c, "back")
    /\ UNCHANGED <<gate, wake, worker, serving, intent, granted>>

(* The file does not open, flock fails, or the context ends between polls. *)
PollFails(c) ==
    /\ pc[c] = "poll" /\ Move(c, "back")
    /\ UNCHANGED <<gate, wake, worker, serving, intent, inside, granted>>

(* grant.release(), after the poll either way.                             *)
HandBack(c) ==
    /\ pc[c] = "back"
    /\ serving' = [serving EXCEPT ![Proc[c]] = {}]
    /\ IF c \in inside THEN Move(c, "hold") ELSE Leave(c)
    /\ UNCHANGED <<gate, wake, worker, intent, inside, granted>>

Release(c) ==
    /\ pc[c] = "hold" /\ Leave(c) /\ inside' = inside \ {c}
    /\ UNCHANGED <<gate, wake, worker, serving, intent, granted>>

----------------------------------------------------------------------------
(* The worker.                                                             *)

Step(p, l) == worker' = [worker EXCEPT ![p] = l]

Wake(p) ==
    /\ worker[p] = "asleep" /\ wake[p]
    /\ wake' = [wake EXCEPT ![p] = FALSE] /\ Step(p, "look")
    /\ UNCHANGED <<gate, serving, intent, inside, callers>>

(* dropCanceled: the queue from its first live request on.                 *)
Fresh(q) ==
    LET live == {i \in DOMAIN q : ~q[i].canceled}
        k    == CHOOSE i \in live : \A j \in live : i <= j
    IN  IF live = {} THEN <<>> ELSE SubSeq(q, k, Len(q))

(* mutant of PendingWork: the worker goes to sleep still marked active *)
PendingWorkActive(p) ==
    /\ worker[p] = "look"
    /\ queue' = [queue EXCEPT ![p] = Fresh(@)]
    /\ Step(p, IF Fresh(queue[p]) = <<>> THEN "asleep" ELSE "flock")
    /\ UNCHANGED <<active, broken, wake, serving, intent, inside, callers>>

PendingWork(p) ==
    /\ worker[p] = "look"
    /\ queue' = [queue EXCEPT ![p] = Fresh(@)]
    /\ active' = [active EXCEPT ![p] = Fresh(queue[p]) # <<>>]
    /\ Step(p, IF Fresh(queue[p]) = <<>> THEN "asleep" ELSE "flock")
    /\ UNCHANGED <<broken, wake, serving, intent, inside, callers>>

(* The blocking flock returns with the intent lock, or with an error.      *)
Flock(p) ==
    /\ worker[p] = "flock" /\ intent = {}
    /\ intent' = {p} /\ Step(p, "grant")
    /\ UNCHANGED <<gate, wake, serving, inside, callers>>

FlockFails(p) ==
    /\ worker[p] = "flock" /\ Step(p, "grant")
    /\ UNCHANGED <<gate, wake, serving, intent, inside, callers>>

Send(c, o) == granted' = [granted EXCEPT ![c] = Append(@, o)]

(* mutant of GrantHead: the lock taken for a canceled head is passed on *)
GrantNext(p) ==
    LET q == Fresh(queue[p])
    IN  /\ worker[p] = "grant" /\ p \in intent
        /\ \/ /\ q = <<>> /\ Step(p, "unlock")
              /\ queue' = [queue EXCEPT ![p] = q]
              /\ active' = [active EXCEPT ![p] = FALSE]
              /\ UNCHANGED <<serving, granted>>
           \/ /\ q # <<>> /\ Step(p, "serve")
              /\ queue' = [queue EXCEPT ![p] = Tail(q)]
              /\ serving' = [serving EXCEPT ![p] = {Head(q).by}]
              /\ Send(Head(q).by, "intent") /\ UNCHANGED active
        /\ UNCHANGED <<broken, wake, intent, inside, pc, how>>

(* mutant of GrantHead: the request that got its answer stays queued *)
GrantAgain(p) ==
    LET q == Fresh(queue[p])
    IN  /\ worker[p] = "grant"
        /\ IF q = <<>> \/ q # queue[p]
           THEN /\ queue' = [queue EXCEPT ![p] = q]
                /\ active' = [active EXCEPT ![p] = @ /\ q # <<>>]
                /\ Step(p, IF p \in intent THEN "unlock" ELSE "look")
                /\ UNCHANGED <<serving, granted>>
           ELSE /\ Send(Head(q).by, IF p \in intent THEN "intent" ELSE "error")
                /\ serving' = [serving EXCEPT ![p] =
                                   IF p \in intent THEN {Head(q).by} ELSE {}]
                /\ Step(p, IF p \in intent THEN "serve" ELSE "look")
                /\ UNCHANGED <<queue, active>>
        /\ UNCHANGED <<broken, wake, intent, inside, pc, how>>

(* Hand the outcome to the head.  When the head this acquisition was made  *)
(* for has canceled, nobody gets it.                                       *)
GrantHead(p) ==
    LET q == Fresh(queue[p])
    IN  /\ worker[p] = "grant"
        /\ IF q = <<>> \/ q # queue[p]
           THEN /\ queue' = [queue EXCEPT ![p] = q]
                /\ active' = [active EXCEPT ![p] = @ /\ q # <<>>]
                /\ Step(p, IF p \in intent THEN "unlock" ELSE "look")
                /\ UNCHANGED <<serving, granted>>
           ELSE /\ queue' = [queue EXCEPT ![p] = Tail(q)]
                /\ Send(Head(q).by, IF p \in intent THEN "intent" ELSE "error")
                /\ serving' = [serving EXCEPT ![p] =
                                   IF p \in intent THEN {Head(q).by} ELSE {}]
                /\ Step(p, IF p \in intent THEN "serve" ELSE "look")
                /\ UNCHANGED active
        /\ UNCHANGED <<broken, wake, intent, inside, pc, how>>

(* The holder closed its done channel.                                     *)
Served(p) ==
    /\ worker[p] = "serve" /\ serving[p] = {} /\ Step(p, "unlock")
    /\ UNCHANGED <<gate, wake, serving, intent, inside, callers>>

Unlock(p) ==
    /\ worker[p] = "unlock" /\ intent' = intent \ {p} /\ Step(p, "look")
    /\ UNCHANGED <<gate, wake, serving, inside, callers>>

Live(p) == {queue[p][i].by : i \in {k \in DOMAIN queue[p] : ~queue[p][k].canceled}}

(* mutant of Poison: the callers in the queue are not told *)
PoisonQuietly(p) ==
    /\ worker[p] = "unlock" /\ Step(p, "dead") /\ intent' = intent \ {p}
    /\ broken' = [broken EXCEPT ![p] = TRUE]
    /\ queue' = [queue EXCEPT ![p] = <<>>]
    /\ active' = [active EXCEPT ![p] = FALSE]
    /\ UNCHANGED <<wake, serving, inside, callers>>

(* mutant of Poison: the descriptor stays open, and the flock with it *)
PoisonHolding(p) ==
    /\ worker[p] = "unlock" /\ Step(p, "dead") /\ UNCHANGED intent
    /\ broken' = [broken EXCEPT ![p] = TRUE]
    /\ granted' = [c \in Callers |-> IF c \in Live(p) THEN Append(granted[c], "error")
                                     ELSE granted[c]]
    /\ queue' = [queue EXCEPT ![p] = <<>>]
    /\ active' = [active EXCEPT ![p] = FALSE]
    /\ UNCHANGED <<wake, serving, inside, pc, how>>

(* LOCK_UN fails: everybody queued is told, the gate refuses from now on,  *)
(* and closing the descriptor drops the flock.                             *)
Poison(p) ==
    /\ worker[p] = "unlock" /\ Step(p, "dead") /\ intent' = intent \ {p}
    /\ broken' = [broken EXCEPT ![p] = TRUE]
    /\ granted' = [c \in Callers |-> IF c \in Live(p) THEN Append(granted[c], "error")
                                     ELSE granted[c]]
    /\ queue' = [queue EXCEPT ![p] = <<>>]
    /\ active' = [active EXCEPT ![p] = FALSE]
    /\ UNCHANGED <<wake, serving, inside, pc, how>>

----------------------------------------------------------------------------
(* A process dies and another takes its place: the kernel drops its locks. *)
Crash(p) ==
    /\ queue' = [queue EXCEPT ![p] = <<>>]
    /\ active' = [active EXCEPT ![p] = FALSE] /\ broken' = [broken EXCEPT ![p] = FALSE]
    /\ wake' = [wake EXCEPT ![p] = FALSE] /\ Step(p, "asleep")
    /\ serving' = [serving EXCEPT ![p] = {}]
    /\ intent' = intent \ {p} /\ inside' = inside \ Mates(p)
    /\ pc' = [c \in Callers |-> IF Proc[c] = p THEN "idle" ELSE pc[c]]
    /\ how' = [c \in Callers |-> IF Proc[c] = p THEN "none" ELSE how[c]]
    /\ granted' = [c \in Callers |-> IF Proc[c] = p THEN <<>> ELSE granted[c]]

Call(c) ==
    \/ \E h \in Mode : Acquire(c, h)
    \/ Receive(c) \/ Done(c) \/ Cancel(c)
    \/ Poll(c) \/ PollFails(c) \/ HandBack(c) \/ Release(c)

Work(p) ==
    \/ Wake(p) \/ PendingWork(p) \/ Flock(p) \/ FlockFails(p)
    \/ GrantHead(p) \/ Served(p) \/ Unlock(p) \/ Poison(p)

Next == (\E c \in Callers : Call(c)) \/ (\E p \in Procs : Work(p) \/ Crash(p))

Spec == Init /\ [][Next]_vars

----------------------------------------------------------------------------
(* Properties.                                                             *)

(* The worker waits for this caller's release.                             *)
HasTurn(c) ==
    \/ pc[c] \in {"select", "cancel"} /\ granted[c] = <<"intent">>
    \/ pc[c] \in {"poll", "back"}

Unanswered(c) == pc[c] \in {"select", "cancel"} /\ granted[c] = <<>>

(* Exactly one of grant and cancellation wins (intentGate.acquire): a done *)
(* channel the worker waits on always has one caller that will close it,   *)
(* and a caller that has intent has the worker waiting for it.             *)
GrantsAreOwned ==
    \A p \in Procs :
        /\ serving[p] = {c \in Mates(p) : HasTurn(c)}
        /\ \A c, d \in serving[p] : c = d

(* Nobody is forgotten: a caller with no answer yet has a live request in  *)
(* the queue of a worker that is up, or about to be woken.  Poisoning, the *)
(* idle transition and the buffered wake channel all have to respect it.   *)
Attended ==
    \A c \in Callers : Unanswered(c) =>
        /\ c \in Live(Proc[c])
        /\ worker[Proc[c]] # "dead"
        /\ worker[Proc[c]] = "asleep" => wake[Proc[c]]

(* The intent flock never stays behind a worker that is idle, gone or      *)
(* waiting for it: that would wedge every other process, undetected.       *)
IntentInUse ==
    \A p \in Procs :
        /\ p \in intent => worker[p] \in {"grant", "serve", "unlock"}
        /\ worker[p] \in {"serve", "unlock"} => intent = {p}

(* One kernel acquisition serves the request it was made for: a canceled   *)
(* head's lock is not transferred to the next live caller (grantHead).     *)
NotTransferred ==
    [][\A c \in Callers :
         ~HasTurn(c) /\ HasTurn(c)' =>
            Head(queue[Proc[c]]) = [by |-> c, canceled |-> FALSE]]_vars

(* Callers on their way to intent, and those that have it.                 *)
Line == {c \in Callers : pc[c] \in {"select", "cancel"} /\ ~HasTurn(c)}
Turn == {c \in Callers : HasTurn(c)}

(* The gate, the main flock and their processes implement one turnstile:   *)
(* over all processes one caller at a time may poll, so no newcomer gets   *)
(* in ahead of a waiter that drains the holders (FlockLocker's comment).   *)
Passage == INSTANCE Turnstile WITH line <- Line, turn <- Turn

OneTurnstile == Passage!Spec

(* Goroutines that can go on do so, and holders release.  Nothing is asked *)
(* of new calls, of contexts, of failures, or of which process the kernel  *)
(* gives the intent flock to.                                              *)
Proceeds(c) == Receive(c) \/ Cancel(c) \/ Poll(c) \/ HandBack(c) \/ Release(c)
Runs(p)     == \/ Wake(p) \/ PendingWork(p) \/ Flock(p) \/ GrantHead(p) \/ Served(p)
               \/ Unlock(p) \/ Poison(p)

FairSpec ==
    /\ Spec
    /\ \A c \in Callers : WF_vars(Proceeds(c))
    /\ \A p \in Procs : WF_vars(Runs(p))

(* A caller that polls gets in, or gives up: a stream of shared holders    *)
(* does not starve it (TestExclusiveNotStarvedBySharedChurn).              *)
Drains == \A c \in Callers : pc[c] = "poll" ~> pc[c] # "poll"

(* If the kernel lets every process have the intent flock again and again, *)
(* every call returns from the gate.                                       *)
Returns ==
    (\A p \in Procs : SF_vars(Flock(p))) =>
        \A c \in Callers : pc[c] = "select" ~> pc[c] \notin {"select", "cancel"}

=============================================================================
