-------------------------- MODULE IntentGateProofs --------------------------
(***************************************************************************)
(* Proofs about IntentGate, for any processes, callers and queue bound.    *)
(***************************************************************************)
EXTENDS IntentGate, WellFoundedInduction, TLAPS

(* The parts of the inductive invariant besides the properties.            *)
OneIntent  == \A p, q \in intent : p = q
ServeInv   == \A p \in Procs : serving[p] # {} => worker[p] = "serve"
ChannelInv == \A c \in Callers : granted[c] # <<>> => pc[c] \in {"select", "cancel"}

(* A queue's live requests, their callers, at most one request each.       *)
Waiting(q) == {q[i].by : i \in {k \in DOMAIN q : ~q[k].canceled}}
OneEach(q) ==
    \A i, j \in DOMAIN q :
        ~q[i].canceled /\ ~q[j].canceled /\ q[i].by = q[j].by => i = j

QueueInv ==
    \A p \in Procs :
        /\ OneEach(queue[p])
        /\ Waiting(queue[p]) = {c \in Mates(p) : Unanswered(c)}

ActiveInv ==
    \A p \in Procs :
        /\ broken[p] <=> worker[p] = "dead"
        /\ active[p] => worker[p] # "dead" /\ (worker[p] = "asleep" => wake[p])
        /\ worker[p] = "asleep" /\ ~wake[p] => Waiting(queue[p]) = {}
        /\ worker[p] = "dead" => Waiting(queue[p]) = {}

InsideInv ==
    \A c \in Callers :
        /\ how[c] = "none" <=> pc[c] = "idle"
        /\ c \in inside => pc[c] \in {"back", "hold"}
        /\ pc[c] = "hold" => c \in inside

Inv ==
    /\ TypeOK /\ IntentInUse /\ OneIntent /\ ServeInv /\ GrantsAreOwned
    /\ ChannelInv /\ QueueInv /\ ActiveInv /\ InsideInv

-----------------------------------------------------------------------------
(* Channels and queues.                                                    *)

(* A channel of capacity one, sent to and received from.                   *)
LEMMA ChannelFacts ==
    /\ \A g \in Channel : g # <<>> => /\ Head(g) \in Outcome /\ Tail(g) = <<>>
                                      /\ g = <<Head(g)>>
    /\ \A o \in Outcome : Append(<<>>, o) = <<o>> /\ <<o>> \in Channel /\ <<o>> # <<>>
    /\ <<>> \in Channel /\ <<"intent">> # <<"error">>
  <1>1. \A o \in Outcome : Append(<<>>, o) = <<o>> /\ <<o>> \in Channel /\ <<o>> # <<>>
    <2> SUFFICES ASSUME NEW o \in Outcome
                 PROVE  Append(<<>>, o) = <<o>> /\ <<o>> \in Channel /\ <<o>> # <<>>
      OBVIOUS
    <2>1. Append(<<>>, o) = <<o>>
      OBVIOUS
    <2>2. <<o>> \in Channel
      BY DEF Channel
    <2>3. <<o>> # <<>>
      OBVIOUS
    <2> QED BY <2>1, <2>2, <2>3
  <1>2. ASSUME NEW o \in Outcome
        PROVE  Head(<<o>>) = o /\ Tail(<<o>>) = <<>>
    OBVIOUS
  <1>3. <<>> \in Channel
    BY DEF Channel
  <1>4. <<"intent">> # <<"error">>
    OBVIOUS
  <1>5. \A g \in Channel : g = <<>> \/ \E o \in Outcome : g = <<o>>
    BY DEF Channel
  <1>6. ASSUME NEW g \in Channel, g # <<>>
        PROVE  Head(g) \in Outcome /\ Tail(g) = <<>> /\ g = <<Head(g)>>
    <2>1. PICK o \in Outcome : g = <<o>>
      BY <1>5, <1>6
    <2> QED BY <2>1, <1>2
  <1> QED BY <1>1, <1>3, <1>4, <1>6

(* A set of naturals that is not empty has a least element.                *)
LEMMA LeastElement ==
    ASSUME NEW S \in SUBSET Nat, S # {}
    PROVE  \E i \in S : \A j \in S : i <= j
  <1>1. IsWellFoundedOn(OpToRel(<, Nat), Nat)
    BY NatLessThanWellFounded
  <1>2. PICK i \in S : \A j \in S : ~(<<j, i>> \in OpToRel(<, Nat))
    BY <1>1, WFMin
  <1>3. \A j \in S : <<j, i>> \in OpToRel(<, Nat) <=> j < i
    BY DEF OpToRel
  <1>4. \A j \in S : ~(j < i)
    BY <1>2, <1>3, Zenon
  <1> QED BY <1>4

(* dropCanceled keeps every live request, and stops at the first.          *)
LEMMA FreshFacts ==
    ASSUME NEW q \in Seq(Request)
    PROVE  LET f == Fresh(q)
           IN  \/ /\ f = <<>> /\ \A i \in DOMAIN q : q[i].canceled
               \/ \E k \in DOMAIN q :
                    /\ f = SubSeq(q, k, Len(q)) /\ ~q[k].canceled
                    /\ \A i \in DOMAIN q : i < k => q[i].canceled
  <1> DEFINE live == {i \in DOMAIN q : ~q[i].canceled}
             k == CHOOSE i \in live : \A j \in live : i <= j
  <1>1. CASE live = {}
    BY <1>1 DEF Fresh
  <1>2. CASE live # {}
    <2>1. live \in SUBSET Nat
      OBVIOUS
    <2>2. \E i \in live : \A j \in live : i <= j
      <3> HIDE DEF live
      <3> QED BY <1>2, <2>1, LeastElement
    <2>3. k \in live /\ \A j \in live : k <= j
      <3> HIDE DEF live
      <3> QED BY <2>2
    <2>4. Fresh(q) = SubSeq(q, k, Len(q))
      BY <1>2 DEF Fresh
    <2>5. k \in DOMAIN q /\ ~q[k].canceled /\ \A i \in DOMAIN q : i < k => q[i].canceled
      BY <2>3
    <2> HIDE DEF k
    <2> QED BY <2>4, <2>5
  <1> QED BY <1>1, <1>2

(* What each operation on a queue does to the callers that wait in it.     *)
LEMMA FreshQueue ==
    ASSUME NEW q \in Seq(Request), OneEach(q)
    PROVE  /\ Fresh(q) \in Seq(Request) /\ OneEach(Fresh(q))
           /\ Waiting(Fresh(q)) = Waiting(q)
           /\ Fresh(q) # <<>> => ~Head(Fresh(q)).canceled
           /\ Fresh(q) = <<>> => Waiting(q) = {}
  <1>1. CASE Fresh(q) = <<>> /\ \A i \in DOMAIN q : q[i].canceled
    BY <1>1 DEF Waiting, OneEach
  <1>2. ASSUME NEW k \in DOMAIN q, Fresh(q) = SubSeq(q, k, Len(q)), ~q[k].canceled,
               \A i \in DOMAIN q : i < k => q[i].canceled
        PROVE  /\ Fresh(q) \in Seq(Request) /\ OneEach(Fresh(q))
               /\ Waiting(Fresh(q)) = Waiting(q)
               /\ Fresh(q) # <<>> /\ ~Head(Fresh(q)).canceled
    <2>1. k \in Nat /\ Len(q) \in Nat /\ k >= 1 /\ k <= Len(q)
      OBVIOUS
    <2>2. /\ Fresh(q) \in Seq(Request) /\ Len(Fresh(q)) = Len(q) - k + 1
          /\ \A j \in 1 .. Len(q) - k + 1 : Fresh(q)[j] = q[k + j - 1]
      BY <1>2, <2>1
    <2>3. Head(Fresh(q)) = q[k] /\ Fresh(q) # <<>>
      BY <2>1, <2>2
    <2>4. DOMAIN Fresh(q) = 1 .. Len(q) - k + 1 /\ DOMAIN q = 1 .. Len(q)
      BY <2>2
    <2>5. OneEach(Fresh(q))
      <3> SUFFICES ASSUME NEW i \in DOMAIN Fresh(q), NEW j \in DOMAIN Fresh(q),
                          ~Fresh(q)[i].canceled, ~Fresh(q)[j].canceled,
                          Fresh(q)[i].by = Fresh(q)[j].by
                   PROVE  i = j
        BY DEF OneEach
      <3>1. k + i - 1 \in DOMAIN q /\ k + j - 1 \in DOMAIN q
        BY <2>1, <2>4
      <3>2. k + i - 1 = k + j - 1
        BY <3>1, <2>2, <2>4 DEF OneEach
      <3> QED BY <3>2, <2>1, <2>4
    <2>6. Waiting(Fresh(q)) \subseteq Waiting(q)
      <3> SUFFICES ASSUME NEW j \in DOMAIN Fresh(q), ~Fresh(q)[j].canceled
                   PROVE  Fresh(q)[j].by \in Waiting(q)
        BY DEF Waiting
      <3>1. k + j - 1 \in DOMAIN q /\ Fresh(q)[j] = q[k + j - 1]
        BY <2>1, <2>2, <2>4
      <3> QED BY <3>1 DEF Waiting
    <2>7. Waiting(q) \subseteq Waiting(Fresh(q))
      <3> SUFFICES ASSUME NEW i \in DOMAIN q, ~q[i].canceled
                   PROVE  q[i].by \in Waiting(Fresh(q))
        BY DEF Waiting
      <3>1. i >= k /\ i \in Nat /\ i <= Len(q)
        BY <1>2, <2>1, <2>4
      <3> DEFINE j == i - k + 1
      <3>2. j \in 1 .. Len(q) - k + 1 /\ k + j - 1 = i
        BY <2>1, <3>1
      <3> HIDE DEF j
      <3>3. j \in DOMAIN Fresh(q) /\ Fresh(q)[j] = q[i]
        BY <2>2, <2>4, <3>2
      <3> QED BY <3>3 DEF Waiting
    <2> QED BY <1>2, <2>2, <2>3, <2>5, <2>6, <2>7
  <1>3. Fresh(q) = <<>> /\ (\A i \in DOMAIN q : q[i].canceled) => Waiting(q) = {}
    BY DEF Waiting
  <1> QED BY <1>1, <1>2, <1>3, FreshFacts

LEMMA TailQueue ==
    ASSUME NEW q \in Seq(Request), OneEach(q), q # <<>>, ~Head(q).canceled
    PROVE  /\ Tail(q) \in Seq(Request) /\ OneEach(Tail(q))
           /\ Head(q).by \in Waiting(q) /\ Waiting(Tail(q)) = Waiting(q) \ {Head(q).by}
  <1>1. /\ Tail(q) \in Seq(Request) /\ Len(q) \in Nat \ {0} /\ Head(q) = q[1]
        /\ DOMAIN q = 1 .. Len(q) /\ DOMAIN Tail(q) = 1 .. Len(q) - 1
        /\ \A i \in DOMAIN Tail(q) : Tail(q)[i] = q[i + 1]
    OBVIOUS
  <1>2. \A i \in DOMAIN Tail(q) : i + 1 \in DOMAIN q /\ i + 1 # 1
    BY <1>1
  <1>3. \A i \in DOMAIN q : i # 1 => i - 1 \in DOMAIN Tail(q) /\ Tail(q)[i - 1] = q[i]
    BY <1>1
  <1>4. 1 \in DOMAIN q
    BY <1>1
  <1>5. OneEach(Tail(q))
    <2> SUFFICES ASSUME NEW i \in DOMAIN Tail(q), NEW j \in DOMAIN Tail(q),
                        ~Tail(q)[i].canceled, ~Tail(q)[j].canceled, Tail(q)[i].by = Tail(q)[j].by
                 PROVE  i = j
      BY DEF OneEach
    <2>1. i + 1 = j + 1
      BY <1>1, <1>2 DEF OneEach
    <2> QED BY <2>1, <1>1
  <1>6. Head(q).by \in Waiting(q)
    BY <1>1, <1>4 DEF Waiting
  <1>7. Waiting(Tail(q)) \subseteq Waiting(q) \ {Head(q).by}
    <2> SUFFICES ASSUME NEW i \in DOMAIN Tail(q), ~Tail(q)[i].canceled
                 PROVE  Tail(q)[i].by \in Waiting(q) /\ Tail(q)[i].by # Head(q).by
      BY DEF Waiting
    <2> QED BY <1>1, <1>2, <1>4 DEF Waiting, OneEach
  <1>8. Waiting(q) \ {Head(q).by} \subseteq Waiting(Tail(q))
    <2> SUFFICES ASSUME NEW i \in DOMAIN q, ~q[i].canceled, q[i].by # Head(q).by
                 PROVE  q[i].by \in Waiting(Tail(q))
      BY DEF Waiting
    <2>1. i # 1
      BY <1>1
    <2> QED BY <1>3, <2>1 DEF Waiting
  <1> QED BY <1>1, <1>5, <1>6, <1>7, <1>8

LEMMA AppendQueue ==
    ASSUME NEW q \in Seq(Request), OneEach(q), NEW c \in Callers, c \notin Waiting(q)
    PROVE  LET r == Append(q, [by |-> c, canceled |-> FALSE])
           IN  r \in Seq(Request) /\ OneEach(r) /\ Waiting(r) = Waiting(q) \cup {c}
  <1> DEFINE x == [by |-> c, canceled |-> FALSE]
             r == Append(q, x)
  <1>1. x \in Request /\ x.by = c /\ ~x.canceled
    BY DEF Request
  <1> HIDE DEF x
  <1>2. /\ r \in Seq(Request) /\ Len(q) \in Nat /\ DOMAIN q = 1 .. Len(q)
        /\ DOMAIN r = 1 .. Len(q) + 1 /\ r[Len(q) + 1] = x
        /\ \A i \in DOMAIN q : r[i] = q[i]
    BY <1>1
  <1>3. \A i \in DOMAIN r : i = Len(q) + 1 \/ i \in DOMAIN q
    BY <1>2
  <1>4. \A i \in DOMAIN q : ~q[i].canceled => q[i].by # c
    BY DEF Waiting
  <1>5. DOMAIN q \subseteq DOMAIN r /\ Len(q) + 1 \in DOMAIN r
    BY <1>2
  <1> HIDE DEF r
  <1>6. OneEach(r)
    BY <1>1, <1>2, <1>3, <1>4 DEF OneEach
  <1>7. Waiting(r) = Waiting(q) \cup {c}
    BY <1>1, <1>2, <1>3, <1>5 DEF Waiting
  <1> QED BY <1>2, <1>6, <1>7 DEF r, x

LEMMA StrikeQueue ==
    ASSUME NEW c \in Callers, Proc[c] \in Procs, queue \in [Procs -> Seq(Request)],
           OneEach(queue[Proc[c]])
    PROVE  /\ Struck(c) \in Seq(Request) /\ OneEach(Struck(c))
           /\ Waiting(Struck(c)) = Waiting(queue[Proc[c]]) \ {c}
  <1> DEFINE q == queue[Proc[c]]
  <1>1. q \in Seq(Request) /\ Len(q) \in Nat /\ DOMAIN q = 1 .. Len(q)
    OBVIOUS
  <1>2. \A i \in DOMAIN q : q[i] \in Request
    BY <1>1
  <1>3. DOMAIN Struck(c) = DOMAIN q
    BY DEF Struck
  <1>4. \A i \in DOMAIN q : /\ Struck(c)[i] \in Request /\ Struck(c)[i].by = q[i].by
                            /\ Struck(c)[i].canceled <=> q[i].canceled \/ q[i].by = c
    BY <1>2 DEF Struck, Request
  <1>5. Struck(c) \in Seq(Request)
    <2>1. Struck(c) \in [1 .. Len(q) -> Request]
      BY <1>1, <1>3, <1>4 DEF Struck
    <2> QED BY <1>1, <2>1
  <1>6. OneEach(Struck(c))
    BY <1>3, <1>4 DEF OneEach
  <1>7. Waiting(Struck(c)) = Waiting(q) \ {c}
    BY <1>3, <1>4, SMTT(30) DEF Waiting
  <1> QED BY <1>5, <1>6, <1>7


LEMMA AcquireStep ==
    ASSUME Inv, NEW c \in Callers, NEW h \in Mode, Acquire(c, h)
    PROVE  Inv'
  <1> DEFINE p == Proc[c]
             q == Append(queue[p], [by |-> c, canceled |-> FALSE])
  <1>a. /\ p \in Procs /\ pc[c] = "idle" /\ ~broken[p] /\ granted[c] = <<>>
        /\ queue \in [Procs -> Seq(Request)] /\ OneEach(queue[p])
        /\ pc \in [Callers -> CallerPC] /\ how \in [Callers -> Mode \cup {"none"}]
    BY CallersAssumption DEF Inv, TypeOK, ChannelInv, QueueInv, Acquire
  <1>b. /\ queue' = [queue EXCEPT ![p] = q] /\ active' = [active EXCEPT ![p] = TRUE]
        /\ wake' = [wake EXCEPT ![p] = @ \/ ~active[p]]
        /\ pc' = [pc EXCEPT ![c] = "select"] /\ how' = [how EXCEPT ![c] = h]
        /\ UNCHANGED <<broken, worker, serving, intent, inside, granted>>
    BY DEF Acquire
  <1>c. c \notin Waiting(queue[p])
    BY <1>a DEF Inv, QueueInv, Unanswered
  <1>d. q \in Seq(Request) /\ OneEach(q) /\ Waiting(q) = Waiting(queue[p]) \cup {c}
    BY <1>a, <1>c, AppendQueue
  <1> HIDE DEF q
  <1>1. TypeOK'
    BY <1>a, <1>b, <1>d DEF Inv, TypeOK, CallerPC
  <1>2. IntentInUse' /\ OneIntent' /\ ServeInv'
    BY <1>b DEF Inv, IntentInUse, OneIntent, ServeInv
  <1>3. \A d \in Callers : HasTurn(d)' <=> HasTurn(d)
    BY <1>a, <1>b, ChannelFacts DEF HasTurn, Outcome
  <1>4. GrantsAreOwned'
    BY <1>b, <1>3 DEF Inv, GrantsAreOwned, Mates
  <1>5. ChannelInv'
    BY <1>a, <1>b DEF Inv, ChannelInv
  <1>6. \A d \in Callers : Unanswered(d)' <=> Unanswered(d) \/ d = c
    BY <1>a, <1>b DEF Unanswered
  <1>7. QueueInv'
    BY <1>a, <1>b, <1>d, <1>6 DEF Inv, QueueInv, Mates
  <1>8. ActiveInv'
    BY <1>a, <1>b, <1>d DEF Inv, TypeOK, ActiveInv
  <1>9. InsideInv'
    BY <1>a, <1>b DEF Inv, InsideInv, Mode
  <1> QED BY <1>1, <1>2, <1>4, <1>5, <1>7, <1>8, <1>9 DEF Inv

LEMMA InitInv == Init => Inv
  <1> SUFFICES ASSUME Init PROVE Inv
    OBVIOUS
  <1>1. OneEach(<<>>) /\ Waiting(<<>>) = {} /\ <<>> \in Seq(Request)
    BY DEF OneEach, Waiting
  <1>2. TypeOK
    BY <1>1, ChannelFacts DEF Init, TypeOK, WorkerPC, CallerPC
  <1>3. \A c \in Callers : ~HasTurn(c) /\ ~Unanswered(c)
    BY DEF Init, HasTurn, Unanswered
  <1>4. QueueInv /\ GrantsAreOwned
    BY <1>1, <1>3 DEF Init, QueueInv, GrantsAreOwned, Mates
  <1>5. IntentInUse /\ OneIntent /\ ServeInv /\ ChannelInv /\ InsideInv /\ ActiveInv
    BY <1>1 DEF Init, IntentInUse, OneIntent, ServeInv, ChannelInv, InsideInv, ActiveInv, Mode
  <1> QED BY <1>2, <1>4, <1>5 DEF Inv

LEMMA ReceiveStep ==
    ASSUME Inv, NEW c \in Callers, Receive(c)
    PROVE  Inv'
  <1>1. TypeOK'
    BY CallersAssumption, ChannelFacts DEF Inv, TypeOK, WorkerPC, CallerPC, Outcome, Mode, Receive, gate, Move, Leave
  <1>2. IntentInUse'
    BY DEF Inv, IntentInUse, TypeOK, Receive, gate, Move, Leave
  <1>3. OneIntent'
    BY DEF Inv, OneIntent, TypeOK, Receive, gate, Move, Leave
  <1>4. ServeInv'
    BY DEF Inv, ServeInv, TypeOK, Receive, gate, Move, Leave
  <1>5. GrantsAreOwned'
    <2>1. \A d \in Callers : HasTurn(d)' <=> HasTurn(d)
      BY ChannelFacts DEF Inv, TypeOK, HasTurn, Outcome, Receive, Move, Leave
    <2> QED BY <2>1 DEF Inv, GrantsAreOwned, Mates, Receive
  <1>6. ChannelInv'
    BY CallersAssumption, ChannelFacts DEF Inv, ChannelInv, QueueInv, Unanswered, Mates, TypeOK, Receive, gate, Move, Leave
  <1>7. QueueInv'
    BY DEF Inv, QueueInv, Unanswered, Mates, TypeOK, Receive, gate, Move, Leave
  <1>8. ActiveInv'
    BY DEF Inv, ActiveInv, TypeOK, Receive, gate, Move, Leave
  <1>9. InsideInv'
    BY DEF Inv, InsideInv, TypeOK, Receive, gate, Move, Leave
  <1> QED BY <1>1, <1>2, <1>3, <1>4, <1>5, <1>6, <1>7, <1>8, <1>9 DEF Inv

LEMMA DoneStep ==
    ASSUME Inv, NEW c \in Callers, Done(c)
    PROVE  Inv'
  <1>1. TypeOK'
    BY DEF Inv, TypeOK, CallerPC, Done, gate, Move
  <1>2. IntentInUse'
    BY DEF Inv, IntentInUse, TypeOK, Done, gate, Move
  <1>3. OneIntent'
    BY DEF Inv, OneIntent, TypeOK, Done, gate, Move
  <1>4. ServeInv'
    BY DEF Inv, ServeInv, TypeOK, Done, gate, Move
  <1>5. GrantsAreOwned'
    BY ZenonT(60) DEF Inv, GrantsAreOwned, HasTurn, Mates, TypeOK, Done, gate, Move
  <1>6. ChannelInv'
    BY DEF Inv, ChannelInv, TypeOK, Done, gate, Move
  <1>7. QueueInv'
    BY DEF Inv, QueueInv, Unanswered, Mates, TypeOK, Done, gate, Move
  <1>8. ActiveInv'
    BY DEF Inv, ActiveInv, TypeOK, Done, gate, Move
  <1>9. InsideInv'
    BY DEF Inv, InsideInv, TypeOK, Done, gate, Move
  <1> QED BY <1>1, <1>2, <1>3, <1>4, <1>5, <1>6, <1>7, <1>8, <1>9 DEF Inv

LEMMA CancelStep ==
    ASSUME Inv, NEW c \in Callers, Cancel(c)
    PROVE  Inv'
  <1>1. TypeOK'
    <2>1. Proc[c] \in Procs /\ Struck(c) \in Seq(Request)
      BY CallersAssumption, StrikeQueue DEF Inv, TypeOK, QueueInv
    <2> QED BY <2>1, ChannelFacts, ZenonT(60) DEF Inv, TypeOK, CallerPC, Mode, Cancel, Leave
  <1>2. IntentInUse'
    BY DEF Inv, IntentInUse, TypeOK, Cancel, Leave
  <1>3. OneIntent'
    BY DEF Inv, OneIntent, TypeOK, Cancel, Leave
  <1>4. ServeInv'
    BY DEF Inv, ServeInv, TypeOK, Cancel, Leave
  <1>5. GrantsAreOwned'
    <2>1. CASE granted[c] = <<>>
      <3>1. serving' = serving /\ \A d \in Callers : HasTurn(d)' <=> HasTurn(d)
        BY <2>1, ChannelFacts DEF Inv, TypeOK, HasTurn, Outcome, Cancel, Leave
      <3> QED BY <3>1 DEF Inv, GrantsAreOwned, Mates
    <2>2. CASE granted[c] # <<>> /\ Head(granted[c]) # "intent"
      <3>1. serving' = serving /\ \A d \in Callers : HasTurn(d)' <=> HasTurn(d)
        BY <2>2, ChannelFacts DEF Inv, TypeOK, HasTurn, Outcome, Cancel, Leave
      <3> QED BY <3>1 DEF Inv, GrantsAreOwned, Mates
    <2>3. CASE granted[c] # <<>> /\ Head(granted[c]) = "intent"
      <3>1. HasTurn(c) /\ \A d \in Callers : HasTurn(d)' <=> HasTurn(d) /\ d # c
        BY <2>3, ChannelFacts DEF Inv, TypeOK, HasTurn, Cancel, Leave
      <3>2. serving' = [serving EXCEPT ![Proc[c]] = {}]
        BY <2>3 DEF Cancel
      <3>3. Proc[c] \in Procs /\ serving[Proc[c]] = {c}
        BY <3>1, CallersAssumption DEF Inv, GrantsAreOwned, Mates
      <3> QED BY <3>1, <3>2, <3>3 DEF Inv, TypeOK, GrantsAreOwned, Mates
    <2> QED BY <2>1, <2>2, <2>3
  <1>6. ChannelInv'
    BY CallersAssumption, ChannelFacts DEF Inv, ChannelInv, QueueInv, Unanswered, Mates, TypeOK, Cancel, Leave
  <1>7. QueueInv'
    <2>1. Proc[c] \in Procs /\ queue \in [Procs -> Seq(Request)]
      BY CallersAssumption DEF Inv, TypeOK
    <2>2. /\ OneEach(Struck(c))
          /\ Waiting(Struck(c)) = Waiting(queue[Proc[c]]) \ {c}
      BY <2>1, StrikeQueue DEF Inv, QueueInv
    <2>3. CASE granted[c] = <<>>
      <3>1. \A d \in Callers : Unanswered(d)' <=> Unanswered(d) /\ d # c
        BY <2>3 DEF Inv, TypeOK, Unanswered, Cancel, Leave
      <3> QED BY <2>1, <2>2, <2>3, <3>1 DEF Inv, QueueInv, Mates, Cancel
    <2>4. CASE granted[c] # <<>>
      <3>1. queue' = queue /\ \A d \in Callers : Unanswered(d)' <=> Unanswered(d)
        BY <2>4 DEF Inv, TypeOK, Unanswered, Cancel, Leave
      <3> QED BY <3>1 DEF Inv, QueueInv, Mates
    <2> QED BY <2>3, <2>4
  <1>8. ActiveInv'
    <2>1. Proc[c] \in Procs /\ queue \in [Procs -> Seq(Request)]
      BY CallersAssumption DEF Inv, TypeOK
    <2>2. Waiting(Struck(c)) \subseteq Waiting(queue[Proc[c]])
      BY <2>1, StrikeQueue DEF Inv, QueueInv
    <2>3. \A p \in Procs : Waiting(queue'[p]) \subseteq Waiting(queue[p])
      BY <2>1, <2>2 DEF Cancel
    <2>4. UNCHANGED <<broken, worker, active, wake>>
      BY DEF Cancel
    <2> QED BY <2>3, <2>4 DEF Inv, ActiveInv
  <1>9. InsideInv'
    BY DEF Inv, InsideInv, TypeOK, Cancel, Leave
  <1> QED BY <1>1, <1>2, <1>3, <1>4, <1>5, <1>6, <1>7, <1>8, <1>9 DEF Inv

LEMMA PollStep ==
    ASSUME Inv, NEW c \in Callers, Poll(c)
    PROVE  Inv'
  <1>1. TypeOK'
    BY DEF Inv, TypeOK, CallerPC, Poll, gate, Move
  <1>2. IntentInUse'
    BY DEF Inv, IntentInUse, TypeOK, Poll, gate, Move
  <1>3. OneIntent'
    BY DEF Inv, OneIntent, TypeOK, Poll, gate, Move
  <1>4. ServeInv'
    BY DEF Inv, ServeInv, TypeOK, Poll, gate, Move
  <1>5. GrantsAreOwned'
    BY DEF Inv, GrantsAreOwned, HasTurn, Mates, TypeOK, Poll, gate, Move
  <1>6. ChannelInv'
    BY DEF Inv, ChannelInv, TypeOK, Poll, gate, Move
  <1>7. QueueInv'
    BY DEF Inv, QueueInv, Unanswered, Mates, TypeOK, Poll, gate, Move
  <1>8. ActiveInv'
    BY DEF Inv, ActiveInv, TypeOK, Poll, gate, Move
  <1>9. InsideInv'
    BY DEF Inv, InsideInv, TypeOK, Poll, gate, Move
  <1> QED BY <1>1, <1>2, <1>3, <1>4, <1>5, <1>6, <1>7, <1>8, <1>9 DEF Inv

LEMMA PollFailsStep ==
    ASSUME Inv, NEW c \in Callers, PollFails(c)
    PROVE  Inv'
  <1>1. TypeOK'
    BY DEF Inv, TypeOK, CallerPC, PollFails, gate, Move
  <1>2. IntentInUse'
    BY DEF Inv, IntentInUse, TypeOK, PollFails, gate, Move
  <1>3. OneIntent'
    BY DEF Inv, OneIntent, TypeOK, PollFails, gate, Move
  <1>4. ServeInv'
    BY DEF Inv, ServeInv, TypeOK, PollFails, gate, Move
  <1>5. GrantsAreOwned'
    BY DEF Inv, GrantsAreOwned, HasTurn, Mates, TypeOK, PollFails, gate, Move
  <1>6. ChannelInv'
    BY DEF Inv, ChannelInv, TypeOK, PollFails, gate, Move
  <1>7. QueueInv'
    BY DEF Inv, QueueInv, Unanswered, Mates, TypeOK, PollFails, gate, Move
  <1>8. ActiveInv'
    BY DEF Inv, ActiveInv, TypeOK, PollFails, gate, Move
  <1>9. InsideInv'
    BY DEF Inv, InsideInv, TypeOK, PollFails, gate, Move
  <1> QED BY <1>1, <1>2, <1>3, <1>4, <1>5, <1>6, <1>7, <1>8, <1>9 DEF Inv

LEMMA HandBackStep ==
    ASSUME Inv, NEW c \in Callers, HandBack(c)
    PROVE  Inv'
  <1>1. TypeOK'
    BY DEF Inv, TypeOK, CallerPC, HandBack, gate, Move, Leave
  <1>2. IntentInUse'
    BY DEF Inv, IntentInUse, TypeOK, HandBack, gate, Move, Leave
  <1>3. OneIntent'
    BY DEF Inv, OneIntent, TypeOK, HandBack, gate, Move, Leave
  <1>4. ServeInv'
    BY DEF Inv, ServeInv, TypeOK, HandBack, gate, Move, Leave
  <1>5. GrantsAreOwned'
    <2>1. HasTurn(c) /\ \A d \in Callers : HasTurn(d)' <=> HasTurn(d) /\ d # c
      BY DEF Inv, TypeOK, HasTurn, ChannelInv, HandBack, Move, Leave
    <2>2. serving' = [serving EXCEPT ![Proc[c]] = {}]
      BY DEF HandBack
    <2>3. Proc[c] \in Procs /\ serving[Proc[c]] = {c}
      BY <2>1, CallersAssumption DEF Inv, GrantsAreOwned, Mates
    <2> QED BY <2>1, <2>2, <2>3 DEF Inv, TypeOK, GrantsAreOwned, Mates
  <1>6. ChannelInv'
    BY DEF Inv, ChannelInv, TypeOK, HandBack, gate, Move, Leave
  <1>7. QueueInv'
    BY DEF Inv, QueueInv, Unanswered, Mates, TypeOK, HandBack, gate, Move, Leave
  <1>8. ActiveInv'
    BY DEF Inv, ActiveInv, TypeOK, HandBack, gate, Move, Leave
  <1>9. InsideInv'
    BY DEF Inv, InsideInv, TypeOK, HandBack, gate, Move, Leave
  <1> QED BY <1>1, <1>2, <1>3, <1>4, <1>5, <1>6, <1>7, <1>8, <1>9 DEF Inv

LEMMA ReleaseStep ==
    ASSUME Inv, NEW c \in Callers, Release(c)
    PROVE  Inv'
  <1>1. TypeOK'
    BY DEF Inv, TypeOK, CallerPC, Release, gate, Leave
  <1>2. IntentInUse'
    BY DEF Inv, IntentInUse, TypeOK, Release, gate, Leave
  <1>3. OneIntent'
    BY DEF Inv, OneIntent, TypeOK, Release, gate, Leave
  <1>4. ServeInv'
    BY DEF Inv, ServeInv, TypeOK, Release, gate, Leave
  <1>5. GrantsAreOwned'
    BY ZenonT(60) DEF Inv, GrantsAreOwned, HasTurn, Mates, TypeOK, Release, gate, Leave
  <1>6. ChannelInv'
    BY DEF Inv, ChannelInv, TypeOK, Release, gate, Leave
  <1>7. QueueInv'
    BY DEF Inv, QueueInv, Unanswered, Mates, TypeOK, Release, gate, Leave
  <1>8. ActiveInv'
    BY DEF Inv, ActiveInv, TypeOK, Release, gate, Leave
  <1>9. InsideInv'
    BY DEF Inv, InsideInv, TypeOK, Release, gate, Leave
  <1> QED BY <1>1, <1>2, <1>3, <1>4, <1>5, <1>6, <1>7, <1>8, <1>9 DEF Inv

LEMMA WakeStep ==
    ASSUME Inv, NEW p \in Procs, Wake(p)
    PROVE  Inv'
  <1>1. TypeOK'
    BY DEF Inv, TypeOK, WorkerPC, Wake, gate, callers, Step
  <1>2. IntentInUse'
    BY DEF Inv, IntentInUse, TypeOK, Wake, gate, callers, Step
  <1>3. OneIntent'
    BY DEF Inv, OneIntent, TypeOK, Wake, gate, callers, Step
  <1>4. ServeInv'
    BY DEF Inv, ServeInv, TypeOK, Wake, gate, callers, Step
  <1>5. GrantsAreOwned'
    BY DEF Inv, GrantsAreOwned, HasTurn, Mates, TypeOK, Wake, gate, callers, Step
  <1>6. ChannelInv'
    BY DEF Inv, ChannelInv, TypeOK, Wake, gate, callers, Step
  <1>7. QueueInv'
    BY DEF Inv, QueueInv, Unanswered, Mates, TypeOK, Wake, gate, callers, Step
  <1>8. ActiveInv'
    BY DEF Inv, ActiveInv, TypeOK, Wake, gate, callers, Step
  <1>9. InsideInv'
    BY DEF Inv, InsideInv, TypeOK, Wake, gate, callers, Step
  <1> QED BY <1>1, <1>2, <1>3, <1>4, <1>5, <1>6, <1>7, <1>8, <1>9 DEF Inv

LEMMA PendingWorkStep ==
    ASSUME Inv, NEW p \in Procs, PendingWork(p)
    PROVE  Inv'
  <1>1. TypeOK'
    <2>1. queue[p] \in Seq(Request) /\ OneEach(queue[p])
      BY DEF Inv, TypeOK, QueueInv
    <2>2. /\ Fresh(queue[p]) \in Seq(Request) /\ OneEach(Fresh(queue[p]))
          /\ Waiting(Fresh(queue[p])) = Waiting(queue[p])
          /\ Fresh(queue[p]) = <<>> => Waiting(queue[p]) = {}
      BY <2>1, FreshQueue
    <2> QED BY <2>2 DEF Inv, TypeOK, WorkerPC, PendingWork, Step, callers
  <1>2. IntentInUse'
    BY DEF Inv, IntentInUse, TypeOK, PendingWork, callers, Step
  <1>3. OneIntent'
    BY DEF Inv, OneIntent, TypeOK, PendingWork, callers, Step
  <1>4. ServeInv'
    BY DEF Inv, ServeInv, TypeOK, PendingWork, callers, Step
  <1>5. GrantsAreOwned'
    BY DEF Inv, GrantsAreOwned, HasTurn, Mates, TypeOK, PendingWork, callers, Step
  <1>6. ChannelInv'
    BY DEF Inv, ChannelInv, TypeOK, PendingWork, callers, Step
  <1>7. QueueInv'
    <2>1. queue[p] \in Seq(Request) /\ OneEach(queue[p])
      BY DEF Inv, TypeOK, QueueInv
    <2>2. /\ Fresh(queue[p]) \in Seq(Request) /\ OneEach(Fresh(queue[p]))
          /\ Waiting(Fresh(queue[p])) = Waiting(queue[p])
          /\ Fresh(queue[p]) = <<>> => Waiting(queue[p]) = {}
      BY <2>1, FreshQueue
    <2>3. \A d \in Callers : Unanswered(d)' <=> Unanswered(d)
      BY DEF Unanswered, PendingWork, callers
    <2> QED BY <2>2, <2>3 DEF Inv, TypeOK, QueueInv, Mates, PendingWork
  <1>8. ActiveInv'
    <2>1. queue[p] \in Seq(Request) /\ OneEach(queue[p])
      BY DEF Inv, TypeOK, QueueInv
    <2>2. /\ Fresh(queue[p]) \in Seq(Request) /\ OneEach(Fresh(queue[p]))
          /\ Waiting(Fresh(queue[p])) = Waiting(queue[p])
          /\ Fresh(queue[p]) = <<>> => Waiting(queue[p]) = {}
      BY <2>1, FreshQueue
    <2> QED BY <2>2 DEF Inv, TypeOK, ActiveInv, PendingWork, Step
  <1>9. InsideInv'
    BY DEF Inv, InsideInv, TypeOK, PendingWork, callers, Step
  <1> QED BY <1>1, <1>2, <1>3, <1>4, <1>5, <1>6, <1>7, <1>8, <1>9 DEF Inv

LEMMA FlockStep ==
    ASSUME Inv, NEW p \in Procs, Flock(p)
    PROVE  Inv'
  <1>1. TypeOK'
    BY DEF Inv, TypeOK, WorkerPC, Flock, gate, callers, Step
  <1>2. IntentInUse'
    BY DEF Inv, IntentInUse, TypeOK, Flock, gate, callers, Step
  <1>3. OneIntent'
    BY DEF Inv, OneIntent, TypeOK, Flock, gate, callers, Step
  <1>4. ServeInv'
    BY DEF Inv, ServeInv, TypeOK, Flock, gate, callers, Step
  <1>5. GrantsAreOwned'
    BY DEF Inv, GrantsAreOwned, HasTurn, Mates, TypeOK, Flock, gate, callers, Step
  <1>6. ChannelInv'
    BY DEF Inv, ChannelInv, TypeOK, Flock, gate, callers, Step
  <1>7. QueueInv'
    BY DEF Inv, QueueInv, Unanswered, Mates, TypeOK, Flock, gate, callers, Step
  <1>8. ActiveInv'
    BY DEF Inv, ActiveInv, TypeOK, Flock, gate, callers, Step
  <1>9. InsideInv'
    BY DEF Inv, InsideInv, TypeOK, Flock, gate, callers, Step
  <1> QED BY <1>1, <1>2, <1>3, <1>4, <1>5, <1>6, <1>7, <1>8, <1>9 DEF Inv

LEMMA FlockFailsStep ==
    ASSUME Inv, NEW p \in Procs, FlockFails(p)
    PROVE  Inv'
  <1>1. TypeOK'
    BY DEF Inv, TypeOK, WorkerPC, FlockFails, gate, callers, Step
  <1>2. IntentInUse'
    BY DEF Inv, IntentInUse, TypeOK, FlockFails, gate, callers, Step
  <1>3. OneIntent'
    BY DEF Inv, OneIntent, TypeOK, FlockFails, gate, callers, Step
  <1>4. ServeInv'
    BY DEF Inv, ServeInv, TypeOK, FlockFails, gate, callers, Step
  <1>5. GrantsAreOwned'
    BY DEF Inv, GrantsAreOwned, HasTurn, Mates, TypeOK, FlockFails, gate, callers, Step
  <1>6. ChannelInv'
    BY DEF Inv, ChannelInv, TypeOK, FlockFails, gate, callers, Step
  <1>7. QueueInv'
    BY DEF Inv, QueueInv, Unanswered, Mates, TypeOK, FlockFails, gate, callers, Step
  <1>8. ActiveInv'
    BY DEF Inv, ActiveInv, TypeOK, FlockFails, gate, callers, Step
  <1>9. InsideInv'
    BY DEF Inv, InsideInv, TypeOK, FlockFails, gate, callers, Step
  <1> QED BY <1>1, <1>2, <1>3, <1>4, <1>5, <1>6, <1>7, <1>8, <1>9 DEF Inv

(* GrantHead either leaves the callers alone or answers the head.          *)
LEMMA GrantHeadCases ==
    ASSUME Inv, NEW p \in Procs, GrantHead(p)
    PROVE  /\ UNCHANGED <<broken, wake, intent, inside, pc, how>>
           /\ worker[p] = "grant" /\ queue \in [Procs -> Seq(Request)]
           /\ \/ \E q \in Seq(Request) :
                   /\ OneEach(q) /\ Waiting(q) = Waiting(queue[p])
                   /\ queue' = [queue EXCEPT ![p] = q]
                   /\ active' = [active EXCEPT ![p] = @ /\ q # <<>>]
                   /\ Step(p, IF p \in intent THEN "unlock" ELSE "look")
                   /\ UNCHANGED <<serving, granted>>
              \/ \E q \in Seq(Request), c \in Mates(p) :
                   /\ OneEach(q) /\ Waiting(q) = Waiting(queue[p]) \ {c}
                   /\ Unanswered(c)
                   /\ queue' = [queue EXCEPT ![p] = q]
                   /\ granted' = [granted EXCEPT ![c] =
                                      IF p \in intent THEN <<"intent">> ELSE <<"error">>]
                   /\ serving' = [serving EXCEPT ![p] = IF p \in intent THEN {c} ELSE {}]
                   /\ Step(p, IF p \in intent THEN "serve" ELSE "look")
                   /\ UNCHANGED active
  <1> DEFINE q == Fresh(queue[p])
  <1>1. queue \in [Procs -> Seq(Request)] /\ OneEach(queue[p])
    BY DEF Inv, TypeOK, QueueInv
  <1>2. /\ q \in Seq(Request) /\ OneEach(q) /\ Waiting(q) = Waiting(queue[p])
        /\ q # <<>> => ~Head(q).canceled
    BY <1>1, FreshQueue
  <1>3. UNCHANGED <<broken, wake, intent, inside, pc, how>> /\ worker[p] = "grant"
    BY DEF GrantHead
  <1>4. CASE q = <<>> \/ q # queue[p]
    BY <1>1, <1>2, <1>3, <1>4 DEF GrantHead
  <1>5. CASE q # <<>> /\ q = queue[p]
    <2> DEFINE c == Head(q).by
    <2>1. /\ Tail(q) \in Seq(Request) /\ OneEach(Tail(q))
          /\ c \in Waiting(q) /\ Waiting(Tail(q)) = Waiting(queue[p]) \ {c}
      BY <1>2, <1>5, TailQueue
    <2>2. c \in Mates(p) /\ c \in Callers /\ Unanswered(c)
      BY <1>2, <2>1 DEF Inv, QueueInv, Mates
    <2>3. granted[c] = <<>> /\ granted \in [Callers -> Channel]
      BY <2>2 DEF Unanswered, Inv, TypeOK
    <2>4. /\ Append(granted[c], IF p \in intent THEN "intent" ELSE "error")
             = (IF p \in intent THEN <<"intent">> ELSE <<"error">>)
      BY <2>3, ChannelFacts DEF Outcome
    <2>5. granted' = [granted EXCEPT ![c] = IF p \in intent THEN <<"intent">> ELSE <<"error">>]
      <3>1. granted' = [granted EXCEPT ![c] = Append(@, IF p \in intent THEN "intent" ELSE "error")]
        BY <1>5 DEF GrantHead, Send
      <3>2. granted' = [granted EXCEPT ![c] = Append(granted[c], IF p \in intent THEN "intent" ELSE "error")]
        BY <3>1
      <3> QED BY <3>2, <2>4
    <2>6. /\ queue' = [queue EXCEPT ![p] = Tail(q)]
          /\ serving' = [serving EXCEPT ![p] = IF p \in intent THEN {c} ELSE {}]
          /\ Step(p, IF p \in intent THEN "serve" ELSE "look")
          /\ UNCHANGED active
      BY <1>5 DEF GrantHead
    <2> HIDE DEF c
    <2> QED BY <1>1, <1>3, <2>1, <2>2, <2>5, <2>6
  <1> QED BY <1>3, <1>4, <1>5

LEMMA GrantHeadStep ==
    ASSUME Inv, NEW p \in Procs, GrantHead(p)
    PROVE  Inv'
  <1> USE CallersAssumption
  <1>a. /\ UNCHANGED <<broken, wake, intent, inside, pc, how>>
        /\ worker[p] = "grant" /\ queue \in [Procs -> Seq(Request)]
    BY GrantHeadCases
  <1>b. /\ <<>> \in Channel /\ <<"intent">> \in Channel /\ <<"error">> \in Channel
        /\ <<"intent">> # <<"error">> /\ <<"error">> # <<>> /\ <<"intent">> # <<>>
    BY ChannelFacts DEF Outcome
  <1>c. p \in intent => intent = {p}
    BY DEF Inv, IntentInUse, OneIntent
  <1>d. serving[p] = {}
    BY <1>a DEF Inv, ServeInv
  <1>1. ASSUME NEW q \in Seq(Request), OneEach(q), Waiting(q) = Waiting(queue[p]),
               queue' = [queue EXCEPT ![p] = q],
               active' = [active EXCEPT ![p] = @ /\ q # <<>>],
               Step(p, IF p \in intent THEN "unlock" ELSE "look"),
               UNCHANGED <<serving, granted>>
        PROVE  Inv'
    <2>1. TypeOK'
      BY <1>a, <1>1 DEF Inv, TypeOK, Step, WorkerPC
    <2>2. IntentInUse' /\ OneIntent' /\ ServeInv'
      BY <1>a, <1>c, <1>1 DEF Inv, TypeOK, IntentInUse, OneIntent, ServeInv, Step
    <2>3. \A c \in Callers : (HasTurn(c)' <=> HasTurn(c)) /\ (Unanswered(c)' <=> Unanswered(c))
      BY <1>a, <1>1 DEF HasTurn, Unanswered
    <2>4. GrantsAreOwned' /\ ChannelInv' /\ InsideInv'
      BY <1>a, <1>1, <2>3 DEF Inv, GrantsAreOwned, ChannelInv, InsideInv, Mates
    <2>5. QueueInv'
      BY <1>a, <1>1, <2>3 DEF Inv, QueueInv, Mates
    <2>6. ActiveInv'
      BY <1>a, <1>1 DEF Inv, TypeOK, ActiveInv, Step
    <2> QED BY <2>1, <2>2, <2>4, <2>5, <2>6 DEF Inv
  <1>2. ASSUME NEW q \in Seq(Request), NEW c \in Mates(p), OneEach(q),
               Waiting(q) = Waiting(queue[p]) \ {c}, Unanswered(c),
               queue' = [queue EXCEPT ![p] = q],
               granted' = [granted EXCEPT ![c] =
                               IF p \in intent THEN <<"intent">> ELSE <<"error">>],
               serving' = [serving EXCEPT ![p] = IF p \in intent THEN {c} ELSE {}],
               Step(p, IF p \in intent THEN "serve" ELSE "look"), UNCHANGED active
        PROVE  Inv'
    <2>a. c \in Callers /\ Proc[c] = p /\ granted[c] = <<>> /\ pc[c] \in {"select", "cancel"}
      BY <1>2 DEF Mates, Unanswered
    <2>1. TypeOK'
      BY <1>a, <1>b, <1>2, <2>a DEF Inv, TypeOK, Step, WorkerPC
    <2>2. IntentInUse' /\ OneIntent' /\ ServeInv'
      BY <1>a, <1>c, <1>2 DEF Inv, TypeOK, IntentInUse, OneIntent, ServeInv, Step
    <2>3. granted \in [Callers -> Channel]
      BY DEF Inv, TypeOK
    <2>4. \A d \in Callers : HasTurn(d)' <=> HasTurn(d) \/ (d = c /\ p \in intent)
      BY <1>a, <1>b, <1>2, <2>a, <2>3 DEF HasTurn
    <2>5. \A d \in Callers : Unanswered(d)' <=> Unanswered(d) /\ d # c
      BY <1>a, <1>b, <1>2, <2>a, <2>3 DEF Unanswered
    <2>6. GrantsAreOwned'
      <3>1. \A d \in Mates(p) : ~HasTurn(d)
        BY <1>d DEF Inv, GrantsAreOwned
      <3>2. serving \in [Procs -> SUBSET Callers]
        BY DEF Inv, TypeOK
      <3>3. serving'[p] = {d \in Mates(p) : HasTurn(d)'} /\ \A d, e \in serving'[p] : d = e
        BY <1>2, <2>4, <3>1, <3>2, <2>a DEF Mates
      <3>4. ASSUME NEW r \in Procs, r # p
            PROVE  /\ serving'[r] = {d \in Mates(r) : HasTurn(d)'}
                   /\ \A d, e \in serving'[r] : d = e
        <4>1. serving'[r] = serving[r] /\ c \notin Mates(r)
          BY <1>2, <3>2, <3>4, <2>a DEF Mates
        <4>2. \A d \in Mates(r) : HasTurn(d)' <=> HasTurn(d)
          BY <2>4, <4>1 DEF Mates
        <4> QED BY <4>1, <4>2 DEF Inv, GrantsAreOwned
      <3> QED BY <3>3, <3>4 DEF GrantsAreOwned, Mates
    <2>7. ChannelInv' /\ InsideInv'
      BY <1>a, <1>2, <2>a, <2>3 DEF Inv, ChannelInv, InsideInv
    <2>8. QueueInv'
      BY <1>a, <1>2, <2>5, <2>a DEF Inv, QueueInv, Mates
    <2>9. ActiveInv'
      BY <1>a, <1>2 DEF Inv, TypeOK, ActiveInv, Step
    <2> QED BY <2>1, <2>2, <2>6, <2>7, <2>8, <2>9 DEF Inv
  <1> QED BY <1>1, <1>2, GrantHeadCases

LEMMA ServedStep ==
    ASSUME Inv, NEW p \in Procs, Served(p)
    PROVE  Inv'
  <1>1. TypeOK'
    BY DEF Inv, TypeOK, WorkerPC, Served, gate, callers, Step
  <1>2. IntentInUse'
    BY DEF Inv, IntentInUse, TypeOK, Served, gate, callers, Step
  <1>3. OneIntent'
    BY DEF Inv, OneIntent, TypeOK, Served, gate, callers, Step
  <1>4. ServeInv'
    BY DEF Inv, ServeInv, TypeOK, Served, gate, callers, Step
  <1>5. GrantsAreOwned'
    BY DEF Inv, GrantsAreOwned, HasTurn, Mates, TypeOK, Served, gate, callers, Step
  <1>6. ChannelInv'
    BY DEF Inv, ChannelInv, TypeOK, Served, gate, callers, Step
  <1>7. QueueInv'
    BY DEF Inv, QueueInv, Unanswered, Mates, TypeOK, Served, gate, callers, Step
  <1>8. ActiveInv'
    BY DEF Inv, ActiveInv, TypeOK, Served, gate, callers, Step
  <1>9. InsideInv'
    BY DEF Inv, InsideInv, TypeOK, Served, gate, callers, Step
  <1> QED BY <1>1, <1>2, <1>3, <1>4, <1>5, <1>6, <1>7, <1>8, <1>9 DEF Inv

LEMMA UnlockStep ==
    ASSUME Inv, NEW p \in Procs, Unlock(p)
    PROVE  Inv'
  <1>1. TypeOK'
    BY DEF Inv, TypeOK, WorkerPC, Unlock, gate, callers, Step
  <1>2. IntentInUse'
    BY DEF Inv, IntentInUse, TypeOK, Unlock, gate, callers, Step
  <1>3. OneIntent'
    BY DEF Inv, OneIntent, TypeOK, Unlock, gate, callers, Step
  <1>4. ServeInv'
    BY DEF Inv, ServeInv, TypeOK, Unlock, gate, callers, Step
  <1>5. GrantsAreOwned'
    BY DEF Inv, GrantsAreOwned, HasTurn, Mates, TypeOK, Unlock, gate, callers, Step
  <1>6. ChannelInv'
    BY DEF Inv, ChannelInv, TypeOK, Unlock, gate, callers, Step
  <1>7. QueueInv'
    BY DEF Inv, QueueInv, Unanswered, Mates, TypeOK, Unlock, gate, callers, Step
  <1>8. ActiveInv'
    BY DEF Inv, ActiveInv, TypeOK, Unlock, gate, callers, Step
  <1>9. InsideInv'
    BY DEF Inv, InsideInv, TypeOK, Unlock, gate, callers, Step
  <1> QED BY <1>1, <1>2, <1>3, <1>4, <1>5, <1>6, <1>7, <1>8, <1>9 DEF Inv

LEMMA PoisonStep ==
    ASSUME Inv, NEW p \in Procs, Poison(p)
    PROVE  Inv'
  <1>1. TypeOK'
    <2>1. \A c \in Callers : c \in Live(p) => granted[c] = <<>>
      BY DEF Inv, QueueInv, Waiting, Live, Unanswered
    <2>2. granted' \in [Callers -> Channel]
      BY <2>1, ChannelFacts DEF Inv, TypeOK, Poison, Outcome
    <2> QED BY <2>2 DEF Inv, TypeOK, WorkerPC, Poison, Step
  <1>2. IntentInUse'
    BY DEF Inv, IntentInUse, TypeOK, Poison, Step
  <1>3. OneIntent'
    BY DEF Inv, OneIntent, TypeOK, Poison, Step
  <1>4. ServeInv'
    BY DEF Inv, ServeInv, TypeOK, Poison, Step
  <1>5. GrantsAreOwned'
    <2>1. \A c \in Callers : c \in Live(p) => granted[c] = <<>>
      BY DEF Inv, QueueInv, Waiting, Live, Unanswered
    <2>2. ASSUME NEW c \in Callers
          PROVE  \/ granted'[c] = granted[c]
                 \/ granted[c] = <<>> /\ granted'[c] = <<"error">>
      <3>1. granted'[c] = IF c \in Live(p) THEN Append(granted[c], "error") ELSE granted[c]
        BY DEF Poison
      <3>2. CASE c \in Live(p)
        <4>1. granted[c] = <<>> /\ Append(<<>>, "error") = <<"error">>
          BY <2>1, <3>2, ChannelFacts DEF Outcome
        <4> QED BY <3>1, <3>2, <4>1
      <3> QED BY <3>1, <3>2
    <2>3. \A c \in Callers : HasTurn(c)' <=> HasTurn(c)
      BY <2>2, ChannelFacts DEF HasTurn, Outcome, Poison
    <2> QED BY <2>3 DEF Inv, GrantsAreOwned, Mates, Poison
  <1>6. ChannelInv'
    <2>1. \A c \in Callers : c \in Live(p) => Unanswered(c)
      BY DEF Inv, QueueInv, Waiting, Live
    <2> QED BY <2>1 DEF Inv, ChannelInv, Unanswered, Poison
  <1>7. QueueInv'
    <2>1. \A c \in Callers : c \in Live(p) <=> Proc[c] = p /\ Unanswered(c)
      BY DEF Inv, QueueInv, Waiting, Live, Mates
    <2>2. \A c \in Callers : Unanswered(c)' <=> Unanswered(c) /\ Proc[c] # p
      BY <2>1, ChannelFacts DEF Unanswered, Poison, Outcome
    <2>3. OneEach(<<>>) /\ Waiting(<<>>) = {}
      BY DEF OneEach, Waiting
    <2>4. queue' = [queue EXCEPT ![p] = <<>>]
      BY DEF Poison
    <2> QED BY <2>2, <2>3, <2>4 DEF Inv, TypeOK, QueueInv, Mates
  <1>8. ActiveInv'
    <2>1. Waiting(<<>>) = {}
      BY DEF Waiting
    <2> QED BY <2>1 DEF Inv, TypeOK, ActiveInv, Poison, Step
  <1>9. InsideInv'
    BY DEF Inv, InsideInv, TypeOK, Poison, Step
  <1> QED BY <1>1, <1>2, <1>3, <1>4, <1>5, <1>6, <1>7, <1>8, <1>9 DEF Inv

LEMMA CrashStep ==
    ASSUME Inv, NEW p \in Procs, Crash(p)
    PROVE  Inv'
  <1>1. TypeOK'
    BY CallersAssumption, ChannelFacts DEF Inv, TypeOK, WorkerPC, CallerPC, Outcome, Mode, Crash, Step
  <1>2. IntentInUse'
    BY DEF Inv, IntentInUse, TypeOK, Crash, Step
  <1>3. OneIntent'
    BY DEF Inv, OneIntent, TypeOK, Crash, Step
  <1>4. ServeInv'
    BY DEF Inv, ServeInv, TypeOK, Crash, Step
  <1>5. GrantsAreOwned'
    <2>1. \A c \in Callers : HasTurn(c)' <=> HasTurn(c) /\ Proc[c] # p
      BY DEF HasTurn, Crash
    <2>2. serving' = [serving EXCEPT ![p] = {}]
      BY DEF Crash
    <2> QED BY <2>1, <2>2 DEF Inv, TypeOK, GrantsAreOwned, Mates
  <1>6. ChannelInv'
    BY DEF Inv, ChannelInv, TypeOK, Crash, Step
  <1>7. QueueInv'
    <2>1. \A c \in Callers : Unanswered(c)' <=> Unanswered(c) /\ Proc[c] # p
      BY DEF Unanswered, Crash
    <2>2. OneEach(<<>>) /\ Waiting(<<>>) = {}
      BY DEF OneEach, Waiting
    <2>3. queue' = [queue EXCEPT ![p] = <<>>]
      BY DEF Crash
    <2> QED BY <2>1, <2>2, <2>3 DEF Inv, TypeOK, QueueInv, Mates
  <1>8. ActiveInv'
    <2>1. Waiting(<<>>) = {}
      BY DEF Waiting
    <2> QED BY <2>1 DEF Inv, TypeOK, ActiveInv, Crash, Step
  <1>9. InsideInv'
    BY CallersAssumption, ChannelFacts DEF Inv, InsideInv, Mates, Mode, TypeOK, Crash, Step
  <1> QED BY <1>1, <1>2, <1>3, <1>4, <1>5, <1>6, <1>7, <1>8, <1>9 DEF Inv

-----------------------------------------------------------------------------
(* The invariant.                                                          *)

LEMMA NextInv == Inv /\ [Next]_vars => Inv'
  <1> SUFFICES ASSUME Inv, [Next]_vars PROVE Inv'
    OBVIOUS
  <1>1. ASSUME NEW c \in Callers, Call(c) PROVE Inv'
    BY <1>1, AcquireStep, ReceiveStep, DoneStep, CancelStep, PollStep, PollFailsStep,
       HandBackStep, ReleaseStep DEF Call
  <1>2. ASSUME NEW p \in Procs, Work(p) PROVE Inv'
    BY <1>2, WakeStep, PendingWorkStep, FlockStep, FlockFailsStep, GrantHeadStep,
       ServedStep, UnlockStep, PoisonStep DEF Work
  <1>3. ASSUME NEW p \in Procs, Crash(p) PROVE Inv'
    BY <1>3, CrashStep
  <1>4. CASE UNCHANGED vars
    BY <1>4 DEF Inv, TypeOK, IntentInUse, OneIntent, ServeInv, GrantsAreOwned, ChannelInv,
       QueueInv, ActiveInv, InsideInv, HasTurn, Unanswered, vars, gate, callers
  <1> QED BY <1>1, <1>2, <1>3, <1>4 DEF Next

THEOREM GateInvariant == Spec => []Inv
  BY InitInv, NextInv, PTL DEF Spec

(* Every state is well typed: in particular no send on a request's channel *)
(* ever finds it full, so grantHead and unlock cannot block under gate.mu. *)
THEOREM GateTypes == Spec => []TypeOK
  <1>1. Inv => TypeOK
    BY DEF Inv
  <1> QED BY <1>1, GateInvariant, PTL

(* Exactly one of grant and cancellation wins, in intentGate.acquire.      *)
THEOREM GrantsOwned == Spec => []GrantsAreOwned
  <1>1. Inv => GrantsAreOwned
    BY DEF Inv
  <1> QED BY <1>1, GateInvariant, PTL

(* No caller waits in a queue that no worker will look at.                 *)
THEOREM NobodyForgotten == Spec => []Attended
  <1>1. ASSUME Inv PROVE Attended
    <2> SUFFICES ASSUME NEW c \in Callers, Unanswered(c)
                 PROVE  /\ c \in Live(Proc[c])
                        /\ worker[Proc[c]] # "dead"
                        /\ worker[Proc[c]] = "asleep" => wake[Proc[c]]
      BY DEF Attended
    <2>1. Proc[c] \in Procs /\ c \in Waiting(queue[Proc[c]])
      BY <1>1, CallersAssumption DEF Inv, QueueInv, Mates
    <2> QED BY <1>1, <2>1 DEF Inv, ActiveInv, Waiting, Live
  <1> QED BY <1>1, GateInvariant, PTL

(* The intent flock is held only while its worker serves somebody or is    *)
(* about to let go of it.                                                  *)
THEOREM IntentNotLeaked == Spec => []IntentInUse
  <1>1. Inv => IntentInUse
    BY DEF Inv
  <1> QED BY <1>1, GateInvariant, PTL

-----------------------------------------------------------------------------
(* The refinement.                                                         *)

(* Over all processes, one caller has the turn: its worker holds intent.   *)
LEMMA OneTurn ==
    ASSUME Inv
    PROVE  /\ \A c, d \in Callers : HasTurn(c) /\ HasTurn(d) => c = d
           /\ \A c \in Callers : HasTurn(c) =>
                 intent = {Proc[c]} /\ worker[Proc[c]] = "serve"
  <1>1. ASSUME NEW c \in Callers, HasTurn(c)
        PROVE  /\ c \in serving[Proc[c]] /\ Proc[c] \in Procs
               /\ intent = {Proc[c]} /\ worker[Proc[c]] = "serve"
    <2>1. Proc[c] \in Procs /\ c \in serving[Proc[c]]
      BY <1>1, CallersAssumption DEF Inv, GrantsAreOwned, Mates
    <2> QED BY <2>1 DEF Inv, ServeInv, IntentInUse
  <1>2. ASSUME NEW c \in Callers, NEW d \in Callers, HasTurn(c), HasTurn(d)
        PROVE  c = d
    <2>1. Proc[c] = Proc[d]
      BY <1>1, <1>2
    <2> QED BY <1>1, <1>2, <2>1 DEF Inv, GrantsAreOwned
  <1> QED BY <1>1, <1>2

(* Every step of a caller is a step of the turnstile, or none.             *)
LEMMA AcquireMaps ==
    ASSUME Inv, NEW c \in Callers, NEW h \in Mode, Acquire(c, h)
    PROVE  Passage!Arrive(c)
  <1>1. /\ pc[c] = "idle" /\ how[c] = "none" /\ granted[c] = <<>>
        /\ pc' = [pc EXCEPT ![c] = "select"] /\ how' = [how EXCEPT ![c] = h]
        /\ pc \in [Callers -> CallerPC] /\ UNCHANGED <<inside, granted>>
    BY DEF Inv, TypeOK, ChannelInv, InsideInv, Acquire
  <1>2. \A d \in Callers : HasTurn(d)' <=> HasTurn(d)
    BY <1>1, ChannelFacts DEF HasTurn, Outcome
  <1>3. ~HasTurn(c)
    BY <1>1 DEF HasTurn
  <1>4. Turn' = Turn /\ Line' = Line \cup {c}
    BY <1>1, <1>2, <1>3 DEF Turn, Line
  <1> QED BY <1>1, <1>4 DEF Passage!Arrive, Mode

LEMMA ReceiveMaps ==
    ASSUME Inv, NEW c \in Callers, Receive(c)
    PROVE  Passage!Next \/ UNCHANGED Passage!vars
  <1>1. /\ pc[c] = "select" /\ granted[c] \in Channel /\ granted[c] # <<>>
        /\ granted' = [granted EXCEPT ![c] = <<>>] /\ UNCHANGED inside
        /\ pc \in [Callers -> CallerPC] /\ how \in [Callers -> Mode \cup {"none"}]
        /\ granted \in [Callers -> Channel] /\ c \notin inside
    BY ChannelFacts DEF Inv, TypeOK, InsideInv, Receive
  <1>2. CASE granted[c] = <<"intent">>
    <2>1. pc' = [pc EXCEPT ![c] = "poll"] /\ UNCHANGED how
      BY <1>2, ChannelFacts DEF Receive, Move, Outcome
    <2>2. \A d \in Callers : /\ HasTurn(d)' <=> HasTurn(d)
                             /\ d \in Line' <=> d \in Line
      BY <1>1, <1>2, <2>1 DEF HasTurn, Line
    <2> QED BY <1>1, <2>1, <2>2 DEF Turn, Line, Passage!vars
  <1>3. CASE granted[c] # <<"intent">>
    <2>1. Leave(c)
      BY <1>1, <1>3, ChannelFacts DEF Receive
    <2>2. \A d \in Callers : /\ HasTurn(d)' <=> HasTurn(d) /\ d # c
                             /\ d \in Line' <=> d \in Line /\ d # c
      BY <1>1, <1>3, <2>1 DEF HasTurn, Line, Leave
    <2>3. Line' = Line \ {c} /\ Turn' = Turn \ {c} /\ inside' = inside \ {c}
      BY <1>1, <2>2 DEF Turn, Line
    <2>4. how' = Passage!Rest({c})
      BY <1>1, <2>1 DEF Leave, Passage!Rest
    <2> QED BY <2>3, <2>4 DEF Passage!Go, Passage!Next
  <1> QED BY <1>2, <1>3

LEMMA CancelMaps ==
    ASSUME Inv, NEW c \in Callers, Cancel(c)
    PROVE  Passage!Next
  <1>1. /\ pc[c] = "cancel" /\ granted \in [Callers -> Channel]
        /\ granted' = [granted EXCEPT ![c] = <<>>] /\ UNCHANGED inside /\ c \notin inside
        /\ pc' = [pc EXCEPT ![c] = "idle"] /\ how' = [how EXCEPT ![c] = "none"]
        /\ pc \in [Callers -> CallerPC] /\ how \in [Callers -> Mode \cup {"none"}]
    BY ChannelFacts DEF Inv, TypeOK, InsideInv, Cancel, Leave
  <1>2. \A d \in Callers : /\ HasTurn(d)' <=> HasTurn(d) /\ d # c
                           /\ d \in Line' <=> d \in Line /\ d # c
    BY <1>1, ChannelFacts DEF HasTurn, Line
  <1>3. Line' = Line \ {c} /\ Turn' = Turn \ {c} /\ inside' = inside \ {c}
    BY <1>1, <1>2 DEF Turn, Line
  <1>4. how' = Passage!Rest({c})
    BY <1>1 DEF Passage!Rest
  <1> QED BY <1>3, <1>4 DEF Passage!Go, Passage!Next

LEMMA PollMaps ==
    ASSUME Inv, NEW c \in Callers, Poll(c)
    PROVE  Passage!Enter(c)
  <1>1. /\ pc[c] = "poll" /\ pc' = [pc EXCEPT ![c] = "back"] /\ UNCHANGED <<granted, how>>
        /\ pc \in [Callers -> CallerPC] /\ inside' = inside \cup {c} /\ Compatible(c)
    BY DEF Inv, TypeOK, Poll, Move
  <1>2. \A d \in Callers : /\ HasTurn(d)' <=> HasTurn(d)
                           /\ d \in Line' <=> d \in Line
    BY <1>1 DEF HasTurn, Line
  <1>3. Turn' = Turn /\ Line' = Line /\ c \in Turn
    BY <1>1, <1>2 DEF Turn, Line, HasTurn
  <1> QED BY <1>1, <1>3 DEF Passage!Enter, Compatible

LEMMA HandBackMaps ==
    ASSUME Inv, NEW c \in Callers, HandBack(c)
    PROVE  Passage!PassOn(c)
  <1>1. /\ pc[c] = "back" /\ UNCHANGED <<granted, inside>> /\ HasTurn(c)
        /\ pc' = [pc EXCEPT ![c] = IF c \in inside THEN "hold" ELSE "idle"]
        /\ pc \in [Callers -> CallerPC] /\ how \in [Callers -> Mode \cup {"none"}]
    BY DEF Inv, TypeOK, HandBack, Move, Leave, HasTurn
  <1>2. /\ ~HasTurn(c)' /\ c \notin Line'
        /\ \A d \in Callers : d # c => /\ HasTurn(d)' <=> HasTurn(d)
                                       /\ d \in Line' <=> d \in Line
    BY <1>1 DEF HasTurn, Line
  <1>3. Turn' = {} /\ c \in Turn
    BY <1>1, <1>2, OneTurn DEF Turn
  <1>4. Line' = Line
    BY <1>1, <1>2 DEF Line
  <1>5. how' = (IF c \in inside THEN how ELSE Passage!Rest({c}))
    BY <1>1 DEF HandBack, Move, Leave, Passage!Rest
  <1> QED BY <1>1, <1>3, <1>4, <1>5 DEF Passage!PassOn

LEMMA ReleaseMaps ==
    ASSUME Inv, NEW c \in Callers, Release(c)
    PROVE  Passage!Next
  <1>1. /\ pc[c] = "hold" /\ UNCHANGED granted /\ inside' = inside \ {c}
        /\ pc' = [pc EXCEPT ![c] = "idle"] /\ how' = [how EXCEPT ![c] = "none"]
        /\ pc \in [Callers -> CallerPC] /\ how \in [Callers -> Mode \cup {"none"}]
    BY DEF Inv, TypeOK, Release, Leave
  <1>2. \A d \in Callers : /\ HasTurn(d)' <=> HasTurn(d) /\ d # c
                           /\ d \in Line' <=> d \in Line /\ d # c
    BY <1>1 DEF HasTurn, Line
  <1>3. Line' = Line \ {c} /\ Turn' = Turn \ {c}
    BY <1>2 DEF Turn, Line
  <1>4. how' = Passage!Rest({c})
    BY <1>1 DEF Passage!Rest
  <1> QED BY <1>1, <1>3, <1>4 DEF Passage!Go, Passage!Next

(* The worker's only visible step is to give the turn.                     *)
LEMMA GrantHeadMaps ==
    ASSUME Inv, NEW p \in Procs, GrantHead(p)
    PROVE  Passage!Next \/ UNCHANGED Passage!vars
  <1>1. UNCHANGED <<inside, pc, how>> /\ worker[p] = "grant"
    BY GrantHeadCases
  <1>2. CASE UNCHANGED granted
    <2>1. \A d \in Callers : HasTurn(d)' <=> HasTurn(d)
      BY <1>1, <1>2 DEF HasTurn
    <2> QED BY <1>1, <2>1 DEF Turn, Line, Passage!vars
  <1>3. ASSUME NEW c \in Mates(p), Unanswered(c),
               granted' = [granted EXCEPT ![c] =
                               IF p \in intent THEN <<"intent">> ELSE <<"error">>]
        PROVE  Passage!TakeTurn(c) \/ UNCHANGED Passage!vars
    <2>1. /\ c \in Callers /\ granted \in [Callers -> Channel] /\ granted[c] = <<>>
          /\ pc[c] \in {"select", "cancel"}
      BY <1>3 DEF Inv, TypeOK, Mates, Unanswered
    <2>2. \A d \in Callers : HasTurn(d)' <=> HasTurn(d) \/ (d = c /\ p \in intent)
      BY <1>1, <1>3, <2>1, ChannelFacts DEF HasTurn, Outcome
    <2>3. CASE p \notin intent
      BY <1>1, <2>2, <2>3 DEF Turn, Line, Passage!vars
    <2>4. CASE p \in intent
      <3>1. intent = {p}
        BY <2>4 DEF Inv, OneIntent
      <3>2. Turn = {}
        BY <1>1, <3>1, OneTurn DEF Turn
      <3>3. c \in Line /\ Turn' = {c} /\ Line' = Line \ {c}
        BY <1>1, <2>1, <2>2, <2>4, <3>2 DEF Turn, Line
      <3> QED BY <1>1, <3>2, <3>3 DEF Passage!TakeTurn
    <2> QED BY <2>3, <2>4
  <1> QED BY <1>2, <1>3, GrantHeadCases DEF Passage!Next, Mates

LEMMA PoisonMaps ==
    ASSUME Inv, NEW p \in Procs, Poison(p)
    PROVE  UNCHANGED Passage!vars
  <1>1. \A c \in Callers : c \in Live(p) => granted[c] = <<>>
    BY DEF Inv, QueueInv, Waiting, Live, Unanswered
  <1>2. ASSUME NEW c \in Callers PROVE HasTurn(c)' <=> HasTurn(c)
    <2>1. /\ granted'[c] = IF c \in Live(p) THEN Append(granted[c], "error") ELSE granted[c]
          /\ pc' = pc
      BY DEF Poison
    <2>2. Append(<<>>, "error") = <<"error">> /\ <<"error">> # <<"intent">> /\ <<"intent">> # <<>>
      BY ChannelFacts DEF Outcome
    <2> QED BY <1>1, <2>1, <2>2 DEF HasTurn
  <1>3. UNCHANGED <<pc, how, inside>>
    BY DEF Poison
  <1> QED BY <1>2, <1>3 DEF Turn, Line, Passage!vars

LEMMA CrashMaps ==
    ASSUME Inv, NEW p \in Procs, Crash(p)
    PROVE  Passage!Next
  <1>1. \A d \in Callers : /\ HasTurn(d)' <=> HasTurn(d) /\ d \notin Mates(p)
                           /\ d \in Line' <=> d \in Line /\ d \notin Mates(p)
    BY DEF HasTurn, Line, Mates, Crash
  <1>2. Line' = Line \ Mates(p) /\ Turn' = Turn \ Mates(p) /\ inside' = inside \ Mates(p)
    BY <1>1 DEF Turn, Line, Crash
  <1>3. how' = Passage!Rest(Mates(p)) /\ Mates(p) \in SUBSET Callers
    BY DEF Crash, Mates, Passage!Rest
  <1> QED BY <1>2, <1>3 DEF Passage!Go, Passage!Next

LEMMA InitMaps == Init => Passage!Init
  BY DEF Init, Passage!Init, Line, Turn, HasTurn

LEMMA StepMaps == Inv /\ [Next]_vars => [Passage!Next]_Passage!vars
  <1> SUFFICES ASSUME Inv, [Next]_vars
               PROVE  Passage!Next \/ UNCHANGED Passage!vars
    OBVIOUS
  <1>1. ASSUME UNCHANGED <<pc, how, inside, granted>>
        PROVE  UNCHANGED Passage!vars
    BY <1>1 DEF Line, Turn, HasTurn, Passage!vars
  <1>2. ASSUME NEW c \in Callers, Done(c) \/ PollFails(c)
        PROVE  UNCHANGED Passage!vars
    <2>1. /\ pc \in [Callers -> CallerPC] /\ UNCHANGED <<how, inside, granted>>
          /\ \/ pc[c] = "select" /\ pc' = [pc EXCEPT ![c] = "cancel"]
             \/ pc[c] = "poll" /\ pc' = [pc EXCEPT ![c] = "back"]
      BY <1>2 DEF Inv, TypeOK, Done, PollFails, Move
    <2>2. \A d \in Callers : /\ HasTurn(d)' <=> HasTurn(d)
                             /\ d \in Line' <=> d \in Line
      BY <2>1 DEF HasTurn, Line
    <2> QED BY <2>1, <2>2 DEF Turn, Line, Passage!vars
  <1>3. ASSUME NEW c \in Callers, Call(c)
        PROVE  Passage!Next \/ UNCHANGED Passage!vars
    BY <1>2, <1>3, AcquireMaps, ReceiveMaps, CancelMaps, PollMaps, HandBackMaps, ReleaseMaps
    DEF Call, Passage!Next
  <1>4. ASSUME NEW p \in Procs, Work(p)
        PROVE  Passage!Next \/ UNCHANGED Passage!vars
    <2>1. CASE GrantHead(p)
      BY <2>1, GrantHeadMaps
    <2>2. CASE Poison(p)
      BY <2>2, PoisonMaps
    <2>3. CASE Wake(p) \/ PendingWork(p) \/ Flock(p) \/ FlockFails(p) \/ Served(p) \/ Unlock(p)
      BY <1>1, <2>3 DEF Wake, PendingWork, Flock, FlockFails, Served, Unlock, callers
    <2> QED BY <1>4, <2>1, <2>2, <2>3 DEF Work
  <1>5. CASE UNCHANGED vars
    BY <1>1, <1>5 DEF vars, callers
  <1> QED BY <1>3, <1>4, <1>5, CrashMaps DEF Next

(* FlockLocker implements the turnstile: over all processes one caller at  *)
(* a time polls the main lock, and nobody else gets in meanwhile.          *)
THEOREM LockerIsTurnstile == Spec => OneTurnstile
  BY InitMaps, StepMaps, GateInvariant, PTL DEF Spec, OneTurnstile, Passage!Spec

-----------------------------------------------------------------------------
(* Who is given the turn.                                                  *)

(* A caller only goes on with the turn it has, or lets go of it.           *)
LEMMA CallersGainNothing ==
    ASSUME Inv, NEW c \in Callers, Call(c), NEW d \in Callers, HasTurn(d)'
    PROVE  HasTurn(d)
  <1>1. /\ pc \in [Callers -> CallerPC] /\ granted \in [Callers -> Channel]
        /\ granted[c] \in Channel
    BY DEF Inv, TypeOK
  <1>2. pc[c] = "idle" => granted[c] = <<>>
    BY DEF Inv, ChannelInv
  <1>3. ASSUME NEW h \in Mode, Acquire(c, h) PROVE HasTurn(d)
    <2>1. granted' = granted /\ pc' = [pc EXCEPT ![c] = "select"] /\ granted[c] = <<>>
      BY <1>2, <1>3 DEF Acquire
    <2> QED BY <1>1, <2>1, ChannelFacts DEF HasTurn, Outcome
  <1>4. CASE Receive(c)
    <2>1. /\ granted' = [granted EXCEPT ![c] = <<>>] /\ pc[c] = "select"
          /\ \/ granted[c] = <<"intent">> /\ pc' = [pc EXCEPT ![c] = "poll"]
             \/ pc' = [pc EXCEPT ![c] = "idle"]
      BY <1>1, <1>4, ChannelFacts DEF Receive, Move, Leave
    <2> QED BY <1>1, <2>1, ChannelFacts DEF HasTurn, Outcome
  <1>5. CASE Done(c) \/ PollFails(c) \/ Poll(c)
    <2>1. /\ granted' = granted
          /\ \/ pc[c] = "select" /\ pc' = [pc EXCEPT ![c] = "cancel"]
             \/ pc[c] = "poll" /\ pc' = [pc EXCEPT ![c] = "back"]
      BY <1>5 DEF Done, PollFails, Poll, Move
    <2> QED BY <1>1, <2>1 DEF HasTurn
  <1>6. CASE Cancel(c)
    <2>1. granted' = [granted EXCEPT ![c] = <<>>] /\ pc' = [pc EXCEPT ![c] = "idle"]
      BY <1>1, <1>6, ChannelFacts DEF Cancel, Leave
    <2> QED BY <1>1, <2>1 DEF HasTurn
  <1>7. CASE HandBack(c) \/ Release(c)
    <2>1. granted' = granted /\ \E l \in {"hold", "idle"} : pc' = [pc EXCEPT ![c] = l]
      BY <1>7 DEF HandBack, Release, Move, Leave
    <2> QED BY <1>1, <2>1 DEF HasTurn
  <1> QED BY <1>3, <1>4, <1>5, <1>6, <1>7 DEF Call

(* Of the worker's steps, and those of the system, only GrantHead gives a  *)
(* turn: to a caller at the head of the queue the lock was acquired for.   *)
LEMMA OnlyHeadsGain ==
    ASSUME Inv, NEW p \in Procs, Work(p) \/ Crash(p),
           NEW d \in Callers, ~HasTurn(d), HasTurn(d)'
    PROVE  Head(queue[Proc[d]]) = [by |-> d, canceled |-> FALSE]
  <1>1. ~UNCHANGED <<pc, granted>>
    BY DEF HasTurn
  <1>2. ~Crash(p)
    BY DEF Crash, HasTurn
  <1>3. ~Poison(p)
    <2> SUFFICES ASSUME Poison(p) PROVE FALSE
      OBVIOUS
    <2>1. \A c \in Callers : c \in Live(p) => granted[c] = <<>>
      BY DEF Inv, QueueInv, Waiting, Live, Unanswered
    <2>2. /\ granted'[d] = IF d \in Live(p) THEN Append(granted[d], "error") ELSE granted[d]
          /\ pc' = pc
      BY DEF Poison
    <2>3. Append(<<>>, "error") = <<"error">> /\ <<"error">> # <<"intent">>
      BY ChannelFacts DEF Outcome
    <2> QED BY <2>1, <2>2, <2>3 DEF HasTurn
  <1>4. GrantHead(p)
    <2>1. Wake(p) \/ PendingWork(p) \/ Flock(p) \/ FlockFails(p) \/ Served(p) \/ Unlock(p)
             => UNCHANGED <<pc, granted>>
      BY DEF Wake, PendingWork, Flock, FlockFails, Served, Unlock, callers
    <2> QED BY <1>1, <1>2, <1>3, <2>1 DEF Work
  <1> DEFINE q == Fresh(queue[p])
             c == Head(q).by
  <1>5. /\ queue[p] \in Seq(Request) /\ OneEach(queue[p])
        /\ granted \in [Callers -> Channel]
    BY DEF Inv, TypeOK, QueueInv
  <1>6. q \in Seq(Request) /\ OneEach(q) /\ (q # <<>> => ~Head(q).canceled)
        /\ Waiting(q) = Waiting(queue[p])
    BY <1>5, FreshQueue
  <1>7. q # <<>> /\ q = queue[p]
    BY <1>1, <1>4 DEF GrantHead
  <1>8. pc' = pc /\ \E o : granted' = [granted EXCEPT ![c] = Append(@, o)]
    BY <1>4, <1>7 DEF GrantHead, Send
  <1>9. Head(q) \in Request /\ Head(q) = [by |-> c, canceled |-> FALSE]
    <2>1. Head(q) \in Request
      BY <1>6, <1>7
    <2> QED BY <1>6, <1>7, <2>1 DEF Request
  <1>10. c = d
    <2> HIDE DEF c
    <2> QED BY <1>5, <1>8 DEF HasTurn
  <1>11. Proc[c] = p
    <2>1. c \in Waiting(queue[p])
      BY <1>6, <1>7, TailQueue
    <2> QED BY <2>1 DEF Inv, QueueInv, Mates
  <1> QED BY <1>7, <1>9, <1>10, <1>11

(* One acquisition of the kernel's lock serves the request it was made     *)
(* for: a canceled head's turn is not handed on (grantHead).               *)
THEOREM NotTransferredTheorem == Spec => NotTransferred
  <1>1. Inv /\ [Next]_vars =>
           [\A c \in Callers :
              ~HasTurn(c) /\ HasTurn(c)' =>
                 Head(queue[Proc[c]]) = [by |-> c, canceled |-> FALSE]]_vars
    <2> SUFFICES ASSUME Inv, Next, NEW c \in Callers, ~HasTurn(c), HasTurn(c)'
                 PROVE  Head(queue[Proc[c]]) = [by |-> c, canceled |-> FALSE]
      BY Zenon
    <2> QED BY CallersGainNothing, OnlyHeadsGain DEF Next
  <1> QED BY <1>1, GateInvariant, PTL DEF Spec, NotTransferred

=============================================================================
