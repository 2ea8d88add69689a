----------------------------- MODULE WatchProofs -----------------------------
(***************************************************************************)
(* Proofs about Watch, for any number of projects, sidebars and ticks.     *)
(***************************************************************************)
EXTENDS Watch, TLAPS

(* Owed speaks of two ways: that of a signal into the cache, and that of   *)
(* the cache to the screen.                                                *)
Promised(p) ==
    told[p] > cache[p] =>
        \/ p \in lost
        \/ Inner(p) \in signal
        \/ stage[Inner(p)] = "window"
        \/ stage[Inner(p)] = "fire" /\ fetch.by # p
        \/ fetch.by = p /\ fetch.pc = "read" /\ fetch.at <= p
        \/ fetch.by = p /\ fetch.got[p] >= told[p]

Painted(p) ==
    shown[p] # cache =>
        \/ p \in unpainted \cup state
        \/ bar[p].pc = "frame"
        \/ fetch.pc = "bump"

Types ==
    /\ truth \in [Projects -> Nat] /\ cache \in [Projects -> Nat] /\ told \in [Bars -> Nat]
    /\ stage \in [Channels -> {"wait", "window", "fire"}]
    /\ bar = [p \in Bars |-> bar[p]] /\ shown = [p \in Bars |-> shown[p]]

(* Nothing is known before it is true.                                     *)
Behind ==
    /\ \A p \in Projects : cache[p] <= truth[p]
    /\ \A p \in Bars : told[p] <= truth[p]

(* A fetch never takes anything back, only a coalescer that fires has one, *)
(* and when it goes to bump the serial the files are written.              *)
Running ==
    /\ fetch \in [pc : {"read", "write", "bump"}, by : Bars \cup {0}, at : Nat,
                  got : [Projects -> Nat]]
    /\ fetch.pc = "read" => fetch.at \in Projects
    /\ fetch.by # 0 => stage[Inner(fetch.by)] = "fire"
    /\ \A p \in Projects : cache[p] <= fetch.got[p] /\ fetch.got[p] <= truth[p]
    /\ fetch.pc = "bump" => cache = fetch.got

FetchInv == fetch = NoFetch \/ Running

Inv == Types /\ Behind /\ FetchInv /\ (\A p \in Bars : Promised(p)) /\ (\A p \in Bars : Painted(p))

-----------------------------------------------------------------------------
LEMMA Numbers ==
    /\ Bars \subseteq Projects /\ 0 \notin Bars /\ Last \in Nat \ {0}
    /\ \A p \in Projects : p \in Nat /\ 1 <= p /\ p <= Last
    /\ \A p \in Bars : Inner(p) \in Channels
    /\ \A p, q \in Bars : Inner(p) = Inner(q) => p = q
  BY WatchAssumption DEF Projects, Channels, Inner

LEMMA NoFetchFacts == NoFetch.pc = "off" /\ NoFetch.by = 0
  BY DEF NoFetch

(* A change: what is true gets ahead, and no signal is lost by it.         *)
LEMMA ChangeStep ==
    ASSUME Inv, NEW p \in Projects, Changes(p), signal \subseteq signal',
           UNCHANGED <<told, stage, fetch, cache, bar, shown, lost, unpainted, state>>
    PROVE  Inv'
  <1>1. Types'
    BY Numbers DEF Inv, Types, Changes
  <1>2. \A q \in Projects : truth'[q] \in Nat /\ truth[q] \in Nat /\ truth[q] <= truth'[q]
    BY Numbers DEF Inv, Types, Changes
  <1>3. Behind'
    BY <1>2, Numbers DEF Inv, Types, Behind
  <1>4. FetchInv'
    <2>1. CASE fetch = NoFetch
      BY <2>1 DEF FetchInv
    <2>2. CASE Running
      <3>1. \A q \in Projects : fetch.got[q] \in Nat
        BY <2>2 DEF Running
      <3> QED BY <1>2, <2>2, <3>1 DEF FetchInv, Running
    <2> QED BY <2>1, <2>2 DEF Inv, FetchInv
  <1>5. \A q \in Bars : Promised(q)'
    BY DEF Inv, Promised
  <1>6. \A q \in Bars : Painted(q)'
    BY DEF Inv, Painted
  <1> QED BY <1>1, <1>3, <1>4, <1>5, <1>6 DEF Inv

LEMMA ChangesKept ==
    ASSUME Inv, NEW p \in Projects, InnerChange(p) \/ ContainerChange(p) \/ Command(p)
    PROVE  Inv'
  <1>1. /\ Changes(p) /\ signal \subseteq signal'
        /\ UNCHANGED <<told, stage, fetch, cache, bar, shown, lost, unpainted, state>>
    BY DEF InnerChange, ContainerChange, Command, daemon, screen
  <1> QED BY <1>1, ChangeStep

(* A channel comes or goes.                                                *)
LEMMA ChannelsKept ==
    ASSUME Inv,
           UNCHANGED <<truth, told, stage, fetch, cache, bar, shown, lost, unpainted, state, signal>>
    PROVE  Inv'
  BY DEF Inv, Types, Behind, FetchInv, Running, Promised, Painted

(* The daemon is told, and a signal for it is in the buffer.               *)
LEMMA StreamKept ==
    ASSUME Inv, NEW p \in Bars, watchStream(p)
    PROVE  Inv'
  <1> USE DEF watchStream
  <1>1. Types' /\ FetchInv' /\ \A q \in Bars : Painted(q)'
    BY Numbers DEF Inv, Types, FetchInv, Running, Painted, world, screen
  <1>2. Behind'
    BY Numbers DEF Inv, Types, Behind, world
  <1>3. ASSUME NEW q \in Bars PROVE Promised(q)'
    <2>1. CASE q = p
      BY <2>1 DEF Promised
    <2>2. CASE q # p
      <3>1. Promised(q)
        BY DEF Inv
      <3>2. told'[q] = told[q] /\ (q \in lost => q \in lost') /\ signal \subseteq signal'
        BY <2>2 DEF Inv, Types
      <3> QED BY <3>1, <3>2 DEF Promised
    <2> QED BY <2>1, <2>2
  <1> QED BY <1>1, <1>2, <1>3 DEF Inv

-----------------------------------------------------------------------------
(* The coalescer.  A step of one channel leaves the others alone; FireBump *)
(* is one of the events channel.                                           *)
LEMMA CoalesceTypes ==
    ASSUME Inv, NEW c \in Channels, NEW v \in {"wait", "window", "fire"},
           stage' = [stage EXCEPT ![c] = v],
           \A q \in Bars : c = Inner(q) => fetch.by # q,
           UNCHANGED <<truth, told, fetch, cache, bar, shown, unpainted, state, lost>>
    PROVE  Types' /\ Behind' /\ FetchInv' /\ \A q \in Bars : Painted(q)'
  <1>1. Types'
    BY DEF Inv, Types
  <1>2. FetchInv'
    <2>1. CASE fetch = NoFetch
      BY <2>1 DEF FetchInv
    <2>2. CASE Running
      <3>1. fetch.by # 0 => fetch.by \in Bars /\ stage'[Inner(fetch.by)] = stage[Inner(fetch.by)]
        BY <2>2, Numbers DEF Running, Inv, Types
      <3> QED BY <2>2, <3>1 DEF FetchInv, Running
    <2> QED BY <2>1, <2>2 DEF Inv, FetchInv
  <1>3. Behind' /\ \A q \in Bars : Painted(q)'
    BY DEF Inv, Behind, Painted
  <1> QED BY <1>1, <1>2, <1>3

(* Only a coalescer that fires can have the fetch.                         *)
LEMMA IdleHasNoFetch ==
    ASSUME Inv, NEW q \in Bars, stage[Inner(q)] # "fire"
    PROVE  fetch.by # q
  BY Numbers, NoFetchFacts DEF Inv, FetchInv, Running

LEMMA TakeKept ==
    ASSUME Inv, NEW c \in Channels, Take(c)
    PROVE  Inv'
  <1> USE DEF Take
  <1>0. \A q \in Bars : c = Inner(q) => fetch.by # q
    BY IdleHasNoFetch
  <1>1. UNCHANGED <<truth, told, fetch, cache, bar, shown, unpainted, state, lost>>
    BY DEF world, screen
  <1>2. Types' /\ Behind' /\ FetchInv' /\ \A q \in Bars : Painted(q)'
    BY <1>0, <1>1, CoalesceTypes
  <1>3. ASSUME NEW q \in Bars PROVE Promised(q)'
    <2>1. CASE c = Inner(q)
      BY <2>1, Numbers DEF Promised, Inv, Types
    <2>2. CASE c # Inner(q)
      <3>1. stage'[Inner(q)] = stage[Inner(q)] /\ (Inner(q) \in signal => Inner(q) \in signal')
        BY <2>2, Numbers DEF Inv, Types
      <3> QED BY <3>1, <1>1 DEF Promised, Inv
    <2> QED BY <2>1, <2>2
  <1> QED BY <1>2, <1>3 DEF Inv

LEMMA WindowKept ==
    ASSUME Inv, NEW c \in Channels, WindowEnds(c)
    PROVE  Inv'
  <1> USE DEF WindowEnds
  <1>0. \A q \in Bars : c = Inner(q) => fetch.by # q
    BY IdleHasNoFetch
  <1>1. UNCHANGED <<truth, told, fetch, cache, bar, shown, unpainted, state, lost>>
    BY DEF world, screen
  <1>2. Types' /\ Behind' /\ FetchInv' /\ \A q \in Bars : Painted(q)'
    BY <1>0, <1>1, CoalesceTypes
  <1>3. ASSUME NEW q \in Bars PROVE Promised(q)'
    <2>1. CASE c = Inner(q)
      <3>1. stage'[Inner(q)] = "fire" /\ fetch'.by # q
        BY <2>1, <1>0, <1>1, Numbers DEF Inv, Types
      <3> QED BY <3>1 DEF Promised
    <2>2. CASE c # Inner(q)
      <3>1. stage'[Inner(q)] = stage[Inner(q)] /\ (Inner(q) \in signal => Inner(q) \in signal')
        BY <2>2, Numbers DEF Inv, Types
      <3> QED BY <3>1, <1>1 DEF Promised, Inv
    <2> QED BY <2>1, <2>2
  <1> QED BY <1>2, <1>3 DEF Inv

LEMMA FireBumpKept ==
    ASSUME Inv, NEW p \in Bars, FireBump(p)
    PROVE  Inv'
  <1> DEFINE c == <<p, "events">>
  <1>0. c \in Channels /\ \A q \in Bars : c # Inner(q)
    BY DEF Channels, Inner
  <1>1. /\ stage' = [stage EXCEPT ![c] = "wait"]
        /\ UNCHANGED <<truth, told, fetch, cache, bar, shown, unpainted, state, lost, signal>>
    BY DEF FireBump, world, screen
  <1>2. Types' /\ Behind' /\ FetchInv' /\ \A q \in Bars : Painted(q)'
    BY <1>0, <1>1, CoalesceTypes
  <1>3. ASSUME NEW q \in Bars PROVE Promised(q)'
    <2>1. stage'[Inner(q)] = stage[Inner(q)]
      BY <1>0, <1>1, Numbers DEF Inv, Types
    <2> QED BY <2>1, <1>1 DEF Promised, Inv
  <1> QED BY <1>2, <1>3 DEF Inv

-----------------------------------------------------------------------------
(* A fetch begins where there was none.                                    *)
LEMMA BeginKept ==
    ASSUME Inv, NEW by \in Bars \cup {0}, fetch = NoFetch, fetch' = Fetching(by),
           by # 0 => stage[Inner(by)] = "fire",
           UNCHANGED <<truth, told, stage, cache, bar, shown, lost, unpainted, state, signal>>
    PROVE  Inv'
  <1>1. Types' /\ Behind'
    BY DEF Inv, Types, Behind
  <1>2. Running'
    <2>1. fetch' = [pc |-> "read", by |-> by, at |-> 1, got |-> cache]
      BY DEF Fetching
    <2>2. cache \in [Projects -> Nat] /\ 1 \in Projects
      BY Numbers DEF Inv, Types, Projects
    <2>3. \A q \in Projects : cache[q] <= cache[q] /\ cache[q] <= truth[q]
      BY <2>2 DEF Inv, Behind
    <2> QED BY <2>1, <2>2, <2>3 DEF Running
  <1>3. ASSUME NEW q \in Bars PROVE Promised(q)'
    <2>1. Promised(q) /\ q \in Nat /\ 1 <= q
      BY Numbers DEF Inv
    <2>2. fetch'.by = by /\ fetch'.pc = "read" /\ fetch'.at = 1
      BY DEF Fetching
    <2>3. fetch.by # q
      BY NoFetchFacts, Numbers
    <2> QED BY <2>1, <2>2, <2>3 DEF Promised
  <1>4. \A q \in Bars : Painted(q)'
    BY NoFetchFacts DEF Inv, Painted
  <1> QED BY <1>1, <1>2, <1>3, <1>4 DEF Inv, FetchInv

LEMMA PublishKept ==
    ASSUME Inv, NEW p \in Bars, watchPublish(p)
    PROVE  Inv'
  BY BeginKept DEF watchPublish, world, daemon, screen

LEMMA EngineKept ==
    ASSUME Inv, NEW p \in Bars, fetch_engine(p)
    PROVE  Inv'
  <1>1. UNCHANGED <<truth, told, stage, cache, bar, shown, lost, unpainted, state, signal>>
    BY DEF fetch_engine, world, daemon
  <1>2. CASE fetch = NoFetch
    BY <1>1, <1>2, BeginKept DEF fetch_engine
  <1>3. CASE fetch # NoFetch
    BY <1>1, <1>3, ChannelsKept DEF fetch_engine
  <1> QED BY <1>2, <1>3

(* One project is read.                                                    *)
LEMMA StatusKept ==
    ASSUME Inv, Status
    PROVE  Inv'
  <1>1. UNCHANGED <<truth, told, stage, cache, bar, shown, lost, unpainted, state, signal>>
    BY DEF Status, world, daemon, screen
  <1>2. Running /\ fetch.pc = "read" /\ fetch.at \in Projects
    BY NoFetchFacts DEF Inv, FetchInv, Running, Status
  <1>3. truth \in [Projects -> Nat] /\ told \in [Bars -> Nat] /\ cache \in [Projects -> Nat]
    BY DEF Inv, Types
  <1>4. fetch' = [pc |-> IF fetch.at = Last THEN "write" ELSE "read", by |-> fetch.by,
                  at |-> fetch.at + 1, got |-> [fetch.got EXCEPT ![fetch.at] = truth[fetch.at]]]
    BY <1>2 DEF Status, Running
  <1>5. /\ fetch'.by = fetch.by /\ fetch'.at = fetch.at + 1
        /\ fetch'.pc = IF fetch.at = Last THEN "write" ELSE "read"
        /\ fetch'.got = [fetch.got EXCEPT ![fetch.at] = truth[fetch.at]]
    BY <1>4
  <1>6. fetch.got \in [Projects -> Nat] /\ fetch'.got \in [Projects -> Nat]
    BY <1>2, <1>3, <1>5 DEF Running
  <1>7. Types' /\ Behind'
    BY <1>1 DEF Inv, Types, Behind
  <1>8. Running'
    <2>1. fetch' \in [pc : {"read", "write", "bump"}, by : Bars \cup {0}, at : Nat,
                      got : [Projects -> Nat]]
      <3>1. fetch.by \in Bars \cup {0} /\ fetch.at + 1 \in Nat
        BY <1>2, Numbers DEF Running
      <3> QED BY <3>1, <1>4, <1>5, <1>6
    <2>2. fetch'.pc = "read" => fetch'.at \in Projects
      BY <1>2, <1>5, Numbers DEF Projects
    <2>3. fetch'.by # 0 => stage'[Inner(fetch'.by)] = "fire"
      BY <1>1, <1>2, <1>5 DEF Running
    <2>4. ASSUME NEW q \in Projects
          PROVE  cache'[q] <= fetch'.got[q] /\ fetch'.got[q] <= truth'[q]
      <3>1. truth[q] \in Nat /\ cache[q] \in Nat /\ cache[q] <= truth[q]
        BY <1>3 DEF Inv, Behind
      <3>2. fetch'.got[q] = IF q = fetch.at THEN truth[q] ELSE fetch.got[q]
        BY <1>5, <1>6
      <3>3. cache[q] <= fetch.got[q] /\ fetch.got[q] <= truth[q]
        BY <1>2 DEF Running
      <3> QED BY <1>1, <3>1, <3>2, <3>3
    <2>5. fetch'.pc # "bump"
      BY <1>5
    <2> QED BY <2>1, <2>2, <2>3, <2>4, <2>5 DEF Running
  <1>9. ASSUME NEW q \in Bars PROVE Promised(q)'
    <2>1. q \in Projects /\ q \in Nat /\ q <= Last /\ fetch.at \in Nat
      BY <1>2, Numbers
    <2>2. told[q] \in Nat /\ truth[q] \in Nat /\ told[q] <= truth[q]
      BY <2>1, <1>3 DEF Inv, Behind
    <2>3. fetch'.got[q] = IF q = fetch.at THEN truth[q] ELSE fetch.got[q]
      BY <1>5, <1>6, <2>1
    <2>4. Promised(q)
      BY DEF Inv
    <2>5. CASE fetch.by = q /\ fetch.pc = "read" /\ fetch.at <= q
      <3>1. fetch.at = q => fetch'.got[q] >= told[q]
        BY <2>2, <2>3
      <3>2. fetch.at # q => fetch'.pc = "read" /\ fetch'.at <= q
        BY <2>1, <2>5, <1>5
      <3> QED BY <3>1, <3>2, <2>5, <1>1, <1>5 DEF Promised
    <2>6. CASE fetch.by = q /\ fetch.got[q] >= told[q]
      <3>1. fetch'.got[q] >= told[q]
        BY <2>2, <2>3, <2>6
      <3> QED BY <3>1, <2>6, <1>1, <1>5 DEF Promised
    <2>7. CASE ~(fetch.by = q /\ fetch.pc = "read" /\ fetch.at <= q)
               /\ ~(fetch.by = q /\ fetch.got[q] >= told[q])
      BY <2>4, <2>7, <1>1, <1>5 DEF Promised
    <2> QED BY <2>5, <2>6, <2>7
  <1>10. \A q \in Bars : Painted(q)'
    BY <1>1, <1>2 DEF Inv, Painted
  <1> QED BY <1>7, <1>8, <1>9, <1>10 DEF Inv, FetchInv

(* The files are written: whatever was promised by this fetch is in them.  *)
LEMMA WriteKept ==
    ASSUME Inv, writeCache
    PROVE  Inv'
  <1>1. /\ UNCHANGED <<truth, told, stage, bar, shown, lost, unpainted, state, signal>>
        /\ cache' = fetch.got
    BY DEF writeCache, world, daemon, screen
  <1>2. Running /\ fetch.pc = "write"
    BY NoFetchFacts DEF Inv, FetchInv, Running, writeCache
  <1>3. /\ fetch'.pc = "bump" /\ fetch'.by = fetch.by /\ fetch'.at = fetch.at
        /\ fetch'.got = fetch.got
        /\ fetch' \in [pc : {"read", "write", "bump"}, by : Bars \cup {0}, at : Nat,
                       got : [Projects -> Nat]]
    BY <1>2 DEF writeCache, Running
  <1>4. fetch.got \in [Projects -> Nat]
    BY <1>2 DEF Running
  <1>5. Types' /\ Behind'
    BY <1>1, <1>2, <1>4 DEF Inv, Types, Behind, Running
  <1>6. Running'
    <2>1. \A q \in Projects : fetch.got[q] <= fetch.got[q]
      BY <1>4
    <2> QED BY <1>1, <1>2, <1>3, <2>1 DEF Running
  <1>7. ASSUME NEW q \in Bars PROVE Promised(q)'
    <2>1. told[q] \in Nat /\ cache[q] \in Nat /\ fetch.got[q] \in Nat
          /\ cache[q] <= fetch.got[q]
      BY <1>2, <1>4, Numbers DEF Inv, Types, Running
    <2>2. Promised(q)
      BY DEF Inv
    <2>3. fetch.got[q] < told[q] => told[q] > cache[q] /\ ~(fetch.got[q] >= told[q])
      BY <2>1
    <2>4. told[q] > fetch.got[q] => fetch.got[q] < told[q]
      BY <2>1
    <2> QED BY <1>1, <1>2, <1>3, <2>2, <2>3, <2>4 DEF Promised
  <1>8. \A q \in Bars : Painted(q)'
    BY <1>3 DEF Painted
  <1> QED BY <1>5, <1>6, <1>7, <1>8 DEF Inv, FetchInv

(* A fetch ends, whose coalescer waits again; of another one's promises    *)
(* nothing is touched.                                                     *)
LEMMA EndTypes ==
    ASSUME Inv, Running, fetch' = NoFetch, stage' = fired,
           UNCHANGED <<truth, told, bar, shown, signal>>,
           cache' \in [Projects -> Nat],
           \A q \in Projects : cache[q] <= cache'[q] /\ cache'[q] <= truth[q],
           lost \subseteq lost',
           fetch.by \in lost' \cup {0} \/ fetch.pc = "bump"
    PROVE  Types' /\ Behind' /\ FetchInv' /\ \A q \in Bars : Promised(q)'
  <1>1. Types' /\ Behind' /\ FetchInv'
    BY DEF Inv, Types, Behind, FetchInv, fired, Running
  <1>2. ASSUME NEW q \in Bars PROVE Promised(q)'
    <2>1. /\ told[q] \in Nat /\ cache[q] \in Nat /\ cache'[q] \in Nat /\ cache[q] <= cache'[q]
      BY Numbers DEF Inv, Types
    <2>2. Promised(q) /\ (told[q] > cache'[q] => told[q] > cache[q])
      BY <2>1 DEF Inv
    <2>3. fetch'.by = 0 /\ fetch'.by # q
      BY NoFetchFacts, Numbers
    <2>4. CASE fetch.by = q
      <3>1. stage[Inner(q)] = "fire"
        BY <2>4, Numbers DEF Running
      <3>2. CASE q \in lost'
        BY <3>2 DEF Promised
      <3>3. CASE fetch.pc = "bump"
        <4>1. fetch.got[q] = cache[q] /\ ~(told[q] > cache[q] /\ cache[q] >= told[q])
          BY <2>1, <3>3 DEF Running
        <4> QED BY <2>2, <2>4, <3>1, <3>3, <4>1 DEF Promised
      <3> QED BY <2>4, <3>2, <3>3, Numbers
    <2>5. CASE fetch.by # q
      <3>1. stage'[Inner(q)] = stage[Inner(q)]
        BY <2>5, Numbers DEF fired, Inv, Types, Running
      <3> QED BY <2>2, <2>3, <2>5, <3>1 DEF Promised
    <2> QED BY <2>4, <2>5
  <1> QED BY <1>1, <1>2

LEMMA BumpKept ==
    ASSUME Inv, bumpStateSerial
    PROVE  Inv'
  <1>1. /\ UNCHANGED <<truth, told, cache, bar, shown, lost, signal>>
        /\ fetch' = NoFetch /\ stage' = fired
        /\ state' = Bars \/ unpainted' = Bars
    BY DEF bumpStateSerial, pending, world, screen
  <1>2. Running /\ fetch.pc = "bump"
    BY NoFetchFacts DEF Inv, FetchInv, bumpStateSerial
  <1>3. cache' \in [Projects -> Nat]
        /\ \A q \in Projects : cache[q] <= cache'[q] /\ cache'[q] <= truth[q]
    BY <1>1 DEF Inv, Types, Behind
  <1>4. Types' /\ Behind' /\ FetchInv' /\ \A q \in Bars : Promised(q)'
    BY <1>1, <1>2, <1>3, EndTypes
  <1>5. \A q \in Bars : Painted(q)'
    BY <1>1 DEF Painted
  <1> QED BY <1>4, <1>5 DEF Inv

LEMMA FailKept ==
    ASSUME Inv, FetchFails
    PROVE  Inv'
  <1>1. /\ UNCHANGED <<truth, told, bar, shown, signal>>
        /\ fetch' = NoFetch /\ stage' = fired /\ unpainted' = Bars
        /\ lost' = lost \cup ({fetch.by} \ {0})
    BY DEF FetchFails, pending, world, screen
  <1>2. Running
    BY NoFetchFacts DEF Inv, FetchInv, FetchFails
  <1>3. PICK done \in SUBSET Projects :
            cache' = [p \in Projects |-> IF p \in done THEN fetch.got[p] ELSE cache[p]]
    BY DEF FetchFails, partly
  <1>4. cache \in [Projects -> Nat] /\ fetch.got \in [Projects -> Nat] /\ truth \in [Projects -> Nat]
    BY <1>2 DEF Inv, Types, Running
  <1>5. cache' \in [Projects -> Nat]
        /\ \A q \in Projects : cache[q] <= cache'[q] /\ cache'[q] <= truth[q]
    BY <1>2, <1>3, <1>4 DEF Inv, Behind, Running
  <1>6. Types' /\ Behind' /\ FetchInv' /\ \A q \in Bars : Promised(q)'
    BY <1>1, <1>2, <1>5, EndTypes
  <1>7. \A q \in Bars : Painted(q)'
    BY <1>1 DEF Painted
  <1> QED BY <1>6, <1>7 DEF Inv

(* A daemon dies, and takes its signals, its coalescers and its fetch.     *)
LEMMA DiesKept ==
    ASSUME Inv, NEW p \in Bars, Dies(p)
    PROVE  Inv'
  <1>1. /\ UNCHANGED <<truth, told, bar, shown, state>>
        /\ fetch' = released(p) /\ lost' = lost \cup {p}
        /\ stage' = [c \in Channels |-> IF c[1] = p THEN "wait" ELSE stage[c]]
        /\ signal' = {c \in signal : c[1] # p}
        /\ unpainted' = IF cache' # cache \/ (fetch.by = p /\ fetch.pc = "bump") THEN Bars ELSE unpainted
    BY DEF Dies, world, screen
  <1>0. /\ cache' \in [Projects -> Nat]
        /\ \A q \in Projects : cache[q] <= cache'[q] /\ cache'[q] <= truth[q]
        /\ cache' = cache \/ fetch.by = p
    <2>1. PICK done \in SUBSET Projects :
              /\ fetch.by # p \/ fetch.pc # "write" => done = {}
              /\ cache' = partly(done)
      BY DEF Dies
    <2>2. cache \in [Projects -> Nat] /\ truth \in [Projects -> Nat]
          /\ \A q \in Projects : cache[q] <= truth[q]
      BY DEF Inv, Types, Behind
    <2>3. CASE done = {}
      <3>1. cache' = cache
        BY <2>1, <2>2, <2>3 DEF partly
      <3> QED BY <2>2, <3>1
    <2>4. CASE fetch.by = p /\ fetch.pc = "write"
      <3>1. Running
        BY <2>4, NoFetchFacts DEF Inv, FetchInv
      <3>2. fetch.got \in [Projects -> Nat]
            /\ \A q \in Projects : cache[q] <= fetch.got[q] /\ fetch.got[q] <= truth[q]
        BY <3>1 DEF Running
      <3> QED BY <2>1, <2>2, <2>4, <3>2 DEF partly
    <2> QED BY <2>1, <2>3, <2>4
  <1>9. \A q \in Bars : told[q] \in Nat /\ cache[q] \in Nat /\ cache'[q] \in Nat
                        /\ (told[q] > cache'[q] => told[q] > cache[q])
    BY <1>0, Numbers DEF Inv, Types
  <1>2. \A q \in Bars : Inner(q)[1] = q
    BY DEF Inner
  <1>3. \A q \in Bars : q # p =>
            /\ stage'[Inner(q)] = stage[Inner(q)]
            /\ Inner(q) \in signal => Inner(q) \in signal'
    BY <1>1, <1>2, Numbers
  <1>4. stage' \in [Channels -> {"wait", "window", "fire"}]
    BY <1>1 DEF Inv, Types
  <1>5. Types' /\ Behind'
    BY <1>0, <1>1, <1>4 DEF Inv, Types, Behind
  <1>6. FetchInv'
    <2>1. CASE fetch.by = p
      BY <1>1, <2>1 DEF FetchInv, released
    <2>2. CASE fetch.by # p /\ Running
      <3>1. fetch.by # 0 => stage'[Inner(fetch.by)] = "fire"
        BY <1>3, <2>2 DEF Running
      <3> QED BY <1>0, <1>1, <2>2, <3>1 DEF FetchInv, Running, released
    <2> QED BY <1>1, <2>1, <2>2 DEF Inv, FetchInv, released
  <1>7. ASSUME NEW q \in Bars PROVE Promised(q)'
    <2>1. CASE q = p
      BY <1>1, <2>1 DEF Promised
    <2>2. CASE q # p /\ fetch.by = p
      <3>1. fetch'.by # q
        BY <1>1, <2>2, NoFetchFacts, Numbers DEF released
      <3> QED BY <1>1, <1>3, <1>9, <2>2, <3>1 DEF Promised, Inv
    <2>3. CASE q # p /\ fetch.by # p
      BY <1>0, <1>1, <1>3, <2>3 DEF Promised, Inv, released
    <2> QED BY <2>1, <2>2, <2>3
  <1>8. \A q \in Bars : Painted(q)'
    BY <1>0, <1>1 DEF Painted, Inv, released
  <1> QED BY <1>5, <1>6, <1>7, <1>8 DEF Inv

-----------------------------------------------------------------------------
(* The sidebars' loops.                                                    *)
LEMMA PollKept ==
    ASSUME Inv, NEW p \in Bars, Poll(p)
    PROVE  Inv'
  <1>1. UNCHANGED <<truth, told, stage, fetch, cache, shown, lost, unpainted, signal>>
    BY DEF Poll, world
  <1>2. \/ state' = state \ {p} /\ bar'[p].pc = "frame"
        \/ state' = state /\ bar[p].pc = "tick"
    BY DEF Poll, Inv, Types
  <1>3. bar' = [q \in Bars |-> bar'[q]] /\ \A q \in Bars : q # p => bar'[q] = bar[q]
    BY DEF Poll, Inv, Types
  <1>4. Types' /\ Behind' /\ FetchInv'
    BY <1>1, <1>3 DEF Inv, Types, Behind, FetchInv, Running
  <1>5. \A q \in Bars : Promised(q)'
    BY <1>1 DEF Inv, Promised
  <1>6. ASSUME NEW q \in Bars PROVE Painted(q)'
    <2>1. CASE q = p
      BY <2>1, <1>1, <1>2 DEF Inv, Painted
    <2>2. CASE q # p
      BY <2>2, <1>1, <1>2, <1>3 DEF Inv, Painted
    <2> QED BY <2>1, <2>2
  <1> QED BY <1>4, <1>5, <1>6 DEF Inv

LEMMA FrameKept ==
    ASSUME Inv, NEW p \in Bars, frame(p)
    PROVE  Inv'
  <1>1. UNCHANGED <<truth, told, stage, fetch, cache, lost, signal, state>>
    BY DEF frame, world, daemon
  <1>2. bar' = [q \in Bars |-> bar'[q]] /\ \A q \in Bars : q # p => bar'[q] = bar[q]
    BY DEF frame, Inv, Types
  <1>3. /\ shown' = [q \in Bars |-> shown'[q]] /\ \A q \in Bars : q # p => shown'[q] = shown[q]
        /\ unpainted \subseteq unpainted'
        /\ shown'[p] = cache \/ p \in unpainted'
    BY DEF frame, Inv, Types
  <1>4. Types' /\ Behind' /\ FetchInv'
    BY <1>1, <1>2, <1>3 DEF Inv, Types, Behind, FetchInv, Running
  <1>5. \A q \in Bars : Promised(q)'
    BY <1>1 DEF Inv, Promised
  <1>6. ASSUME NEW q \in Bars PROVE Painted(q)'
    <2>1. CASE q = p
      BY <2>1, <1>1, <1>3 DEF Painted
    <2>2. CASE q # p
      BY <2>2, <1>1, <1>2, <1>3 DEF Inv, Painted
    <2> QED BY <2>1, <2>2
  <1> QED BY <1>4, <1>5, <1>6 DEF Inv

-----------------------------------------------------------------------------
(* What a daemon was told is published or on its way (watchCoalesce,       *)
(* FetchCaches), and what is published is painted or on its way.           *)
THEOREM OwedTheorem == Spec => []Owed
  <1>1. Init => Inv
    <2>1. ASSUME Init PROVE Types /\ Behind /\ FetchInv
      BY <2>1, Numbers DEF Init, Types, Behind, FetchInv
    <2>2. ASSUME Init, NEW p \in Bars PROVE Promised(p) /\ Painted(p)
      BY <2>2, Numbers DEF Init, Promised, Painted
    <2> QED BY <2>1, <2>2 DEF Inv
  <1>2. Inv /\ [Next]_vars => Inv'
    <2> SUFFICES ASSUME Inv, [Next]_vars PROVE Inv'
      OBVIOUS
    <2>1. CASE UNCHANGED vars
      BY <2>1, ChannelsKept DEF vars
    <2>2. ASSUME NEW p \in Projects, InnerChange(p) \/ ContainerChange(p) \/ Command(p)
          PROVE  Inv'
      BY <2>2, ChangesKept
    <2>3. ASSUME NEW p \in Bars, watchStream(p) \/ FireBump(p) \/ watchPublish(p) \/ Dies(p)
          PROVE  Inv'
      BY <2>3, StreamKept, FireBumpKept, PublishKept, DiesKept
    <2>4. ASSUME NEW p \in Bars, fetch_engine(p) \/ Poll(p) \/ frame(p) PROVE Inv'
      BY <2>4, EngineKept, PollKept, FrameKept
    <2>5. ASSUME NEW c \in Channels, Connect(c) \/ Disconnect(c) PROVE Inv'
      BY <2>5, ChannelsKept DEF Connect, Disconnect, world, screen
    <2>6. ASSUME NEW c \in Channels, Take(c) \/ WindowEnds(c) PROVE Inv'
      BY <2>6, TakeKept, WindowKept
    <2>7. CASE FetchStep \/ FetchFails
      BY <2>7, StatusKept, WriteKept, BumpKept, FailKept DEF FetchStep
    <2> QED BY <2>1, <2>2, <2>3, <2>4, <2>5, <2>6, <2>7 DEF Next
  <1>3. Inv => Owed
    BY DEF Inv, Promised, Painted, Owed
  <1> QED BY <1>1, <1>2, <1>3, PTL DEF Spec
=============================================================================
