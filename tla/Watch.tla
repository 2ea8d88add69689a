------------------------------- MODULE Watch -------------------------------
(***************************************************************************)
(* The way of a change to the screen: the watch daemons of internal/app,   *)
(* their coalescing, the one fetch pass that writes the caches, the two    *)
(* serials on the tmux server and the sidebars that poll them.             *)
(*                                                                         *)
(* One tmux server; per project with a session one sidebar and at most one *)
(* daemon (the flock beside the cache).  What is true of a project is the  *)
(* number of its changes; a cache and a screen hold the number they show.  *)
(* Only the inequality of a serial with the last one seen matters, so a    *)
(* serial is the set of the sidebars for which it has moved.  Time is left *)
(* out: a wait ends at any moment.                                         *)
(***************************************************************************)
EXTENDS Naturals, FiniteSets

CONSTANTS
    Last,           \* the projects are 1 .. Last, in the registry's order
    Bars,           \* those with a session, so a sidebar and a daemon
    SlowTicks,      \* ticks of the 2 s loop between unprompted refetches
    ForcedTicks,    \* ticks between forced frames
    MaxSpawned,     \* bound: background fetches of a sidebar not yet at the lock
    MaxChanges,     \* bound: changes
    MaxFaults       \* bound: deaths, failures and lost signals

ASSUME WatchAssumption ==
    /\ Bars \subseteq 1 .. Last
    /\ {Last, SlowTicks, ForcedTicks, MaxSpawned} \subseteq Nat \ {0}
    /\ MaxChanges \in Nat /\ MaxFaults \in Nat

VARIABLES
    truth,      \* what is true of each project
    seen,       \* what the sentinel of a project has last told its daemon
    up,         \* the projects with a daemon
    open,       \* the channels that are connected
    signal,     \* the channels with a signal in their buffer of one
    stage,      \* the coalescer of each channel: "wait", "window" or "fire"
    fetch,      \* the fetch that holds the flock
    cache,      \* what the cache files tell of each project
    state,      \* the sidebars for which @vibe_state_serial has moved,
    engine,     \*   and those for which @vibe_engine_serial has
    bar,        \* the loop of each sidebar
    spawned,    \* its background fetches
    shown,      \* what its screen tells of each project
    told,       \* for the properties: what a daemon has ever been told
    lost,       \*   projects whose owed fetch has failed or died
    unpainted,  \*   sidebars that a publish did not reach
    changes, faults

vars == <<truth, seen, up, open, signal, stage, fetch, cache, state, engine,
          bar, spawned, shown, told, lost, unpainted, changes, faults>>

world  == <<truth, changes>>
daemon == <<seen, up, open, signal, stage, told>>
screen == <<bar, spawned, shown>>

Projects == 1 .. Last
Channels == Bars \X {"inner", "events"}
Inner(p) == <<p, "inner">>
Unknown  == MaxChanges + 1
NoFetch  == [pc |-> "off", by |-> 0, at |-> 0, got |-> <<>>]

Init ==
    /\ truth = [p \in Projects |-> 0] /\ cache = truth /\ told = [p \in Bars |-> 0]
    /\ seen = [p \in Bars |-> Unknown]
    /\ up = Bars /\ open = {} /\ signal = {}
    /\ stage = [c \in Channels |-> "wait"]
    /\ fetch = NoFetch /\ state = {} /\ engine = {}
    /\ bar = [p \in Bars |-> [pc |-> "tick", due |-> 0, etick |-> 0, tick |-> 0]]
    /\ spawned = [p \in Bars |-> 1]
    /\ shown = [p \in Bars |-> cache]
    /\ lost = {} /\ unpainted = {} /\ changes = 0 /\ faults = 0

Fault == faults < MaxFaults /\ faults' = faults + 1

-----------------------------------------------------------------------------
(* What changes.                                                           *)

Changes(p) ==
    /\ changes < MaxChanges /\ changes' = changes + 1
    /\ truth' = [truth EXCEPT ![p] = @ + 1]

\* Something inside a container: only its sentinel can tell.
InnerChange(p) ==
    /\ Changes(p)
    /\ UNCHANGED <<daemon, fetch, cache, state, engine, screen, lost, unpainted, faults>>

\* A container starts or dies: the daemons that are subscribed hear of it, and
\* the sentinel in it may go with it.
ContainerChange(p) ==
    /\ Changes(p)
    /\ signal' = signal \cup {c \in open : c[2] = "events"}
    /\ open' \in {open, open \ {Inner(p)}}
    /\ UNCHANGED <<seen, up, stage, fetch, cache, state, engine, screen, told, lost, unpainted, faults>>

\* A vibe command changes the project and bumps the engine serial, or fails to.
bumpTuiSerial ==
    \/ engine' = Bars /\ UNCHANGED faults
    \/ Fault /\ UNCHANGED engine

Command(p) ==
    /\ Changes(p) /\ bumpTuiSerial
    /\ UNCHANGED <<daemon, fetch, cache, state, screen, lost, unpainted>>

-----------------------------------------------------------------------------
(* The daemons.                                                            *)

\* A sentinel that is started anew tells what it finds, whatever it is.
Connect(c) ==
    /\ c[1] \in up /\ c \notin open /\ open' = open \cup {c}
    /\ seen' = IF c = Inner(c[1]) THEN [seen EXCEPT ![c[1]] = Unknown] ELSE seen
    /\ UNCHANGED <<world, up, signal, stage, fetch, cache, state, engine, screen, told, lost,
                   unpainted, faults>>

\* The stream ends, or the watchdog ends it.
Disconnect(c) ==
    /\ c \in open /\ Fault /\ open' = open \ {c}
    /\ UNCHANGED <<world, seen, up, signal, stage, fetch, cache, state, engine, screen, told, lost,
                   unpainted>>

\* A line from the sentinel; one signal in the buffer stands for any number.
watchStream(p) ==
    /\ Inner(p) \in open /\ seen[p] # truth[p]
    /\ seen' = [seen EXCEPT ![p] = truth[p]] /\ told' = [told EXCEPT ![p] = truth[p]]
    /\ signal' = signal \cup {Inner(p)} /\ lost' = lost \ {p}
    /\ UNCHANGED <<world, up, open, stage, fetch, cache, state, engine, screen, unpainted, faults>>

\* watchCoalesce: a signal is taken; within the gap after the last fire the
\* coalescer waits, and then takes the one that has come in the meantime.
Take(c) ==
    /\ c[1] \in up /\ stage[c] = "wait" /\ c \in signal
    /\ signal' = signal \ {c} /\ stage' = [stage EXCEPT ![c] = "window"]
    /\ UNCHANGED <<world, seen, up, open, fetch, cache, state, engine, screen, told, lost,
                   unpainted, faults>>

WindowEnds(c) ==
    /\ stage[c] = "window" /\ stage' = [stage EXCEPT ![c] = "fire"]
    /\ signal' \in {signal, signal \ {c}}
    /\ UNCHANGED <<world, seen, up, open, fetch, cache, state, engine, screen, told, lost,
                   unpainted, faults>>

\* Container events fire a bump of the engine serial,
FireBump(p) ==
    /\ stage[<<p, "events">>] = "fire" /\ bumpTuiSerial
    /\ stage' = [stage EXCEPT ![<<p, "events">>] = "wait"]
    /\ UNCHANGED <<world, seen, up, open, signal, fetch, cache, state, screen, told, lost, unpainted>>

Fetching(by) == [pc |-> "read", by |-> by, at |-> 1, got |-> cache]

\* and inner changes a fetch, which waits for the flock.
watchPublish(p) ==
    /\ stage[Inner(p)] = "fire" /\ fetch = NoFetch /\ fetch' = Fetching(p)
    /\ UNCHANGED <<world, daemon, cache, state, engine, screen, lost, unpainted, faults>>

\* The daemon that held the project's flock is dead, and the flock is free.
released(p) == IF fetch.by = p THEN NoFetch ELSE fetch

\* Of the files of a fetch that ends while it writes, some are written.
partly(done) == [p \in Projects |-> IF p \in done THEN fetch.got[p] ELSE cache[p]]

\* The daemon dies: the shim has moved on, or it crashes.
Dies(p) ==
    /\ p \in up /\ Fault /\ up' = up \ {p}
    /\ open' = {c \in open : c[1] # p} /\ signal' = {c \in signal : c[1] # p}
    /\ stage' = [c \in Channels |-> IF c[1] = p THEN "wait" ELSE stage[c]]
    /\ fetch' = released(p)
    /\ \E done \in SUBSET Projects :
          /\ fetch.by # p \/ fetch.pc # "write" => done = {}
          /\ cache' = partly(done)
    /\ unpainted' = IF cache' # cache \/ (fetch.by = p /\ fetch.pc = "bump") THEN Bars ELSE unpainted
    /\ lost' = lost \cup {p}
    /\ UNCHANGED <<world, seen, state, engine, screen, told>>

-----------------------------------------------------------------------------
(* FetchCaches: one pass over the projects, then the files, then one bump. *)
(* A fetch of a daemon has its project in by, one of a sidebar 0.          *)

\* fire returns to the coalescer.
fired == IF fetch.by = 0 THEN stage ELSE [stage EXCEPT ![Inner(fetch.by)] = "wait"]

\* A signal that came meanwhile stays for its next pass.
drained == signal \ {Inner(fetch.by)}
pending == signal

Status ==
    /\ fetch.pc = "read"
    /\ fetch' = [fetch EXCEPT !.got[fetch.at] = truth[fetch.at], !.at = @ + 1,
                              !.pc = IF fetch.at = Last THEN "write" ELSE "read"]
    /\ UNCHANGED <<world, daemon, cache, state, engine, screen, lost, unpainted, faults>>

writeCache ==
    /\ fetch.pc = "write" /\ cache' = fetch.got /\ fetch' = [fetch EXCEPT !.pc = "bump"]
    /\ UNCHANGED <<world, daemon, state, engine, screen, lost, unpainted, faults>>

bumpStateSerial ==
    /\ fetch.pc = "bump" /\ fetch' = NoFetch /\ stage' = fired
    /\ \/ state' = Bars /\ unpainted' = {} /\ UNCHANGED faults
       \/ Fault /\ unpainted' = Bars /\ UNCHANGED state
    /\ signal' = pending
    /\ UNCHANGED <<world, seen, up, open, cache, engine, screen, told, lost>>

\* The pass fails.
FetchFails ==
    /\ fetch.pc \in {"read", "write"} /\ Fault
    /\ \E done \in SUBSET Projects :
          /\ fetch.pc = "read" => done = {}
          /\ cache' = partly(done)
    /\ fetch' = NoFetch /\ stage' = fired
    /\ lost' = lost \cup ({fetch.by} \ {0}) /\ unpainted' = Bars
    /\ signal' = pending
    /\ UNCHANGED <<world, seen, up, open, state, engine, screen, told>>

FetchStep == Status \/ writeCache \/ bumpStateSerial

-----------------------------------------------------------------------------
(* The sidebars.                                                           *)

\* A background fetch of a sidebar gives way to one that is running.
fetch_engine(p) ==
    /\ spawned[p] > 0 /\ spawned' = [spawned EXCEPT ![p] = @ - 1]
    /\ fetch' = IF fetch = NoFetch THEN Fetching(0) ELSE fetch
    /\ UNCHANGED <<world, daemon, cache, state, engine, bar, shown, lost, unpainted, faults>>

\* The unprompted refetch, which starts the daemon again too.
NeverSlow(etick) == FALSE
Slow(etick) == etick = 0

\* One poll of both serials; what it sees is remembered before the frame.
Poll(p) ==
    LET b     == bar[p]
        etick == (b.etick + 1) % SlowTicks
        tick  == (b.tick + 1) % ForcedTicks
        moved == p \in engine
        due   == IF moved THEN 2 ELSE b.due
        paint == p \in state \/ due > 0 \/ tick = 0
    IN  /\ b.pc = "tick" /\ spawned[p] < MaxSpawned
        /\ engine' = engine \ {p}
        /\ spawned' = IF moved \/ Slow(etick) THEN [spawned EXCEPT ![p] = @ + 1] ELSE spawned
        /\ up' = IF ~moved /\ Slow(etick) THEN up \cup {p} ELSE up
        /\ state' = IF paint THEN state \ {p} ELSE state
        /\ bar' = [bar EXCEPT ![p] = [pc |-> IF paint THEN "frame" ELSE "tick",
                                      due |-> IF due > 0 THEN due - 1 ELSE 0,
                                      etick |-> etick, tick |-> tick]]
        /\ UNCHANGED <<world, seen, open, signal, stage, told, fetch, cache, shown, lost,
                       unpainted, faults>>

\* A frame that fails leaves the last one on the screen.
frame(p) ==
    /\ bar[p].pc = "frame" /\ bar' = [bar EXCEPT ![p].pc = "tick"]
    /\ \/ shown' = [shown EXCEPT ![p] = cache] /\ UNCHANGED <<unpainted, faults>>
       \/ Fault /\ unpainted' = unpainted \cup {p} /\ UNCHANGED shown
    /\ UNCHANGED <<world, daemon, fetch, cache, state, engine, spawned, lost>>

Next ==
    \/ \E p \in Projects : InnerChange(p) \/ ContainerChange(p) \/ Command(p)
    \/ \E p \in Bars :
          \/ watchStream(p) \/ FireBump(p) \/ watchPublish(p) \/ Dies(p)
          \/ fetch_engine(p) \/ Poll(p) \/ frame(p)
    \/ \E c \in Channels : Connect(c) \/ Disconnect(c) \/ Take(c) \/ WindowEnds(c)
    \/ FetchStep \/ FetchFails

Spec == Init /\ [][Next]_vars

\* The sidebars' loops go on, a fetch that runs ends and one that is spawned
\* gets to the flock; nothing is assumed of the daemons.
FairSpec ==
    /\ Spec /\ WF_vars(FetchStep)
    /\ \A p \in Bars : WF_vars(Poll(p)) /\ WF_vars(frame(p)) /\ WF_vars(fetch_engine(p))

-----------------------------------------------------------------------------
(* Properties.                                                             *)

\* The state is well-typed; only a live daemon has channels, and only one that
\* fires holds the flock.
TypeOK ==
    /\ truth \in [Projects -> 0 .. MaxChanges] /\ cache \in [Projects -> 0 .. MaxChanges]
    /\ shown \in [Bars -> [Projects -> 0 .. MaxChanges]]
    /\ up \subseteq Bars /\ signal \subseteq Channels
    /\ \A c \in open : c[1] \in up
    /\ \A c \in Channels : stage[c] \in {"wait", "window", "fire"} /\ (stage[c] # "wait" => c[1] \in up)
    /\ fetch.by # 0 => stage[Inner(fetch.by)] = "fire"
    /\ state \cup engine \cup lost \cup unpainted \subseteq Bars
    /\ \A p \in Bars : spawned[p] <= MaxSpawned /\ bar[p].due <= 1

\* "Every signal owes one fire, bursts collapse into one fire per gap window,
\* and a signal that lands mid-fire is honored by the next pass": what a
\* daemon was told is in the cache, or a signal, a window or a fetch that has
\* yet to read it is on its way, unless the fetch itself failed.  And what is
\* published is painted: the screen shows the cache, or a frame is on its way.
Owed ==
    \A p \in Bars :
        /\ told[p] > cache[p] =>
              \/ p \in lost
              \/ Inner(p) \in signal
              \/ stage[Inner(p)] = "window"
              \/ stage[Inner(p)] = "fire" /\ fetch.by # p
              \/ fetch.by = p /\ fetch.pc = "read" /\ fetch.at <= p
              \/ fetch.by = p /\ fetch.got[p] >= told[p]
        /\ shown[p] # cache =>
              \/ p \in unpainted \cup state
              \/ bar[p].pc = "frame"
              \/ fetch.pc = "bump"

\* The daemon is "an accelerator, never a dependency": every change gets to
\* every screen, whatever becomes of the daemons, of the streams and of the
\* signals.
Shown ==
    \A p \in Projects, q \in Bars : \A n \in 1 .. MaxChanges : truth[p] >= n ~> shown[q][p] >= n
=============================================================================
