------------------------------- MODULE Sidebar -----------------------------
(***************************************************************************)
(* The sidebar of one project's session while the fleet changes around it: *)
(* agents report their state, viewer windows come and go, containers start *)
(* and stop, the pane is resized, sessions end, a fetch refreshes the      *)
(* caches, and the operator clicks on rows.  Every state is drawn: the     *)
(* windows are read for each frame, agents and containers are only known   *)
(* as the last fetch saw them.                                             *)
(***************************************************************************)
EXTENDS Frame

CONSTANTS
    Self,       \* the project whose session the pane lives in
    AgentsOf, ServicesOf, SidecarsOf,  \* [project -> sequence of names]
    Facts,      \* [project -> [branch, pending, dev, churn : BOOLEAN]]
    Starts,     \* what the program may be found in: records of the variables
    Heights,    \* the heights the pane is resized to
    MaxWindows, \* bound: windows of one session
    MaxEvents   \* bound: what happens after the start

VARIABLES
    height,     \* of the sidebar pane
    live,       \* projects with a session
    fold,       \* sessions with @vibe_svc_fold set
    wins,       \* [project -> sequence of its session's windows]
    dev, cars,  \* the dev container and the sidecars: absent is "none"
    inner,      \* [project -> [name -> state]] in the container
    cache,      \* the files of the last fetch
    events

vars == <<height, live, fold, wins, dev, cars, inner, cache, events>>

All == ToSet(Projects)

(* Identifiers of projects are minted by the engine and as long as no word *)
(* of the click map; a session has an address; the lists are lists.        *)
ASSUME FleetAssumption ==
    /\ IsList(Projects) /\ IsInjective(Projects)
    /\ Self \in All /\ "cold" \notin All /\ "" \notin Menu
    /\ Heights \subseteq 0 .. Ample
    /\ \A p \in All : /\ IsList(AgentsOf[p]) /\ "" \notin ToSet(AgentsOf[p])
                      /\ IsList(ServicesOf[p]) /\ IsList(SidecarsOf[p])
    /\ \A s \in Starts : /\ s.height \in 0 .. Ample /\ DOMAIN s.wins = All
                         /\ \A p \in All : IsList(s.wins[p])

(* A roster has fewer rows than what counts as ample, and the program is   *)
(* found within the bound.                                                 *)
ASSUME AmpleAssumption ==
    /\ MaxWindows \in Nat
    /\ \A p \in All : MaxWindows + 1 + Len(AgentsOf[p]) + Len(ServicesOf[p]) + Len(SidecarsOf[p]) + 2
                      <= Ample
    /\ \A s \in Starts, p \in All : Len(s.wins[p]) <= MaxWindows

NoCache == [fleet |-> <<>>, agents |-> <<>>, detail |-> <<>>]

Event == events < MaxEvents /\ events' = events + 1

----------------------------------------------------------------------------
(* _fetch: per project the fleet line and the roster, from one Status.     *)

Containers(p) ==
    ({dev[p]} \cup {cars[p][c] : c \in DOMAIN cars[p]}) \ {"none"}

Up(st) == st \in {"running", "stale"}

(* A Status that fails knows of no containers; pending requests and the    *)
(* mode are on disk.                                                       *)
FleetOf(p, ok) ==
    LET seen == IF ok THEN Containers(p) ELSE {}
    IN  [token |-> Token(seen), pending |-> Facts[p].pending, dev |-> Facts[p].dev,
         churn |-> Facts[p].churn /\ \E st \in seen : Up(st)]

Listed(kind, names, state) ==
    LET there == Only(names, {n \in ToSet(names) : state[n] # "none"})
    IN  [i \in DOMAIN there |-> [kind |-> kind, name |-> there[i], state |-> state[there[i]]]]

(* Agents and services are asked for in a running dev container, and there *)
(* are none when it cannot be reached; the sidecars come from the Status.  *)
agentEntriesFor(p, ok, reached) ==
    (IF Up(dev[p]) /\ reached
     THEN Listed("agent", AgentsOf[p], inner[p]) \o Listed("svc", ServicesOf[p], inner[p])
     ELSE <<>>)
    \o (IF ok THEN Listed("sidecar", SidecarsOf[p], cars[p]) ELSE <<>>)

(* The one line of detail; without sidecars, which are rows.               *)
Detail(p, ok) ==
    <<(ok /\ dev[p] \in {"stale", "stopped"}) \/ Facts[p].pending \/ Facts[p].dev>>

Fetched(ok, reached) ==
    [fleet |-> [p \in All |-> FleetOf(p, ok)],
     agents |-> [p \in All |-> agentEntriesFor(p, ok, reached)],
     detail |-> Detail(Self, ok)]

Init ==
    /\ events = 0
    /\ \E s \in Starts :
          /\ height = s.height /\ live = s.live /\ fold = s.fold /\ wins = s.wins
          /\ dev = s.dev /\ cars = s.cars /\ inner = s.inner
    /\ cache \in {NoCache, Fetched(TRUE, TRUE)}

Fetch(ok, reached) ==
    /\ Event /\ cache' = Fetched(ok, reached)
    /\ UNCHANGED <<height, live, fold, wins, dev, cars, inner>>

(* What RenderFrame hands to the renderer.                                 *)
Session(p) == [p |-> p, wins |-> wins[p], fold |-> p \in fold, branch |-> Facts[p].branch]
Input ==
    LET shown == Only(Projects, live)
    IN  [height |-> height, self |-> Self,
         sessions |-> [i \in DOMAIN shown |-> Session(shown[i])],
         fleet |-> cache.fleet, agents |-> cache.agents, detail |-> cache.detail]

----------------------------------------------------------------------------
(* What happens around it.                                                 *)

Resize(h) ==
    /\ Event /\ h # height /\ height' = h
    /\ UNCHANGED <<live, fold, wins, dev, cars, inner, cache>>

Mark(st) == IF st = "attention" THEN "attention"
            ELSE IF st \in {"exited", "gone"} THEN "cross" ELSE "dot"

Marked(p, there, mark, st) ==
    [wins EXCEPT ![p] = [i \in DOMAIN @ |->
        IF i \in there THEN [@[i] EXCEPT !.mark = mark, !.state = st] ELSE @[i]]]

(* An agent's state changes.  The title channel tells the windows that     *)
(* show it, unless its CLI has no hooks or their panes are dead.           *)
AgentMoves(p, a, st, hooked) ==
    /\ Event /\ Up(dev[p]) /\ inner[p][a] # st
    /\ inner' = [inner EXCEPT ![p][a] = st]
    /\ wins' = Marked(p, {i \in DOMAIN wins[p] : hooked /\ wins[p][i].stamp = a}, Mark(st), st)
    /\ UNCHANGED <<height, live, fold, dev, cars, cache>>

(* The client in a viewer's pane dies under it, and the pane is kept; one  *)
(* whose agent has exited goes with it (CloseWindow).                      *)
FrontendDies(p, i) ==
    /\ Event /\ i \in DOMAIN wins[p] /\ wins[p][i].mark # ""
    /\ wins[p][i].state \notin {"exited", "frontend-dead"}
    /\ wins' = Marked(p, {i}, "cross", "frontend-dead")
    /\ UNCHANGED <<height, live, fold, dev, cars, inner, cache>>

ServiceMoves(p, n, st) ==
    /\ Event /\ Up(dev[p]) /\ inner[p][n] # st
    /\ inner' = [inner EXCEPT ![p][n] = st]
    /\ UNCHANGED <<height, live, fold, wins, dev, cars, cache>>

DevMoves(p, st) ==
    /\ Event /\ dev[p] # st /\ dev' = [dev EXCEPT ![p] = st]
    /\ UNCHANGED <<height, live, fold, wins, cars, inner, cache>>

SidecarMoves(p, c, st) ==
    /\ Event /\ cars[p][c] # st /\ cars' = [cars EXCEPT ![p][c] = st]
    /\ UNCHANGED <<height, live, fold, wins, dev, inner, cache>>

Opened(p, stamp) ==
    LET id == CHOOSE n \in 1 .. Len(wins[p]) + 1 : \A w \in ToSet(wins[p]) : w.id # n
    IN  [wins EXCEPT ![p] =
            Append(@, [id |-> id, stamp |-> stamp, mark |-> "", state |-> ""])]

(* Another door opens a viewer: it stamps its window before it attaches.   *)
OpenViewer(p, a) ==
    /\ Event /\ p \in live /\ Len(wins[p]) < MaxWindows
    /\ wins' = Opened(p, a)
    /\ UNCHANGED <<height, live, fold, dev, cars, inner, cache>>

CloseWindow(p, i) ==
    /\ Event /\ i \in DOMAIN wins[p] /\ Len(wins[p]) > 1
    /\ wins' = [wins EXCEPT ![p] = RemoveAt(@, i)]
    /\ UNCHANGED <<height, live, fold, dev, cars, inner, cache>>

(* Another project's session is quit; its options go with it.              *)
CloseSession(p) ==
    /\ Event /\ p \in live \ {Self} /\ live' = live \ {p}
    /\ fold' = fold \ {p} /\ wins' = [wins EXCEPT ![p] = <<>>]
    /\ UNCHANGED <<height, dev, cars, inner, cache>>

----------------------------------------------------------------------------
(* A click on a row with a target.  A switch to a session or to a window   *)
(* of it changes nothing that is drawn.                                    *)

Targets ==
    LET rows == frame(Input)
    IN  {Clicked(rows, y) : y \in 1 .. height}

(* The attach-only spawn: on a dead session it refuses and its window goes.*)
ClickAgent(p, a) ==
    /\ Event /\ Up(dev[p]) /\ AgentLive(inner[p][a]) /\ Len(wins[p]) < MaxWindows
    /\ wins' = Opened(p, a)
    /\ UNCHANGED <<height, live, fold, dev, cars, inner, cache>>

(* One viewer of the services session serves all its rows.                 *)
ClickService(p) ==
    /\ Event /\ \A w \in ToSet(wins[p]) : w.stamp # "services"
    /\ Len(wins[p]) < MaxWindows /\ Up(dev[p])
    /\ wins' = Opened(p, "services")
    /\ UNCHANGED <<height, live, fold, dev, cars, inner, cache>>

ClickFold(p) ==
    /\ Event /\ fold' = IF p \in fold THEN fold \ {p} ELSE fold \cup {p}
    /\ UNCHANGED <<height, live, wins, dev, cars, inner, cache>>

(* OpenProject: what is approved is started, unless something else runs;   *)
(* then the session is made, with one window for the agent.                *)
ClickCold(p) ==
    /\ Event /\ "stale" \notin Containers(p) /\ p \notin live
    /\ dev' = [dev EXCEPT ![p] = "running"]
    /\ cars' = [cars EXCEPT ![p] = [c \in DOMAIN @ |-> "running"]]
    /\ live' = live \cup {p} /\ wins' = Opened(p, "agent")
    /\ UNCHANGED <<height, fold, inner, cache>>

Click(to) ==
    \/ Len(to) = 3 /\ to[2] = "agent" /\ ClickAgent(to[1], to[3])
    \/ Len(to) = 3 /\ to[2] \in {"svc", "svcx"} /\ ClickService(to[1])
    \/ Len(to) = 2 /\ to[2] = "svcfold" /\ ClickFold(to[1])
    \/ Len(to) = 2 /\ to[1] = "cold" /\ ClickCold(to[2])

Next ==
    \/ \E ok, reached \in BOOLEAN : Fetch(ok, reached)
    \/ \E h \in Heights : Resize(h)
    \/ \E p \in All :
          \/ \E a \in ToSet(AgentsOf[p]), st \in {"working", "attention", "idle", "exited"},
                hooked \in BOOLEAN : AgentMoves(p, a, st, hooked)
          \/ \E n \in ToSet(ServicesOf[p]), st \in {"running", "exited"} : ServiceMoves(p, n, st)
          \/ \E st \in SidecarStates : DevMoves(p, st)
          \/ \E c \in DOMAIN cars[p], st \in SidecarStates : SidecarMoves(p, c, st)
          \/ \E a \in ToSet(AgentsOf[p]) : OpenViewer(p, a)
          \/ \E i \in 1 .. MaxWindows : CloseWindow(p, i) \/ FrontendDies(p, i)
          \/ CloseSession(p)
    \/ \E to \in Targets : Click(to)

Spec == Init /\ [][Next]_vars

----------------------------------------------------------------------------
(* Nothing is drawn outside the pane, a row is written once, and a click   *)
(* leads where the row on the screen says.  The tally of the projects that *)
(* do not fit is the exception, and a bounded one: it may paint over the   *)
(* last meta row or the blank row of a project, never its name nor one of  *)
(* its agents (tmuxui/frame.go:245-263, 992-1003).                          *)
DrawnIsClicked ==
    LET rows == frame(Input)
    IN  \A y \in 0 .. height + 1 :
          LET seen == Seen(rows, y)
              top  == seen[Len(seen)].what
          IN  seen # <<>> =>
                /\ y < height
                /\ top.kind # "tally" => Len(seen) = 1 /\ Clicked(rows, y) = top.to
                /\ top.kind = "tally" => \A i \in 1 .. Len(seen) - 1 :
                                            seen[i].what.kind \in {"meta", "slop"}

(* The rows of a block that its roster lists: a folded services group is   *)
(* its header.                                                             *)
Roll(b) == ToSet(b.agents) \cup (IF b.fold THEN {} ELSE ToSet(b.services))
DrawnOf(rows, S) == {r \in S : \E x \in ToSet(rows) : x.what = r}

(* A row that needs eyes is never the hidden one while a quiet row of its  *)
(* project shows, and a folded group that hides one has a bright header    *)
(* (tmuxui/frame.go:421-433).                                              *)
QuietFoldsFirst ==
    LET rows == frame(Input)
    IN  \A b \in ToSet(Blocks(Input)) :
          LET drawn == DrawnOf(rows, Roll(b))
          IN  /\ (\E r \in Roll(b) \ drawn : ~r.dim) => \A r \in drawn : ~r.dim
              /\ b.fold /\ (\E r \in ToSet(b.services) : ~r.dim) =>
                    \A x \in ToSet(rows) : x.what.to = <<b.p, "svcfold">> => ~x.what.dim

(* The budget and the draw pass agree: when the fleet fits with the other  *)
(* projects squeezed to their signals, every project is named, every       *)
(* signal has its row, and the own project its whole roster                *)
(* (tmuxui/frame.go:868-889, 382-388).                                     *)
Squeezed(b) ==
    IF b.self THEN Natural(b) ELSE 2 + b.meta + signalCap(b.agents, b.services)

SignalsSurvive ==
    LET bs   == Blocks(Input)
        rows == frame(Input)
    IN  Fits(Input, Total([i \in DOMAIN bs |-> Squeezed(bs[i])])) =>
            /\ \A b \in ToSet(Blocks(Input)) :
                  /\ \E x \in ToSet(rows) : x.what.kind = "name" /\ x.what.name = b.p
                  /\ \A r \in Roll(b) : b.self \/ ~r.dim => r \in DrawnOf(rows, Roll(b))
            /\ \A p \in ToSet(Cold(Input)) : \E x \in ToSet(rows) : x.what.to = <<"cold", p>>

(* A live agent of the own project has one door on every surface: a window *)
(* that shows it, spoken or not, or else a ghost cell in the tray, an      *)
(* attach in the chooser and a row that opens a viewer.  No surface offers *)
(* a second viewer (tmuxui/frame.go:636-642, chooser.go:62-68).            *)
OneDoor ==
    LET self    == Session(Self)
        entries == Entries(Input, self)
        windowed == {w.stamp : w \in ToSet(wins[Self])}
        agents  == {e.name : e \in {x \in ToSet(entries) : x.kind = "agent" /\ AgentLive(x.state)}}
        ghosts  == {e.name : e \in ToSet(ghostCells(self, entries))}
        opens   == {r.name : r \in {x \in ToSet(agentRows(self, entries)) : x.to[2] = "agent"}}
        menu    == Chooser(self, entries)
    IN  /\ ghosts = agents \ windowed /\ opens = ghosts
        /\ \A a \in DOMAIN menu :
              /\ menu[a] = "attach" <=> a \in ghosts
              /\ menu[a] = "launch" /\ a \in windowed =>
                    \E e \in ToSet(entries) : e.name = a /\ ~AgentLive(e.state)
=============================================================================
