------------------------------- MODULE Roster ------------------------------
(***************************************************************************)
(* internal/tmuxui: what the sidebar, the tray and the agents chooser show *)
(* of the fleet, as functions of the tmux windows and of the caches the    *)
(* last fetch left.  A row of the sidebar is a record that says what it    *)
(* names, where a click on it leads, whether it is quiet (dim) and whether *)
(* its dot spins; how it is coloured and cut is left out.  Widths enter    *)
(* where they decide how many rows the meta line of a project takes.       *)
(*                                                                         *)
(* `mutant of D' marks a version of D with a plausible bug.                *)
(***************************************************************************)
EXTENDS Integers, Lists

CONSTANTS
    Projects,   \* sequence of the registered projects, in the order of their names
    Cells,      \* [Segments -> Nat]: the width of each meta segment
    MetaWidth,  \* the width of a meta row
    Menu        \* the session addresses the chooser lists: one per installed CLI,
                \* and one more for a CLI that can start without instructions

Segments == {"branch", "churn", "stale", "stopped", "pending", "dev", "detail"}

ASSUME WidthsAssumption == Cells \in [Segments -> Nat] /\ MetaWidth \in Nat

NonNeg(n)   == IF n < 0 THEN 0 ELSE n
AtMost(n, s) == SubSeq(s, 1, IF n < Len(s) THEN n ELSE Len(s))

----------------------------------------------------------------------------
(* The state vocabularies.  What is unknown draws nothing.                 *)

AgentStates   == {"working", "attention", "idle", "running", "exited", "gone"}
SidecarStates == {"running", "stale", "stopped"}
AgentLive(st)   == st \in {"working", "running", "attention", "idle"}
AgentSignal(st) == st \in {"working", "running", "attention", "gone", "exited",
                          "frontend-dead"}

(* A window with a recorded state is judged by it; an older artifact's     *)
(* window has a glyph and an attention flag only.                          *)
windowSignal(w) ==
    IF w.state # "" THEN AgentSignal(w.state) ELSE w.mark \in {"attention", "cross"}

(* ProjectView.Token: sidecars count like the dev container.               *)
Token(containers) ==
    CASE containers = {}             -> "none"
      [] "stopped" \in containers    -> "stopped"
      [] "stale" \in containers      -> "stale"
      [] OTHER                       -> "running"

----------------------------------------------------------------------------
(* One project's roster: its windows first, then what only the cache knows.*)

Row(name, to, dim, spin) ==
    [kind |-> "row", name |-> name, to |-> to, dim |-> dim, spin |-> spin]
Label(kind, name, to, dim) ==
    [kind |-> kind, name |-> name, to |-> to, dim |-> dim, spin |-> FALSE]

Shown(s)    == Only(s.wins, {w \in ToSet(s.wins) : w.mark # ""})
DrawnIn(s)  == {w.stamp : w \in ToSet(Shown(s))} \ {""}
(* mutant of Viewed: a viewer counts once its agent has spoken *)
GlyphViewed(s) == DrawnIn(s)
Viewed(s)   == {w.stamp : w \in ToSet(s.wins)} \ {""}
Viewer(s, a) == Only(s.wins, {w \in ToSet(s.wins) : w.stamp = a})[1].id

WindowRow(s, w) ==
    Row(w.stamp, <<s.p, "window", w.id>>, ~windowSignal(w), w.state = "working")

CacheRow(s, e) ==
    LET door == IF AgentLive(e.state) THEN "agent" ELSE "dead"
    IN  Row(e.name,
            IF e.name \in Viewed(s) THEN <<s.p, "window", Viewer(s, e.name)>>
            ELSE <<s.p, door, e.name>>,
            ~AgentSignal(e.state), e.state = "working")

OfKind(entries, kind, known) ==
    Only(entries, {e \in ToSet(entries) : e.kind = kind /\ e.state \in known})

agentRows(s, entries) ==
    LET wins   == Shown(s)
        known  == OfKind(entries, "agent", AgentStates)
        cached == Only(known, {e \in ToSet(known) : e.name \notin DrawnIn(s)})
    IN  [i \in DOMAIN wins |-> WindowRow(s, wins[i])]
        \o [i \in DOMAIN cached |-> CacheRow(s, cached[i])]

(* Running is quiet here, and a dead service keeps its reach.              *)
ServiceRow(s, e) ==
    Row(e.name, <<s.p, IF e.state = "exited" THEN "svcx" ELSE "svc", e.name>>,
        e.state # "exited", FALSE)

SidecarRow(s, e) ==
    Row(e.name, IF e.name = "dns" THEN <<s.p, "egress">> ELSE <<s.p>>,
        e.state = "running", FALSE)

serviceRows(s, entries) ==
    LET svcs == OfKind(entries, "svc", AgentStates)
        cars == OfKind(entries, "sidecar", SidecarStates)
    IN  [i \in DOMAIN svcs |-> ServiceRow(s, svcs[i])]
        \o [i \in DOMAIN cars |-> SidecarRow(s, cars[i])]

(* The order in which rows are folded away: quiet ones first, each group   *)
(* from its bottom.                                                        *)
FromBottom(rows, quiet) == Reverse(Only(rows, {r \in ToSet(rows) : r.dim = quiet}))
(* mutant of FoldOrder: from the bottom, whatever the rows say *)
BottomUp(agents, services) == Reverse(agents \o services)
FoldOrder(agents, services) ==
    FromBottom(services, TRUE) \o FromBottom(agents, TRUE)
    \o FromBottom(services, FALSE) \o FromBottom(agents, FALSE)

Headers(agents, services) ==
    IF services = <<>> THEN 0 ELSE IF agents = <<>> THEN 1 ELSE 2

(* A folded services group is its header alone, bright when it hides a     *)
(* signal; what does not fit gives its last slot to a count.               *)
Unfolded(services, fold) == IF fold THEN <<>> ELSE services

Hidden(total, head, avail) ==
    IF total + head > avail THEN total - NonNeg(avail - head - 1) ELSE 0

rosterBlock(p, agents, services, avail, fold) ==
    LET listed == Unfolded(services, fold)
        head   == Headers(agents, services)
        hidden == Hidden(Len(agents) + Len(listed), head, avail)
        gone   == ToSet(AtMost(hidden, FoldOrder(agents, listed)))
        Left(rows) == Only(rows, ToSet(rows) \ gone)
        out == (IF head = 2 THEN <<Label("header", "agents", <<>>, TRUE)>> ELSE <<>>)
               \o Left(agents)
               \o (IF head = 0 THEN <<>>
                   ELSE <<Label("header", "services", <<p, "svcfold">>,
                                fold => \A r \in ToSet(services) : r.dim)>>)
               \o Left(listed)
               \o (IF hidden > 0 THEN <<Label("more", "", <<>>, TRUE)>> ELSE <<>>)
    IN  AtMost(NonNeg(avail), out)

(* The rows a block keeps under pressure when all its quiet rows fold.     *)
Signals(rows) == Len(Only(rows, {r \in ToSet(rows) : ~r.dim}))

(* mutant of signalCap: no slot for the count of what is hidden *)
CapWithoutMarker(agents, services) ==
    LET signal == Signals(agents \o services)
    IN  IF signal = 0 THEN 0 ELSE Headers(agents, services) + signal

signalCap(agents, services) ==
    LET signal == Signals(agents \o services)
        marker == IF signal < Len(agents) + Len(services) THEN 1 ELSE 0
    IN  IF signal = 0 THEN 0 ELSE Headers(agents, services) + signal + marker
=============================================================================
