-------------------------------- MODULE Frame ------------------------------
(***************************************************************************)
(* One rendering: tmuxui.Frame with the ghost cells of the tray, and the   *)
(* menu tmuxui.Chooser builds from the same caches.  An input is a record  *)
(* of the pane's height, the live sessions in the order of their names,    *)
(* the session the pane lives in, and the caches: the facts about each     *)
(* project, its roster entries, and the lines of the own project's detail. *)
(*                                                                         *)
(* A canvas is the next row, the rows drawn so far, and how many projects  *)
(* the tally stands for.  `mutant of D' marks a version of D with a        *)
(* plausible bug.                                                          *)
(***************************************************************************)
EXTENDS Roster

(* The meta line: the number of rows its segments wrap to.                 *)
Add(line, w) ==
    IF line.cur = 0 THEN [line EXCEPT !.cur = w]
    ELSE IF line.cur + 3 + w <= MetaWidth THEN [line EXCEPT !.cur = @ + 3 + w]
    ELSE [rows |-> line.rows + 1, cur |-> w]

wrapSegments(widths) ==
    LET line[i \in 0 .. Len(widths)] ==
            IF i = 0 THEN [rows |-> 0, cur |-> 0] ELSE Add(line[i - 1], widths[i])
        last == line[Len(widths)]
    IN  last.rows + (IF last.cur = 0 THEN 0 ELSE 1)

If(cond, s) == IF cond THEN s ELSE <<>>

FleetMeta(f) ==
    If(f.token \in {"stale", "stopped"}, <<Cells[f.token]>>)
    \o If(f.pending, <<Cells["pending"]>>) \o If(f.dev, <<Cells["dev"]>>)

(* The own project shows its detail, the others what the fleet line says.  *)
Meta(in, s) ==
    LET known == s.p \in DOMAIN in.fleet
        churn == known /\ in.fleet[s.p].churn
    IN  If(s.branch, <<Cells["branch"] + (IF churn THEN 2 + Cells["churn"] ELSE 0)>>)
        \o IF s.p = in.self /\ in.detail # <<>>
           THEN If(in.detail[1], <<Cells["detail"]>>)
           ELSE If(known, FleetMeta(in.fleet[s.p]))

Entries(in, s) == IF s.p \in DOMAIN in.agents THEN in.agents[s.p] ELSE <<>>

frameBlock(in, s) ==
    [p |-> s.p, self |-> s.p = in.self, fold |-> s.fold,
     agents |-> agentRows(s, Entries(in, s)), services |-> serviceRows(s, Entries(in, s)),
     meta |-> wrapSegments(Meta(in, s))]

Blocks(in) == [i \in DOMAIN in.sessions |-> frameBlock(in, in.sessions[i])]
Cold(in)   == Only(Projects, DOMAIN in.fleet \ {s.p : s \in ToSet(in.sessions)})

Total(ns) ==
    LET sum[i \in 0 .. Len(ns)] == IF i = 0 THEN 0 ELSE sum[i - 1] + ns[i]
    IN  sum[Len(ns)]

(* The first row content may not use.                                      *)
Limit(in) == NonNeg(in.height - 1)

----------------------------------------------------------------------------
(* The budget pass: under pressure every block but the own one is capped.  *)

Fits(in, rows) == rows + Len(Cold(in)) <= Limit(in) - 1

Ample == 1024 * 1024    \* more rows than a pane has: 1<<20

Natural(b) == 2 + b.meta + Len(rosterBlock(b.p, b.agents, b.services, Ample, b.fold))

Layout(in) ==
    LET bs == Blocks(in)
    IN  [limit |-> Limit(in), blocks |-> bs, cold |-> Cold(in),
         tight |-> ~Fits(in, Total([i \in DOMAIN bs |-> Natural(bs[i])]))]

Roster(b, avail, capped) ==
    LET cap == signalCap(b.agents, b.services)
    IN  rosterBlock(b.p, b.agents, b.services,
                    IF capped /\ avail > cap THEN cap ELSE avail, b.fold)

----------------------------------------------------------------------------
(* The draw pass.                                                          *)

(* What is drawn at or beyond the limit is neither painted nor clickable.  *)
putAt(c, row, what, limit) ==
    IF row < limit THEN [c EXCEPT !.out = Append(@, [row |-> row, what |-> what])] ELSE c

(* One row after the other is put, from the next row on.                   *)
PutAll(c, rows, limit) ==
    LET room == NonNeg(limit - c.row)
    IN  [c EXCEPT !.row = @ + Len(rows),
                  !.out = @ \o [i \in 1 .. Len(AtMost(room, rows)) |->
                                   [row |-> c.row + i - 1, what |-> rows[i]]]]

(* mutant of BlockRows: the slop row is not kept free *)
BlockRowsFull(lay, b, row) ==
    LET avail == lay.limit - (row + 1 + b.meta)
    IN  <<Label("name", b.p, <<b.p>>, ~b.self)>>
        \o [i \in 1 .. b.meta |-> Label("meta", b.p, <<b.p>>, TRUE)]
        \o Roster(b, avail, lay.tight /\ ~b.self)
        \o <<Label("slop", b.p, <<b.p>>, TRUE)>>

(* Name, meta, roster, and a blank slop row that stays reserved.           *)
BlockRows(lay, b, row) ==
    LET avail == lay.limit - (row + 1 + b.meta) - 1
    IN  <<Label("name", b.p, <<b.p>>, ~b.self)>>
        \o [i \in 1 .. b.meta |-> Label("meta", b.p, <<b.p>>, TRUE)]
        \o Roster(b, avail, lay.tight /\ ~b.self)
        \o <<Label("slop", b.p, <<b.p>>, TRUE)>>

ColdRow(p) == Label("cold", p, <<"cold", p>>, TRUE)

(* The live projects, then the cold ones.                                  *)
Fleet(lay) == Len(lay.blocks) + Len(lay.cold)

FleetRows(lay, i, row) ==
    IF i <= Len(lay.blocks) THEN BlockRows(lay, lay.blocks[i], row)
    ELSE <<ColdRow(lay.cold[i - Len(lay.blocks)])>>

(* When more than one project is left and one slot at most, the rest is    *)
(* tallied.                                                                *)
DrawOne(lay, c, i) ==
    LET rest == Fleet(lay) - i + 1
    IN  IF c.hidden > 0 THEN c
        ELSE IF rest > 1 /\ c.row + 1 >= lay.limit THEN [c EXCEPT !.hidden = rest]
        ELSE PutAll(c, FleetRows(lay, i, c.row), lay.limit)

Blank == [row |-> 1, out |-> <<>>, hidden |-> 0]

DrawFleet(lay) ==
    LET canvas[i \in 0 .. Fleet(lay)] == IF i = 0 THEN Blank ELSE DrawOne(lay, canvas[i - 1], i)
    IN  canvas[Fleet(lay)]

(* The tally takes the last content row when the rest began beyond it.     *)
DrawTally(limit, c) ==
    LET row == IF c.row >= limit THEN limit - 1 ELSE c.row
    IN  IF c.hidden = 0 \/ row < 0 THEN c
        ELSE [putAt(c, row, Label("tally", "", <<>>, TRUE), limit) EXCEPT !.row = row + 1]

(* The hints own the last rows, if nothing has been drawn there.           *)
Hint(c, row, height) == putAt(c, row, Label("hint", "", <<>>, TRUE), height)

DrawFooter(height, c) ==
    LET last == height - 1
        used == Max({0} \cup {x.row : x \in ToSet(c.out)})
    IN  IF last <= used THEN c
        ELSE IF last - 2 > used THEN Hint(Hint(c, last - 2, height), last - 1, height)
        ELSE IF last - 1 > used THEN Hint(Hint(c, last - 1, height), last, height)
        ELSE Hint(c, last, height)

frame(in) == DrawFooter(in.height, DrawTally(Limit(in), DrawFleet(Layout(in)))).out

(* What is written to a row of the pane, of which the last shows.          *)
Seen(rows, y) == Only(rows, {x \in ToSet(rows) : x.row = y})

(* The click map, of which a click takes the first entry for its row.      *)
Map(rows) == Only(rows, {x \in ToSet(rows) : x.what.to # <<>>})
Clicked(rows, y) ==
    LET here == Seen(Map(rows), y)
    IN  IF here = <<>> THEN <<>> ELSE here[1].what.to

----------------------------------------------------------------------------
(* The tray: a cell for every live agent of the own project that no window *)
(* shows.  The name of an agent's CLI has characters the tray can show.    *)
ghostCells(s, entries) ==
    Only(entries, {e \in ToSet(entries) : /\ e.kind = "agent"
                                          /\ e.name \notin Viewed(s) /\ AgentLive(e.state)})

(* The chooser: launch what is down, attach to what is up, and jump to a   *)
(* window that shows it.                                                   *)
Verdict(s, entries, a) ==
    LET known == Only(entries, {e \in ToSet(entries) : e.kind = "agent" /\ e.name = a})
        live  == known # <<>> /\ AgentLive(known[1].state)
    IN  IF a \in Viewed(s) /\ (live \/ known = <<>>) THEN "jump"
        ELSE IF live THEN "attach" ELSE "launch"

Chooser(s, entries) == [a \in Menu |-> Verdict(s, entries, a)]
=============================================================================
