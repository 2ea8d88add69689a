------------------------------- MODULE MCSidebar ----------------------------
(* A fleet of three projects for TLC: "a" is the pane's own, with two      *)
(* agents, a service and two sidecars; "b" has an agent and a service; "c" *)
(* has the egress ledger alone.                                            *)
EXTENDS Sidebar

ThreeProjects == <<"a", "b", "c">>
Addresses     == {"agent", "agent-codex", "agent-cold"}

Agents   == ("a" :> <<"agent", "agent-codex">>) @@ ("b" :> <<"agent">>) @@ ("c" :> <<>>)
Services == ("a" :> <<"web">>) @@ ("b" :> <<"api">>) @@ ("c" :> <<>>)
Sidecars == ("a" :> <<"dns", "db">>) @@ ("b" :> <<>>) @@ ("c" :> <<"dns">>)

SomeFacts ==
    ("a" :> [branch |-> TRUE, pending |-> TRUE, dev |-> TRUE, churn |-> TRUE])
    @@ ("b" :> [branch |-> TRUE, pending |-> TRUE, dev |-> FALSE, churn |-> FALSE])
    @@ ("c" :> [branch |-> FALSE, pending |-> FALSE, dev |-> FALSE, churn |-> FALSE])

(* The branch of a project and one more segment do not fit on a meta row.  *)
Widths == [g \in Segments |-> IF g \in {"branch", "detail"} THEN 8 ELSE 6]

Window(id, stamp, mark, state) ==
    [id |-> id, stamp |-> stamp, mark |-> mark, state |-> state]

Inside(agent, codex, web, api) ==
    ("a" :> (("agent" :> agent) @@ ("agent-codex" :> codex) @@ ("web" :> web)))
    @@ ("b" :> (("agent" :> "working") @@ ("api" :> api))) @@ ("c" :> <<>>)

Cars(db) == ("a" :> (("dns" :> "running") @@ ("db" :> db)))
            @@ ("b" :> <<>>) @@ ("c" :> ("dns" :> "running"))

(* A quiet fleet seen on a tall pane; a dead service and an agent that     *)
(* waits, in windows of an artifact without recorded states, on a short    *)
(* one; and three sessions of which one has folded a dead service.         *)
Found == {
    [height |-> 24, live |-> {"a", "b"}, fold |-> {},
     wins |-> ("a" :> <<Window(1, "agent", "dot", "idle"), Window(2, "", "", "")>>)
              @@ ("b" :> <<Window(1, "agent", "dot", "working")>>) @@ ("c" :> <<>>),
     dev |-> ("a" :> "running") @@ ("b" :> "running") @@ ("c" :> "none"),
     cars |-> Cars("running"), inner |-> Inside("idle", "idle", "running", "running")],
    [height |-> 12, live |-> {"a", "b"}, fold |-> {},
     wins |-> ("a" :> <<Window(1, "agent", "attention", ""), Window(2, "agent-codex", "", "")>>)
              @@ ("b" :> <<Window(1, "agent", "dot", "")>>) @@ ("c" :> <<>>),
     dev |-> ("a" :> "running") @@ ("b" :> "stale") @@ ("c" :> "stopped"),
     cars |-> Cars("stale"), inner |-> Inside("attention", "working", "exited", "running")],
    [height |-> 16, live |-> {"a", "b", "c"}, fold |-> {"b"},
     wins |-> ("a" :> <<Window(1, "", "", ""), Window(2, "agent-cold", "", "")>>)
              @@ ("b" :> <<Window(1, "agent", "dot", "working")>>)
              @@ ("c" :> <<Window(1, "", "", "")>>),
     dev |-> ("a" :> "running") @@ ("b" :> "running") @@ ("c" :> "running"),
     cars |-> Cars("stopped"), inner |-> Inside("working", "exited", "running", "exited")]
  }
=============================================================================
