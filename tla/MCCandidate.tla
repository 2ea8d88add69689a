---------------------------- MODULE MCCandidate ----------------------------
(* A small instance of Candidate for TLC: manifests that differ in what the *)
(* pipeline tells apart, and the files that they name.                      *)
EXTENDS Candidate, TLC

Agents(claude) == <<[kind |-> "codex", version |-> ""], [kind |-> "claude", version |-> claude]>>

Plain ==
    [wellformed |-> TRUE, schema |-> 1, base |-> "debian", agents |-> Agents(""),
     toolchains |-> <<"go">>, extension |-> FALSE, cmd |-> "claude",
     imports |-> <<[source |-> Rel(<<"a">>), target |-> Abs(<<"data">>), readonly |-> TRUE]>>,
     ports |-> <<[ip |-> "loopback", host |-> 80, container |-> 80]>>,
     env |-> <<[key |-> "TERM", value |-> "user"]>>,
     egress |-> "", memory |-> "", services |-> <<>>, env_file |-> NoPath, required |-> <<>>]

Service(name, volumes) ==
    [name |-> name, image |-> "debian", ports |-> <<>>, env |-> <<>>, volumes |-> volumes]
Volume(name, at) == [name |-> name, target |-> Abs(at)]

\* The channel by name, and a pin.
Stable == [Plain EXCEPT !.agents = Agents("stable")]
Pinned == [Plain EXCEPT !.agents = Agents("2.1.220")]
\* Everything at once: an extension, an env file, two imports, a service.
Full   == [Plain EXCEPT !.extension = TRUE, !.env_file = Rel(<<"env">>),
                        !.imports = <<[source |-> Rel(<<"b">>), target |-> Abs(<<"b">>), readonly |-> TRUE],
                                      [source |-> Rel(<<"a">>), target |-> Abs(<<"data">>), readonly |-> TRUE]>>,
                        !.services = <<Service("db", <<Volume("db", <<"var", "db">>)>>)>>]
\* Refused: by the schema, by the compilation, by the plan's validation, by
\* the snapshot, for the env file and by the decoder.
Dns    == [Plain EXCEPT !.services = <<Service("dns", <<>>)>>]
Clash  == [Plain EXCEPT !.imports = <<[source |-> Rel(<<"a">>), target |-> Abs(<<"vibe">>), readonly |-> TRUE]>>]
Nested == [Plain EXCEPT !.services = <<Service("db", <<Volume("db", <<"var">>), Volume("log", <<"var", "log">>)>>)>>]
Whole  == [Plain EXCEPT !.imports = <<[source |-> Rel(<<".">>), target |-> Abs(<<"data">>), readonly |-> TRUE]>>]
Misset == [Plain EXCEPT !.env_file = Rel(<<"bad">>)]
Php    == [Plain EXCEPT !.toolchains = <<"php">>]

Accepted == {Plain, Stable, Pinned, Full}
Edited   == {Plain, Stable, Full}
AllDocs  == Accepted \cup {Dns, Clash, Nested, Whole, Misset, Php}

Dockerfiles ==
    [good |-> <<DeclareBase, Instruction("FROM", "base", <<BaseImageArg>>), Instruction("COPY", "base", <<"build">>)>>,
     other |-> <<Instruction("FROM", "base", <<"debian">>)>>,
     text |-> <<>>, text2 |-> <<>>]

AllMoving == {<<"claude", "latest">>, <<"claude", "stable">>}

AllFiles ==
    (<<"a">> :> {"text"}) @@ (<<"b">> :> {"text"}) @@ (<<"env">> :> {"text"}) @@ (<<"bad">> :> {Garbled})
    @@ (DockerfilePath :> {"good", "other"}) @@ (BuildPath :> {"text", "text2", Absent})

\* For the promise of the refresh alone: two channels of one agent.
RefreshDocs == {Plain, Stable}
FixedFiles  == [p \in DOMAIN AllFiles |-> {IF p = DockerfilePath THEN "good" ELSE "text"}]
Lagging     == {<<"claude", "stable">>}
=============================================================================
