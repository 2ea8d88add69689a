------------------------------ MODULE Install ------------------------------
(***************************************************************************)
(* The tools image of internal/builder: the install Dockerfile generated   *)
(* from a manifest's agents and toolchains, the contract every Dockerfile  *)
(* must meet, the refresh token that decides which agent layers are pulled *)
(* again, and the layer cache of Docker's classic builder.                 *)
(*                                                                         *)
(* A Dockerfile is a sequence of instructions without their text: the part *)
(* of the bill of materials one belongs to and the words that tell two     *)
(* instructions of one part apart.                                         *)
(***************************************************************************)
EXTENDS Manifest, FiniteSets

Instruction(op, part, words) == [op |-> op, part |-> part, words |-> words]
Run(part, words) == Instruction("RUN", part, words)
When(wanted, s)  == IF wanted THEN s ELSE <<>>

BaseImageArg == "VIBE_BASE_IMAGE"
DeclareBase  == Instruction("ARG", "base", <<BaseImageArg>>)

-----------------------------------------------------------------------------
(* Channels and the refresh token.  A text is a sequence of words; a word  *)
(* is a version of upstream ("v") or a time stamp ("t"), and in a token it *)
(* has the agent it is for as its key.                                     *)

isChannel(v) == v \in Words

DefaultChannel(kind) == IF kind = "grok" THEN "stable" ELSE "latest"

\* The engine's own channels are words as a manifest may have them.
ASSUME InstallAssumption == \A kind \in AgentKind : DefaultChannel(kind) \in Words

\* The channel an agent follows; Unset for an exact pin.
AgentChannel(spec) ==
    CASE spec.version = Unset    -> DefaultChannel(spec.kind)
      [] isChannel(spec.version) -> spec.version
      [] OTHER                   -> Unset

Word(key, sort, n) == [key |-> key, sort |-> sort, n |-> n]

\* The value a token has for an agent, empty when it has no pair for it: that
\* of the last pair, as in a map that is filled from left to right.
ParseAgentRefresh(token, kind) ==
    LET own  == {i \in DOMAIN token : token[i].key = kind}
        last == CHOOSE i \in own : \A j \in own : j <= i
    IN  IF own = {} THEN <<>> ELSE <<[token[last] EXCEPT !.key = Unset]>>

-----------------------------------------------------------------------------
(* The generated Dockerfile.                                               *)

wantsAgent(want) == want \cap AgentKind # {}

pathEntries(want) ==
    When(wantsAgent(want) \/ "uv" \in want, <<".local/bin">>)
    \o When("bun" \in want, <<".bun/bin">>)
    \o When("rokit" \in want, <<".rokit/bin">>)
    \o When("go" \in want, <<"/usr/local/go/bin", "go/bin">>)

\* nvim and lazygit, the plugins, the parsers: three layers.
reviewLayers == <<Run("review", <<>>), Run("plugins", <<>>), Run("parsers", <<>>)>>

\* Layers that need root, in their fixed order.
rootLayers(want) ==
    <<Run("base", <<"agent-state">>)>>
    \o When(wantsAgent(want),
            <<Run("tmux", <<>>), Run("chafa", <<>>)>> \o reviewLayers \o <<Run("gh", <<>>)>>)
    \o When("go" \in want, <<Run("go", <<>>)>>)
    \o When("node" \in want, <<Run("node", <<>>)>>)
    \o When("rokit" \in want, <<Run("rokit", <<"unzip">>)>>)

\* The argument of an agent's own layer, declared directly above it.
refreshArgDecl(bust, kind) == When(bust, <<Instruction("ARG", kind, <<kind>>)>>)

BustsUnversioned(spec, refresh) == refresh /\ spec.version = Unset
Busts(spec, refresh) == refresh /\ AgentChannel(spec) # Unset

AgentLayer(agents, kind, refresh) ==
    LET spec   == CHOOSE a \in ToSet(agents) : a.kind = kind
        bust   == Busts(spec, refresh)
        target == IF spec.version = Unset THEN DefaultChannel(kind) ELSE spec.version
    IN  refreshArgDecl(bust, kind)
        \o <<Run(kind, <<target>> \o When(bust, <<"refresh">>))>>

\* All arguments above all agents: one that moves is in the key of each RUN.
HoistedLayers(want, agents, refresh) ==
    LET layers == FlattenSeq([i \in 1 .. 3 |-> LET kind == <<"codex", "grok", "claude">>[i]
                                               IN  When(kind \in want, AgentLayer(agents, kind, refresh))])
    IN  SelectSeq(layers, LAMBDA i : i.op = "ARG") \o SelectSeq(layers, LAMBDA i : i.op # "ARG")

\* Layers in the home directory: toolchains before agents, and the agent
\* that is released most often last.
userLayers(want, agents, refresh) ==
    When("bun" \in want, <<Run("bun", <<>>)>>)
    \o When("rokit" \in want, <<Run("rokit", <<>>)>>)
    \o When("uv" \in want, <<Run("uv", <<>>)>>)
    \o When("codex" \in want, AgentLayer(agents, "codex", refresh))
    \o When("grok" \in want, AgentLayer(agents, "grok", refresh))
    \o When("claude" \in want, AgentLayer(agents, "claude", refresh))

\* codex is installed by npm and brings node in.
Want(agents, toolchains) ==
    LET named == {a.kind : a \in ToSet(agents)} \cup ToSet(toolchains)
    IN  named \cup (IF "codex" \in named THEN {"node"} ELSE {})

GenerateInstallPlan(agents, toolchains, refresh) ==
    LET want == Want(agents, toolchains)
        path == pathEntries(want)
    IN  <<DeclareBase, Instruction("FROM", "base", <<BaseImageArg>>)>>
        \o When(path # <<>>, <<Instruction("ENV", "base", path)>>)
        \o <<Instruction("USER", "base", <<"root">>)>> \o rootLayers(want)
        \o <<Instruction("USER", "base", <<"vscode">>)>> \o userLayers(want, agents, refresh)

\* The agents whose layers declare an argument.
RefreshKinds(dockerfile) ==
    {dockerfile[i].part : i \in {j \in DOMAIN dockerfile :
        dockerfile[j].op = "ARG" /\ dockerfile[j].part \in AgentKind}}

-----------------------------------------------------------------------------
(* The contract of a Dockerfile, generated or a project's own.             *)

Instructions(dockerfile, op) == {i \in DOMAIN dockerfile : dockerfile[i].op = op}

ValidateDockerfile(dockerfile) ==
    LET from == Instructions(dockerfile, "FROM")
        user == Instructions(dockerfile, "USER")
    IN  /\ \A i \in ToSet(dockerfile) :
              /\ i.op \notin {"#syntax", "ADD", "ONBUILD"}
              /\ i.op = "COPY" => "--from" \notin ToSet(i.words)
              /\ i.op = "USER" => i.words # <<>>
        /\ \E i \in from : /\ from = {i}
                          /\ dockerfile[i].words # <<>> /\ dockerfile[i].words[1] = BaseImageArg
        /\ \A i \in user : (\A j \in user : j <= i) => dockerfile[i].words[1] = "vscode"
        /\ DeclareBase \in ToSet(dockerfile)

-----------------------------------------------------------------------------
(* The classic builder of the Docker daemon.  A layer is the image a step  *)
(* leaves, identified by a number.  A step is not run again when a layer   *)
(* with the same parent, the same instruction, the same context for COPY   *)
(* and, for RUN, the same values of all arguments declared so far is known.*)

Step(instruction, args, context, base) ==
    [instruction |-> instruction,
     args    |-> IF instruction.op = "RUN" THEN args ELSE {},
     context |-> IF instruction.op = "COPY" THEN context ELSE {},
     base    |-> IF instruction.op = "FROM" THEN base ELSE 0]

\* One step of a build: at is the layer it starts from, pulls the steps that
\* ran, inside the versions of the agents in the layer it leaves.
BuildStep(b, i, dockerfile, args, context, base, heads, first) ==
    LET instruction == dockerfile[i]
        declared == IF instruction.op = "ARG"
                    THEN b.declared \cup {a \in args : a[1] = instruction.part}
                    ELSE b.declared
        step   == Step(instruction, b.declared, context, base)
        known  == {l \in b.cache : l.parent = b.at /\ l.step = step}
        agent  == instruction.op = "RUN" /\ instruction.part \in AgentKind
        got    == IF ~agent THEN 0
                  ELSE IF instruction.words[1] \in Words
                       THEN heads[<<instruction.part, instruction.words[1]>>] ELSE 0
        layer  == IF known # {} THEN CHOOSE l \in known : TRUE
                  ELSE [parent |-> b.at, step |-> step, id |-> first + Cardinality(b.cache), got |-> got]
    IN  [at       |-> layer.id,
         cache    |-> b.cache \cup {layer},
         declared |-> declared,
         pulls    |-> IF known = {} THEN b.pulls \cup {i} ELSE b.pulls,
         inside   |-> IF agent THEN b.inside \cup {<<instruction.part, layer.got>>} ELSE b.inside]

\* The first n steps of a build.
Build(dockerfile, n, args, context, base, heads, cache, first) ==
    LET after[i \in 0 .. n] ==
            IF i = 0 THEN [at |-> 0, cache |-> cache, declared |-> {}, pulls |-> {}, inside |-> {}]
            ELSE BuildStep(after[i - 1], i, dockerfile, args, context, base, heads, first)
    IN  after[n]
=============================================================================
