------------------------------ MODULE Manifest ------------------------------
(***************************************************************************)
(* The project manifest .vibe/vibe.yaml of internal/schema: what a document *)
(* may hold, which documents decode and which decoded documents are valid. *)
(*                                                                         *)
(* A document is a record of the raw fields.  Names, versions and image    *)
(* references are members of small sets instead of strings: a string that  *)
(* matches none of the code's patterns is any value outside its set.  The  *)
(* services, a map in YAML, are a sequence in the order of their names.    *)
(***************************************************************************)
EXTENDS Lists

CONSTANTS
    Pins,           \* agent versions that begin with a digit
    Words,          \* agent versions that begin with a letter: channels
    ImageRefs,      \* well-formed image references
    Names,          \* well-formed service, volume and command names
    Keys,           \* well-formed names of environment variables
    Unset           \* the empty string

ASSUME ManifestAssumption ==
    /\ Pins \cap Words = {}
    /\ Unset \notin Pins \cup Words \cup ImageRefs \cup Names

AgentKind  == {"claude", "codex", "grok"}
Toolchain  == {"node", "bun", "go", "rokit", "uv"}
EgressMode == {Unset, "on", "off"}
MemoryMode == {Unset, "auto", "off"}

\* The shape every document has: its lists are sequences, and a key of the
\* services' map is there once.
Document(doc) ==
    /\ IsList(doc.agents) /\ IsList(doc.toolchains) /\ IsList(doc.imports) /\ IsList(doc.services)
    /\ \A svc \in ToSet(doc.services) : IsList(svc.volumes)
    /\ IsInjective([i \in DOMAIN doc.services |-> doc.services[i].name])

\* grok's installer has no version parameter.
ParsesAgent(raw) ==
    /\ raw.kind \in AgentKind
    /\ \/ raw.version = Unset
       \/ raw.kind # "grok" /\ raw.version \in Pins \cup Words

\* Whether the source is bounded, UTF-8 and one YAML document, of bounded size
\* and depth, without anchors, aliases, tags, doubled keys or control characters.
inspect(doc) == doc.wellformed

Decodes(doc) ==
    /\ inspect(doc)
    /\ \A raw \in ToSet(doc.agents) : ParsesAgent(raw)
    /\ ToSet(doc.toolchains) \subseteq Toolchain
    /\ doc.cmd \in AgentKind \cup {Unset}
    /\ doc.egress \in EgressMode /\ doc.memory \in MemoryMode

-----------------------------------------------------------------------------
(* Paths are sequences of components behind a flag for the leading slash;  *)
(* <<"\\">> stands for a component that has a backslash.                   *)

Abs(at) == [abs |-> TRUE, at |-> at]
Rel(at) == [abs |-> FALSE, at |-> at]
NoPath  == Rel(<<>>)

\* path.Clean(p) = p
Clean(p) ==
    \/ ~p.abs /\ p.at = <<".">>
    \/ \A i \in DOMAIN p.at :
          /\ p.at[i] \notin {"", "."}
          /\ p.at[i] = ".." => ~p.abs /\ \A j \in 1 .. i : p.at[j] = ".."

relPath(p) ==
    /\ p.at # <<>> /\ ~p.abs
    /\ Clean(p) /\ p.at[1] # ".."
    /\ \A i \in DOMAIN p.at : p.at[i] # "\\"

containerTarget(p) == p.abs /\ p.at # <<>> /\ Clean(p)

parsePortNumber(n) == n \in 1 .. 65535

\* ip is "loopback", another address or no address.
ParsePort(port) ==
    /\ port.ip = "loopback"
    /\ parsePortNumber(port.host) /\ parsePortNumber(port.container)

-----------------------------------------------------------------------------
(* Field validation.  The code collects a diagnostic per broken rule; what *)
(* decides is whether there is one.                                        *)

SupportedSchema == 1

\* Names the engine gives to containers of its own.
reservedWithoutDns == {"dev", "base", "vibe"}
reservedServiceNames == {"dev", "base", "vibe", "dns"}

Distinct(s) == IsInjective(s)

ValidImage(m) ==
    /\ m.base \in ImageRefs
    /\ Distinct([i \in DOMAIN m.agents |-> m.agents[i].kind])
    /\ Distinct(m.toolchains)

ValidEnv(env) == \A e \in ToSet(env) : e.key \in Keys

ValidRuntime(m) ==
    /\ \A p \in ToSet(m.ports) : ParsePort(p)
    /\ \A imp \in ToSet(m.imports) :
          relPath(imp.source) /\ imp.readonly /\ containerTarget(imp.target)
    /\ Distinct([i \in DOMAIN m.imports |-> m.imports[i].target])
    /\ ValidEnv(m.env)

ValidService(svc) ==
    /\ svc.name \in Names \ reservedServiceNames
    /\ svc.image \in ImageRefs
    /\ \A p \in ToSet(svc.ports) : ParsePort(p)
    /\ ValidEnv(svc.env)
    /\ \A vol \in ToSet(svc.volumes) : vol.name \in Names /\ containerTarget(vol.target)

\* The session's agent is one that the image installs.
ValidAgent(m) == \E i \in DOMAIN m.agents : m.agents[i].kind = m.cmd

Validate(m) ==
    /\ m.schema = SupportedSchema
    /\ ValidImage(m) /\ ValidRuntime(m) /\ ValidAgent(m)
    /\ \A svc \in ToSet(m.services) : ValidService(svc)
    /\ m.env_file # NoPath => relPath(m.env_file)
    /\ ToSet(m.required) \subseteq Names
=============================================================================
