-------------------------------- MODULE Plan --------------------------------
(***************************************************************************)
(* internal/model: the compilation of a valid manifest and its resolved    *)
(* inputs into the plan of a project, and the validation of the plan.      *)
(*                                                                         *)
(* One project: its ID, which every generated name carries, is left out of *)
(* the names.  Names, host paths and image references are tuples of the    *)
(* words they are made of; a mount target is the sequence of its           *)
(* components, always absolute.                                            *)
(***************************************************************************)
EXTENDS Manifest, FiniteSets

DevContainerName        == <<"dev">>
SidecarContainerName(s) == <<"svc", s>>
NetworkName             == <<"net">>
AgentStateVolumeName    == <<"agent-state">>
ServiceVolumeName(v)    == <<"vol", v>>

\* References of images, each in a tuple of its own like the names.
Ref(image)        == <<"ref", image>>
ToolsImageRef     == <<"tools">>
ExtensionImageRef == <<"ext">>
CoreDNSImageRef   == <<"coredns">>
DNSServiceName    == "dns"

WorkspaceTarget  == <<"workspace">>
PayloadTarget    == <<"vibe", "payload">>
AgentStateTarget == <<"vibe", "agent-state">>
ResultsTarget    == <<"vibe", "results">>
RuntimeDirTarget == <<"run", "user", "1000">>
DNSConfTarget    == <<"vibe", "dns">>

ReservedTargets ==
    {WorkspaceTarget, PayloadTarget, AgentStateTarget, ResultsTarget, RuntimeDirTarget, DNSConfTarget}

\* Two targets that are equal or of which one contains the other.
Overlap(t, u) == IsPrefix(t, u) \/ IsPrefix(u, t)

reservedTargetFor(t) == {r \in ReservedTargets : Overlap(t, r)}

-----------------------------------------------------------------------------
(* The parts of a plan.                                                    *)

Mount(kind, source, target, readonly) ==
    [kind |-> kind, source |-> source, target |-> target, readonly |-> readonly]
BindMount(source, target)   == Mount("bind", source, target, TRUE)
VolumeMount(source, target) == Mount("volume", source, target, FALSE)
TmpfsMount(target)          == Mount("tmpfs", <<>>, target, FALSE)

\* netbind is the one capability a container may have back.
defaultPolicy == [closed |-> TRUE, netbind |-> FALSE]

ImageID(ref, digests) ==
    [ref |-> ref, digest |-> IF ref \in DOMAIN digests THEN digests[ref] ELSE 0]

Env(key, value) == [key |-> key, value |-> value]

\* What a compilation is given: the manifest, the project's artifact (Unset
\* when it has none), whether the artifact has a Corefile, the snapshot the
\* imports are in and the digests of the images resolved so far.
Input(m, artifact, dnsConf, snapshot, digests) ==
    [m |-> m, artifact |-> artifact, dnsConf |-> dnsConf,
     snapshot |-> snapshot, digests |-> digests]

HasTools(m) == m.agents # <<>> \/ m.toolchains # <<>>

EgressDNSEnabled(m, dnsConf) == m.egress # "off" /\ dnsConf

\* The sorted lists of the plan, as the sets they are the order of.
ToolsOf(m) == [agents |-> ToSet(m.agents), toolchains |-> ToSet(m.toolchains)]

\* Extension over tools over base: the last enabled one runs.
DevImageRef(m) ==
    CASE m.extension               -> ExtensionImageRef
      [] ~m.extension /\ HasTools(m) -> ToolsImageRef
      [] OTHER                     -> Ref(m.base)

ImportMount(i, m) == BindMount(<<"imports", i>>, m.imports[i].target.at)

\* The imports that are mounted, in the manifest's order.
InOrder(S) == [j \in 1 .. Cardinality(S) |-> CHOOSE i \in S : Cardinality({k \in S : k <= i}) = j]

FreeImports(m) ==
    InOrder({i \in DOMAIN m.imports : reservedTargetFor(m.imports[i].target.at) = {}})

DevMounts(in) ==
    <<Mount("bind", <<"root">>, WorkspaceTarget, FALSE),
      VolumeMount(AgentStateVolumeName, AgentStateTarget),
      TmpfsMount(RuntimeDirTarget)>>
    \o (IF in.artifact = Unset THEN <<>>
        ELSE <<BindMount(<<"payload", in.artifact>>, PayloadTarget)>>)
    \o <<BindMount(<<"results">>, ResultsTarget)>>
    \o LET free == FreeImports(in.m) IN [j \in DOMAIN free |-> ImportMount(free[j], in.m)]

\* The engine's own entries come after the manifest's.
DevEnvironment(in) ==
    LET agents(k) == \E a \in ToSet(in.m.agents) : a.kind = k
        entries(wanted, keys) == IF wanted THEN [i \in DOMAIN keys |-> Env(keys[i], "engine")] ELSE <<>>
    IN  in.m.env
        \o entries(TRUE, <<"XDG_RUNTIME_DIR", "GH_CONFIG_DIR">>)
        \o entries(agents("claude"), <<"CLAUDE_CONFIG_DIR", "DISABLE_AUTOUPDATER">>)
        \o entries(agents("codex"), <<"CODEX_HOME">>)
        \o entries(in.artifact # Unset, <<"VIBE_PAYLOAD_DIGEST">>)

DevContainer(in) ==
    [name |-> DevContainerName, image |-> ImageID(DevImageRef(in.m), in.digests),
     command |-> IF in.artifact = Unset THEN "sleep" ELSE "entrypoint",
     policy |-> defaultPolicy, mounts |-> DevMounts(in), ports |-> in.m.ports,
     env |-> DevEnvironment(in),
     dnsFrom |-> IF EgressDNSEnabled(in.m, in.dnsConf) THEN DNSServiceName ELSE Unset]

\* The DNS ledger: root with one capability back, and nothing of the manifest.
DNSSidecar(in) ==
    [name |-> SidecarContainerName(DNSServiceName), image |-> ImageID(CoreDNSImageRef, in.digests),
     command |-> "coredns", policy |-> [defaultPolicy EXCEPT !.netbind = TRUE],
     mounts |-> <<BindMount(<<"payload", in.artifact, "dns">>, DNSConfTarget)>>,
     ports |-> <<>>, env |-> <<>>, dnsFrom |-> Unset]

Sidecar(svc, in) ==
    [name |-> SidecarContainerName(svc.name), image |-> ImageID(Ref(svc.image), in.digests),
     command |-> "image", policy |-> defaultPolicy,
     mounts |-> [i \in DOMAIN svc.volumes |->
                    VolumeMount(ServiceVolumeName(svc.volumes[i].name), svc.volumes[i].target.at)],
     ports |-> svc.ports, env |-> svc.env, dnsFrom |-> Unset]

ServicesOf(in) ==
    (IF EgressDNSEnabled(in.m, in.dnsConf) THEN <<DNSSidecar(in)>> ELSE <<>>)
    \o [i \in DOMAIN in.m.services |-> Sidecar(in.m.services[i], in)]

RunRefs(in) == {DevImageRef(in.m)} \cup {c.image.ref : c \in ToSet(ServicesOf(in))}

\* Every image the plan needs: what the containers run and what the derived
\* images are built from.
InventoryRefs(in) ==
    RunRefs(in)
    \cup (IF HasTools(in.m) \/ in.m.extension THEN {Ref(in.m.base)} ELSE {})
    \cup (IF HasTools(in.m) /\ in.m.extension THEN {ToolsImageRef} ELSE {})

PlanOf(in) ==
    [artifact |-> in.artifact, dev |-> DevContainer(in), services |-> ServicesOf(in),
     networks |-> {NetworkName},
     volumes  |-> {AgentStateVolumeName} \cup
                  {ServiceVolumeName(v.name) : v \in UNION {ToSet(s.volumes) : s \in ToSet(in.m.services)}},
     images   |-> {ImageID(ref, in.digests) : ref \in InventoryRefs(in)},
     snapshot |-> in.snapshot, env_file |-> in.m.env_file,
     tools    |-> ToolsOf(in.m), extension |-> in.m.extension]

-----------------------------------------------------------------------------
(* The validation of a completed plan.                                     *)

ValidMount(mount) ==
    /\ mount.target # <<>>
    /\ mount.kind \in {"bind", "volume", "tmpfs"}
    /\ (mount.kind = "tmpfs") <=> (mount.source = <<>>)
    /\ mount.kind = "bind" /\ ~mount.readonly => mount.target = WorkspaceTarget

validateMounts(mounts) ==
    /\ \A mount \in ToSet(mounts) : ValidMount(mount)
    /\ \A i, j \in DOMAIN mounts : i # j => ~Overlap(mounts[i].target, mounts[j].target)

Containers(plan) == <<plan.dev>> \o plan.services

ValidatePlan(plan) ==
    LET cs    == Containers(plan)
        names == [i \in DOMAIN cs |-> cs[i].name]
    IN  /\ IsInjective(names)
        /\ \A c \in ToSet(cs) :
              /\ c.policy.closed
              /\ c.policy.netbind => c.name = SidecarContainerName(DNSServiceName)
              /\ validateMounts(c.mounts)
              /\ \A port \in ToSet(c.ports) : ParsePort(port)
              /\ c.dnsFrom # Unset => SidecarContainerName(c.dnsFrom) \in ToSet(names)

\* Whether the compilation refuses the manifest: an import on a target of the
\* engine's, a port that does not parse, or a plan that is not valid.
CompileRefuses(in) ==
    \/ \E i \in DOMAIN in.m.imports : reservedTargetFor(in.m.imports[i].target.at) # {}
    \/ \E p \in ToSet(in.m.ports) \cup UNION {ToSet(s.ports) : s \in ToSet(in.m.services)} : ~ParsePort(p)
    \/ ~ValidatePlan(PlanOf(in))
=============================================================================
