----------------------------- MODULE Candidate -----------------------------
(***************************************************************************)
(* The candidate pipeline of internal/app: vibe up, rebuild and config     *)
(* freeze the inputs of a workspace, resolve and build the images, compile *)
(* the plan, publish it as a candidate and move the project's record to it *)
(* once it runs.                                                           *)
(*                                                                         *)
(* Beside the pipeline a user edits the manifest and the files it names,   *)
(* the agents' channels move on, and image tags move.  What the runtime    *)
(* does with the candidate is Replacement, who may run meanwhile is        *)
(* IntentGate and what happens to the record is Deployment; here the       *)
(* reconciliation and the update of the record just succeed, or Abort.     *)
(***************************************************************************)
EXTENDS Plan, Install

CONSTANTS
    Docs,        \* the documents a user may begin with as the manifest,
    Saved,       \*   and those an edit may leave
    Texts,       \* the Dockerfile that a content is
    FileStates,  \* for each workspace path, the contents it may have
    Moving,      \* the pairs of an agent and a channel with new releases
    Artifacts,   \* what the project may have as its artifact, Unset included
    Corefiled,   \* the artifacts whose payload has a Corefile
    MaxRuns,     \* bound: commands
    MaxMoves     \* bound: edits, releases, moved tags, failures and interruptions

Absent  == "absent"     \* no such file
Special == "special"    \* a symlink, a socket, a hard link, a file too large
Garbled == "garbled"    \* an env file that does not parse

DockerfilePath == <<".vibe", "Dockerfile">>

\* The contents a copy is made of: the file is there, and is a regular one.
Contents(path) == FileStates[path] \ {Absent, Special}

ASSUME CandidateAssumption ==
    /\ Saved \subseteq Docs
    /\ \A d \in Docs : Document(d)
    /\ \A content \in DOMAIN Texts : IsList(Texts[content])
    /\ \A path \in DOMAIN FileStates : Contents(path) # {}
    /\ DockerfilePath \in DOMAIN FileStates => Contents(DockerfilePath) \subseteq DOMAIN Texts
    /\ Corefiled \subseteq Artifacts \ {Unset}
    /\ Moving \subseteq AgentKind \X Words
    /\ MaxRuns \in Nat /\ MaxMoves \in Nat

VARIABLES
    doc, files,  \* the workspace: the manifest, and the files
    heads,       \* the version each channel of each agent has
    tags,        \* the digest each image reference has
    cache,       \* the layers the Docker daemon knows
    artifact,    \* the registry record's artifact,
    refresh,     \*   its AgentRefresh
    approved,    \*   and its approved candidate
    approvals,   \* the digests of approved extension builds
    candidates,  \* candidate records
    \* The command that runs, or ran last:
    pc, verb,
    token,       \* the AgentRefresh it builds with
    preview,     \* the manifest as first read
    todo,        \* entries that are still to copy
    dirty,       \* whether the file being copied has changed
    frozen,      \* the manifest in the snapshot
    snap,        \* the other files in the snapshot
    refs,        \* references still to resolve
    digests,     \* what has been resolved or built
    plan, outcome,
    \* What only the properties need:
    tools,       \* the last finished build of the tools image
    extension,   \* the last finished build of the extension image
    shown,       \* build inputs an operator has agreed to
    began,       \* heads when the command began
    minted,      \* the agents that the command's token was minted for,
    mintedFor,   \*   and those that the record's was
    raced,       \* whether the manifest of a rebuild changed after its mint
    mixed,       \* whether any build used a token minted for other agents
    runs, moves

workspace == <<doc, files>>
daemon    == <<heads, tags>>
record    == <<artifact, refresh, approved>>
frozenVs  == <<preview, todo, dirty, frozen, snap>>
images    == <<refs, digests>>
built     == <<cache, tools, extension, approvals, shown>>
ghosts    == <<began, minted, mintedFor, raced, mixed>>
vars == <<workspace, daemon, record, candidates, pc, verb, token, frozenVs, images,
          plan, outcome, built, ghosts, runs, moves>>

\* No document and no plan, of the type of the others.
NoDoc    == CHOOSE d \in Docs : TRUE
NoPlan   == <<>>
NoBuild  == [dockerfile |-> <<>>, base |-> 0, args |-> {}, pulls |-> {}, inside |-> {}, context |-> {}]

ManifestPath   == <<".vibe", "vibe.yaml">>
BuildPath      == <<".vibe", "build">>
SnapshotManifest == <<"vibe.yaml">>
EnvFileDest      == <<"env-file">>
DockerfileDest   == <<"Dockerfile">>
BuildDest        == <<"build">>
ImportDest(i)    == <<"imports", i>>

Pcs == {"idle", "mint", "preview", "copy", "read", "load", "artifact", "resolve",
        "tools", "extension", "compile", "publish", "reconcile", "update"}
Outcomes == {"none", "ok", "aborted", "undecodable", "invalid", "input", "changed", "env-file",
             "generated", "dockerfile", "declined", "plan", "conflict"}

Init ==
    /\ doc \in Docs
    /\ files = [p \in DOMAIN FileStates |-> CHOOSE c \in Contents(p) : TRUE]
    /\ heads = [h \in AgentKind \X Words |-> IF h[2] = "stable" THEN 1 ELSE 2]
    /\ tags = [r \in ImageRefs |-> 1]
    /\ artifact \in Artifacts /\ refresh = <<>> /\ approved = NoPlan
    /\ candidates = {} /\ approvals = {} /\ shown = {} /\ cache = {}
    /\ pc = "idle" /\ verb = "up" /\ token = <<>> /\ outcome = "none"
    /\ preview = NoDoc /\ frozen = NoDoc /\ todo = <<>> /\ dirty = FALSE /\ snap = {}
    /\ refs = <<>> /\ digests = [r \in {} |-> 0] /\ plan = NoPlan
    /\ tools = NoBuild /\ extension = NoBuild
    /\ began = heads /\ minted = <<>> /\ mintedFor = <<>> /\ raced = FALSE /\ mixed = FALSE
    /\ runs = 0 /\ moves = 0

-----------------------------------------------------------------------------
(* The command begins; a rebuild mints a refresh token.                    *)

\* Nothing in hand: no inputs, no images, no plan.
EmptyHanded ==
    /\ preview' = NoDoc /\ frozen' = NoDoc /\ todo' = <<>> /\ dirty' = FALSE /\ snap' = {}
    /\ refs' = <<>> /\ digests' = [r \in {} |-> 0] /\ plan' = NoPlan

Begin(v) ==
    /\ pc = "idle" /\ runs < MaxRuns
    /\ runs' = runs + 1 /\ verb' = v /\ outcome' = "none"
    /\ pc' = IF v = "rebuild" THEN "mint" ELSE "preview"
    /\ token' = refresh /\ minted' = mintedFor /\ began' = heads
    /\ EmptyHanded
    /\ UNCHANGED <<workspace, daemon, record, candidates, built, mintedFor, raced, mixed, moves>>

Fault == moves < MaxMoves /\ moves' = moves + 1

End(result) == pc' = "idle" /\ outcome' = result

\* A value for each agent that follows a channel: the version its probe
\* reports, or the time when the probe failed.
MintedFor(m, failed) ==
    LET tracking == Only(m.agents, {a \in ToSet(m.agents) : AgentChannel(a) # Unset})
        value(a) == IF a.kind \in failed
                    THEN Word(a.kind, "t", runs)
                    ELSE Word(a.kind, "v", heads[<<a.kind, AgentChannel(a)>>])
    IN  [i \in DOMAIN tracking |-> value(tracking[i])]

\* mintAgentRefresh reads the workspace's manifest on its own.
MintAgentRefresh(failed) ==
    /\ pc = "mint"
    /\ \/ failed = {} /\ UNCHANGED moves
       \/ failed # {} /\ Fault
    /\ LET pairs == MintedFor(doc, failed)
       IN  token' = IF Decodes(doc) /\ pairs # <<>> THEN pairs ELSE <<Word(Unset, "t", runs)>>
    /\ minted' = doc.agents
    /\ pc' = "preview"
    /\ UNCHANGED <<workspace, daemon, record, candidates, verb, frozenVs, images, plan, outcome,
                   built, began, mintedFor, raced, mixed, runs>>

-----------------------------------------------------------------------------
(* The inputs are frozen: one entry after the other is copied while the    *)
(* workspace may change.                                                   *)

Entry(source, dest, optional) == [source |-> source, dest |-> dest, optional |-> optional]

Entries(m) ==
    <<Entry(Rel(ManifestPath), SnapshotManifest, FALSE)>>
    \o When(m.env_file # NoPath, <<Entry(m.env_file, EnvFileDest, FALSE)>>)
    \o When(m.extension, <<Entry(Rel(DockerfilePath), DockerfileDest, FALSE),
                           Entry(Rel(BuildPath), BuildDest, TRUE)>>)
    \o [i \in DOMAIN m.imports |-> Entry(m.imports[i].source, ImportDest(i), FALSE)]

\* The first reading only tells which inputs to freeze.
Preview ==
    /\ pc = "preview"
    /\ \/ Decodes(doc) /\ preview' = doc /\ todo' = Entries(doc) /\ pc' = "copy" /\ UNCHANGED outcome
       \/ ~Decodes(doc) /\ End("undecodable") /\ UNCHANGED <<preview, todo>>
    /\ UNCHANGED <<workspace, daemon, record, candidates, verb, token, dirty, frozen, snap, images,
                   plan, built, ghosts, runs, moves>>

\* Unlike relPath, the snapshot refuses the workspace itself.
validateRel(p) == relPath(p) /\ p.at # <<".">>

StateOf(p) ==
    CASE p.at = ManifestPath        -> "regular"
      [] p.at \in DOMAIN files      -> files[p.at]
      [] OTHER                      -> Absent

CopyOpen ==
    /\ pc = "copy" /\ todo # <<>>
    /\ LET e == Head(todo)
           state == StateOf(e.source)
       IN  \/ /\ validateRel(e.source) /\ state \notin {Absent, Special}
              /\ pc' = "read" /\ dirty' = FALSE /\ UNCHANGED <<todo, outcome>>
           \/ /\ validateRel(e.source) /\ state = Absent /\ e.optional
              /\ todo' = Tail(todo) /\ UNCHANGED <<pc, dirty, outcome>>
           \/ /\ \/ ~validateRel(e.source)
                 \/ state = Special
                 \/ state = Absent /\ ~e.optional
              /\ End("input") /\ UNCHANGED <<todo, dirty>>
    /\ UNCHANGED <<workspace, daemon, record, candidates, verb, token, preview, frozen, snap, images,
                   plan, built, ghosts, runs, moves>>

changedDuringCopy == dirty

CopyRead ==
    /\ pc = "read"
    /\ LET e == Head(todo)
       IN  \/ /\ changedDuringCopy /\ End("changed") /\ UNCHANGED <<todo, frozen, snap>>
           \/ /\ ~changedDuringCopy
              /\ pc' = "copy" /\ todo' = Tail(todo) /\ UNCHANGED outcome
              /\ IF e.dest = SnapshotManifest
                 THEN frozen' = doc /\ UNCHANGED snap
                 ELSE /\ snap' = snap \cup {[dest |-> e.dest, source |-> e.source.at,
                                             content |-> StateOf(e.source)]}
                      /\ UNCHANGED frozen
    /\ UNCHANGED <<workspace, daemon, record, candidates, verb, token, preview, dirty, images,
                   plan, built, ghosts, runs, moves>>

Snapped(dest) == {f \in snap : f.dest = dest}

\* From here on nothing reads the workspace.
LoadFrozen ==
    /\ pc = "copy" /\ todo = <<>>
    /\ \/ ~Decodes(frozen) /\ End("undecodable")
       \/ Decodes(frozen) /\ ~Validate(frozen) /\ End("invalid")
       \/ /\ Decodes(frozen) /\ Validate(frozen) /\ frozen.env_file # NoPath
          /\ \A f \in Snapped(EnvFileDest) : f.content = Garbled
          /\ End("env-file")
       \/ /\ Decodes(frozen) /\ Validate(frozen)
          /\ frozen.env_file # NoPath => \E f \in Snapped(EnvFileDest) : f.content # Garbled
          /\ pc' = "artifact" /\ UNCHANGED outcome
    /\ raced' = (raced \/ (verb = "rebuild" /\ minted # frozen.agents))
    /\ mixed' = (mixed \/ (token # <<>> /\ minted # frozen.agents))
    /\ UNCHANGED <<workspace, daemon, record, candidates, verb, token, frozenVs, images,
                   plan, built, began, minted, mintedFor, runs, moves>>

-----------------------------------------------------------------------------
(* Images are resolved to digests and built.                               *)

\* The artifact is leased, and with it is known whether DNS has a ledger.
DNSConfPresent == artifact \in Corefiled

LoadArtifact ==
    /\ pc = "artifact"
    /\ IF verb = "config"
       THEN pc' = "compile" /\ UNCHANGED refs
       ELSE /\ pc' = "resolve"
            /\ refs' = <<Ref(frozen.base)>>
                       \o When(EgressDNSEnabled(frozen, DNSConfPresent), <<CoreDNSImageRef>>)
                       \o [i \in DOMAIN frozen.services |-> Ref(frozen.services[i].image)]
    /\ UNCHANGED <<workspace, daemon, record, candidates, verb, token, frozenVs, digests,
                   plan, outcome, built, ghosts, runs, moves>>

\* The reference of the DNS image has its digest in it.
PinnedDigest == 1
Resolved(ref) == IF ref = CoreDNSImageRef THEN PinnedDigest ELSE tags[ref[2]]

With(ref, digest) == [r \in DOMAIN digests \cup {ref} |-> IF r = ref THEN digest ELSE digests[r]]

ResolveImage ==
    /\ pc = "resolve"
    /\ IF refs # <<>>
       THEN digests' = With(Head(refs), Resolved(Head(refs))) /\ refs' = Tail(refs) /\ UNCHANGED pc
       ELSE pc' = "tools" /\ UNCHANGED images
    /\ UNCHANGED <<workspace, daemon, record, candidates, verb, token, frozenVs,
                   plan, outcome, built, ghosts, runs, moves>>

\* Layers have numbers no resolved digest has.
FirstLayer == 100

\* The value of an agent's argument: its own pair or, when the token has
\* none for it, the token itself.
RefreshValue(kind) ==
    LET own == ParseAgentRefresh(token, kind) IN IF own # <<>> THEN own ELSE token

RefreshArgs(dockerfile) == {<<kind, RefreshValue(kind)>> : kind \in RefreshKinds(dockerfile)}

\* A build that fails keeps the layers it got to; one that stops before the
\* first agent leaves nothing that matters here.
FailsAfter(dockerfile) ==
    {i \in DOMAIN dockerfile : dockerfile[i].op = "RUN" /\ dockerfile[i].part \in AgentKind}

Finished(dockerfile, args, context, base, b) ==
    [dockerfile |-> dockerfile, base |-> base, args |-> args, context |-> context,
     pulls |-> b.pulls, inside |-> b.inside]

BuildTools ==
    /\ pc = "tools"
    /\ LET dockerfile == GenerateInstallPlan(frozen.agents, frozen.toolchains, token # <<>>)
           args == RefreshArgs(dockerfile)
           base == digests[Ref(frozen.base)]
           upTo(n) == Build(dockerfile, n, args, {}, base, heads, cache, FirstLayer)
       IN  \/ ~HasTools(frozen) /\ pc' = "extension" /\ UNCHANGED <<digests, cache, tools, outcome, moves>>
           \/ /\ HasTools(frozen) /\ ~ValidateDockerfile(dockerfile)
              /\ End("generated") /\ UNCHANGED <<digests, cache, tools, moves>>
           \/ /\ HasTools(frozen) /\ ValidateDockerfile(dockerfile)
              /\ LET b == upTo(Len(dockerfile))
                 IN  /\ cache' = b.cache /\ digests' = With(ToolsImageRef, b.at)
                     /\ tools' = Finished(dockerfile, args, {}, base, b)
              /\ pc' = "extension" /\ UNCHANGED <<outcome, moves>>
           \/ /\ HasTools(frozen) /\ ValidateDockerfile(dockerfile)
              /\ Fault /\ \E n \in FailsAfter(dockerfile) : cache' = upTo(n).cache
              /\ End("aborted") /\ UNCHANGED <<digests, tools>>
    /\ UNCHANGED <<workspace, daemon, record, candidates, verb, token, frozenVs, refs, plan,
                   extension, approvals, shown, ghosts, runs>>

\* What an extension is built from, and the digest it is approved by.
Context == {[dest |-> f.dest, content |-> f.content] : f \in Snapped(DockerfileDest) \cup Snapped(BuildDest)}
DockerfileOnly == {[dest |-> f.dest, content |-> f.content] : f \in Snapped(DockerfileDest)}
extensionDigest == Context

ExtensionText == Texts[(CHOOSE f \in Snapped(DockerfileDest) : TRUE).content]
Contracted    == Snapped(DockerfileDest) # {} /\ ValidateDockerfile(ExtensionText)

\* The operator answers; a yes is remembered by digest before anything is
\* built, and stays remembered when the build fails or the command dies.
ApproveExtension ==
    /\ pc = "extension" /\ frozen.extension /\ Contracted /\ extensionDigest \notin approvals
    /\ \/ /\ approvals' = approvals \cup {extensionDigest} /\ shown' = shown \cup {Context}
          /\ UNCHANGED <<pc, outcome>>
       \/ End("declined") /\ UNCHANGED <<approvals, shown>>
    /\ UNCHANGED <<workspace, daemon, record, candidates, verb, token, frozenVs, images, plan,
                   cache, tools, extension, ghosts, runs, moves>>

BuildExtension ==
    /\ pc = "extension"
    /\ LET base == digests[IF HasTools(frozen) THEN ToolsImageRef ELSE Ref(frozen.base)]
           b    == Build(ExtensionText, Len(ExtensionText), {}, Context, base, heads, cache, FirstLayer)
       IN  \/ /\ ~frozen.extension /\ pc' = "compile"
              /\ UNCHANGED <<digests, cache, extension, outcome>>
           \/ /\ frozen.extension /\ ~Contracted /\ End("dockerfile")
              /\ UNCHANGED <<digests, cache, extension>>
           \/ /\ frozen.extension /\ Contracted /\ extensionDigest \in approvals
              /\ cache' = b.cache /\ digests' = With(ExtensionImageRef, b.at)
              /\ extension' = Finished(ExtensionText, {}, Context, base, b)
              /\ pc' = "compile" /\ UNCHANGED outcome
    /\ UNCHANGED <<workspace, daemon, record, candidates, verb, token, frozenVs, refs, plan,
                   tools, approvals, shown, ghosts, runs, moves>>

-----------------------------------------------------------------------------
(* The plan is compiled, published and run; then the record moves to it.   *)

\* vibe config ends with the plan, its images unresolved.
CompilePlan ==
    /\ pc = "compile"
    /\ LET in == Input(frozen, artifact, DNSConfPresent, snap, digests)
       IN  IF CompileRefuses(in)
           THEN End("plan") /\ UNCHANGED plan
           ELSE /\ plan' = <<PlanOf(in)>>
                /\ IF verb = "config" THEN End("ok") ELSE pc' = "publish" /\ UNCHANGED outcome
    /\ UNCHANGED <<workspace, daemon, record, candidates, verb, token, frozenVs, images,
                   built, ghosts, runs, moves>>

\* A record that exists gives its time to the new one; records that differ
\* are a conflict.
CreatedAt(existing) == IF existing = {} THEN runs ELSE (CHOOSE c \in existing : TRUE).at

Publish ==
    /\ pc = "publish"
    /\ LET existing == {c \in candidates : c.plan = plan}
           new == [plan |-> plan, at |-> CreatedAt(existing)]
       IN  IF existing \subseteq {new}
           THEN candidates' = candidates \cup {new} /\ pc' = "reconcile" /\ UNCHANGED outcome
           ELSE End("conflict") /\ UNCHANGED candidates
    /\ UNCHANGED <<workspace, daemon, record, verb, token, frozenVs, images, plan,
                   built, ghosts, runs, moves>>

\* The token is kept only now, with the candidate that it went into.
UpdateRecord ==
    /\ pc = "reconcile"
    /\ approved' = plan
    /\ IF verb = "rebuild" THEN refresh' = token /\ mintedFor' = minted
                           ELSE UNCHANGED <<refresh, mintedFor>>
    /\ End("ok")
    /\ UNCHANGED <<workspace, daemon, artifact, candidates, verb, token, frozenVs, images, plan,
                   built, began, minted, raced, mixed, runs, moves>>

\* A step fails for a reason outside, or the command is interrupted: what it
\* had staged is removed and what it had leased is released.
Abort ==
    /\ pc # "idle" /\ Fault
    /\ End("aborted") /\ EmptyHanded /\ token' = <<>> /\ minted' = <<>>
    /\ UNCHANGED <<workspace, daemon, record, candidates, verb, built, began, mintedFor,
                   raced, mixed, runs>>

-----------------------------------------------------------------------------
(* What happens beside the command.  A change is made in a phase in which  *)
(* the command may see it; one made later is as good as one made when the  *)
(* command has ended.                                                      *)

Copying(path) == pc = "read" /\ Head(todo).source.at = path

Move(phases) == pc \in {"idle"} \cup phases /\ moves < MaxMoves /\ moves' = moves + 1
Reading == {"mint", "preview", "copy", "read"}

Elsewhere == UNCHANGED <<record, candidates, pc, verb, token, preview, todo, frozen, snap, images,
                         plan, outcome, built, ghosts, runs>>

EditManifest(d) ==
    /\ Move(Reading) /\ d # doc /\ doc' = d
    /\ dirty' = (dirty \/ Copying(ManifestPath))
    /\ UNCHANGED <<files, daemon>> /\ Elsewhere

EditFile(path, content) ==
    /\ Move(Reading) /\ content # files[path] /\ files' = [files EXCEPT ![path] = content]
    /\ dirty' = (dirty \/ Copying(path))
    /\ UNCHANGED <<doc, daemon>> /\ Elsewhere

\* A channel gets a release; it never goes back.
NewRelease(h) ==
    /\ Move({"mint", "tools"}) /\ heads' = [heads EXCEPT ![h] = @ + 1]
    /\ UNCHANGED <<workspace, tags, dirty>> /\ Elsewhere

MoveTag(r) ==
    /\ Move({"resolve"}) /\ tags' = [tags EXCEPT ![r] = @ + 1]
    /\ UNCHANGED <<workspace, heads, dirty>> /\ Elsewhere

Next ==
    \/ \E v \in {"up", "rebuild", "config"} : Begin(v)
    \/ \E failed \in SUBSET {a.kind : a \in ToSet(doc.agents)} : MintAgentRefresh(failed)
    \/ Preview \/ CopyOpen \/ CopyRead \/ LoadFrozen \/ LoadArtifact
    \/ ResolveImage \/ BuildTools \/ ApproveExtension \/ BuildExtension
    \/ CompilePlan \/ Publish \/ UpdateRecord \/ Abort
    \/ \E d \in Saved : EditManifest(d)
    \/ \E path \in DOMAIN FileStates : \E c \in FileStates[path] : EditFile(path, c)
    \/ \E h \in Moving : NewRelease(h)
    \/ \E r \in ImageRefs : MoveTag(r)

Spec == Init /\ [][Next]_vars

-----------------------------------------------------------------------------
(* Properties.                                                             *)

Digests == 0 .. FirstLayer + 100

\* The state is of the types above; the variables that hold documents hold
\* ones a user can save, and the command is at one of its steps.
TypeOK ==
    /\ {doc, preview, frozen} \subseteq Docs
    /\ \A p \in DOMAIN files : files[p] \in FileStates[p]
    /\ \A h \in DOMAIN heads : heads[h] \in 1 .. 2 + MaxMoves
    /\ \A r \in DOMAIN tags : tags[r] \in 1 .. 1 + MaxMoves
    /\ pc \in Pcs /\ outcome \in Outcomes /\ (pc # "idle" => outcome = "none")
    /\ \A r \in DOMAIN digests : digests[r] \in Digests
    /\ \A e \in ToSet(todo) : e.dest \notin {f.dest : f \in snap}
    /\ Cardinality({l.id : l \in cache}) = Cardinality(cache)

\* Two mounts that a manifest asks for itself, or one of them and one of the
\* engine's, cannot be in one container.
AsksForAClash(m) ==
    \/ \E i \in DOMAIN m.imports : \E r \in ReservedTargets : Overlap(m.imports[i].target.at, r)
    \/ \E i, j \in DOMAIN m.imports : i # j /\ Overlap(m.imports[i].target.at, m.imports[j].target.at)
    \/ \E s \in ToSet(m.services) : \E i, j \in DOMAIN s.volumes :
          i # j /\ Overlap(s.volumes[i].target.at, s.volumes[j].target.at)

\* What the engine adds to a manifest never makes it refuse that manifest: a
\* manifest that validates is refused by the compilation only for mounts it
\* asks for itself, its generated Dockerfile always meets the contract, and
\* publishing what was published before is never a conflict, for commands one
\* after another (two at once may date one candidate differently).
RefusedForCause ==
    /\ outcome = "plan" => AsksForAClash(frozen)
    /\ outcome \notin {"generated", "conflict"}

\* A published plan accounts for everything it runs: the image of every
\* container is in its inventory with a digest, derived images were built
\* from the digests the inventory has, and each import is mounted from a copy
\* of the path the manifest names, unless the manifest was edited between its
\* two readings.
InputsRecorded ==
    pc \in {"publish", "reconcile"} =>
        LET p == plan[1]
        IN  /\ \A c \in ToSet(Containers(p)) : c.image \in p.images
            /\ \A i \in p.images : i.digest # 0
            /\ HasTools(frozen) => [ref |-> Ref(frozen.base), digest |-> tools.base] \in p.images
            /\ frozen.extension =>
                  [ref |-> IF HasTools(frozen) THEN ToolsImageRef ELSE Ref(frozen.base),
                   digest |-> extension.base] \in p.images
            /\ preview = frozen =>
                  \A i \in DOMAIN frozen.imports :
                      \E mount \in ToSet(p.dev.mounts), f \in snap :
                          /\ mount.target = frozen.imports[i].target.at
                          /\ mount.source = f.dest /\ f.source = frozen.imports[i].source.at

\* An extension image is built only from inputs an operator has agreed to,
\* whatever was edited, approved or built before.
ExtensionAgreed == extension # NoBuild => extension.context \in shown

Follows(spec) == spec.version \notin Pins

\* After a rebuild that succeeded, an agent that follows a channel is at least
\* as new as the channel was when the rebuild began.
AgentsAreFresh ==
    outcome = "ok" /\ verb = "rebuild" =>
        \A spec \in ToSet(frozen.agents) : Follows(spec) =>
            LET channel == IF spec.version = Unset THEN DefaultChannel(spec.kind) ELSE spec.version
            IN  \E v \in tools.inside : v[1] = spec.kind /\ v[2] >= began[<<spec.kind, channel>>]

\* What the comment of mintAgentRefresh promises: a channel that has moved is
\* pulled again.  The manifest may change between two commands, but not
\* between the mint of a rebuild and its snapshot.
RebuildRefreshes == ~raced => AgentsAreFresh

\* The promise holds as long as every token has been used with the agents it
\* was minted for.
RefreshesItsOwn == ~mixed => AgentsAreFresh

ArgOf(b, kind) == {a \in b.args : a[1] = kind}

\* A build of the same Dockerfile on the same base pulls an agent again only
\* when its argument or that of an agent before it has changed.
PullsOnlyMoved ==
    [][ (/\ pc = "tools" /\ pc' = "extension" /\ HasTools(frozen)
         /\ tools'.dockerfile = tools.dockerfile /\ tools'.base = tools.base)
        => \A i \in tools'.pulls : \E j \in 1 .. i :
              LET step == tools'.dockerfile[j]
              IN  step.op = "RUN" /\ ArgOf(tools', step.part) # ArgOf(tools, step.part) ]_vars
=============================================================================
