# A verification project for vibe

`vibe` runs coding agents in containers: it compiles a project's manifest to an
immutable *candidate* (a plan of one dev container and its sidecars), brings the
Docker state to that plan, and keeps the approved candidate, the store it lives
in, the agents' rebuild requests and the terminal UI consistent. This directory
models the parts of it whose behaviour depends on what happens between two
steps: failing calls, dying processes, other processes, other Docker users.

Paths below are relative to the repository root; `runtime/` means
`internal/runtime/` and so on.

## 1. Inventory

| Part | State it keeps | Operations | What makes it hard |
|---|---|---|---|
| `runtime/` reconciler | Docker containers under three names per plan name (`n`, `n.prev`, `n.next`), their labels, the journal `state/replace/<id>.json` | `Up`, its rollback, the sweep every `Up` begins with, `Down` | a crash or a failing call between any two Docker calls; recovery that is itself interrupted; containers that exit, vanish or appear meanwhile |
| `lock/` | flock files; per name a FIFO gate with one worker goroutine | `Acquire`, `AcquireShared`, `Release`, cancellation | cancel against grant; kernel hand-off; poisoned gate; overtaking |
| `store/` | content-addressed objects, records, lease locks, staging | publish, open (lease), remove, clean | rename and record are two writes; removal against lease |
| `registry/` | one record per project with a revision | register, get, resolve, compare-and-swap update, delete | lock-free readers; update after a long operation |
| `app/` operations | nothing of their own: they order the parts above | up, approve, reject, down, forget, gc, dev on/off, update | two operations of one project; an operation against gc; crash between two durable writes |
| `broker/` | pending and result records per request | poll, bind to a candidate, decide, publish | decided twice; listing against approval |
| `app/watch.go`, `fetch.go`, `notify.go` | two serials in tmux, cache files | watch stream, coalesced fetch, serial bumps | a lost or swallowed signal |
| `app/releases.go`, `dev.go`, `release/`, `dev/` | artifact objects, the host shim symlink, dev records | acquire, install, hand off, hand back | order of five durable writes |
| `schema/`, `snapshot/`, `builder/`, `model/` | Docker's layer cache, extension approvals, the refresh token in the record | load and validate, freeze, resolve and build, compile | the workspace, image tags and upstream move between the steps; a cache keyed by what was once true |
| `tmuxui/`, `app/tui.go`, `agents.go` | tmux windows with their stamps, the cache files of the last fetch | draw, click, chooser, open | five passes that write rows of one canvas; two sources of different age |
| `terminal/`, `tmux/`, `progressui/`, `cli/`, `payload/` | none of their own | texts, prompts, tmux commands, scripts | little that depends on an order |

They interact in one direction: `cli` calls `app`; `app` calls `store`,
`registry`, `broker` and `runtime`; `runtime` calls `dockerapi` and reads
candidates through `store`; all of them take named locks from `lock` in the
order store-global, object, project. The project lock is what makes the
operations of one project on its containers sequential. The UI learns of changes
through the serials `notify.go` bumps and Docker's event stream.

What each part has to guarantee:

- *runtime*: an `Up` is atomic (the whole candidate or the old topology), the
  old generation survives until the commit, nothing foreign is touched, and an
  interrupted transaction can always be recovered.
- *lock*: mutual exclusion of exclusive and shared holders, no grant lost or
  given twice, an exclusive waiter is not overtaken by later shared ones.
- *store*: an object that is visible is complete; a leased object is not removed.
- *registry and app*: the approved pointer names a candidate that exists and whose
  containers were committed; gc removes nothing that is or is about to be referenced.
- *broker*: each request is decided once, on the candidate the operator saw.
- *watch*: after the last change, some publish shows it.
- *releases and dev*: what a project pins and the host's binary stay usable through every
  crash, and a success means that pin, dev record and symlink agree.
- *schema, snapshot, builder, model*: a candidate accounts for everything that went into
  it, an extension is built only from what an operator agreed to, and an agent is pulled
  again exactly when it has moved.
- *UI*: a click leads where the picture says, what needs eyes is not folded away, and an
  agent has one door.

`PROJECT.json` lists every component with its status, and every hazard found
while reading with the line where it bites and the properties that cover it.

## 2. What is modelled

### `Replacement`: the replacement transaction of one project

The source is `runtime/transaction.go`, `journal.go`, `reconcile.go` and `Down` in
`runtime.go`. One process runs operations one after the other, as the project
lock enforces; an operation starts only when the previous one returned or died.

State and its counterpart in the code:

| Variable | Code |
|---|---|
| `box` | the daemon's containers by ID: name, suffix, running or not, the labels `candidate`, `txn`, `dns`, and the address on the project network |
| `minted` | the container IDs handed out so far |
| `disk` | the journal file; `NoJournal` when it is absent |
| `nonce` | transaction nonces minted so far; a nonce is its ordinal |
| `pc`, `job`, `cur` | the program counter, the arguments of the running operation, the loop index |
| `tx`, `written` | `txn.j` (or the journal the sweep loaded) and `txn.written` |
| `view` | the result of the last `List` or `Inspect`, which later steps rely on |
| `bad` | `errs` of the undo loop is not empty |
| `faults`, `meddling` | budgets: faults and outside interferences that may still happen |
| `base`, `hurt`, `slipped`, `cut` | history, read by properties only |

Steps. Every Docker call and every journal write or delete is a step of its own:

- `UpBegin`, `Sweep`, `ListDebris`, `ClearDebris`: the start of `Up` and `sweep`.
- `Prepare`: leases, env file, network, volumes, `newTxn`.
- `Skip`, `ResolveDNS`, `Inspect`, `RecordCreate`, `RecordStart`, `RecordReplace`,
  `Create`, `Backfill`, `StopOld`, `RetireOld`, `SwapIn`, `Start`:
  `reconcileContainer`, one name after the other.
- `Hooks`, `Gate`, `Commit`: lifecycle hooks, `checkLiveness`, `txn.commit`, and then
  `ListDebris` again.
- `Rollback`, `UndoList`, `UndoStop`, `UndoPark`, `UndoRestore`, `UndoRevive`,
  `UndoConfirm`, `UndoDrop`, `UndoEnd`, `Erase`: `rollback` and `sweep` alike, with
  `undoReplace`, `undoCreate` and `undoStart` sharing the steps they share.
- `DownBegin`, `DownList`, `Teardown`, `DownErase`.
- `Crash`: the process dies; memory is lost, the journal and the containers stay.
- `Exit`, `Vanish`, `Squat`: a container exits, is removed by somebody, or a foreign
  container takes one of the names.

A Docker call (`Call`) has three kinds of outcome: it succeeds; the daemon
refuses it because its precondition does not hold; or it fails in transit, with
or without having taken effect. A journal write that fails may or may not have
replaced the file (`WriteFileAtomic` renames before it syncs the directory), and
a delete that fails may have unlinked it.

Abstractions. Names are the numbers `1 .. Size` in reconcile order, the dev
container last. A plan is the set of names it uses (`Desired`) and whether its dev
container resolves through sidecar 1 (`Linked`); whatever else it holds only
matters through the candidate digest. Hooks either succeed or fail. `Prepare`
stands for calls that change nothing modelled and may fail. A container that is
outside our control but carries one of the names is listed like any other;
in the code it is listed only if it carries the project label, and otherwise the
rename that follows fails: the same refusal one call later. Pulling an image is
part of `Create`.

### `Generations`: what `up` promises

Per name, which containers are in charge. `Commit(c)` puts candidate `c` in charge
of all its names in a single step; `Lose(n)` is a container lost to `down` or to
somebody else. `Replacement` implements it (`UpIsAtomic`): with the journal as the
phase marker, the canonical containers are in charge when it is absent, those
that were canonical when the transaction was opened while it is present.

### `IntentGate`: one lock name in several processes

The source is `lock/flock_unix.go`. A process has one gate per name, with a queue under
`gate.mu` and a worker goroutine; its callers are goroutines. An action is a stretch of
code under `gate.mu`, or one blocking step outside of it.

| Variable | Code |
|---|---|
| `queue`, `active`, `broken` | the fields of `intentGate`; a request is its caller and its `canceled` flag |
| `wake` | whether the buffered wake channel holds a value |
| `worker` | where the worker goroutine is: asleep, `pendingWork`, blocked in flock, `grantHead`, waiting for `done`, `unlock`, returned |
| `serving` | the request whose `done` channel is still open |
| `granted` | the contents of the caller's `req.granted` channel |
| `pc`, `how` | where the caller is in `acquire`, and the mode it asks for |
| `intent`, `inside` | the kernel's two flocks: the process that holds intent, the callers that hold the main lock |

Callers: `Acquire`, the select's branches `Receive` and `Done`, `Cancel` (which finds
either a grant or nothing, under the mutex), `Poll`, `PollFails`, `HandBack`
(`grant.release()`), `Release`. Worker: `Wake`, `PendingWork`, `Flock`, `FlockFails`,
`GrantHead`, `Served`, `Unlock`, `Poison`. `Crash` kills a process, whose locks the kernel
drops, and starts another. A request is identified by its caller because a caller has
at most one that is not canceled; canceled ones stay in the queue until
`dropCanceled` reaches them. Failures, crashes and cancellations are not counted.

### `Turnstile`: what a lock name promises

A readers-writer lock behind a turnstile: callers stand in line, one of them has
the turn, and only that one may go inside. `IntentGate` implements it (`OneTurnstile`)
with all its processes taken together: a caller has the turn from the worker's
grant until `grant.release()`.

### `Deployment`: the operations on one project

The sources are `app/lifecycle.go`, `candidates.go`, `requests.go`, `gc.go`, `projects.go`,
`registry/registry.go` and `broker/broker.go`, with the calls they make into `store/` and
`runtime/`. It composes the parts above through what they promise: replacing the containers
is one step, as `Generations` has it, and a lock is free or held, as `Turnstile` has it.

| Variable | Code |
|---|---|
| `rec` | the project's registry record: not yet there, there, or deleted; its revision; the approved pointer |
| `stored`, `recs` | objects at their published path; candidates that have a record file |
| `running`, `live` | the generation in charge; the candidates that label a managed container, stopped, staged or parked ones too |
| `asked`, `pending`, `results` | request files in the workspace, and the broker's two directories |
| `shared`, `exclusive`, `project`, `leases` | the holders of store-global and of the project lock, and the objects each process leases |
| `pc`, `op`, `rev`, `cand`, `req` | where a process is in which operation, the revision it resolved, its candidate and request |
| `raws`, `known`, `todo`, `roots` | what `RequestList` and `gcRoots` have read so far |
| `debtor`, `pointed`, `exposed` | history, read by properties only |

- `Start` is `resolveProject`, lock-free; `Up`, `List`, `Approve`, `Reject`, `Down`, `Forget` begin with
  it, `GC` does not. `Register` and `Repin` (any other `Registry.Update`: `dev on`, `dev off`,
  `update`) are single steps, since no later step relies on what they read.
- `TakeShared`, `PublishSnapshot`, `PublishCandidate`, `WriteRecord`: `prepareCandidate` under
  the shared hold, for `up` and for each request that `list` adopts.
- `TakeProject`, `Sweep`, `Lease`, `Stage`, `CommitGeneration` or `FailGeneration`: `runtime.Up`.
  `Stage` is separate because the staged containers are visible to a collection. A failed
  commit may have taken effect (`runtime/journal.go:148`). `Teardown` is `runtime.Down`.
- `Point`, `Delete`, `Conflict`: the compare-and-swap in `Registry.Update` and `Registry.Delete`,
  whose lock is taken and released within the step.
- `ReadRequests`, `ReadPending`, `ReadResults` precede the hold of `list`; `Adopt`, `SkipRequest`,
  `WritePending`, `Listed` follow it.
- `Match`, `NoMatch`, `Load`, `NotFound`, `WriteResult`, `DeletePending`: `RequestDecide`. The prompt
  is the time between `Match` and `Load`.
- `ListContainers`, `ListRecords`, `ListPending`, `ListSnapshots`: `gcRoots`; then `Remove`,
  `RemoveRecord`, `NextPhase`, `RemoveOrphans`, `RemoveState`.
- `Abort`: an error return or the death of the process, anywhere. Both end the same way:
  deferred calls or the kernel release every lock and lease.

Abstractions. A candidate determines its snapshot (`FrozenIn`): candidates are
content-addressed, and a record that disagrees is refused. What a workspace compiles to is
any candidate, at any time. An object that is young or met by a dry run is passed by, which
is always possible (`NextPhase`), so nothing relies on the age floor. One file per request ID.
A `down` that fails half way leaves the model's `running` as it was; what it does to the
containers is `Replacement`'s subject. A forgotten project that is registered again gets a
new ID and is another project. Artifacts, refresh tokens and serial bumps are left to
`Handoff`, `Candidate` and `Watch`.

### `Opening`: the UI's start of what is approved

`Deployment` with one more operation, `startApproved` of `app/tui.go` (`vibe tui` and a click
on a cold row): `Open` reads the record once, `LoadApproved` leases the candidate it names,
`Inspect` asks Docker what runs, before the project lock is taken, `InspectFails` passes over
an error, and the steps of `runtime.Up` follow. It moves no pointer and never holds
store-global. It has a module of its own because it breaks what `Deployment` keeps
(finding 3); no other run uses its next-state relation.

### `ObjectStore`, `Shelf`, `Handoff`: artifacts on a host

`ObjectStore` has the steps of `store/store.go`, `leases.go` and `gc.go` for one kind of object.
`Handoff` orders them as `app/releases.go`, `dev.go`, `init.go`, `gc.go` and `release/acquire.go` do.

| Variable | Code |
|---|---|
| `tree`, `made` | the inode at an object's published path, how many it has had: a path that is removed and published again is another directory |
| `installed`, `clock` | artifact records with source and time of installation |
| `objLock`, `fd` | the holder of `lock.Object`; the directory a process has open and how it has flocked it |
| `rec`, `devrec` | the registry record (revision, mode, pin) and `state/dev/<id>.json` |
| `bins`, `link`, `tmp` | `bin/vibe-<short>`, and the targets of the symlinks `bin/vibe` and `bin/vibe.tmp` |
| `shared`, `exclusive` | store-global |
| `pc`, `op`, `rev`, `art`, `keep` | where a process is, its operation's locals, `roots.artifacts` |
| `pinned` | history: operations that have pinned the project, `Pinned` of their result |
| `calm` | history: running operations beside which no other has written |

Publishing is one rename; the record beside it is read in a second step and, when there is
none, written in a third, so that of two writers the later replaces the record of the
earlier. `Resolve` (`pinProject`) goes on without a pin after any error, and `ListReleases`
takes an error for an empty listing, as the code does. A lease is an open and then
a flock, between which the path may be moved; removal is the object lock, a flock that does
not wait, a rename, the deletion of the record. The operations are `Provision`, `Update`,
`DevOn`, `DevOff`, `InitProject`, `Use` (whoever leases the pinned artifact) and `GC`; each
durable write is a step, and `Abort` is an error or a death before any of them. All
operations work on the directory of one project, registered or not. Containers
are left out, so a collection here knows fewer roots than the real one and takes more.

`Shelf` is what the store promises: an object is there or not, one that is there may be
held, and what is held does not go. `ObjectStore` under `Handoff` implements it
(`StoreIsShelf`): an object is there when its path names an inode, and it is held by a
process whose shared flock is on that inode.

### `Manifest`, `Plan`, `Install`, `Candidate`: from a workspace to a candidate

`Manifest` is `schema/`: which documents decode, which decoded documents are valid, path by
path and field by field. `Plan` is `model/`: compilation into containers, mounts, environment,
links and the image inventory, and the validation of mounts and ports. `Install` is `builder/`:
the generated Dockerfile, the base contract, refresh tokens, and the layer cache of Docker's
classic builder. They are operators without state. `Candidate` is the pipeline of `up`,
`rebuild` and `config` that calls them (`app/lifecycle.go`, `candidates.go`, `snapshot/`,
`builder/`):

| Variable | Code |
|---|---|
| `doc`, `files` | the workspace: the manifest and the files it names |
| `heads`, `tags` | upstream: the release of each channel, the digest of each image reference |
| `cache` | the layers the daemon has |
| `artifact`, `refresh`, `approved` | fields of the registry record |
| `approvals`, `candidates` | extension approvals, candidate records |
| `pc`, `verb`, `token`, `preview`, `todo`, `dirty`, `frozen`, `snap`, `refs`, `digests`, `plan` | the command's locals: what it has read, copied, resolved and compiled |
| `tools`, `extension`, `shown`, `began`, `minted`, `mintedFor`, `raced`, `mixed` | history, read by properties only |

Steps: `Begin`, `MintAgentRefresh`, `Preview`, `CopyOpen` and `CopyRead` per entry, `LoadFrozen`,
`LoadArtifact`, `ResolveImage` per reference, `BuildTools`, `ApproveExtension` (the prompt, and the
digest remembered before anything is built), `BuildExtension`, `CompilePlan`, `Publish`, `UpdateRecord`, `Abort`; beside them `EditManifest`, `EditFile`,
`NewRelease`, `MoveTag`.

Abstractions. A string is a member of a small set, a path a sequence of components, a
directory one content, a digest what it is the digest of. A layer is identified by the layer
below, the instruction, the arguments in scope that it uses or follows, and the context; the
cache evicts nothing and serves one project. The environment changes only in phases in which
the command may see it (`Move`): a later change is the same as one after the command.

### `Watch`: from a change to the screen

The sources are `app/watch.go`, `fetch.go`, `notify.go`, `frame.go` and, as their environment, the
sidebar's polling loop and the sentinel (`payload/host/scripts/sidebar.sh`,
`payload/container/agent-watch.sh`).

| Variable | Code |
|---|---|
| `truth`, `cache`, `shown` | how many changes each project has had, how many the cache files tell of, how many a screen does |
| `seen`, `told` | what the sentinel in a container has last reported; history of it |
| `up`, `open`, `signal`, `stage` | daemons, their connected channels, the buffers of one, the coalescers |
| `fetch` | the fetch that holds the flock: where it is, who started it, what it has read |
| `state`, `engine` | the sidebars for which `@vibe_state_serial` or `@vibe_engine_serial` has moved |
| `bar`, `spawned` | the loop of a sidebar, and its background fetches |
| `lost`, `unpainted` | history: failures that excuse |

A change is `InnerChange` (only a sentinel can tell), `ContainerChange` (Docker's events tell)
or a `Command` (which bumps). `watchStream`, `Take`, `WindowEnds`, `FireBump` and `watchPublish`
are the daemon; `Status`, `writeCache`, `bumpStateSerial` the fetch; `Poll`, `frame`, `fetch_engine`
the sidebar. Streams break, daemons die, bumps, fetches and frames fail, all counted in
`faults`; a fetch that fails or dies while it writes leaves some of the cache files new. Time is left out: every wait ends at any moment, and the sidebar's ticks are
shortened to `SlowTicks` and `ForcedTicks`.

### `Roster`, `Frame`, `Sidebar`: what is drawn and what a click does

`Roster` and `Frame` are functions: `tmuxui/frame.go`, `views.go`, `chooser.go` row by row (rosters, fold
order, the budget pass, blocks, cold rows, tally, footer and the click map), and the tray's
ghost cells and `Chooser`, which are built from the same caches. A row says what it names,
where a click leads, whether it is quiet and whether it spins; colours, text and clipping
are left out. `Sidebar` is the pane among what changes around it: agents, services and
containers move (`AgentMoves`, `ServiceMoves`, `DevMoves`, `SidecarMoves`), viewer windows open and
close or lose the client in them (`FrontendDies`), sessions end, the pane is resized, a fetch refreshes the caches (with a `Status` that
may fail and a container that may not answer), and the operator clicks on what is drawn
(`Click`, with `app/tui.go`, `agents.go` and the handlers of the payload as far as they change
what is drawn).

### The other modules

`MCReplacement`, `MCIntentGate`, `MCDeployment`, `MCOpening`, `MCHandoff`, `MCCandidate` and
`MCSidebar` are the instances for TLC; `ReplacementInv` holds the parts of the inductive
invariant of `Replacement`. The proofs are in `ReplacementProofs`, `IntentGateProofs`,
`RecoveryProofs`, `DeploymentProofs`, `HandoffProofs`, `CandidateProofs`, `WatchProofs` and
`SidebarProofs`. `Lists` has what they share about sequences: that a sequence is a list, and
the filtering of one (`Only`, a recursive function, because the prover knows nothing of the
library's `SelectSeq`).

How they compose: `Replacement` implements `Generations`, and `Deployment` uses its one-step
replacement; `IntentGate` implements `Turnstile`, and `Deployment` and `Handoff` use locks that are
free or held; `ObjectStore` implements `Shelf`, whose one-step publication and removal
`Deployment` uses; `Candidate` publishes what `Deployment` only calls a candidate. These seams
are stated through the abstract modules, not checked as one large model.

## 3. What is checked

| Run | Bounds | Question |
|---|---|---|
| `replacement_safety` | 2 names, 2 candidates (one drops the service, one links the resolver to it), 2 addresses, 2 transactions, 6 containers, 1 fault, 1 interference | all safety properties and the refinement, with the two kinds of trouble combined |
| `replacement_liveness` | 2 names, 1 candidate, 2 transactions, 6 containers, 2 faults, 1 interference | an open transaction is eventually closed, also when its recovery is interrupted |
| `gate_safety` | 2 processes, 2 and 1 callers, 3 requests in a queue | all safety properties of the gate and the refinement |
| `gate_liveness` | 1 process, 3 callers, 3 requests in a queue | exclusive waiters outlast shared streams; every call returns from the gate |
| `deployment_safety` | 2 processes, 2 candidates with a snapshot each, 1 request with 2 contents, revisions up to 3, 4 operations | all safety properties of the operations on a project |
| `deployment_collected` | as `deployment_safety` | finding 1 |
| `opening_kept` | as `deployment_safety`, without requests | finding 3 |
| `handoff_safety` | 2 processes, 2 releases and 1 dev build, 2 inodes per object, revisions up to 3, 5 operations | what is pinned and installed stays usable; a success means what it says; the store is a shelf |
| `candidate_safety` | 10 manifests (4 accepted, 6 refused at different stages), 2 commands, 2 changes or faults | what the pipeline publishes accounts for itself |
| `candidate_stale` | 2 manifests, 3 commands, 2 changes or faults | finding 2 |
| `watch_fair` | 2 projects, 1 sidebar with its daemon, ticks of 2, 1 background fetch, 1 change, 2 faults | nothing that was signalled is forgotten, every change is shown |
| `sidebar_safety` | 3 projects in 3 starting situations, heights 2, 6, 9, 12, 16, 24, 2 windows per session, 3 events | picture and click map agree at every height and in every order |

Why these bounds are enough to be interesting.

- *Replacement.* Two names are the smallest plan in which the undo of one entry fails while
  another succeeds, and in which the dev container depends on a sidecar; two candidates are
  needed to replace and to return; a replacement needs two containers per name, a second
  one after a rollback three, hence six; two transactions let the second find what the
  first left; one fault interrupts the transaction, the second its recovery.
- *Gate.* Two callers of one process are enough for a canceled head with a live successor, a
  caller of another process for the contention at a hand-off, and a queue of three for a
  caller that comes back behind its own canceled request. Liveness takes one process because
  that of two is beyond five minutes; between processes it depends on the kernel alone.
- *Deployment.* The races are between two operations at a time: one that reads and one that
  moves what was read; four operations (`MaxOps`) let the two meet a state that two earlier ones
  left, such as an old pointer or a bound request. Three revisions (`MaxRev`) are the
  registration and two moves of the pointer: a third operation that began on either of the
  first two is refused. One request with two contents can be replaced while it is listed or
  decided. The contents, the processes, and the two candidates with their snapshots are
  interchangeable (`Symmetry`; there is no liveness in these runs).
- *Handoff.* Five operations are enough for init, update, dev on, dev off and a collection in
  one behaviour, in any order and two at a time; two releases give the newest one a predecessor; a second inode
  (`MaxGen`) is the object published again under a reader of the first. Processes and
  releases are interchangeable.
- *Candidate.* The manifests differ in what the stages tell apart: channels and pins, an
  extension, services, an env file, imports; a reserved name, a clash of mounts of either
  kind, the whole workspace as an import, an env file that does not parse, an unknown
  toolchain. Two commands let the second build on the first one's layers, approvals and
  token; finding 2 takes three.
- *Watch.* One change is enough because a screen that shows the first of two has only to be
  told again; two projects let a fetch have passed one of them; two faults break an
  accelerator and then what covers for it.
- *Sidebar.* The heights go from one at which hardly a name fits, over several that tally,
  squeeze and fold, to one that shows everything; three events are an agent that moves, a
  fetch that sees it and a click.

The properties of `Replacement`:

- `TypeOK`: types; in particular the loops stay within the plan and the journal.
- `Recorded`: no container of an open transaction exists that the journal on disk
  does not describe.
- `OldKept`: outside `Down`, a container is removed only as a leftover with no
  journal present, or when the uncommitted transaction provably made it.
- `Restored`: when a journal is given up, every name nobody interfered with has the
  container it had when the transaction was opened, running if and only if it ran.
- `OneGenerationRuns`: two managed containers of one name never run at once.
- `CommitSawAlive`, `CommitMatchesPlan`: what is committed was seen running, is of the
  candidate, is new under `--force`, and resolves through the present address.
- `RefusalHasCause`: undo refuses an entry only after outside interference with that
  name or after a `Down` that did not finish.
- `UpIsAtomic`: refinement of `Generations`.
- `Recovers`: a present journal eventually goes, unless somebody interfered.

Of the gate:

- `TypeOK`: types; in particular a request's channel never holds two answers, so that
  no send under `gate.mu` blocks.
- `GrantsAreOwned`: the worker waits for a caller if and only if that one caller has intent
  and will release it, whichever of grant and cancellation came first.
- `Attended`: a caller without an answer has a live request, and a worker that is up or
  about to be woken.
- `IntentInUse`: no idle, waiting or returned worker leaves the intent flock behind.
- `NotTransferred`: an acquisition made for a canceled head is given to nobody.
- `OneTurnstile`: refinement of `Turnstile`, hence exclusion and no overtaking.
- `Drains`: a polling caller gets in or gives up.
- `Returns`: every call comes back from the gate, if the kernel keeps giving every process
  the intent flock.

Of the operations on a project:

- `TypeOK`: types; in particular of the operations that read a revision one at most moves it,
  so no revision passes its bound.
- `MismatchIsReported`: when the containers are of another candidate than the record names, the
  operation that started them is about to move the pointer or has failed for its caller.
- `ReferencesUsable`: what a container, the record or a pending request refers to has its
  record, its object and its snapshot, unless it was under approval during a collection
  (finding 1 is why).
- `LeasesHold`: a collection takes no leased candidate.
- `ApprovedWasApplied`: the agent reads "approved" only after the pointer went to that candidate.
- `RequestsAnswered`: no pending request of a registered project goes without an answer.
- `NobodyStuck`: whenever an operation is under way, some operation can go on.

Of artifacts and hand-offs:

- `RootsUsable`: the pinned artifact has its object and its record, and the newest recorded
  release has its object, whatever was removed, published again or left half done.
- `ShimResolves`: the host's `vibe` symlink leads to a binary.
- `SuccessAgrees`: when an operation beside which nobody wrote returns success, dev on and dev
  off have left pin, dev record and symlink in agreement, an update the symlink on its
  artifact, and a provision or update whose result has a pinned project has left that project
  on its artifact. That a registered project is pinned at all is not promised (see below).
- `StoreIsShelf`: refinement of `Shelf`.

Of the pipeline:

- `RefusedForCause`: compilation refuses a valid manifest only for mounts it asks for itself;
  the generated Dockerfile always meets the contract; publishing again is never a conflict,
  for commands one after another.
- `InputsRecorded`: every container's image is in the inventory with a digest, derived images
  were built from the digests the inventory has, and imports are mounted from copies of the
  paths the manifest names, unless it was edited between its two readings.
- `ExtensionAgreed`: an extension is built only from inputs an operator has agreed to.
- `RefreshesItsOwn`: after a rebuild, an agent that follows a channel is as new as the channel
  was when the rebuild began, as long as tokens are used with the agents they were minted for.
- `PullsOnlyMoved`: on the same base, a build pulls an agent again only when its argument or
  that of an agent before it has changed.

Of the watch and the sidebar:

- `Owed`: what a daemon was told is in the caches or on its way there, and what is in the
  caches is on the screen or announced, unless a failure intervened.
- `Shown`: every change gets to every screen, whatever becomes of daemons, streams and signals.
- `DrawnIsClicked`: nothing is drawn outside the pane, a row is written once, a click leads
  where its row says; the tally may cover a meta row or a blank one and nothing else.
- `QuietFoldsFirst`: a row that needs eyes is never hidden while a quiet one of its project shows.
- `SignalsSurvive`: when the fleet fits squeezed, every project is named, every signal has
  its row and the own project its whole roster.
- `OneDoor`: each live agent of the own project has a window, or else one ghost cell, one
  chooser entry and one row that open it.

Each is paired in `PROJECT.json` with a mutant, a plausible bug in one definition
(marked `mutant of ...` in the module), under which TLC reports it violated.

Fairness.

- *Replacement*: weak fairness of the operations and of starting one: Docker calls return (the
  client's calls carry no deadline of their own, the daemon answers or the connection
  breaks), and somebody runs `vibe` on the project again after a crash. Nothing is assumed
  about faults or interferences except that they are finitely many. `Recovers` would be
  false without the second assumption: nothing in the program retries by itself.
- *Gate*: goroutines that can go on do so, and holders release: every caller of `Acquire` in the
  repository defers `Release`. Nothing is assumed about new calls, contexts, failures or which
  process the kernel prefers; the premise of `Returns` names the latter, because the comment
  on `intentGate` calls the kernel's wake order unspecified. It says that a worker for which
  the intent flock is free again and again gets it.
- *Watch*: weak fairness of the sidebar's loop (`Poll`, `frame`), of its background fetches and
  of a fetch that runs: a shell loop and a Go function that return. Nothing is assumed of the
  daemons, the streams or the events; `Shown` rests on the slow tick.

Deadlock checking is on in the runs of `Replacement`, `IntentGate` and `Watch`. In the others it is
off, because a bound on operations, commands or events (`MaxOps`, `MaxRuns`, `MaxEvents`) ends every
behaviour; that no operation on a project is stuck in the middle is `NobodyStuck`.

Findings:

1. `CollectsUnreferenced` is violated (`app/gc.go:217`): `docs/architecture.md:259` says that `vibe gc`
   removes no object that a pointer or a pending binding references. An approval takes no
   store-global hold, so it can run to its end after `gcRoots` has listed the containers and
   the records and before it lists the pending requests: the candidate is in none of the
   three lists and goes, although the record names it and its containers run. The age floor
   does not help a request that was bound earlier than that.
2. `RebuildRefreshes` is violated (`app/lifecycle.go:305`): a refresh token records a version per
   agent and not the channel it is of. Used by a later `up` after the manifest has changed to
   another channel, it keys a layer with that channel's older release; when the channel
   reaches the recorded version, `rebuild` mints the same token and hits that layer. The
   comment at `app/lifecycle.go:286` says that a real bump re-pulls exactly that agent's layer.
   `RefreshesItsOwn` is what holds.
3. `LiveWorkKept` is violated (`app/tui.go:428`): the comment at `app/tui.go:411` says that an open
   of the UI must never destroy live work. What runs is asked before the project lock is
   taken, so an `up` that starts its containers in between has them replaced; both succeed,
   and the record names a candidate that does not run.

What the models keep because the code does so, without a run that calls it wrong:

- The pointer can name a candidate whose containers another `up` has replaced meanwhile
  (`app/lifecycle.go:260`), although the comment at `app/slices_test.go:836` says that the record
  never points at containers that are not running. That other `up` fails with a conflict,
  which is what `MismatchIsReported` promises and no more.
- A `Down` that fails or dies after removing the recorded old container leaves the journal
  behind, and each later `Up` refuses to sweep until a `Down` completes
  (`docs/engine-internals.md:131`, `runtime/runtime.go:104`); hence the exception in `RefusalHasCause`.
- A commit whose unlink succeeds and whose directory sync fails reports an error although
  nothing is left to roll back (`runtime/journal.go:148`).
- A lease opened before a removal and flocked after it holds a directory that is no longer
  published, and `Open` does not tell (`store/leases.go:29`); in `Shelf` it does not count.
- `bin/vibe.tmp` is one fixed name: two installations may rename each other's link, and the
  loser fails or succeeds with the other's. Neither the dev record that `dev on` writes after
  its pin nor the symlink is guarded by the record's revision. `SuccessAgrees` therefore
  speaks of operations that nobody wrote beside.
- The comment at `app/releases.go:18` says that a registered project is pinned to what is
  provisioned in it, the one at `:113` that only an unregistered or absent project is not an
  error. `pinProject` takes any error of `Discover` and `Resolve` for an unregistered project
  (`app/releases.go:116`-`123`); an unreadable record of any project is enough
  (`registry/registry.go:178`). The operation succeeds, an update moves the symlink too, and
  the project keeps its old pin. `Resolve` does so in the model; the result's empty `Pinned` is
  the only trace, and what `SuccessAgrees` promises is said in terms of it.
- `dev off` and `init` take a listing of releases that fails for one without a release
  (`app/dev.go:143`, `app/init.go:144`). `dev off` then flips the record and leaves the dev binary
  in place, which the comment at `app/dev.go:152` allows only when no release artifact exists.
- Two commands that publish one candidate at once, before the project lock, may date it
  differently, and the later one fails with a conflict (`app/lifecycle.go:246`,
  `app/candidates.go:122`). `RefusedForCause` speaks of one command after another.
- An artifact that only a pending or approved candidate without containers refers to is no
  root of a collection.
- The comment at `app/dev.go:190` leaves a dev record that could not be removed to the store's
  garbage collection, which only removes those of unregistered projects.
- The comment at `app/fetch.go:40` says that another fetch in flight speaks for the one that
  gives way. It may have read the project already; the slow tick covers for it (`Shown`).
- The manifest is read three times: for the token, for the list of files and from the
  snapshot. An edit in between mints for other agents (`raced`, `mixed`) or mounts a copy of
  another path (the exception in `InputsRecorded`).
- The schema accepts `.` as the source of an import or as `env_file`; the snapshot refuses it.
  Two ports with the same host port are accepted by both validations.
- When the projects do not fit, the tally may overwrite the last meta row of a project and
  keeps that row's click target (`tmuxui/frame.go:245`, `994`). Below a height of 4 it can be
  on row 0. Two windows stamped with one session and drawn as glyphs are two rows. The own
  project's detail omits the sidecars that the fleet's word counts; `signalCap` ignores a fold.
  A second click before a new viewer is stamped opens a second one; clicks are modelled
  against the map of the frame that is shown.

## 4. What is proved

TLAPS checks the following for every value of the constants, from the assumptions named in
the modules alone. They say that bounds are naturals, that what should be different is, and
in `ObjectsAssumption`, `CallersAssumption` and `PlanAssumption` that a candidate has a snapshot,
a caller a process, and that a plan uses names, always the dev container, and has
sidecar 1 when it is linked.

`ReplacementProofs`:

- `TypeInvariant`: `Spec => []TypeOK`. `TypeOK` is not inductive: that the loop index stays
  within the journal while undoing needs `CursorInv`, and that needs to know which
  operation runs where (`PhaseInv`, `JournalInv`). Their conjunction is inductive.
- `RecordedTheorem`: `Spec => []Recorded`. The argument: IDs and nonces only grow, so a new
  transaction owns nothing (`IdsInv`, needed when it is opened); only `Create` makes
  a container, and it is reached only when memory's last entry names the
  container (`LastInv`) and memory mirrors disk (`MirrorInv`); every other step
  removes containers or leaves their labels alone (`Tame`, `TameStep`); and a step that
  removes the journal ends the transaction.

`RecoveryProofs`, from `Invariant`: `Spec => []IInv`. What makes the safety of `Replacement` hard is that
a process may die between any two calls, so that what the containers say and what the
journal says has to fit at every point, forward and back. `IInv` has four layers:

- `Core`: the control state and `Recorded`, as above.
- `World`: containers and journal. Names are kept apart (`Unique`) and what is parked or staged does
  not run (`Aside`). Of a name there is at most the container the transaction found
  (`BaseInv`) and the one it has made (`NewInv`): the found one leaves its name only for an entry that
  replaces it (`OldInv`), the made one stands where its entry allows (`Made`). Entries are one a name
  in plan order and tell the truth about IDs (`EntriesInv`), in memory too (`TxInv`).
- `Onward`: what reconciling knows. Names behind the cursor are the candidate's (`PastInv`), none
  ahead has an entry (`AheadInv`); what Inspect saw, the entry at hand, the container made for
  it and the one found are as the next call needs them (`SeenInv`, `AtHandInv`, `MadeInv`, `FoundInv`);
  the gate's names run (`AliveInv`).
- `Backward`: what undoing knows. One listing serves the calls of an entry, so what was listed must
  still cover what is there (`ListedInv`, `FreshInv`); how far the entry's undo has got
  (`UndoInv`); that the entries behind it left each name to the container that was found
  (`CleanInv`); and what clearing and teardown have listed (`SweptInv`).

A step is not taken action by action: lemmas say once what an action does to one container
(`Stops`, `Runs`, `Moves`, `Drops`, `Adds`, collected in `TouchedOurs`) and where it leads (`Leads`, `Arrives`,
`StepKinds`), and each conjunct is shown to survive those few effects.

- `OneGenerationTheorem`: from `Aside` and `Unique`.
- `OldKeptTheorem`: from `SweptInv` for the sweep; for the undo, `ListedInv` and `NewInv` make what it
  drops the transaction's own.
- `CommitSawAliveTheorem`: from `AliveInv`.
- `UpIsAtomicTheorem`: `Spec => UpIsAtomic`, the refinement of `Generations`. While a journal is present the
  containers in charge are those that were found; the first entry is written and the last
  is undone with each name `Clean`, so neither shows (`JournalTurns`); the commit's unlink puts the
  candidate's containers in charge of all its names at once (`PastInv`, `CommitIs`).

The remaining properties of `Replacement` say what comes out for a name as long as nobody interfered with it since the transaction was opened: no outsider (`hurt`) and no
Down that stopped or removed containers and did not finish (`cut`). Such a name is `Spared`.
`PromisesHold` adds two layers to `IInv`, with the same lemmas on what a step does to a container:

- `Untouched`: for spared names, the containers found when the transaction was opened are there and no foreign one
  squats beside them (`StrangerInv`, `HereInv`), nothing stands in the way of an entry's undo (`ClearInv`), and
  what was found runs if it ran, up to what the entry of the name says (`RunInv`; `SeenRunInv` for what
  Inspect saw of it, `RevivedInv` while an undo restarts it). `SettledInv` is the part that an undo
  accumulates: names behind its cursor run as they did. A rollback undoes from memory and a
  sweep from disk, so both are said of the journal on disk. `WhoIsTouched`, `Newcomers`,
  `FoundStays` and `LabelsStay` say which step can touch which container.
- `Promised`: each planned name behind the cursor is held by a container of the project (`HeldInv`; `PastInv` says
  whose it is), and the dev container carries the address that its sidecar has (`DnsInv`).

- `RefusalHasCauseTheorem`: from `HereInv` and `ClearInv`. An undo refuses only where somebody interfered.
- `RestoredTheorem`: the step that gives the journal up without a commit finds every spared name with the containers it
  had, running if and only if they ran. From `SettledInv`, `CleanInv`, `HereInv` and, for
  names without an entry, `RunInv`.
- `CommitMatchesPlanTheorem`: from `Promised` and `PastInv`.

`IntentGateProofs`:

- `GateTypes`, `GrantsOwned`, `NobodyForgotten`, `IntentNotLeaked`: the invariants of the gate. Their
  conjunction is strengthened by `QueueInv` (the callers with a live request in a queue are
  exactly those that wait for an answer, one request each), `ChannelInv`, `ServeInv`,
  `OneIntent` and `ActiveInv` (an active worker is not asleep without a wake-up), one lemma
  per action. What `dropCanceled`, the dequeue, the enqueue and a cancellation do to a queue
  is stated by `FreshQueue`, `TailQueue`, `AppendQueue`, `StrikeQueue`; they rest on the least
  element of a set of naturals, which the library's well-founded induction provides.
- `NotTransferredTheorem`: the action property `NotTransferred`, from the same invariant. Only `GrantHead` gives a
  turn (a crash, a poisoned pipe and a caller's own steps give none), and it gives it to the
  head of the queue it found, when `dropCanceled` leaves that queue as it is.
- `LockerIsTurnstile`: the refinement. The central fact is `OneTurn`: a caller with intent is
  served by its worker, that worker's process holds the intent flock, and the kernel
  gives it to one process.

`DeploymentProofs`:

- `TypesTheorem`: `Spec => []TypeOK`, from `Typed`, which adds which operation is where and what it
  has in hand there: a candidate where one is published or started, a readable request
  where one is bound, room for the move where the pointer will be moved.
- `PointerTheorem`: `Spec => []MismatchIsReported`. The inductive invariant is `PointerInv`: nobody has
  read a revision that is yet to come (`NotAhead`); a debtor stands before its update and
  nothing but its candidate runs (`Debt`); and once the debt is paid every revision held at an
  update is old (`Stale`), so that a later update is refused. Most actions are `Quiet`: they
  neither come from nor lead to an update, and one lemma covers them.
- `AnswerTheorem`: `Spec => []ApprovedWasApplied`, from `AnswerInv`: an approval that is about to
  write its result has moved the pointer to the candidate in it. The steps that neither
  answer nor come to answer are `Silent`.
- `LeaseTheorem`, `ReferenceTheorem`: `Spec => []LeasesHold` and `Spec => []ReferencesUsable`, from
  `RefInv`. A collection reads its roots one list after the other, so the invariant says for
  each point of the way what the lists gathered so far cover (`Collected`). This stays true
  because, while a collection runs (`Turns`), new references come from approvals only, whose
  candidates are then exposed (`InHand`), and all other steps take references away: they are
  `Shrinks`, and `ShrinksKept` and `ReferencesKept` carry the two properties over them. That a
  project which is not registered yet has no references is `Fresh`.
- `AnsweredTheorem`: the action property `RequestsAnswered`, from `RefInv` and `Answered`: whoever is
  about to take a request away has answered it, and a collection that found the project
  unregistered, and so removes answers too, has nobody deciding beside it if the project
  turns out to be registered. `Fresh` and the roots of `Collected` give the latter: no pending
  request, so nobody can have found one to decide. All steps but the four that write an
  answer, remove a request or register the project are `Carries`.

`HandoffProofs`:

- `ShimTheorem`: `Spec => []ShimResolves`. Whoever is between the copy and the rename holds
  store-global shared, so no collection runs; whoever is about to rename finds a temporary
  link to a binary that is there, and a collection keeps the binary that is linked.
- `SuccessTheorem`: `Spec => []SuccessAgrees`, from what a process that nobody has written beside
  has achieved at each of its steps (`Progress`), and from a result being of the operation at
  hand (`Fresh`).
- `ShelfTheorem`: `Spec => Shelved!Spec`. Inodes are never reused, a flock is on an inode, and a
  removal moves the inode away only while it has it flocked alone.
- `RootsTheorem`: `Spec => []RootsUsable`. Pins are written by holders of store-global shared from
  the publication on; a collection's roots are what is pinned while it runs. A writer may
  replace the newest release's record, with a source that makes it none, so the invariant also
  says that the newest among the releases nobody is about to write has its object (`Backed`);
  that there is a newest among finitely many records is by well-founded induction.

`CandidateProofs`:

- `AgreementTheorem`: `Spec => []ExtensionAgreed`, from the remembered digests being of inputs that were
  shown (`ApprovalsShown`).
- `InputsRecordedTheorem`, `RefusedForCauseTheorem`: `Spec => []InputsRecorded` and `Spec => []RefusedForCause`, from
  `PipelineInv`, which says for each step of the command what is still to do and what has been done:
  entries to copy and copies (`CopyInv`, `FilesInv`), references to resolve and digests
  (`ImagesInv`), the plan and the candidates (`PlanInv`). The lemmas before it say, for every manifest,
  what the compilation returns (`ContainersFacts`, `InventoryFacts`, `ImportsMounted`), that a valid manifest
  without a clash of its own compiles (`RefusedByClash`: names, mounts, ports and the DNS ledger),
  that a generated Dockerfile meets the contract (`GeneratedIsValid`), and that a build of at
  least one step ends in a numbered layer (`BuildFacts`). The assumptions are the shape of a
  document and a Dockerfile (lists are sequences, a service's name is a key) and that a file
  may have contents, a Dockerfile's being Dockerfiles; and (`InstallAssumption`, for
  `RefreshesItsOwn` alone) that the channels the engine takes by default are words a manifest may have.
- `PullsOnlyMovedTheorem`: `Spec => PullsOnlyMoved`, from `CacheInv`: the daemon knows at most one layer for a
  step on a layer, and still knows the chain of layers of the last finished tools build, whatever
  failed or was built since. A build that meets a chain of the same Dockerfile follows it up to the
  first step that differs (`BuildChain`, with the least step as induction over the recursive
  function `Build`); a step differs only by an argument declared above it, and in a generated
  Dockerfile the RUN right below that argument then differs too (`GeneratedIsGuarded`,
  `DifferByArgument`). With the arguments hoisted above all agents (the mutant) the last fact is
  false.
- `RefreshesItsOwnTheorem`: `Spec => []RefreshesItsOwn`, from `RefreshInv`. Channels never go back
  (`HeadsInv`). A token has, for each agent it was minted for, a version its channel had come to or
  the time of a command that had begun (`ReachedIn`), and in a rebuild one that is new since it began
  (`NewIn`, from the mint on, whatever was minted before). Every layer of an agent was obtained
  when the channel had come to its argument's version, or, if the argument is the time of the command
  at hand, since that began (`LayerInv`), which building keeps because a layer of a build was known or ran just now
  (`BuildLeaves`) and a generated Dockerfile has each agent's RUN right below its own argument
  (`GeneratedServes`). What a token says once it is cut to pairs is `ParseFacts`. The layers of
  tokens that met other agents (`mixed`) are excluded: with them it is false, which is finding 2.

`WatchProofs.OwedTheorem`: `Spec => []Owed`, one conjunct per way a signal can be under way
(`Promised`, `Painted`), strengthened by a fetch never taking anything back (`Running`).

`SidebarProofs`. Every state is drawn, so what has to be invariant is little (`SidebarInv`: windows keep
being lists whatever opens and closes, the entries of a fetch are lists with at most one an address,
the height is a height; `SizesInv`: no session and no fetched roster outgrows what was counted),
and the properties follow from what the passes of one frame write, for every such state. Each pass
is a recursive function along a list, and what it computes is shown by the first index at which
it would fail (`FirstFailure`).

- `OneDoorTheorem`: `Spec => []OneDoor`. What the three surfaces show of the entries follows from what is
  kept of a list (`OnlyFacts`) and what a list made of it contains (`ListMade`).
- `DrawnIsClickedTheorem`: `Spec => []DrawnIsClicked`. `CanvasIs` says what the draw pass has written after each
  project: the rows 1, 2, ... of the pane without a gap up to the limit (`Filled`), what each item that
  was not hidden left there and nothing else (`Drawn`), and a meta or blank row wherever a later
  tally could go (`Clear`). The last holds because a roster is cut to leave room for the blank row
  below it (`AtEnd`); with `BlockRowsFull`, the mutant, it does not. Tally and hints keep the frame
  `Tidy`: two writes to a row are a tally on a meta or blank one.
- `QuietFoldsFirstTheorem`: `Spec => []QuietFoldsFirst`. `RosterIs` states what a roster of a given height
  is; that it loses quiet rows first rests on `FoldOrder` having the quiet rows as its first
  ones (`OrderFacts`) and on a filter cutting a list in two (`OnlyParts`). The rest says that the
  rows of a project in a frame are those of its roster (`RollFrom`, `FoldRows`): projects differ
  in their targets.
- `SignalsSurviveTheorem`: `Spec => []SignalsSurvive`. A project that is given the rows it weighs takes no
  more, shows every signal, and all of its roster if it is the own one (`Weighs`, from `RosterIs`
  and the slot `signalCap` keeps for the count). The budget pass adds these weights up
  (`SumSteps`, `Shares`), so that each item finds the rows above it within what was counted
  (`AffordsStep`) and none is hidden, although the draw pass only looks at the rows that are
  left.

The assumptions say that lists are lists, a project's session has an address, that no project is
called `cold`, as the engine mints their IDs, and (`AmpleAssumption`, for `SignalsSurvive` alone) that a
project has fewer agents, services, sidecars and windows than the `1<<20` rows the budget pass
takes for more than any roster.

Model-checked only: `NobodyStuck`, which speaks of ENABLED, and all liveness (`Recovers`, `Drains`,
`Returns`, `Shown`), which is out of the prover's reach. Every other invariant and action property
that a run checks is proved.

## 5. Not modelled

- `Replacement`: nonce collisions (128 random bits); corrupt journals (`loadJournal` refuses them;
  the model's `Sweep` has that refusal as a fault); a daemon that executes a call after the
  client gave up on it *and* after a later operation began; two engines on one project (the
  project lock excludes them); volumes and networks; images and pulls beyond their failing.
- `store`: the bytes of the tree digest, staging directories and their cleaning, sizes; a record
  that is there and cannot be read ends the operation (`Abort`). `registry`:
  several roots, listing order, record validation. `broker`: parsing and limits of request files.
- `app`: downloading and unpacking a release, the compiling container, restamping the tmux
  server, doctor; starting, stopping and attaching agents beyond the stamp of the window; the
  egress ledger's parsing and sampling. Errors of `Status` do not occur in `Watch` and hit all
  projects of a fetch alike in `Sidebar`.
- `schema`, `model`, `builder`: YAML, grammars of names and references, encodings, wording; the
  shell text of a layer. `snapshot` copies a directory file by file; in `Candidate` it is one
  content, read at once.
- `dockerapi`: images, exec streams, builds and events as calls; their effects appear in the
  modules that use them.
- `tmux`, `progressui`, `payload`: an agent whose CLI's name has no character that the tray can
  show, and so no ghost cell (`tmuxui/frame.go:1156`); parsing of listings, the spinner, popups, the clipboard, session
  set-up, the scripts in the container. What the sidebar script does to the caches and
  serials is in `Watch`.
- `terminal` and `cli`: functions of texts without state, where no order of events matters.

## 6. What is left

In order of worth: a daemon that executes a lost call late, which needs a queue between client and
daemon in `Replacement`; several projects that share the store in `Deployment`; errors of
`Status` per project in `Watch` and `Sidebar`; the agents' sessions (`app/agents.go` with the
container's session script).
