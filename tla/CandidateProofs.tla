--------------------------- MODULE CandidateProofs ---------------------------
(***************************************************************************)
(* Proofs about Candidate, for any documents, files, releases and bounds.  *)
(***************************************************************************)
EXTENDS Candidate, FiniteSetTheorems, TLAPS

\* A digest is remembered only when the operator has seen what it stands for.
ApprovalsShown == approvals \subseteq shown

AgreedInv == ApprovalsShown /\ ExtensionAgreed

\* A build that neither asks nor remembers keeps the invariant.
consent == <<extension, approvals, shown>>

LEMMA ConsentKept ==
    ASSUME AgreedInv, UNCHANGED consent
    PROVE  AgreedInv'
  BY DEF AgreedInv, ApprovalsShown, ExtensionAgreed, consent, NoBuild

\* An approval joins the approvals with the operator's yes, and an extension
\* is built only when the digest of its inputs is among them.
LEMMA ApproveAgreed ==
    ASSUME AgreedInv, ApproveExtension
    PROVE  AgreedInv'
  <1>1. \/ UNCHANGED consent
        \/ /\ approvals' = approvals \cup {extensionDigest}
           /\ shown' = shown \cup {Context}
           /\ extension' = extension
    BY Zenon DEF ApproveExtension, consent
  <1>2. CASE /\ approvals' = approvals \cup {extensionDigest}
             /\ shown' = shown \cup {Context}
             /\ extension' = extension
    BY <1>2 DEF AgreedInv, ApprovalsShown, ExtensionAgreed, extensionDigest, NoBuild
  <1> QED BY <1>1, <1>2, ConsentKept

LEMMA BuildAgreed ==
    ASSUME AgreedInv, BuildExtension
    PROVE  AgreedInv'
  <1> DEFINE base == digests[IF HasTools(frozen) THEN ToolsImageRef ELSE Ref(frozen.base)]
             b    == Build(ExtensionText, Len(ExtensionText), {}, Context, base, heads, cache, FirstLayer)
             made == Finished(ExtensionText, {}, Context, base, b)
  <1>1. \/ UNCHANGED consent
        \/ extensionDigest \in approvals /\ extension' = made /\ UNCHANGED <<approvals, shown>>
    BY Zenon DEF BuildExtension, consent
  <1>2. made.context = Context
    BY DEF Finished
  <1> HIDE DEF made
  <1>3. CASE extensionDigest \in approvals /\ extension' = made /\ UNCHANGED <<approvals, shown>>
    BY <1>2, <1>3 DEF AgreedInv, ApprovalsShown, ExtensionAgreed, extensionDigest
  <1> QED BY <1>1, <1>3, ConsentKept

\* Every other step leaves the consent alone.
LEMMA StepAgreed ==
    ASSUME AgreedInv, Next
    PROVE  AgreedInv'
  <1>1. CASE BuildExtension
    BY <1>1, BuildAgreed
  <1>0. CASE ApproveExtension
    BY <1>0, ApproveAgreed
  <1>2. ASSUME NEW v, Begin(v) PROVE UNCHANGED consent
    BY <1>2, Zenon DEF Begin, built, consent
  <1>3. ASSUME NEW failed, MintAgentRefresh(failed) PROVE UNCHANGED consent
    BY <1>3, Zenon DEF MintAgentRefresh, built, consent
  <1>4. Preview \/ CopyOpen \/ CopyRead \/ LoadFrozen => UNCHANGED consent
    BY Zenon DEF Preview, CopyOpen, CopyRead, LoadFrozen, built, consent
  <1>5. LoadArtifact \/ ResolveImage \/ BuildTools => UNCHANGED consent
    BY Zenon DEF LoadArtifact, ResolveImage, BuildTools, built, consent
  <1>6. CompilePlan \/ Publish \/ UpdateRecord \/ Abort => UNCHANGED consent
    BY Zenon DEF CompilePlan, Publish, UpdateRecord, Abort, built, consent
  <1>7. Elsewhere => UNCHANGED consent
    BY Zenon DEF Elsewhere, built, consent
  <1>8. ASSUME NEW d, EditManifest(d) PROVE UNCHANGED consent
    BY <1>7, <1>8, Zenon DEF EditManifest
  <1>9. ASSUME NEW path, NEW content, EditFile(path, content) PROVE UNCHANGED consent
    BY <1>7, <1>9, Zenon DEF EditFile
  <1>10. ASSUME NEW h, NewRelease(h) PROVE UNCHANGED consent
    BY <1>7, <1>10, Zenon DEF NewRelease
  <1>11. ASSUME NEW r, MoveTag(r) PROVE UNCHANGED consent
    BY <1>7, <1>11, Zenon DEF MoveTag
  <1>12. ApproveExtension \/ BuildExtension \/ UNCHANGED consent
    BY <1>2, <1>3, <1>4, <1>5, <1>6, <1>8, <1>9, <1>10, <1>11, Zenon DEF Next
  <1> QED BY <1>0, <1>1, <1>12, ConsentKept

\* An extension image is built only from inputs an operator has agreed to
\* (BuildExtension, ApproveExtension), whatever is edited meanwhile.
THEOREM AgreementTheorem == Spec => []ExtensionAgreed
  <1>1. Init => AgreedInv
    BY DEF Init, AgreedInv, ApprovalsShown, ExtensionAgreed
  <1>2. AgreedInv /\ [Next]_vars => AgreedInv'
    <2>1. UNCHANGED vars => UNCHANGED consent
      BY Zenon DEF vars, built, consent
    <2> QED BY <2>1, StepAgreed, ConsentKept
  <1>3. AgreedInv => ExtensionAgreed
    BY DEF AgreedInv
  <1> QED BY <1>1, <1>2, <1>3, PTL DEF Spec

-----------------------------------------------------------------------------
(* Lists.                                                                  *)

LEMMA ListFacts ==
    ASSUME NEW s, IsList(s)
    PROVE  /\ Len(s) \in Nat /\ DOMAIN s = 1 .. Len(s)
           /\ \A S : ToSet(s) \subseteq S => s \in Seq(S)
  <1>1. s \in Seq(ToSet(s))
    BY DEF IsList
  <1>2. Len(s) \in Nat /\ DOMAIN s = 1 .. Len(s) /\ s \in [1 .. Len(s) -> ToSet(s)]
    BY <1>1
  <1>3. ASSUME NEW S, ToSet(s) \subseteq S PROVE s \in Seq(S)
    <2>1. s \in [1 .. Len(s) -> S]
      BY <1>2, <1>3
    <2> QED BY <1>2, <2>1
  <1> QED BY <1>2, <1>3

\* A function on the first numbers is a list.
LEMMA ListOfFunction ==
    ASSUME NEW n \in Nat, NEW S, NEW s \in [1 .. n -> S]
    PROVE  IsList(s) /\ Len(s) = n /\ \A x \in ToSet(s) : \E i \in 1 .. n : x = s[i]
  <1>1. s \in [1 .. n -> ToSet(s)]
    BY DEF ToSet
  <1>2. s \in Seq(ToSet(s))
    BY <1>1
  <1>3. Len(s) = n
    BY <1>1
  <1> QED BY <1>2, <1>3 DEF IsList, ToSet

LEMMA SmallLists ==
    /\ IsList(<<>>) /\ Len(<<>>) = 0 /\ ToSet(<<>>) = {}
    /\ \A x : IsList(<<x>>) /\ Len(<<x>>) = 1 /\ ToSet(<<x>>) = {x} /\ <<x>>[1] = x
  <1>1. IsList(<<>>) /\ Len(<<>>) = 0 /\ ToSet(<<>>) = {}
    BY DEF IsList, ToSet
  <1>2. ASSUME NEW x
        PROVE  IsList(<<x>>) /\ Len(<<x>>) = 1 /\ ToSet(<<x>>) = {x} /\ <<x>>[1] = x
    <2>1. Len(<<x>>) = 1 /\ <<x>>[1] = x /\ DOMAIN <<x>> = 1 .. 1
      OBVIOUS
    <2>2. ToSet(<<x>>) = {x}
      BY <2>1 DEF ToSet
    <2>3. <<x>> \in Seq({x})
      OBVIOUS
    <2> QED BY <2>1, <2>2, <2>3 DEF IsList
  <1> QED BY <1>1, <1>2

LEMMA JoinFacts ==
    ASSUME NEW s, NEW t, IsList(s), IsList(t)
    PROVE  /\ IsList(s \o t) /\ Len(s \o t) = Len(s) + Len(t)
           /\ ToSet(s \o t) = ToSet(s) \cup ToSet(t)
           /\ \A i \in 1 .. Len(s) : (s \o t)[i] = s[i]
           /\ \A i \in 1 .. Len(t) : (s \o t)[Len(s) + i] = t[i]
  <1> DEFINE S == ToSet(s) \cup ToSet(t)
  <1>1. s \in Seq(S) /\ t \in Seq(S)
    BY ListFacts
  <1>a. Len(s) \in Nat /\ DOMAIN s = 1 .. Len(s) /\ Len(t) \in Nat /\ DOMAIN t = 1 .. Len(t)
    BY ListFacts
  <1> HIDE DEF S
  <1>2. /\ s \o t \in Seq(S) /\ Len(s \o t) = Len(s) + Len(t)
        /\ DOMAIN (s \o t) = 1 .. Len(s) + Len(t)
    BY <1>1
  <1>3. \A i \in 1 .. Len(s) : (s \o t)[i] = s[i]
    BY <1>1, <1>a
  <1>4. \A i \in 1 .. Len(t) : (s \o t)[Len(s) + i] = t[i]
    BY <1>1, <1>a
  <1>5. ToSet(s \o t) = S
    <2>1. ASSUME NEW x \in ToSet(s \o t) PROVE x \in S
      <3>1. PICK i \in 1 .. Len(s) + Len(t) : x = (s \o t)[i]
        BY <1>2, <2>1 DEF ToSet
      <3> QED BY <1>2, <3>1
    <2>2. ASSUME NEW x \in ToSet(s) PROVE x \in ToSet(s \o t)
      <3>1. PICK i \in 1 .. Len(s) : x = s[i]
        BY <1>a, <2>2 DEF ToSet
      <3>2. i \in DOMAIN (s \o t) /\ (s \o t)[i] = x
        BY <1>2, <1>3, <1>a, <3>1
      <3> QED BY <3>2 DEF ToSet
    <2>3. ASSUME NEW x \in ToSet(t) PROVE x \in ToSet(s \o t)
      <3>1. PICK i \in 1 .. Len(t) : x = t[i]
        BY <1>a, <2>3 DEF ToSet
      <3>2. Len(s) + i \in DOMAIN (s \o t) /\ (s \o t)[Len(s) + i] = x
        BY <1>2, <1>4, <1>a, <3>1
      <3> QED BY <3>2 DEF ToSet
    <2> QED BY <2>1, <2>2, <2>3 DEF S
  <1>6. IsList(s \o t)
    BY <1>2, <1>5 DEF IsList
  <1> QED BY <1>2, <1>3, <1>4, <1>5, <1>6 DEF S

\* An element at the head of a list, and the rest.
LEMMA HeadFacts ==
    ASSUME NEW s, IsList(s), s # <<>>
    PROVE  /\ IsList(Tail(s)) /\ Head(s) \in ToSet(s)
           /\ ToSet(s) = {Head(s)} \cup ToSet(Tail(s))
  <1> DEFINE S == ToSet(s)
             t == Tail(s)
  <1>1. s \in Seq(S) /\ Len(s) \in Nat /\ DOMAIN s = 1 .. Len(s)
    BY ListFacts DEF IsList
  <1>2. Len(s) > 0
    BY <1>1
  <1>3. /\ Head(s) = s[1] /\ t \in Seq(S) /\ DOMAIN t = 1 .. Len(s) - 1
        /\ \A i \in 1 .. Len(s) - 1 : t[i] = s[i + 1]
    BY <1>1, <1>2
  <1> HIDE DEF t
  <1>4. t \in [1 .. Len(s) - 1 -> ToSet(t)]
    BY <1>3 DEF ToSet
  <1>a. Len(s) - 1 \in Nat
    BY <1>1, <1>2
  <1>5. IsList(t)
    BY <1>4, <1>a, ListOfFunction, Zenon
  <1>6. Head(s) \in S
    BY <1>1, <1>2, <1>3 DEF ToSet
  <1>7. ASSUME NEW x \in ToSet(s) PROVE x = Head(s) \/ x \in ToSet(t)
    <2>1. PICK i \in 1 .. Len(s) : x = s[i]
      BY <1>1, <1>7 DEF ToSet
    <2>2. CASE i = 1
      BY <1>3, <2>1, <2>2
    <2>3. CASE i # 1
      <3>1. i - 1 \in DOMAIN t /\ t[i - 1] = x
        BY <1>1, <1>3, <2>1, <2>3
      <3> QED BY <3>1 DEF ToSet
    <2> QED BY <2>2, <2>3
  <1>8. ASSUME NEW x \in ToSet(t) PROVE x \in S
    BY <1>1, <1>2, <1>3, <1>8 DEF ToSet
  <1> QED BY <1>5, <1>6, <1>7, <1>8 DEF t

\* A set of naturals that is not empty has a least element.
LEMMA LeastElement ==
    ASSUME NEW S \in SUBSET Nat, S # {}
    PROVE  \E i \in S : \A j \in S : i <= j
  <1>1. IsWellFoundedOn(OpToRel(<, Nat), Nat)
    BY NatLessThanWellFounded
  <1>2. PICK i \in S : \A j \in S : ~(<<j, i>> \in OpToRel(<, Nat))
    BY <1>1, WFMin
  <1>3. \A j \in S : <<j, i>> \in OpToRel(<, Nat) <=> j < i
    BY DEF OpToRel
  <1>4. \A j \in S : ~(j < i)
    BY <1>2, <1>3, Zenon
  <1> QED BY <1>4

-----------------------------------------------------------------------------
(* Builds.                                                                 *)

\* What a build can leave in the daemon's cache.
Layers(layers, first) ==
    IsFiniteSet(layers) /\ \A l \in layers : l.id \in Nat /\ l.id >= first

\* One step leaves a layer, and knows it from now on.
LEMMA BuildStepFacts ==
    ASSUME NEW b, NEW i, NEW dockerfile, NEW args, NEW context, NEW base, NEW versions,
           NEW first \in Nat, Layers(b.cache, first),
           NEW c, c = BuildStep(b, i, dockerfile, args, context, base, versions, first)
    PROVE  Layers(c.cache, first) /\ c.at \in Nat /\ c.at >= first
  <1> DEFINE instruction == dockerfile[i]
             step  == Step(instruction, b.declared, context, base)
             known == {l \in b.cache : l.parent = b.at /\ l.step = step}
             agent == instruction.op = "RUN" /\ instruction.part \in AgentKind
             got   == IF ~agent THEN 0
                      ELSE IF instruction.words[1] \in Words
                           THEN versions[<<instruction.part, instruction.words[1]>>] ELSE 0
             new   == [parent |-> b.at, step |-> step, id |-> first + Cardinality(b.cache), got |-> got]
             layer == IF known # {} THEN CHOOSE l \in known : TRUE ELSE new
  <1>1. c.at = layer.id /\ c.cache = b.cache \cup {layer}
    BY Zenon DEF BuildStep
  <1> HIDE DEF step, got
  <1>2. Cardinality(b.cache) \in Nat
    BY FS_CardinalityType DEF Layers
  <1>3. layer.id \in Nat /\ layer.id >= first
    <2>1. CASE known # {}
      <3>1. layer \in b.cache
        BY <2>1
      <3> HIDE DEF layer
      <3> QED BY <3>1 DEF Layers
    <2>2. CASE known = {}
      BY <1>2, <2>2
    <2> QED BY <2>1, <2>2
  <1> HIDE DEF layer
  <1>4. IsFiniteSet(b.cache \cup {layer})
    BY FS_AddElement DEF Layers
  <1> QED BY <1>1, <1>3, <1>4 DEF Layers

\* A build begins with what is known and takes one step after the other.
Start(known) == [at |-> 0, cache |-> known, declared |-> {}, pulls |-> {}, inside |-> {}]

LEMMA BuildSteps ==
    ASSUME NEW dockerfile, NEW n \in Nat, NEW args, NEW context, NEW base, NEW versions,
           NEW known, NEW first,
           NEW b, b = Build(dockerfile, n, args, context, base, versions, known, first)
    PROVE  \E after :
              /\ after[0] = Start(known) /\ after[n] = b
              /\ \A i \in 1 .. n :
                    after[i] = BuildStep(after[i - 1], i, dockerfile, args, context, base, versions, first)
  <1> DEFINE start == [at |-> 0, cache |-> known, declared |-> {}, pulls |-> {}, inside |-> {}]
             next(c, i) == BuildStep(c, i, dockerfile, args, context, base, versions, first)
             after[i \in 0 .. n] == IF i = 0 THEN start ELSE next(after[i - 1], i)
             Runs(g, k) == g = [i \in 0 .. k |-> IF i = 0 THEN start ELSE next(g[i - 1], i)]
  <1>1. b = after[n]
    BY DEF Build
  <1>2. after = CHOOSE g : Runs(g, n)
    OBVIOUS
  <1> HIDE DEF after, start, next
  <1>3. ASSUME NEW k \in Nat, k # 0, \E g : Runs(g, k - 1)
        PROVE  \E g : Runs(g, k)
    <2>1. PICK g : Runs(g, k - 1)
      BY <1>3
    <2> DEFINE h == [i \in 0 .. k |-> IF i < k THEN g[i] ELSE next(g[k - 1], k)]
    <2>2. ASSUME NEW i \in 0 .. k
          PROVE  h[i] = IF i = 0 THEN start ELSE next(h[i - 1], i)
      <3>1. CASE i < k
        <4>1. i \in 0 .. k - 1 /\ h[i] = g[i] /\ (i # 0 => h[i - 1] = g[i - 1])
          BY <1>3, <3>1
        <4>2. g[i] = IF i = 0 THEN start ELSE next(g[i - 1], i)
          BY <2>1, <4>1
        <4> QED BY <4>1, <4>2
      <3>2. CASE i = k
        BY <1>3, <3>2
      <3> QED BY <3>1, <3>2
    <2>3. h = [i \in 0 .. k |-> h[i]]
      OBVIOUS
    <2> HIDE DEF h
    <2>4. Runs(h, k)
      BY <2>2, <2>3
    <2> QED BY <2>4
  <1>4. \A k \in Nat : \E g : Runs(g, k)
    <2>1. Runs([i \in 0 .. 0 |-> start], 0)
      OBVIOUS
    <2> DEFINE Bad == {k \in Nat : ~\E g : Runs(g, k)}
    <2> HIDE DEF Runs
    <2> SUFFICES ASSUME Bad # {} PROVE FALSE
      OBVIOUS
    <2>2. PICK k \in Bad : \A j \in Bad : k <= j
      <3>1. Bad \in SUBSET Nat
        OBVIOUS
      <3> HIDE DEF Bad
      <3> QED BY <3>1, LeastElement
    <2>3. k # 0
      BY <2>1
    <2>4. k - 1 \in Nat /\ k - 1 \notin Bad
      BY <2>2, <2>3
    <2> QED BY <1>3, <2>3, <2>4
  <1>5. Runs(after, n)
    <2> HIDE DEF Runs
    <2> QED BY <1>2, <1>4, Zenon
  <1>6. \A i \in 0 .. n : after[i] = IF i = 0 THEN start ELSE next(after[i - 1], i)
    BY <1>5
  <1>7. after[0] = start /\ \A i \in 1 .. n : after[i] = next(after[i - 1], i)
    <2>1. 0 \in 0 .. n /\ \A i \in 1 .. n : i \in 0 .. n /\ i # 0
      OBVIOUS
    <2> QED BY <1>6, <2>1, Zenon
  <1> HIDE DEF after
  <1> QED BY <1>1, <1>7 DEF start, next, Start

\* What holds at the start of a build and is kept by every step holds when it
\* ends: there is no first step after which it does not.
LEMMA FirstFailure ==
    ASSUME NEW n \in Nat, NEW Bad \in SUBSET (0 .. n), 0 \notin Bad,
           \A i \in 1 .. n : i - 1 \notin Bad => i \notin Bad
    PROVE  Bad = {}
  <1> SUFFICES ASSUME Bad # {} PROVE FALSE
    OBVIOUS
  <1>1. PICK k \in Bad : \A j \in Bad : k <= j
    BY LeastElement
  <1>2. k \in 1 .. n /\ k - 1 \notin Bad
    BY <1>1
  <1> QED BY <1>1, <1>2

\* A finished build leaves a layer, and all that it has left is known.
LEMMA BuildFacts ==
    ASSUME NEW dockerfile, NEW n \in Nat, NEW args, NEW context, NEW base, NEW versions,
           NEW known, NEW first \in Nat, Layers(known, first),
           NEW b, b = Build(dockerfile, n, args, context, base, versions, known, first)
    PROVE  Layers(b.cache, first) /\ (n > 0 => b.at \in Nat /\ b.at >= first)
  <1>1. PICK after :
              /\ after[0] = Start(known) /\ after[n] = b
              /\ \A i \in 1 .. n :
                    after[i] = BuildStep(after[i - 1], i, dockerfile, args, context, base, versions, first)
    BY BuildSteps
  <1> DEFINE Good(i) == Layers(after[i].cache, first) /\ (i # 0 => after[i].at \in Nat /\ after[i].at >= first)
             Bad     == {i \in 0 .. n : ~Good(i)}
  <1>2. Good(0)
    BY <1>1 DEF Start
  <1>3. ASSUME NEW i \in 1 .. n, Good(i - 1) PROVE Good(i)
    BY <1>1, <1>3, BuildStepFacts
  <1> HIDE DEF Good
  <1>4. Bad = {}
    <2>1. Bad \in SUBSET (0 .. n) /\ 0 \notin Bad
      BY <1>2
    <2>2. \A i \in 1 .. n : i - 1 \notin Bad => i \notin Bad
      <3>1. \A i \in 1 .. n : i - 1 \in 0 .. n
        OBVIOUS
      <3> QED BY <1>3, <3>1
    <2> HIDE DEF Bad
    <2> QED BY <2>1, <2>2, FirstFailure
  <1>5. Good(n)
    BY <1>4
  <1> QED BY <1>1, <1>5 DEF Good

-----------------------------------------------------------------------------
(* The invariant behind InputsRecorded and RefusedForCause.                *)

\* The references that the manifest itself needs.
Needs ==
    {Ref(frozen.base)}
    \cup (IF EgressDNSEnabled(frozen, DNSConfPresent) THEN {CoreDNSImageRef} ELSE {})
    \cup {Ref(s.image) : s \in ToSet(frozen.services)}

Late    == {"artifact", "resolve", "tools", "extension", "compile", "publish", "reconcile"}
Running == {"publish", "reconcile"}

WorkInv ==
    /\ {doc, preview, frozen} \subseteq Docs
    /\ tags \in [ImageRefs -> Nat \ {0}]
    /\ Layers(cache, FirstLayer)
    /\ pc \in Late => Validate(frozen)

\* What is still to copy, and what has been.
CopyInv ==
    /\ pc \in {"copy", "read"} => IsList(todo)
    /\ pc = "read" => todo # <<>>
    /\ pc \in Late => todo = <<>>
    /\ pc \in {"copy", "read"} \cup Late =>
          \A e \in ToSet(Entries(preview)) : ~e.optional /\ e.dest # SnapshotManifest =>
              \/ e \in ToSet(todo)
              \/ \E f \in snap : f.dest = e.dest /\ f.source = e.source.at

\* What the files of the workspace are, and the copied Dockerfile.
FilesInv ==
    /\ DOMAIN files = DOMAIN FileStates
    /\ \A path \in DOMAIN FileStates : files[path] \in FileStates[path]
    /\ pc = "read" /\ ~dirty => StateOf(Head(todo).source) \notin {Absent, Special}
    /\ pc \in {"copy", "read"} =>
          \A e \in ToSet(todo) : e.dest = DockerfileDest => e.source.at = DockerfilePath
    /\ \A f \in Snapped(DockerfileDest) : f.content \in DOMAIN Texts

\* What is still to resolve, and what has been resolved and built.
ImagesInv ==
    /\ \A r \in DOMAIN digests : digests[r] # 0
    /\ pc \in Late \ {"artifact", "compile"} => verb # "config"
    /\ pc = "resolve" =>
          IsList(refs) /\ ToSet(refs) \subseteq Needs /\ Needs \subseteq DOMAIN digests \cup ToSet(refs)
    /\ pc \in {"tools", "extension", "compile"} \cup Running /\ verb # "config" =>
          Needs \subseteq DOMAIN digests
    /\ pc \in {"extension", "compile"} \cup Running /\ verb # "config" /\ HasTools(frozen) =>
          ToolsImageRef \in DOMAIN digests /\ tools.base = digests[Ref(frozen.base)]
    /\ pc \in {"compile"} \cup Running /\ verb # "config" /\ frozen.extension =>
          /\ ExtensionImageRef \in DOMAIN digests
          /\ extension.base = digests[IF HasTools(frozen) THEN ToolsImageRef ELSE Ref(frozen.base)]

Given == Input(frozen, artifact, DNSConfPresent, snap, digests)

PlanInv ==
    /\ pc \in Running => plan = <<PlanOf(Given)>> /\ ~CompileRefuses(Given)
    /\ \A c, d \in candidates : c.plan = d.plan => c = d
    /\ \A c \in candidates : c = [plan |-> c.plan, at |-> c.at]

CausesInv ==
    /\ outcome = "plan" => AsksForAClash(frozen)
    /\ outcome \notin {"generated", "conflict"}
    /\ pc # "idle" => outcome = "none"

PipelineInv == WorkInv /\ FilesInv /\ CopyInv /\ ImagesInv /\ PlanInv /\ CausesInv

-----------------------------------------------------------------------------
(* The plan.                                                               *)

\* The j-th member of a set of numbers, for every j.
LEMMA RankFacts ==
    ASSUME NEW n \in Nat, NEW S \in SUBSET (1 .. n),
           NEW f, f = InOrder(S)
    PROVE  /\ Cardinality(S) \in Nat /\ f \in [1 .. Cardinality(S) -> S] /\ IsInjective(f)
           /\ \A i \in S : \E j \in 1 .. Cardinality(S) : f[j] = i
  <1> DEFINE upTo(i) == {k \in S : k <= i}
             rank == [i \in S |-> Cardinality(upTo(i))]
             N    == Cardinality(S)
  <1>1. IsFiniteSet(S) /\ N \in Nat
    <2>1. IsFiniteSet(1 .. n)
      BY FS_Interval
    <2>2. IsFiniteSet(S)
      BY <2>1, FS_Subset, Zenon
    <2> QED BY <2>2, FS_CardinalityType
  <1>2. ASSUME NEW i \in S
        PROVE  IsFiniteSet(upTo(i)) /\ Cardinality(upTo(i)) \in 1 .. N
    <2>1. upTo(i) \in SUBSET S /\ i \in upTo(i)
      OBVIOUS
    <2> HIDE DEF upTo
    <2>2. IsFiniteSet(upTo(i)) /\ Cardinality(upTo(i)) <= N
      BY <1>1, <2>1, FS_Subset
    <2>3. Cardinality(upTo(i)) \in Nat /\ Cardinality(upTo(i)) # 0
      BY <2>1, <2>2, FS_CardinalityType, FS_EmptySet
    <2> QED BY <1>1, <2>2, <2>3
  <1>3. ASSUME NEW i \in S, NEW j \in S, i < j PROVE rank[i] # rank[j]
    <2>1. upTo(i) \in SUBSET upTo(j) /\ j \in upTo(j) /\ j \notin upTo(i)
      <3>1. \A k \in S : k \in Int
        OBVIOUS
      <3>2. \A k \in S : k <= i => k <= j
        BY <1>3, <3>1
      <3>3. j <= j /\ ~(j <= i)
        BY <1>3, <3>1
      <3> QED BY <3>2, <3>3
    <2>2. IsFiniteSet(upTo(j))
      BY <1>2
    <2> HIDE DEF upTo
    <2>3. Cardinality(upTo(j)) # Cardinality(upTo(i))
      BY <2>1, <2>2, FS_Subset
    <2> QED BY <2>3
  <1>4. rank \in Injection(S, 1 .. N)
    <2>1. rank \in [S -> 1 .. N]
      BY <1>2
    <2>2. ASSUME NEW i \in S, NEW j \in S, rank[i] = rank[j] PROVE i = j
      <3> HIDE DEF rank
      <3> QED BY <1>3, <2>2
    <2> HIDE DEF rank
    <2> QED BY <2>1, <2>2 DEF Injection, IsInjective
  <1>5. IsFiniteSet(1 .. N) /\ Cardinality(1 .. N) = N
    BY <1>1, FS_Interval
  <1>6. rank \in Surjection(S, 1 .. N)
    <2> HIDE DEF rank
    <2> QED BY <1>4, <1>5, FS_Injection
  <1> DEFINE pick(j) == CHOOSE i \in S : Cardinality({k \in S : k <= i}) = j
  <1>a. f = [j \in 1 .. N |-> pick(j)]
    BY DEF InOrder
  <1>7. ASSUME NEW j \in 1 .. N
        PROVE  f[j] \in S /\ rank[f[j]] = j
    <2>1. \E i \in S : rank[i] = j
      <3> HIDE DEF rank
      <3> QED BY <1>6 DEF Surjection
    <2>2. pick(j) \in S /\ rank[pick(j)] = j
      BY <2>1
    <2> HIDE DEF pick
    <2> QED BY <1>a, <2>2
  <1>8. f = [j \in 1 .. N |-> f[j]]
    <2> HIDE DEF pick
    <2> QED BY <1>a
  <1>9. ASSUME NEW i \in S PROVE \E j \in 1 .. N : f[j] = i
    <2>1. rank[i] \in 1 .. N
      BY <1>2
    <2>2. rank[f[rank[i]]] = rank[i] /\ f[rank[i]] \in S
      BY <1>7, <2>1
    <2>3. f[rank[i]] = i
      <3> HIDE DEF rank
      <3> QED BY <1>4, <2>2 DEF Injection, IsInjective
    <2> QED BY <2>1, <2>3
  <1> HIDE DEF rank
  <1>10. f \in [1 .. N -> S]
    BY <1>7, <1>8
  <1>11. IsInjective(f)
    <2>1. DOMAIN f = 1 .. N
      BY <1>10
    <2>2. ASSUME NEW j \in 1 .. N, NEW k \in 1 .. N, f[j] = f[k] PROVE j = k
      BY <1>7, <2>2
    <2> QED BY <2>1, <2>2 DEF IsInjective
  <1> QED BY <1>1, <1>9, <1>10, <1>11

LEMMA FreeImportsFacts ==
    ASSUME NEW m, IsList(m.imports), NEW f, f = FreeImports(m)
    PROVE  /\ IsList(f) /\ IsInjective(f) /\ \A j \in DOMAIN f : f[j] \in DOMAIN m.imports
           /\ \A j \in DOMAIN f : reservedTargetFor(m.imports[f[j]].target.at) = {}
           /\ \A i \in DOMAIN m.imports : reservedTargetFor(m.imports[i].target.at) = {} =>
                 \E j \in DOMAIN f : f[j] = i
  <1> DEFINE S == {i \in DOMAIN m.imports : reservedTargetFor(m.imports[i].target.at) = {}}
  <1>1. Len(m.imports) \in Nat /\ S \in SUBSET (1 .. Len(m.imports))
    BY ListFacts
  <1>2. f = InOrder(S)
    BY Zenon DEF FreeImports
  <1>3. \A i \in DOMAIN m.imports : reservedTargetFor(m.imports[i].target.at) = {} <=> i \in S
    OBVIOUS
  <1>4. S \subseteq DOMAIN m.imports
    OBVIOUS
  <1> HIDE DEF S
  <1>5. /\ Cardinality(S) \in Nat /\ f \in [1 .. Cardinality(S) -> S] /\ IsInjective(f)
        /\ \A i \in S : \E j \in 1 .. Cardinality(S) : f[j] = i
    BY <1>1, <1>2, RankFacts
  <1>6. IsList(f)
    BY <1>5, ListOfFunction
  <1> QED BY <1>3, <1>4, <1>5, <1>6

\* The engine's own mounts.
OwnMounts(in) ==
    <<Mount("bind", <<"root">>, WorkspaceTarget, FALSE),
      VolumeMount(AgentStateVolumeName, AgentStateTarget),
      TmpfsMount(RuntimeDirTarget)>>
    \o (IF in.artifact = Unset THEN <<>>
        ELSE <<BindMount(<<"payload", in.artifact>>, PayloadTarget)>>)
    \o <<BindMount(<<"results">>, ResultsTarget)>>

ImportMounts(in) ==
    LET free == FreeImports(in.m) IN [j \in DOMAIN free |-> ImportMount(free[j], in.m)]

LEMMA OwnMountsFacts ==
    ASSUME NEW in
    PROVE  IsList(OwnMounts(in))
  <1> DEFINE a == Mount("bind", <<"root">>, WorkspaceTarget, FALSE)
             b == VolumeMount(AgentStateVolumeName, AgentStateTarget)
             c == TmpfsMount(RuntimeDirTarget)
             d == BindMount(<<"payload", in.artifact>>, PayloadTarget)
             e == BindMount(<<"results">>, ResultsTarget)
             p == IF in.artifact = Unset THEN <<>> ELSE <<d>>
  <1>1. OwnMounts(in) = (<<a, b, c>> \o p) \o <<e>>
    BY DEF OwnMounts
  <1> HIDE DEF a, b, c, d, e
  <1>2. IsList(<<a, b, c>>)
    BY DEF IsList, ToSet
  <1>3. IsList(p) /\ IsList(<<e>>)
    BY SmallLists
  <1> HIDE DEF p
  <1> QED BY <1>1, <1>2, <1>3, JoinFacts

LEMMA ImportMountsFacts ==
    ASSUME NEW in, IsList(in.m.imports), NEW s, s = ImportMounts(in)
    PROVE  /\ IsList(s) /\ Len(s) = Len(FreeImports(in.m))
           /\ \A j \in DOMAIN s : s[j] = ImportMount(FreeImports(in.m)[j], in.m)
  <1> DEFINE f == FreeImports(in.m)
  <1>1. IsList(f)
    BY FreeImportsFacts
  <1>2. s = [j \in DOMAIN f |-> ImportMount(f[j], in.m)]
    BY DEF ImportMounts
  <1> HIDE DEF f
  <1>3. Len(f) \in Nat /\ DOMAIN f = 1 .. Len(f)
    BY <1>1, ListFacts
  <1>4. s \in [1 .. Len(f) -> ToSet(s)]
    BY <1>2, <1>3 DEF ToSet
  <1>5. IsList(s) /\ Len(s) = Len(f)
    BY <1>3, <1>4, ListOfFunction
  <1> QED BY <1>2, <1>5 DEF f

\* Whatever is not on a target of the engine's is mounted.
LEMMA ImportsMounted ==
    ASSUME NEW in, IsList(in.m.imports), NEW i \in DOMAIN in.m.imports,
           reservedTargetFor(in.m.imports[i].target.at) = {}
    PROVE  ImportMount(i, in.m) \in ToSet(DevMounts(in))
  <1> DEFINE own == OwnMounts(in)
             s   == ImportMounts(in)
  <1>1. DevMounts(in) = own \o s
    BY Zenon DEF DevMounts, OwnMounts, ImportMounts
  <1>2. PICK j \in DOMAIN FreeImports(in.m) : FreeImports(in.m)[j] = i
    BY FreeImportsFacts
  <1>3. IsList(s) /\ DOMAIN s = DOMAIN FreeImports(in.m)
    <2>1. IsList(s) /\ Len(s) = Len(FreeImports(in.m)) /\ IsList(FreeImports(in.m))
      BY ImportMountsFacts, FreeImportsFacts
    <2> HIDE DEF s
    <2> QED BY <2>1, ListFacts
  <1>4. s[j] = ImportMount(i, in.m)
    BY <1>2, <1>3, ImportMountsFacts
  <1>5. IsList(own)
    BY OwnMountsFacts
  <1> HIDE DEF own, s
  <1>6. ImportMount(i, in.m) \in ToSet(s)
    BY <1>2, <1>3, <1>4 DEF ToSet
  <1> QED BY <1>1, <1>3, <1>5, <1>6, JoinFacts

\* The containers of a plan: the dev container, the DNS ledger if it is
\* wanted and one for each service.
LEMMA ServicesFacts ==
    ASSUME NEW in, IsList(in.m.services), NEW s, s = ServicesOf(in),
           NEW dns, dns = EgressDNSEnabled(in.m, in.dnsConf)
    PROVE  /\ IsList(s)
           /\ dns => /\ Len(s) = Len(in.m.services) + 1 /\ s[1] = DNSSidecar(in)
                     /\ \A i \in 1 .. Len(in.m.services) : s[i + 1] = Sidecar(in.m.services[i], in)
           /\ ~dns => /\ Len(s) = Len(in.m.services)
                      /\ \A i \in 1 .. Len(in.m.services) : s[i] = Sidecar(in.m.services[i], in)
  <1> DEFINE own  == IF dns THEN <<DNSSidecar(in)>> ELSE <<>>
             rest == [i \in DOMAIN in.m.services |-> Sidecar(in.m.services[i], in)]
             n    == Len(in.m.services)
  <1>1. s = own \o rest
    BY Zenon DEF ServicesOf
  <1>2. n \in Nat /\ DOMAIN in.m.services = 1 .. n
    BY ListFacts
  <1>3. rest = [i \in 1 .. n |-> rest[i]] /\ \A i \in 1 .. n : rest[i] = Sidecar(in.m.services[i], in)
    BY <1>2
  <1> HIDE DEF rest, n
  <1>4. rest \in [1 .. n -> ToSet(rest)]
    BY <1>3 DEF ToSet
  <1>5. IsList(rest) /\ Len(rest) = n
    BY <1>2, <1>4, ListOfFunction
  <1>6. IsList(own) /\ (dns => Len(own) = 1 /\ own[1] = DNSSidecar(in)) /\ (~dns => Len(own) = 0)
    BY SmallLists
  <1> HIDE DEF own
  <1>7. /\ IsList(s) /\ Len(s) = Len(own) + n
        /\ \A i \in 1 .. Len(own) : s[i] = own[i]
        /\ \A i \in 1 .. n : s[Len(own) + i] = rest[i]
    BY <1>1, <1>5, <1>6, JoinFacts
  <1>8. CASE dns
    <2>a. Len(own) = 1 /\ own[1] = DNSSidecar(in)
      BY <1>6, <1>8
    <2>1. Len(s) = n + 1 /\ s[1] = DNSSidecar(in)
      BY <1>2, <1>7, <2>a
    <2>2. \A i \in 1 .. n : s[i + 1] = rest[i]
      BY <1>2, <1>7, <2>a
    <2> QED BY <1>3, <1>7, <1>8, <2>1, <2>2 DEF n
  <1>9. CASE ~dns
    <2>1. Len(s) = n
      BY <1>2, <1>6, <1>7, <1>9
    <2>2. \A i \in 1 .. n : s[i] = rest[i]
      BY <1>2, <1>6, <1>7, <1>9
    <2> QED BY <1>3, <1>7, <1>9, <2>1, <2>2 DEF n
  <1> QED BY <1>8, <1>9

LEMMA ServiceKinds ==
    ASSUME NEW in, IsList(in.m.services)
    PROVE  ToSet(ServicesOf(in)) =
             (IF EgressDNSEnabled(in.m, in.dnsConf) THEN {DNSSidecar(in)} ELSE {})
             \cup {Sidecar(svc, in) : svc \in ToSet(in.m.services)}
  <1> DEFINE s   == ServicesOf(in)
             dns == EgressDNSEnabled(in.m, in.dnsConf)
             n   == Len(in.m.services)
  <1>1. /\ IsList(s)
        /\ dns => /\ Len(s) = n + 1 /\ s[1] = DNSSidecar(in)
                  /\ \A i \in 1 .. n : s[i + 1] = Sidecar(in.m.services[i], in)
        /\ ~dns => /\ Len(s) = n
                   /\ \A i \in 1 .. n : s[i] = Sidecar(in.m.services[i], in)
    BY ServicesFacts
  <1>2. n \in Nat /\ DOMAIN in.m.services = 1 .. n
    BY ListFacts
  <1> HIDE DEF s, dns, n
  <1>3. DOMAIN s = 1 .. Len(s) /\ Len(s) \in Nat
    BY <1>1, ListFacts
  <1>4. ASSUME NEW x \in ToSet(s)
        PROVE  (dns /\ x = DNSSidecar(in)) \/ \E svc \in ToSet(in.m.services) : x = Sidecar(svc, in)
    <2>1. PICK i \in 1 .. Len(s) : x = s[i]
      BY <1>3, <1>4 DEF ToSet
    <2>2. CASE dns /\ i # 1
      <3>1. i - 1 \in 1 .. n /\ i = (i - 1) + 1
        BY <1>1, <1>2, <1>3, <2>1, <2>2
      <3>2. x = Sidecar(in.m.services[i - 1], in)
        BY <1>1, <2>1, <2>2, <3>1
      <3> QED BY <1>2, <3>1, <3>2 DEF ToSet
    <2>3. CASE dns /\ i = 1
      BY <1>1, <2>1, <2>3
    <2>4. CASE ~dns
      <3>1. x = Sidecar(in.m.services[i], in) /\ i \in 1 .. n
        BY <1>1, <2>1, <2>4
      <3> QED BY <1>2, <3>1 DEF ToSet
    <2> QED BY <2>2, <2>3, <2>4
  <1>5. dns => DNSSidecar(in) \in ToSet(s)
    BY <1>1, <1>2, <1>3 DEF ToSet
  <1>6. ASSUME NEW svc \in ToSet(in.m.services) PROVE Sidecar(svc, in) \in ToSet(s)
    <2>1. PICK i \in 1 .. n : svc = in.m.services[i]
      BY <1>2, <1>6 DEF ToSet
    <2>2. CASE dns
      <3>1. i + 1 \in DOMAIN s
        BY <1>1, <1>2, <1>3, <2>2
      <3> QED BY <1>1, <2>1, <2>2, <3>1 DEF ToSet
    <2>3. CASE ~dns
      BY <1>1, <1>3, <2>1, <2>3 DEF ToSet
    <2> QED BY <2>2, <2>3
  <1> QED BY <1>4, <1>5, <1>6 DEF s, dns

LEMMA ContainersFacts ==
    ASSUME NEW in, IsList(in.m.services), NEW cs, cs = Containers(PlanOf(in))
    PROVE  /\ IsList(cs) /\ Len(cs) = Len(ServicesOf(in)) + 1 /\ cs[1] = DevContainer(in)
           /\ \A i \in 1 .. Len(ServicesOf(in)) : cs[i + 1] = ServicesOf(in)[i]
           /\ ToSet(cs) = {DevContainer(in)} \cup ToSet(ServicesOf(in))
  <1> DEFINE d == DevContainer(in)
             s == ServicesOf(in)
  <1>1. cs = <<d>> \o s
    BY Zenon DEF Containers, PlanOf
  <1>2. IsList(s)
    BY ServicesFacts
  <1> HIDE DEF d, s
  <1>3. IsList(<<d>>) /\ Len(<<d>>) = 1 /\ ToSet(<<d>>) = {d} /\ <<d>>[1] = d
    BY SmallLists
  <1>4. Len(s) \in Nat
    BY <1>2, ListFacts
  <1>5. /\ IsList(cs) /\ Len(cs) = Len(<<d>>) + Len(s)
        /\ ToSet(cs) = ToSet(<<d>>) \cup ToSet(s)
        /\ \A i \in 1 .. Len(<<d>>) : cs[i] = <<d>>[i]
        /\ \A i \in 1 .. Len(s) : cs[Len(<<d>>) + i] = s[i]
    BY <1>1, <1>2, <1>3, JoinFacts
  <1>6. Len(cs) = Len(s) + 1 /\ cs[1] = d /\ ToSet(cs) = {d} \cup ToSet(s)
    BY <1>3, <1>4, <1>5
  <1>7. \A i \in 1 .. Len(s) : cs[i + 1] = s[i]
    BY <1>3, <1>4, <1>5
  <1> QED BY <1>5, <1>6, <1>7 DEF d, s

\* Every image that a container runs is in the inventory.
LEMMA ContainersListed ==
    ASSUME NEW in, IsList(in.m.services), NEW c \in ToSet(Containers(PlanOf(in)))
    PROVE  c.image \in PlanOf(in).images
  <1> DEFINE listed == {ImageID(ref, in.digests) : ref \in InventoryRefs(in)}
  <1>1. PlanOf(in).images = listed
    BY DEF PlanOf
  <1>2. \A ref : ImageID(ref, in.digests).ref = ref
    BY DEF ImageID
  <1>3. c = DevContainer(in) \/ c \in ToSet(ServicesOf(in))
    BY ContainersFacts
  <1>4. CASE c = DevContainer(in)
    <2>1. c.image = ImageID(DevImageRef(in.m), in.digests)
      BY <1>4 DEF DevContainer
    <2>2. DevImageRef(in.m) \in InventoryRefs(in)
      BY DEF InventoryRefs, RunRefs
    <2> QED BY <1>1, <2>1, <2>2
  <1>5. CASE c \in ToSet(ServicesOf(in))
    <2>1. c = DNSSidecar(in) \/ \E svc : c = Sidecar(svc, in)
      BY <1>5, ServiceKinds
    <2>2. \E ref : c.image = ImageID(ref, in.digests)
      BY <2>1 DEF DNSSidecar, Sidecar
    <2>3. c.image = ImageID(c.image.ref, in.digests)
      BY <1>2, <2>2
    <2>4. c.image.ref \in InventoryRefs(in)
      BY <1>5 DEF InventoryRefs, RunRefs
    <2> QED BY <1>1, <2>3, <2>4
  <1> QED BY <1>3, <1>4, <1>5

\* What the inventory is made of.
LEMMA InventoryFacts ==
    ASSUME NEW in, IsList(in.m.services), NEW ref \in InventoryRefs(in)
    PROVE  \/ ref = Ref(in.m.base)
           \/ ref = CoreDNSImageRef /\ EgressDNSEnabled(in.m, in.dnsConf)
           \/ \E svc \in ToSet(in.m.services) : ref = Ref(svc.image)
           \/ ref = ToolsImageRef /\ HasTools(in.m)
           \/ ref = ExtensionImageRef /\ in.m.extension
  <1>1. CASE ref \in {c.image.ref : c \in ToSet(ServicesOf(in))}
    <2>1. PICK c \in ToSet(ServicesOf(in)) : ref = c.image.ref
      BY <1>1
    <2>2. CASE c = DNSSidecar(in) /\ EgressDNSEnabled(in.m, in.dnsConf)
      BY <2>1, <2>2 DEF DNSSidecar, ImageID
    <2>3. ASSUME NEW svc \in ToSet(in.m.services), c = Sidecar(svc, in)
          PROVE  ref = Ref(svc.image)
      BY <2>1, <2>3 DEF Sidecar, ImageID
    <2> QED BY <2>2, <2>3, ServiceKinds
  <1>2. CASE ref = DevImageRef(in.m)
    BY <1>2 DEF DevImageRef
  <1> QED BY <1>1, <1>2 DEF InventoryRefs, RunRefs

-----------------------------------------------------------------------------
(* The generated Dockerfile.                                               *)

\* An agent's argument is declared directly above its own layer.
Guarded(s) ==
    \A i \in DOMAIN s : s[i].op = "ARG" /\ s[i].part \in AgentKind =>
        i + 1 \in DOMAIN s /\ s[i + 1].op = "RUN" /\ s[i + 1].part = s[i].part

LEMMA GuardedJoin ==
    ASSUME NEW s, NEW t, IsList(s), IsList(t), Guarded(s), Guarded(t)
    PROVE  Guarded(s \o t)
  <1> DEFINE u == s \o t
             n == Len(s)
             m == Len(t)
  <1>1. /\ IsList(u) /\ Len(u) = n + m
        /\ \A i \in 1 .. n : u[i] = s[i]
        /\ \A i \in 1 .. m : u[n + i] = t[i]
    BY JoinFacts
  <1>2. /\ n \in Nat /\ m \in Nat /\ DOMAIN s = 1 .. n /\ DOMAIN t = 1 .. m
        /\ DOMAIN u = 1 .. n + m
    BY <1>1, ListFacts
  <1> HIDE DEF u, n, m
  <1>3. ASSUME NEW i \in DOMAIN u, u[i].op = "ARG", u[i].part \in AgentKind
        PROVE  i + 1 \in DOMAIN u /\ u[i + 1].op = "RUN" /\ u[i + 1].part = u[i].part
    <2>1. CASE i <= n
      <3>1. i \in DOMAIN s /\ u[i] = s[i]
        BY <1>1, <1>2, <2>1
      <3>2. i + 1 \in DOMAIN s /\ s[i + 1].op = "RUN" /\ s[i + 1].part = s[i].part
        BY <1>3, <3>1 DEF Guarded
      <3>3. i + 1 \in DOMAIN u /\ u[i + 1] = s[i + 1]
        BY <1>1, <1>2, <3>2
      <3> QED BY <3>1, <3>2, <3>3
    <2>2. CASE i > n
      <3> DEFINE j == i - n
      <3>1. j \in DOMAIN t /\ i = n + j /\ i + 1 = n + (j + 1)
        BY <1>2, <2>2
      <3> HIDE DEF j
      <3>2. u[i] = t[j]
        BY <1>1, <1>2, <3>1
      <3>3. j + 1 \in DOMAIN t /\ t[j + 1].op = "RUN" /\ t[j + 1].part = t[j].part
        BY <1>3, <3>1, <3>2 DEF Guarded
      <3>4. i + 1 \in DOMAIN u /\ u[i + 1] = t[j + 1]
        BY <1>1, <1>2, <3>1, <3>3
      <3> QED BY <3>2, <3>3, <3>4
    <2> QED BY <1>2, <2>1, <2>2
  <1> QED BY <1>3 DEF Guarded, u

\* Nothing that the contract is about.
Layered(s) ==
    /\ IsList(s) /\ \A x \in ToSet(s) : x.op \in {"RUN", "ARG", "ENV"}
    /\ Guarded(s)

LEMMA LayeredFacts ==
    /\ Layered(<<>>)
    /\ \A x : x.op \in {"RUN", "ENV"} => Layered(<<x>>)
    /\ \A s, t : Layered(s) /\ Layered(t) => Layered(s \o t)
    /\ \A s, wanted : Layered(s) => Layered(When(wanted, s))
  <1>1. Layered(<<>>)
    BY SmallLists DEF Layered, Guarded
  <1>2. ASSUME NEW x, x.op \in {"RUN", "ENV"} PROVE Layered(<<x>>)
    <2>1. IsList(<<x>>) /\ ToSet(<<x>>) = {x}
      BY SmallLists
    <2>2. \A i \in DOMAIN <<x>> : <<x>>[i].op # "ARG"
      BY <1>2
    <2> QED BY <1>2, <2>1, <2>2 DEF Layered, Guarded
  <1>3. ASSUME NEW s, NEW t, Layered(s), Layered(t) PROVE Layered(s \o t)
    <2>1. IsList(s \o t) /\ ToSet(s \o t) = ToSet(s) \cup ToSet(t)
      BY <1>3, JoinFacts DEF Layered
    <2>2. Guarded(s \o t)
      BY <1>3, GuardedJoin DEF Layered
    <2> QED BY <1>3, <2>1, <2>2 DEF Layered
  <1>4. ASSUME NEW s, NEW wanted, Layered(s) PROVE Layered(When(wanted, s))
    BY <1>1, <1>4 DEF When
  <1> QED BY <1>1, <1>2, <1>3, <1>4

LEMMA RunIsLayer ==
    ASSUME NEW part, NEW words PROVE Layered(<<Run(part, words)>>)
  BY LayeredFacts DEF Run, Instruction

LEMMA RootLayered ==
    ASSUME NEW want PROVE Layered(rootLayers(want))
  <1> DEFINE base   == <<Run("base", <<"agent-state">>)>>
             review == reviewLayers
             tmux   == <<Run("tmux", <<>>), Run("chafa", <<>>)>>
             gh     == <<Run("gh", <<>>)>>
             go     == <<Run("go", <<>>)>>
             node   == <<Run("node", <<>>)>>
             rokit  == <<Run("rokit", <<"unzip">>)>>
  <1>1. rootLayers(want) =
          (((base \o When(wantsAgent(want), (tmux \o review) \o gh))
            \o When("go" \in want, go)) \o When("node" \in want, node)) \o When("rokit" \in want, rokit)
    BY DEF rootLayers
  <1>2. Layered(base) /\ Layered(gh) /\ Layered(go) /\ Layered(node) /\ Layered(rokit)
    BY RunIsLayer
  <1>3. Layered(tmux)
    <2>1. tmux = <<Run("tmux", <<>>)>> \o <<Run("chafa", <<>>)>>
      OBVIOUS
    <2>2. Layered(<<Run("tmux", <<>>)>>) /\ Layered(<<Run("chafa", <<>>)>>)
      BY RunIsLayer
    <2> HIDE DEF tmux
    <2> QED BY <2>1, <2>2, LayeredFacts
  <1>4. Layered(review)
    <2>1. review = (<<Run("review", <<>>)>> \o <<Run("plugins", <<>>)>>) \o <<Run("parsers", <<>>)>>
      BY DEF reviewLayers
    <2>2. Layered(<<Run("review", <<>>)>>) /\ Layered(<<Run("plugins", <<>>)>>) /\ Layered(<<Run("parsers", <<>>)>>)
      BY RunIsLayer
    <2> HIDE DEF review
    <2> QED BY <2>1, <2>2, LayeredFacts
  <1> HIDE DEF base, review, tmux, gh, go, node, rokit
  <1>5. Layered(When(wantsAgent(want), (tmux \o review) \o gh))
    BY <1>2, <1>3, <1>4, LayeredFacts
  <1>6. /\ Layered(When("go" \in want, go)) /\ Layered(When("node" \in want, node))
        /\ Layered(When("rokit" \in want, rokit))
    BY <1>2, LayeredFacts
  <1> QED BY <1>1, <1>2, <1>5, <1>6, LayeredFacts

LEMMA Pair ==
    ASSUME NEW x, NEW y PROVE <<x>> \o <<y>> = <<x, y>>
  <1> DEFINE S == {x, y}
  <1>1. <<x>> \in Seq(S) /\ <<y>> \in Seq(S) /\ <<x, y>> \in Seq(S)
    OBVIOUS
  <1>2. <<x>> \o <<y>> \in Seq(S)
    BY <1>1
  <1>3. Len(<<x>>) = 1 /\ Len(<<y>>) = 1 /\ Len(<<x, y>>) = 2 /\ <<x>>[1] = x /\ <<y>>[1] = y
        /\ <<x, y>>[1] = x /\ <<x, y>>[2] = y
    OBVIOUS
  <1>4. Len(<<x>> \o <<y>>) = 2
    BY <1>1, <1>3
  <1>5. (<<x>> \o <<y>>)[1] = x /\ (<<x>> \o <<y>>)[2] = y
    BY <1>1, <1>3
  <1> HIDE DEF S
  <1>6. ASSUME NEW s \in Seq(S), NEW t \in Seq(S), Len(s) = 2, Len(t) = 2, s[1] = t[1], s[2] = t[2] PROVE s = t
    BY <1>6
  <1> QED BY <1>1, <1>2, <1>3, <1>4, <1>5, <1>6

LEMMA AgentLayered ==
    ASSUME NEW agents, NEW kind, NEW busting PROVE Layered(AgentLayer(agents, kind, busting))
  <1>1. PICK bust, words : AgentLayer(agents, kind, busting) = refreshArgDecl(bust, kind) \o <<Run(kind, words)>>
    BY Zenon DEF AgentLayer
  <1> DEFINE run == Run(kind, words)
             arg == Instruction("ARG", kind, <<kind>>)
  <1>2. /\ arg.op = "ARG" /\ arg.part = kind /\ run.op = "RUN" /\ run.part = kind
    BY DEF Run, Instruction
  <1>3. Layered(<<run>>)
    BY RunIsLayer
  <1>4. CASE bust
    <2>1. refreshArgDecl(bust, kind) = <<arg>>
      BY <1>4 DEF refreshArgDecl, When
    <2> HIDE DEF run, arg
    <2> DEFINE s == <<arg>> \o <<run>>
    <2>2. /\ IsList(s) /\ ToSet(s) = {arg, run} /\ DOMAIN s = 1 .. 2
          /\ s[1] = arg /\ s[2] = run
      <3>1. IsList(<<arg>>) /\ ToSet(<<arg>>) = {arg} /\ IsList(<<run>>) /\ ToSet(<<run>>) = {run}
        BY SmallLists
      <3>2. IsList(s) /\ ToSet(s) = {arg} \cup {run}
        BY <3>1, JoinFacts
      <3>3. s = <<arg, run>>
        BY Pair
      <3>4. DOMAIN <<arg, run>> = 1 .. 2 /\ <<arg, run>>[1] = arg /\ <<arg, run>>[2] = run
        OBVIOUS
      <3> QED BY <3>2, <3>3, <3>4
    <2> HIDE DEF s
    <2>3. Layered(s)
      BY <1>2, <2>2 DEF Layered, Guarded
    <2> QED BY <1>1, <2>1, <2>3 DEF s, run
  <1>5. CASE ~bust
    <2>1. refreshArgDecl(bust, kind) = <<>>
      BY <1>5 DEF refreshArgDecl, When
    <2>2. Layered(refreshArgDecl(bust, kind))
      BY <2>1, LayeredFacts
    <2> QED BY <1>1, <1>3, <2>2, LayeredFacts DEF run
  <1> QED BY <1>4, <1>5

LEMMA UserLayered ==
    ASSUME NEW want, NEW agents, NEW busting PROVE Layered(userLayers(want, agents, busting))
  <1> DEFINE bun    == When("bun" \in want, <<Run("bun", <<>>)>>)
             rokit  == When("rokit" \in want, <<Run("rokit", <<>>)>>)
             uv     == When("uv" \in want, <<Run("uv", <<>>)>>)
             agent(kind) == When(kind \in want, AgentLayer(agents, kind, busting))
  <1>1. userLayers(want, agents, busting) =
          ((((bun \o rokit) \o uv) \o agent("codex")) \o agent("grok")) \o agent("claude")
    BY DEF userLayers
  <1>2. Layered(bun) /\ Layered(rokit) /\ Layered(uv)
    BY RunIsLayer, LayeredFacts
  <1>3. \A kind : Layered(agent(kind))
    BY AgentLayered, LayeredFacts
  <1> HIDE DEF bun, rokit, uv, agent
  <1> QED BY <1>1, <1>2, <1>3, LayeredFacts

\* A place of a joined list beyond its first part.
LEMMA Beyond ==
    ASSUME NEW n \in Nat, NEW m \in Nat, NEW i \in 1 .. n + m, i > n
    PROVE  i - n \in 1 .. m /\ i = n + (i - n)
  OBVIOUS

\* The Dockerfile up to its last USER, and the layers after it.
LEMMA ValidByParts ==
    ASSUME NEW before, NEW after, NEW user, NEW d, d = (before \o <<user>>) \o after,
           IsList(before), Len(before) > 1,
           before[1] = DeclareBase, before[2] = Instruction("FROM", "base", <<BaseImageArg>>),
           \A i \in 3 .. Len(before) : /\ before[i].op \in {"RUN", "ARG", "ENV", "USER"}
                                       /\ before[i].op = "USER" => before[i].words # <<>>,
           user = Instruction("USER", "base", <<"vscode">>),
           Layered(after)
    PROVE  IsList(d) /\ Len(d) > 0 /\ ValidateDockerfile(d)
  <1> DEFINE n == Len(before)
             m == Len(after)
             s == before \o <<user>>
  <1>1. n \in Nat /\ m \in Nat /\ n > 1 /\ IsList(after)
    BY ListFacts DEF Layered
  <1>2. /\ IsList(s) /\ Len(s) = n + 1 /\ s[n + 1] = user
        /\ \A i \in 1 .. n : s[i] = before[i]
    <2>1. IsList(<<user>>) /\ Len(<<user>>) = 1 /\ <<user>>[1] = user /\ 1 \in 1 .. 1
      BY SmallLists
    <2>2. /\ IsList(s) /\ Len(s) = n + Len(<<user>>)
          /\ \A i \in 1 .. n : s[i] = before[i]
          /\ \A i \in 1 .. Len(<<user>>) : s[n + i] = <<user>>[i]
      BY <2>1, JoinFacts
    <2> HIDE DEF s, n
    <2> QED BY <2>1, <2>2
  <1>3. /\ IsList(d) /\ Len(d) = (n + 1) + m
        /\ \A i \in 1 .. n + 1 : d[i] = s[i]
        /\ \A i \in 1 .. m : d[(n + 1) + i] = after[i]
    BY <1>1, <1>2, JoinFacts
  <1> HIDE DEF s, n, m
  <1>4. DOMAIN d = 1 .. (n + 1) + m /\ Len(d) \in Nat
    BY <1>3, ListFacts
  <1>5. /\ d[1] = DeclareBase /\ d[2] = Instruction("FROM", "base", <<BaseImageArg>>)
        /\ d[n + 1] = user
        /\ \A i \in 3 .. n : /\ d[i].op \in {"RUN", "ARG", "ENV", "USER"}
                             /\ d[i].op = "USER" => d[i].words # <<>>
    BY <1>1, <1>2, <1>3 DEF n
  <1>6. \A i \in DOMAIN d : i > n + 1 => d[i].op \in {"RUN", "ARG", "ENV"}
    <2> SUFFICES ASSUME NEW i \in DOMAIN d, i > n + 1 PROVE d[i].op \in {"RUN", "ARG", "ENV"}
      OBVIOUS
    <2>1. i - (n + 1) \in 1 .. m /\ i = (n + 1) + (i - (n + 1))
      <3>1. n + 1 \in Nat /\ i \in 1 .. (n + 1) + m
        BY <1>1, <1>4
      <3> QED BY <1>1, <3>1, Beyond
    <2>2. d[i] = after[i - (n + 1)]
      BY <1>3, <2>1
    <2>3. DOMAIN after = 1 .. m
      BY <1>1, ListFacts DEF m
    <2> QED BY <2>1, <2>2, <2>3 DEF Layered, ToSet
  <1>7. /\ d[1].op = "ARG" /\ d[2].op = "FROM" /\ d[2].words = <<BaseImageArg>>
        /\ d[n + 1].op = "USER" /\ d[n + 1].words = <<"vscode">>
    <2>1. d[1].op = "ARG" /\ d[2].op = "FROM" /\ d[2].words = <<BaseImageArg>>
      BY <1>5 DEF Instruction, DeclareBase
    <2>2. user.op = "USER" /\ user.words = <<"vscode">>
      BY DEF Instruction
    <2> QED BY <1>5, <2>1, <2>2
  <1>8. \A i \in DOMAIN d : i = 1 \/ i = 2 \/ i \in 3 .. n \/ i = n + 1 \/ i > n + 1
    BY <1>1, <1>4
  <1>9. \A i \in DOMAIN d : /\ d[i].op \in {"RUN", "ARG", "ENV", "USER", "FROM"}
                            /\ d[i].op = "USER" => d[i].words # <<>>
                            /\ d[i].op = "FROM" => i = 2
                            /\ d[i].op = "USER" => i <= n + 1
    <2> SUFFICES ASSUME NEW i \in DOMAIN d
                 PROVE  /\ d[i].op \in {"RUN", "ARG", "ENV", "USER", "FROM"}
                        /\ d[i].op = "USER" => d[i].words # <<>>
                        /\ d[i].op = "FROM" => i = 2
                        /\ d[i].op = "USER" => i <= n + 1
      OBVIOUS
    <2>1. CASE i = 1
      BY <1>1, <1>7, <2>1
    <2>2. CASE i = 2
      BY <1>1, <1>7, <2>2
    <2>3. CASE i \in 3 .. n
      <3>1. d[i].op \in {"RUN", "ARG", "ENV", "USER"} /\ (d[i].op = "USER" => d[i].words # <<>>)
        BY <1>5, <2>3
      <3>2. i <= n + 1
        BY <1>1, <2>3
      <3> QED BY <3>1, <3>2
    <2>4. CASE i = n + 1
      <3>1. d[i].op = "USER" /\ d[i].words # <<>>
        <4>1. d[i] = d[n + 1]
          BY <2>4
        <4>2. d[n + 1].words # <<>>
          <5>1. <<"vscode">> # <<>>
            OBVIOUS
          <5> QED BY <1>7, <5>1
        <4> QED BY <1>7, <4>1, <4>2, Zenon
      <3>2. i <= n + 1
        BY <1>1, <2>4
      <3> QED BY <3>1, <3>2
    <2>5. CASE i > n + 1
      BY <1>6, <2>5
    <2> QED BY <1>8, <2>1, <2>2, <2>3, <2>4, <2>5
  <1>10. 1 \in DOMAIN d /\ 2 \in DOMAIN d /\ n + 1 \in DOMAIN d
    BY <1>1, <1>4
  <1>11. Instructions(d, "FROM") = {2}
    BY <1>7, <1>9, <1>10 DEF Instructions
  <1>12. \A i \in Instructions(d, "USER") :
            (\A j \in Instructions(d, "USER") : j <= i) => d[i].words[1] = "vscode"
    <2> SUFFICES ASSUME NEW i \in Instructions(d, "USER"), \A j \in Instructions(d, "USER") : j <= i
                 PROVE  d[i].words[1] = "vscode"
      OBVIOUS
    <2>1. n + 1 \in Instructions(d, "USER")
      BY <1>7, <1>10 DEF Instructions
    <2>2. i <= n + 1 /\ n + 1 <= i /\ i \in DOMAIN d
      BY <1>9, <2>1 DEF Instructions
    <2>3. i = n + 1
      BY <1>1, <1>4, <2>2
    <2>4. d[i].words = <<"vscode">>
      BY <1>7, <2>3, Zenon
    <2>5. <<"vscode">>[1] = "vscode"
      OBVIOUS
    <2> QED BY <2>4, <2>5, Zenon
  <1>13. DeclareBase \in ToSet(d)
    BY <1>5, <1>10 DEF ToSet
  <1>14. \A x \in ToSet(d) : /\ x.op \in {"RUN", "ARG", "ENV", "USER", "FROM"}
                             /\ x.op = "USER" => x.words # <<>>
    BY <1>9 DEF ToSet
  <1>15. <<BaseImageArg>> # <<>> /\ <<BaseImageArg>>[1] = BaseImageArg
    OBVIOUS
  <1>16. Len(d) > 0
    BY <1>1, <1>3
  <1>17. \A x \in ToSet(d) : /\ x.op \notin {"#syntax", "ADD", "ONBUILD"} /\ x.op # "COPY"
                             /\ x.op = "USER" => x.words # <<>>
    BY <1>14
  <1>18. ValidateDockerfile(d)
    <2> DEFINE from  == Instructions(d, "FROM")
               users == Instructions(d, "USER")
    <2>1. \E i \in from : /\ from = {i}
                          /\ d[i].words # <<>> /\ d[i].words[1] = BaseImageArg
      BY <1>7, <1>11, <1>15
    <2>2. \A x \in ToSet(d) : /\ x.op \notin {"#syntax", "ADD", "ONBUILD"}
                              /\ x.op = "COPY" => "--from" \notin ToSet(x.words)
                              /\ x.op = "USER" => x.words # <<>>
      BY <1>17
    <2> HIDE DEF from, users
    <2> QED BY <1>12, <1>13, <2>1, <2>2, Zenon DEF ValidateDockerfile, from, users
  <1> QED BY <1>3, <1>16, <1>18

\* The generated Dockerfile always meets the contract.
LEMMA GeneratedIsValid ==
    ASSUME NEW agents, NEW toolchains, NEW busting,
           NEW d, d = GenerateInstallPlan(agents, toolchains, busting)
    PROVE  IsList(d) /\ Len(d) > 0 /\ ValidateDockerfile(d)
  <1> DEFINE want  == Want(agents, toolchains)
             path  == pathEntries(want)
             from  == Instruction("FROM", "base", <<BaseImageArg>>)
             top   == <<DeclareBase, from>>
             env   == When(path # <<>>, <<Instruction("ENV", "base", path)>>)
             root  == Instruction("USER", "base", <<"root">>)
             user  == Instruction("USER", "base", <<"vscode">>)
             rooted == rootLayers(want)
             after  == userLayers(want, agents, busting)
             before == ((top \o env) \o <<root>>) \o rooted
  <1>1. d = (before \o <<user>>) \o after
    BY Zenon DEF GenerateInstallPlan
  <1>2. Layered(after) /\ Layered(rooted)
    BY UserLayered, RootLayered
  <1>3. Layered(env)
    <2>1. Layered(<<Instruction("ENV", "base", path)>>)
      <3> HIDE DEF path
      <3> QED BY LayeredFacts DEF Instruction
    <2> HIDE DEF path
    <2> QED BY <2>1, LayeredFacts
  <1>4. IsList(top) /\ Len(top) = 2 /\ top[1] = DeclareBase /\ top[2] = from
    <2> HIDE DEF from
    <2> QED BY DEF IsList, ToSet
  <1>5. IsList(<<root>>) /\ ToSet(<<root>>) = {root} /\ Len(<<root>>) = 1
    <2> HIDE DEF root
    <2> QED BY SmallLists
  <1>6. root.op = "USER" /\ root.words # <<>>
    BY DEF Instruction
  <1> HIDE DEF want, path, from, top, env, root, rooted, after
  <1> DEFINE Fine(x) == x.op \in {"RUN", "ARG", "ENV", "USER"} /\ (x.op = "USER" => x.words # <<>>)
             Grown(s) == /\ IsList(s) /\ Len(s) > 1 /\ s[1] = DeclareBase /\ s[2] = from
                         /\ \A i \in 3 .. Len(s) : Fine(s[i])
  <1>7. ASSUME NEW s, NEW t, Grown(s), IsList(t), \A x \in ToSet(t) : Fine(x)
        PROVE  Grown(s \o t)
    <2> DEFINE u == s \o t
    <2>1. /\ IsList(u) /\ Len(u) = Len(s) + Len(t)
          /\ \A i \in 1 .. Len(s) : u[i] = s[i]
          /\ \A i \in 1 .. Len(t) : u[Len(s) + i] = t[i]
      BY <1>7, JoinFacts
    <2>2. Len(s) \in Nat /\ Len(t) \in Nat /\ DOMAIN t = 1 .. Len(t) /\ Len(s) > 1
      BY <1>7, ListFacts
    <2> HIDE DEF u, Fine
    <2>3. ASSUME NEW i \in 3 .. Len(u) PROVE Fine(u[i])
      <3>1. CASE i <= Len(s)
        BY <1>7, <2>1, <2>2, <3>1
      <3>2. CASE i > Len(s)
        <4>1. i - Len(s) \in 1 .. Len(t) /\ i = Len(s) + (i - Len(s))
          BY <2>1, <2>2, <3>2
        <4>2. u[i] = t[i - Len(s)]
          BY <2>1, <4>1
        <4> QED BY <1>7, <2>2, <4>1, <4>2 DEF ToSet
      <3> QED BY <2>1, <2>2, <3>1, <3>2
    <2>4. Len(u) > 1 /\ u[1] = DeclareBase /\ u[2] = from
      BY <1>7, <2>1, <2>2
    <2> QED BY <2>1, <2>3, <2>4 DEF u
  <1>8. Grown(top)
    BY <1>4
  <1>9. \A s : Layered(s) => IsList(s) /\ \A x \in ToSet(s) : Fine(x)
    BY DEF Layered
  <1>10. Fine(root)
    BY <1>6
  <1> HIDE DEF Fine, Grown
  <1>11. Grown(top \o env)
    BY <1>3, <1>7, <1>8, <1>9
  <1>12. Grown((top \o env) \o <<root>>)
    BY <1>5, <1>7, <1>10, <1>11
  <1>13. Grown(before)
    BY <1>2, <1>7, <1>9, <1>12
  <1> HIDE DEF before
  <1>14. /\ IsList(before) /\ Len(before) > 1 /\ before[1] = DeclareBase /\ before[2] = from
         /\ \A i \in 3 .. Len(before) : Fine(before[i])
    BY <1>13 DEF Grown
  <1> QED BY <1>1, <1>2, <1>14, ValidByParts DEF Fine, from

-----------------------------------------------------------------------------
(* What the compilation refuses.                                           *)

\* The engine's targets are apart from each other.
LEMMA ReservedApart ==
    ASSUME NEW r \in ReservedTargets, NEW q \in ReservedTargets, Overlap(r, q)
    PROVE  r = q
  <1> DEFINE S == {"workspace", "vibe", "payload", "agent-state", "results", "run", "user", "1000", "dns"}
  <1>1. ASSUME NEW s \in ReservedTargets
        PROVE  s \in Seq(S) /\ Len(s) \in Nat /\ Len(s) > 0
    <2>1. /\ \A x \in S : <<x>> \in Seq(S)
          /\ \A x, y \in S : <<x, y>> \in Seq(S)
          /\ \A x, y, z \in S : <<x, y, z>> \in Seq(S)
      OBVIOUS
    <2>2. /\ "workspace" \in S /\ "vibe" \in S /\ "payload" \in S /\ "agent-state" \in S
          /\ "results" \in S /\ "run" \in S /\ "user" \in S /\ "1000" \in S /\ "dns" \in S
      OBVIOUS
    <2> HIDE DEF S
    <2>3. \A u \in ReservedTargets : u \in Seq(S)
      <3>1. WorkspaceTarget \in Seq(S) /\ PayloadTarget \in Seq(S) /\ AgentStateTarget \in Seq(S)
        BY <2>1, <2>2, Zenon DEF WorkspaceTarget, PayloadTarget, AgentStateTarget
      <3>2. ResultsTarget \in Seq(S) /\ RuntimeDirTarget \in Seq(S) /\ DNSConfTarget \in Seq(S)
        BY <2>1, <2>2, Zenon DEF ResultsTarget, RuntimeDirTarget, DNSConfTarget
      <3> QED BY <3>1, <3>2, Zenon DEF ReservedTargets
    <2>4. s # <<>>
      BY DEF ReservedTargets, WorkspaceTarget, PayloadTarget, AgentStateTarget, ResultsTarget,
             RuntimeDirTarget, DNSConfTarget
    <2> QED BY <2>3, <2>4
  <1> HIDE DEF S
  <1>2. ASSUME NEW s \in ReservedTargets, NEW t \in ReservedTargets, IsPrefix(s, t)
        PROVE  \A i \in 1 .. Len(s) : s[i] = t[i]
    <2>1. s \in Seq(S) /\ t \in Seq(S) /\ Len(s) \in Nat /\ Len(t) \in Nat /\ Len(s) <= Len(t)
      BY <1>1, <1>2 DEF IsPrefix
    <2>2. \A i \in 1 .. Len(s) : SubSeq(s, 1, Len(s))[i] = s[i] /\ SubSeq(t, 1, Len(s))[i] = t[i]
      BY <2>1
    <2> QED BY <1>2, <2>2 DEF IsPrefix
  <1>3. \A s \in ReservedTargets : Len(s) = 2 \/ s[1] \in {"workspace", "run"}
    BY DEF ReservedTargets, WorkspaceTarget, PayloadTarget, AgentStateTarget, ResultsTarget,
           RuntimeDirTarget, DNSConfTarget
  <1>4. \A s, t \in ReservedTargets : s[1] = t[1] => s = t \/ (Len(s) = 2 /\ Len(t) = 2 /\ s[2] # t[2])
    BY DEF ReservedTargets, WorkspaceTarget, PayloadTarget, AgentStateTarget, ResultsTarget,
           RuntimeDirTarget, DNSConfTarget
  <1>5. ASSUME NEW s \in ReservedTargets, NEW t \in ReservedTargets, IsPrefix(s, t) PROVE s = t
    <2>1. s[1] = t[1]
      BY <1>1, <1>2, <1>5
    <2>2. Len(s) = 2 => s[2] = t[2]
      BY <1>2, <1>5
    <2> QED BY <1>4, <2>1, <2>2
  <1> QED BY <1>5 DEF Overlap

\* The engine's own mounts are valid, and on targets of their own.
LEMMA OwnMountsValid ==
    ASSUME NEW in, NEW own, own = OwnMounts(in)
    PROVE  /\ \A x \in ToSet(own) : ValidMount(x) /\ x.target \in ReservedTargets
           /\ \A i, j \in DOMAIN own : i # j => ~Overlap(own[i].target, own[j].target)
  <1> DEFINE a == Mount("bind", <<"root">>, WorkspaceTarget, FALSE)
             b == VolumeMount(AgentStateVolumeName, AgentStateTarget)
             c == TmpfsMount(RuntimeDirTarget)
             d == BindMount(<<"payload", in.artifact>>, PayloadTarget)
             e == BindMount(<<"results">>, ResultsTarget)
  <1>1. \/ in.artifact = Unset /\ own = (<<a, b, c>> \o <<>>) \o <<e>>
        \/ in.artifact # Unset /\ own = (<<a, b, c>> \o <<d>>) \o <<e>>
    BY DEF OwnMounts
  <1>2. /\ a.target = WorkspaceTarget /\ b.target = AgentStateTarget /\ c.target = RuntimeDirTarget
        /\ d.target = PayloadTarget /\ e.target = ResultsTarget
    BY DEF Mount, VolumeMount, TmpfsMount, BindMount
  <1>3. /\ WorkspaceTarget \in ReservedTargets /\ AgentStateTarget \in ReservedTargets
        /\ RuntimeDirTarget \in ReservedTargets /\ PayloadTarget \in ReservedTargets
        /\ ResultsTarget \in ReservedTargets
    BY DEF ReservedTargets
  <1>4. ValidMount(a) /\ ValidMount(b) /\ ValidMount(c) /\ ValidMount(d) /\ ValidMount(e)
    <2>1. /\ WorkspaceTarget # <<>> /\ AgentStateTarget # <<>> /\ RuntimeDirTarget # <<>>
          /\ PayloadTarget # <<>> /\ ResultsTarget # <<>>
      BY DEF WorkspaceTarget, PayloadTarget, AgentStateTarget, ResultsTarget, RuntimeDirTarget
    <2>2. <<"root">> # <<>> /\ <<"results">> # <<>> /\ AgentStateVolumeName # <<>>
      BY DEF AgentStateVolumeName
    <2>3. <<"payload", in.artifact>> # <<>>
      OBVIOUS
    <2>4. ValidMount(a)
      BY <2>1, <2>2 DEF ValidMount, Mount
    <2>5. ValidMount(b)
      BY <2>1, <2>2 DEF ValidMount, Mount, VolumeMount
    <2>6. ValidMount(c)
      BY <2>1 DEF ValidMount, Mount, TmpfsMount
    <2>7. ValidMount(d)
      BY <2>1, <2>3 DEF ValidMount, Mount, BindMount
    <2>8. ValidMount(e)
      BY <2>1, <2>2 DEF ValidMount, Mount, BindMount
    <2> QED BY <2>4, <2>5, <2>6, <2>7, <2>8
  <1>5. /\ WorkspaceTarget # AgentStateTarget /\ WorkspaceTarget # RuntimeDirTarget
        /\ WorkspaceTarget # PayloadTarget /\ WorkspaceTarget # ResultsTarget
        /\ AgentStateTarget # RuntimeDirTarget /\ AgentStateTarget # PayloadTarget
        /\ AgentStateTarget # ResultsTarget /\ RuntimeDirTarget # PayloadTarget
        /\ RuntimeDirTarget # ResultsTarget /\ PayloadTarget # ResultsTarget
    BY DEF WorkspaceTarget, PayloadTarget, AgentStateTarget, ResultsTarget, RuntimeDirTarget
  <1> HIDE DEF a, b, c, d, e
  <1>6. \/ /\ DOMAIN own = 1 .. 4
           /\ own[1] = a /\ own[2] = b /\ own[3] = c /\ own[4] = e
        \/ /\ DOMAIN own = 1 .. 5
           /\ own[1] = a /\ own[2] = b /\ own[3] = c /\ own[4] = d /\ own[5] = e
    <2> DEFINE s == <<a, b, c>>
    <2>1. IsList(s) /\ Len(s) = 3 /\ s[1] = a /\ s[2] = b /\ s[3] = c
      <3>1. a \in ToSet(s) /\ b \in ToSet(s) /\ c \in ToSet(s)
        BY DEF ToSet
      <3>2. \A T : a \in T /\ b \in T /\ c \in T => s \in Seq(T)
        OBVIOUS
      <3> QED BY <3>1, <3>2 DEF IsList
    <2> HIDE DEF s
    <2>2. ASSUME NEW t, IsList(t), NEW x, NEW u, u = t \o <<x>>
          PROVE  /\ IsList(u) /\ Len(u) = Len(t) + 1
                 /\ \A i \in 1 .. Len(t) : u[i] = t[i]
                 /\ u[Len(t) + 1] = x
      <3>1. IsList(<<x>>) /\ Len(<<x>>) = 1 /\ <<x>>[1] = x
        BY SmallLists
      <3> QED BY <2>2, <3>1, JoinFacts
    <2>3. CASE own = (s \o <<>>) \o <<e>>
      <3>1. own = s \o <<e>>
        BY <2>1, <2>3 DEF IsList
      <3>2. /\ IsList(own) /\ Len(own) = Len(s) + 1
            /\ \A i \in 1 .. Len(s) : own[i] = s[i]
            /\ own[Len(s) + 1] = e
        BY <2>1, <2>2, <3>1, Zenon
      <3>3. Len(own) = 4 /\ own[1] = s[1] /\ own[2] = s[2] /\ own[3] = s[3] /\ own[4] = e
        BY <2>1, <3>2
      <3> QED BY <2>1, <3>2, <3>3, ListFacts
    <2>4. CASE own = (s \o <<d>>) \o <<e>>
      <3> DEFINE t == s \o <<d>>
      <3>1. /\ IsList(t) /\ Len(t) = Len(s) + 1
            /\ \A i \in 1 .. Len(s) : t[i] = s[i]
            /\ t[Len(s) + 1] = d
        BY <2>1, <2>2, Zenon
      <3>2. own = t \o <<e>>
        BY <2>4
      <3> HIDE DEF t
      <3>3. /\ IsList(own) /\ Len(own) = Len(t) + 1
            /\ \A i \in 1 .. Len(t) : own[i] = t[i]
            /\ own[Len(t) + 1] = e
        BY <2>2, <3>1, <3>2, Zenon
      <3>4. Len(t) = 4 /\ t[1] = s[1] /\ t[2] = s[2] /\ t[3] = s[3] /\ t[4] = d
        BY <2>1, <3>1
      <3>5. /\ Len(own) = 5 /\ own[1] = t[1] /\ own[2] = t[2] /\ own[3] = t[3]
            /\ own[4] = t[4] /\ own[5] = e
        BY <3>3, <3>4
      <3> QED BY <2>1, <3>3, <3>4, <3>5, ListFacts
    <2> QED BY <1>1, <2>3, <2>4 DEF s
  <1>7. \A x \in ToSet(own) : x \in {a, b, c, d, e}
    BY <1>6 DEF ToSet
  <1>8. \A i, j \in DOMAIN own : i # j => own[i].target # own[j].target
    BY <1>2, <1>5, <1>6
  <1>9. \A i \in DOMAIN own : own[i].target \in ReservedTargets
    BY <1>2, <1>3, <1>7 DEF ToSet
  <1>10. \A i, j \in DOMAIN own : i # j => ~Overlap(own[i].target, own[j].target)
    BY <1>8, <1>9, ReservedApart
  <1> QED BY <1>2, <1>3, <1>4, <1>7, <1>10

\* So the dev container's mounts can only clash among the imports.
LEMMA DevMountsValid ==
    ASSUME NEW in, Document(in.m), Validate(in.m), ~AsksForAClash(in.m)
    PROVE  validateMounts(DevMounts(in))
  <1> DEFINE own == OwnMounts(in)
             s   == ImportMounts(in)
             f   == FreeImports(in.m)
             all == DevMounts(in)
             at(i) == in.m.imports[i].target.at
  <1>1. all = own \o s
    BY Zenon DEF DevMounts, OwnMounts, ImportMounts
  <1>2. IsList(in.m.imports)
    BY DEF Document
  <1>3. IsList(own) /\ IsList(s) /\ IsList(f) /\ Len(s) = Len(f)
    BY <1>2, OwnMountsFacts, ImportMountsFacts, FreeImportsFacts
  <1>4. \A j \in DOMAIN s : s[j] = ImportMount(f[j], in.m)
    BY <1>2, ImportMountsFacts
  <1>5. /\ \A x \in ToSet(own) : ValidMount(x) /\ x.target \in ReservedTargets
        /\ \A i, j \in DOMAIN own : i # j => ~Overlap(own[i].target, own[j].target)
    BY OwnMountsValid
  <1>6. /\ IsInjective(f) /\ \A j \in DOMAIN f : f[j] \in DOMAIN in.m.imports
        /\ \A j \in DOMAIN f : reservedTargetFor(at(f[j])) = {}
    BY <1>2, FreeImportsFacts
  <1> HIDE DEF own, s, f, all
  <1>7. /\ Len(own) \in Nat /\ DOMAIN own = 1 .. Len(own)
        /\ Len(s) \in Nat /\ DOMAIN s = 1 .. Len(s) /\ DOMAIN f = 1 .. Len(s)
    BY <1>3, ListFacts
  <1>8. /\ IsList(all) /\ Len(all) = Len(own) + Len(s)
        /\ ToSet(all) = ToSet(own) \cup ToSet(s)
        /\ \A i \in 1 .. Len(own) : all[i] = own[i]
        /\ \A i \in 1 .. Len(s) : all[Len(own) + i] = s[i]
    <2>1. IsList(own) /\ IsList(s)
      BY <1>3
    <2> HIDE DEF own, s, all
    <2>2. \A u : u = own \o s =>
             /\ IsList(u) /\ Len(u) = Len(own) + Len(s)
             /\ ToSet(u) = ToSet(own) \cup ToSet(s)
             /\ \A i \in 1 .. Len(own) : u[i] = own[i]
             /\ \A i \in 1 .. Len(s) : u[Len(own) + i] = s[i]
      BY <2>1, JoinFacts
    <2> QED BY <1>1, <2>2, Zenon
  <1>9. DOMAIN all = 1 .. Len(own) + Len(s)
    BY <1>8, ListFacts
  <1>10. \A j \in DOMAIN s : s[j].target = at(f[j]) /\ f[j] \in DOMAIN in.m.imports
    <2>1. \A i : ImportMount(i, in.m).target = at(i)
      BY DEF ImportMount, BindMount, Mount
    <2> QED BY <1>4, <1>6, <1>7, <2>1
  <1>11. \A x \in ToSet(s) : ValidMount(x)
    <2> SUFFICES ASSUME NEW j \in DOMAIN s PROVE ValidMount(s[j])
      BY DEF ToSet
    <2> DEFINE i == f[j]
    <2>1. i \in DOMAIN in.m.imports /\ s[j] = ImportMount(i, in.m)
      BY <1>4, <1>10
    <2> HIDE DEF i
    <2>2. at(i) # <<>>
      BY <2>1 DEF Validate, ValidRuntime, containerTarget, ToSet
    <2>3. <<"imports", i>> # <<>>
      OBVIOUS
    <2>4. ValidMount(BindMount(<<"imports", i>>, at(i)))
      BY <2>2, <2>3 DEF ValidMount, BindMount, Mount
    <2> QED BY <2>1, <2>4 DEF ImportMount
  <1>12. \A x \in ToSet(all) : ValidMount(x)
    BY <1>5, <1>8, <1>11
  <1>13. ASSUME NEW i \in DOMAIN own, NEW j \in DOMAIN s
         PROVE  ~Overlap(own[i].target, s[j].target)
    <2>1. own[i].target \in ReservedTargets
      BY <1>5 DEF ToSet
    <2>2. ~Overlap(s[j].target, own[i].target)
      BY <1>6, <1>7, <1>10, <2>1 DEF reservedTargetFor
    <2> QED BY <2>2 DEF Overlap
  <1>14. ASSUME NEW i \in DOMAIN s, NEW j \in DOMAIN s, i # j
         PROVE  ~Overlap(s[i].target, s[j].target)
    <2>1. f[i] # f[j]
      BY <1>6, <1>7, <1>14 DEF IsInjective
    <2> QED BY <1>10, <1>14, <2>1 DEF AsksForAClash
  <1>15. ASSUME NEW i \in DOMAIN all, NEW j \in DOMAIN all, i < j
         PROVE  ~Overlap(all[i].target, all[j].target)
    <2>0. i \in Nat /\ j \in Nat
      BY <1>9
    <2>1. CASE j <= Len(own)
      <3>1. i \in DOMAIN own /\ j \in DOMAIN own /\ all[i] = own[i] /\ all[j] = own[j] /\ i # j
        BY <1>7, <1>8, <1>9, <1>15, <2>1
      <3> QED BY <1>5, <3>1
    <2>2. CASE i <= Len(own) /\ j > Len(own)
      <3>1. i \in DOMAIN own /\ all[i] = own[i]
        BY <1>7, <1>8, <1>9, <2>2
      <3>2. j - Len(own) \in DOMAIN s /\ j = Len(own) + (j - Len(own))
        BY <1>7, <1>9, <2>2
      <3>3. all[j] = s[j - Len(own)]
        BY <1>7, <1>8, <3>2
      <3> QED BY <1>13, <3>1, <3>2, <3>3
    <2>3. CASE i > Len(own) /\ j > Len(own)
      <3>1. /\ i - Len(own) \in DOMAIN s /\ i = Len(own) + (i - Len(own))
            /\ j - Len(own) \in DOMAIN s /\ j = Len(own) + (j - Len(own))
        BY <1>7, <1>9, <2>3
      <3>2. all[i] = s[i - Len(own)] /\ all[j] = s[j - Len(own)]
        BY <1>7, <1>8, <3>1
      <3>3. i - Len(own) # j - Len(own)
        BY <1>7, <1>15, <2>0
      <3> QED BY <1>14, <3>1, <3>2, <3>3
    <2> QED BY <1>7, <1>9, <1>15, <2>1, <2>2, <2>3
  <1>16. \A i, j \in DOMAIN all : i # j => ~Overlap(all[i].target, all[j].target)
    <2> SUFFICES ASSUME NEW i \in DOMAIN all, NEW j \in DOMAIN all, i # j
                 PROVE  ~Overlap(all[i].target, all[j].target)
      OBVIOUS
    <2>1. i < j \/ j < i
      BY <1>9
    <2> QED BY <1>15, <2>1 DEF Overlap
  <1> QED BY <1>12, <1>16 DEF validateMounts, all

LEMMA SidecarNames ==
    /\ \A a, b : SidecarContainerName(a) = SidecarContainerName(b) => a = b
    /\ \A a : SidecarContainerName(a) # DevContainerName
  BY DEF SidecarContainerName, DevContainerName

\* No two sidecars have one name: the ledger's is reserved.
LEMMA SidecarsApart ==
    ASSUME NEW in, Document(in.m), Validate(in.m), NEW s, s = ServicesOf(in)
    PROVE  /\ IsList(s) /\ Len(s) \in Nat
           /\ \A i \in 1 .. Len(s) : \E x : s[i].name = SidecarContainerName(x)
           /\ \A i, j \in 1 .. Len(s) : s[i].name = s[j].name => i = j
  <1> DEFINE n   == Len(in.m.services)
             dns == EgressDNSEnabled(in.m, in.dnsConf)
             name(i) == in.m.services[i].name
  <1>1. IsList(in.m.services)
    BY DEF Document
  <1>2. n \in Nat /\ DOMAIN in.m.services = 1 .. n
    BY <1>1, ListFacts
  <1>3. \A i, j \in 1 .. n : name(i) = name(j) => i = j
    <2> DEFINE names == [i \in DOMAIN in.m.services |-> name(i)]
    <2>1. IsInjective(names)
      BY DEF Document
    <2>2. DOMAIN names = 1 .. n /\ \A i \in 1 .. n : names[i] = name(i)
      BY <1>2
    <2> HIDE DEF names
    <2> QED BY <2>1, <2>2 DEF IsInjective
  <1>4. \A i \in 1 .. n : name(i) # DNSServiceName
    <2>1. \A i \in 1 .. n : in.m.services[i] \in ToSet(in.m.services)
      BY <1>2 DEF ToSet
    <2> QED BY <2>1 DEF Validate, ValidService, reservedServiceNames, DNSServiceName
  <1>5. /\ DNSSidecar(in).name = SidecarContainerName(DNSServiceName)
        /\ \A svc : Sidecar(svc, in).name = SidecarContainerName(svc.name)
    BY DEF DNSSidecar, Sidecar
  <1>6. /\ IsList(s)
        /\ dns => /\ Len(s) = n + 1 /\ s[1] = DNSSidecar(in)
                  /\ \A i \in 1 .. n : s[i + 1] = Sidecar(in.m.services[i], in)
        /\ ~dns => /\ Len(s) = n
                   /\ \A i \in 1 .. n : s[i] = Sidecar(in.m.services[i], in)
    BY <1>1, ServicesFacts
  <1> HIDE DEF n, dns
  <1>7. CASE dns
    <2>1. Len(s) = n + 1 /\ s[1].name = SidecarContainerName(DNSServiceName)
      BY <1>5, <1>6, <1>7
    <2>2. \A i \in 1 .. n : s[i + 1].name = SidecarContainerName(name(i))
      BY <1>5, <1>6, <1>7
    <2>3. ASSUME NEW i \in 1 .. Len(s), i # 1
          PROVE  i - 1 \in 1 .. n /\ s[i].name = SidecarContainerName(name(i - 1))
      <3>1. i - 1 \in 1 .. n /\ (i - 1) + 1 = i
        BY <1>2, <2>1, <2>3
      <3> QED BY <2>2, <3>1
    <2>4. \A i \in 1 .. Len(s) : \E x : s[i].name = SidecarContainerName(x)
      BY <2>1, <2>3
    <2>5. ASSUME NEW i \in 1 .. Len(s), NEW j \in 1 .. Len(s), i # 1, j # 1, s[i].name = s[j].name
          PROVE  i = j
      <3>1. /\ i - 1 \in 1 .. n /\ s[i].name = SidecarContainerName(name(i - 1))
            /\ j - 1 \in 1 .. n /\ s[j].name = SidecarContainerName(name(j - 1))
        BY <2>3, <2>5
      <3>2. name(i - 1) = name(j - 1)
        BY <2>5, <3>1, SidecarNames, Zenon
      <3>3. i - 1 = j - 1
        BY <1>3, <3>1, <3>2, Zenon
      <3> QED BY <3>3
    <2>6. ASSUME NEW i \in 1 .. Len(s), i # 1 PROVE s[i].name # s[1].name
      <3>1. i - 1 \in 1 .. n /\ s[i].name = SidecarContainerName(name(i - 1))
        BY <2>3, <2>6
      <3> QED BY <1>4, <2>1, <3>1, SidecarNames, Zenon
    <2>7. \A i, j \in 1 .. Len(s) : s[i].name = s[j].name => i = j
      BY <2>5, <2>6, Zenon
    <2>8. Len(s) \in Nat
      BY <1>2, <2>1
    <2> QED BY <1>6, <2>4, <2>7, <2>8
  <1>8. CASE ~dns
    <2>1. Len(s) = n
      BY <1>6, <1>8
    <2>2. \A i \in 1 .. n : s[i].name = SidecarContainerName(name(i))
      BY <1>5, <1>6, <1>8
    <2>3. \A i, j \in 1 .. n : s[i].name = s[j].name => i = j
      BY <1>3, <2>2, SidecarNames
    <2> QED BY <1>2, <1>6, <2>1, <2>2, <2>3
  <1> QED BY <1>7, <1>8

\* So all containers have names of their own.
LEMMA NamesApart ==
    ASSUME NEW in, Document(in.m), Validate(in.m), NEW cs, cs = Containers(PlanOf(in)),
           NEW names, names = [i \in DOMAIN cs |-> cs[i].name]
    PROVE  IsInjective(names) /\ \A c \in ToSet(cs) : c.name \in ToSet(names)
  <1> DEFINE s == ServicesOf(in)
  <1>1. IsList(in.m.services)
    BY DEF Document
  <1>2. /\ IsList(cs) /\ Len(cs) = Len(s) + 1 /\ cs[1] = DevContainer(in)
        /\ \A i \in 1 .. Len(s) : cs[i + 1] = s[i]
    BY <1>1, ContainersFacts
  <1>3. /\ IsList(s) /\ Len(s) \in Nat
        /\ \A i \in 1 .. Len(s) : \E x : s[i].name = SidecarContainerName(x)
        /\ \A i, j \in 1 .. Len(s) : s[i].name = s[j].name => i = j
    BY SidecarsApart
  <1>4. DOMAIN cs = 1 .. Len(s) + 1
    BY <1>2, ListFacts
  <1>5. DevContainer(in).name = DevContainerName
    BY DEF DevContainer
  <1> HIDE DEF s
  <1>6. \A i \in DOMAIN cs : i # 1 => i - 1 \in 1 .. Len(s) /\ cs[i] = s[i - 1]
    <2> SUFFICES ASSUME NEW i \in DOMAIN cs, i # 1 PROVE i - 1 \in 1 .. Len(s) /\ cs[i] = s[i - 1]
      OBVIOUS
    <2>1. i - 1 \in 1 .. Len(s) /\ (i - 1) + 1 = i
      BY <1>3, <1>4
    <2>2. cs[(i - 1) + 1] = s[i - 1]
      BY <1>2, <2>1, Zenon
    <2> QED BY <2>1, <2>2
  <1>7. ASSUME NEW i \in DOMAIN cs, NEW j \in DOMAIN cs, cs[i].name = cs[j].name
        PROVE  i = j
    <2>1. CASE i # 1 /\ j # 1
      <3>1. /\ i - 1 \in 1 .. Len(s) /\ cs[i] = s[i - 1]
            /\ j - 1 \in 1 .. Len(s) /\ cs[j] = s[j - 1]
        BY <1>6, <2>1
      <3>2. s[i - 1].name = s[j - 1].name
        BY <1>7, <3>1, Zenon
      <3>3. i - 1 = j - 1
        BY <1>3, <3>1, <3>2, Zenon
      <3> QED BY <1>4, <3>3
    <2>2. ASSUME NEW k \in DOMAIN cs, k # 1 PROVE cs[k].name # cs[1].name
      <3>1. k - 1 \in 1 .. Len(s) /\ cs[k] = s[k - 1]
        BY <1>6, <2>2
      <3>2. \E x : cs[k].name = SidecarContainerName(x)
        BY <1>3, <3>1, Zenon
      <3> QED BY <1>2, <1>5, <3>2, SidecarNames
    <2> QED BY <1>7, <2>1, <2>2
  <1>8. IsInjective(names)
    BY <1>7 DEF IsInjective
  <1>9. \A c \in ToSet(cs) : c.name \in ToSet(names)
    BY DEF ToSet
  <1> QED BY <1>8, <1>9

\* The mounts of the services are valid.
LEMMA ServiceMountsValid ==
    ASSUME NEW in, Document(in.m), Validate(in.m), ~AsksForAClash(in.m),
           NEW c \in ToSet(ServicesOf(in))
    PROVE  validateMounts(c.mounts)
  <1>1. IsList(in.m.services)
    BY DEF Document
  <1>2. CASE c = DNSSidecar(in)
    <2> DEFINE x == BindMount(<<"payload", in.artifact, "dns">>, DNSConfTarget)
    <2>1. c.mounts = <<x>>
      BY <1>2 DEF DNSSidecar
    <2>2. DNSConfTarget # <<>> /\ <<"payload", in.artifact, "dns">> # <<>>
      BY DEF DNSConfTarget
    <2>3. ValidMount(x)
      BY <2>2 DEF ValidMount, BindMount, Mount
    <2> HIDE DEF x
    <2>4. ToSet(<<x>>) = {x} /\ DOMAIN <<x>> = {1}
      BY SmallLists
    <2> QED BY <2>1, <2>3, <2>4 DEF validateMounts
  <1>3. ASSUME NEW svc \in ToSet(in.m.services), c = Sidecar(svc, in)
        PROVE  validateMounts(c.mounts)
    <2> DEFINE vol(i) == svc.volumes[i]
               mount(i) == VolumeMount(ServiceVolumeName(vol(i).name), vol(i).target.at)
    <2>1. c.mounts = [i \in DOMAIN svc.volumes |-> mount(i)]
      BY <1>3 DEF Sidecar
    <2>2. ASSUME NEW i \in DOMAIN svc.volumes
          PROVE  ValidMount(mount(i)) /\ mount(i).target = vol(i).target.at
      <3>1. vol(i) \in ToSet(svc.volumes)
        BY DEF ToSet
      <3>2. vol(i).target.at # <<>>
        BY <3>1 DEF Validate, ValidService, containerTarget
      <3>3. ServiceVolumeName(vol(i).name) # <<>>
        BY DEF ServiceVolumeName
      <3> QED BY <3>2, <3>3 DEF ValidMount, VolumeMount, Mount
    <2>3. \A i, j \in DOMAIN svc.volumes : i # j => ~Overlap(vol(i).target.at, vol(j).target.at)
      BY DEF AsksForAClash
    <2> HIDE DEF mount, vol
    <2>4. \A x \in ToSet(c.mounts) : ValidMount(x)
      BY <2>1, <2>2 DEF ToSet
    <2> QED BY <2>1, <2>2, <2>3, <2>4 DEF validateMounts
  <1> QED BY <1>1, <1>2, <1>3, ServiceKinds

\* A valid manifest is refused only for mounts it asks for itself.
LEMMA RefusedByClash ==
    ASSUME NEW in, Document(in.m), Validate(in.m), CompileRefuses(in)
    PROVE  AsksForAClash(in.m)
  <1> SUFFICES ASSUME ~AsksForAClash(in.m) PROVE FALSE
    OBVIOUS
  <1> DEFINE cs == Containers(PlanOf(in))
             names == [i \in DOMAIN cs |-> cs[i].name]
  <1>1. \A i \in DOMAIN in.m.imports : reservedTargetFor(in.m.imports[i].target.at) = {}
    BY DEF AsksForAClash, reservedTargetFor
  <1>2. /\ \A p \in ToSet(in.m.ports) : ParsePort(p)
        /\ \A svc \in ToSet(in.m.services) : \A p \in ToSet(svc.ports) : ParsePort(p)
    BY DEF Validate, ValidRuntime, ValidService
  <1>3. ToSet(cs) = {DevContainer(in)} \cup ToSet(ServicesOf(in)) /\ IsList(in.m.services)
    BY ContainersFacts DEF Document
  <1>4. IsInjective(names) /\ \A c \in ToSet(cs) : c.name \in ToSet(names)
    BY NamesApart
  <1>5. ToSet(ServicesOf(in)) =
          (IF EgressDNSEnabled(in.m, in.dnsConf) THEN {DNSSidecar(in)} ELSE {})
          \cup {Sidecar(svc, in) : svc \in ToSet(in.m.services)}
    BY <1>3, ServiceKinds
  <1>6. ASSUME NEW c \in ToSet(cs)
        PROVE  /\ c.policy.closed
               /\ c.policy.netbind => c.name = SidecarContainerName(DNSServiceName)
               /\ validateMounts(c.mounts)
               /\ \A port \in ToSet(c.ports) : ParsePort(port)
               /\ c.dnsFrom # Unset => SidecarContainerName(c.dnsFrom) \in ToSet(names)
    <2> HIDE DEF names
    <2>1. CASE c = DevContainer(in)
      <3>1. c.policy.closed /\ ~c.policy.netbind /\ c.mounts = DevMounts(in) /\ c.ports = in.m.ports
        BY <2>1 DEF DevContainer, defaultPolicy
      <3>2. c.dnsFrom # Unset => EgressDNSEnabled(in.m, in.dnsConf) /\ c.dnsFrom = DNSServiceName
        BY <2>1 DEF DevContainer
      <3>3. c.dnsFrom # Unset => SidecarContainerName(c.dnsFrom) \in ToSet(names)
        <4>1. DNSSidecar(in).name = SidecarContainerName(DNSServiceName)
          BY DEF DNSSidecar
        <4>2. EgressDNSEnabled(in.m, in.dnsConf) => DNSSidecar(in) \in ToSet(cs)
          BY <1>3, <1>5
        <4> QED BY <1>4, <3>2, <4>1, <4>2
      <3> QED BY <1>2, <3>1, <3>3, DevMountsValid
    <2>2. CASE c = DNSSidecar(in) /\ c \in ToSet(ServicesOf(in))
      <3>1. /\ c.policy.closed /\ c.name = SidecarContainerName(DNSServiceName)
            /\ ToSet(c.ports) = {} /\ c.dnsFrom = Unset
        BY <2>2, SmallLists DEF DNSSidecar, defaultPolicy
      <3> QED BY <2>2, <3>1, ServiceMountsValid
    <2>3. ASSUME NEW svc \in ToSet(in.m.services), c = Sidecar(svc, in), c \in ToSet(ServicesOf(in))
          PROVE  /\ c.policy.closed /\ ~c.policy.netbind /\ validateMounts(c.mounts)
                 /\ \A port \in ToSet(c.ports) : ParsePort(port)
                 /\ c.dnsFrom = Unset
      <3>1. c.policy.closed /\ ~c.policy.netbind /\ c.ports = svc.ports /\ c.dnsFrom = Unset
        BY <2>3 DEF Sidecar, defaultPolicy
      <3> QED BY <1>2, <2>3, <3>1, ServiceMountsValid
    <2> QED BY <1>3, <1>5, <2>1, <2>2, <2>3
  <1>7. ValidatePlan(PlanOf(in))
    BY <1>4, <1>6 DEF ValidatePlan
  <1> HIDE DEF cs, names
  <1>8. \A p \in ToSet(in.m.ports) \cup UNION {ToSet(svc.ports) : svc \in ToSet(in.m.services)} :
            ParsePort(p)
    <2> DEFINE lists == {ToSet(svc.ports) : svc \in ToSet(in.m.services)}
    <2>1. \A l \in lists : \A p \in l : ParsePort(p)
      BY <1>2
    <2> HIDE DEF lists
    <2> DEFINE own == ToSet(in.m.ports)
    <2>2. \A p \in own : ParsePort(p)
      BY <1>2
    <2> HIDE DEF own
    <2>3. \A p \in own \cup UNION lists : ParsePort(p)
      BY <2>1, <2>2, Zenon
    <2> QED BY <2>3, Zenon DEF lists, own
  <1> QED BY <1>1, <1>7, <1>8, Zenon DEF CompileRefuses

-----------------------------------------------------------------------------
(* Every step keeps the invariant.                                         *)

\* What a conjunct speaks of; it holds on as long as that stands still.
LEMMA WorkFrame ==
    ASSUME WorkInv, UNCHANGED <<doc, preview, frozen, tags, cache>>, pc' \in Late => pc \in Late
    PROVE  WorkInv'
  BY DEF WorkInv

LEMMA FilesFrame ==
    ASSUME FilesInv, UNCHANGED <<files, snap>>, pc' \notin {"copy", "read"}
    PROVE  FilesInv'
  BY DEF FilesInv, Snapped

LEMMA CopyFrame ==
    ASSUME CopyInv, UNCHANGED <<todo, preview, snap>>, pc \in Late, pc' \in Late
    PROVE  CopyInv'
  <1>1. pc' \notin {"copy", "read"}
    BY DEF Late
  <1> QED BY <1>1 DEF CopyInv

\* A command that has ended, or has only begun, has nothing to account for.
Early == {"idle", "mint", "preview"}

LEMMA EarlyPc ==
    ASSUME pc' \in Early
    PROVE  /\ pc' \notin Late /\ pc' \notin Running /\ pc' \notin {"copy", "read"}
           /\ pc' \notin {"tools", "extension", "compile"} \cup Running
  BY DEF Early, Late, Running

LEMMA CopyEarly ==
    ASSUME pc' \in Early PROVE CopyInv'
  BY EarlyPc DEF CopyInv

LEMMA ImagesEarly ==
    ASSUME pc' \in Early, \A r \in DOMAIN digests' : digests'[r] # 0 PROVE ImagesInv'
  BY DEF ImagesInv, Early, Late, Running

LEMMA PlanEarly ==
    ASSUME PlanInv, pc' \in Early, candidates' = candidates PROVE PlanInv'
  BY EarlyPc DEF PlanInv

LEMMA ImagesFrame ==
    ASSUME ImagesInv, UNCHANGED <<pc, digests, verb, refs, tools, extension, frozen, artifact>>
    PROVE  ImagesInv'
  BY DEF ImagesInv, Needs, DNSConfPresent

LEMMA PlanFrame ==
    ASSUME PlanInv, UNCHANGED <<pc, plan, frozen, artifact, snap, digests, candidates>>
    PROVE  PlanInv'
  BY DEF PlanInv, Given, DNSConfPresent

LEMMA CausesFrame ==
    ASSUME CausesInv, UNCHANGED frozen, outcome' = outcome, pc # "idle" \/ pc' = "idle"
    PROVE  CausesInv'
  BY DEF CausesInv

LEMMA CausesEnd ==
    ASSUME CausesInv, outcome' \notin {"plan", "generated", "conflict"},
           pc' = "idle" \/ outcome' = "none"
    PROVE  CausesInv'
  BY DEF CausesInv

LEMMA NoDocIsDoc ==
    ASSUME WorkInv PROVE NoDoc \in Docs
  BY DEF WorkInv, NoDoc

LEMMA BeginKeeps ==
    ASSUME PipelineInv, NEW v, Begin(v) PROVE PipelineInv'
  <1>1. /\ pc' \in {"mint", "preview"} /\ outcome' = "none" /\ preview' = NoDoc /\ frozen' = NoDoc
        /\ snap' = {} /\ digests' = [r \in {} |-> 0]
        /\ UNCHANGED <<doc, files, tags, cache, candidates>>
    BY Zenon DEF Begin, EmptyHanded, workspace, daemon, built
  <1>2. pc' \in Early /\ pc' \notin Late
    BY <1>1 DEF Early, Late
  <1>3. WorkInv'
    BY <1>1, <1>2, NoDocIsDoc DEF PipelineInv, WorkInv
  <1>4. FilesInv'
    BY <1>1 DEF PipelineInv, FilesInv, Snapped
  <1>5. CopyInv' /\ PlanInv'
    BY <1>1, <1>2, CopyEarly, PlanEarly DEF PipelineInv
  <1>6. ImagesInv'
    BY <1>1, <1>2, ImagesEarly
  <1>7. CausesInv'
    BY <1>1, CausesEnd DEF PipelineInv
  <1> QED BY <1>3, <1>4, <1>5, <1>6, <1>7 DEF PipelineInv

LEMMA AbortKeeps ==
    ASSUME PipelineInv, Abort PROVE PipelineInv'
  <1>1. /\ pc' = "idle" /\ outcome' = "aborted" /\ preview' = NoDoc /\ frozen' = NoDoc
        /\ snap' = {} /\ digests' = [r \in {} |-> 0]
        /\ UNCHANGED <<doc, files, tags, cache, candidates>>
    BY Zenon DEF Abort, End, EmptyHanded, workspace, daemon, built
  <1>2. pc' \in Early /\ pc' \notin Late
    BY <1>1 DEF Early, Late
  <1>3. WorkInv'
    BY <1>1, <1>2, NoDocIsDoc DEF PipelineInv, WorkInv
  <1>4. FilesInv'
    BY <1>1 DEF PipelineInv, FilesInv, Snapped
  <1>5. CopyInv' /\ PlanInv'
    BY <1>1, <1>2, CopyEarly, PlanEarly DEF PipelineInv
  <1>6. ImagesInv'
    BY <1>1, <1>2, ImagesEarly
  <1>7. CausesInv'
    BY <1>1, CausesEnd DEF PipelineInv
  <1> QED BY <1>3, <1>4, <1>5, <1>6, <1>7 DEF PipelineInv

\* A step that ends the command, or is before the manifest is read, with
\* nothing new in hand.
LEMMA EarlyKeeps ==
    ASSUME PipelineInv, pc' \in Early, outcome' \notin {"plan", "generated", "conflict"},
           pc' = "idle" \/ outcome' = "none",
           UNCHANGED <<doc, files, tags, preview, frozen, snap, digests, candidates>>,
           Layers(cache', FirstLayer)
    PROVE  PipelineInv'
  <1>1. pc' \notin Late /\ pc' \notin {"copy", "read"}
    BY EarlyPc
  <1>2. WorkInv'
    BY <1>1 DEF PipelineInv, WorkInv
  <1>3. FilesInv'
    BY <1>1, FilesFrame DEF PipelineInv
  <1>4. CopyInv' /\ PlanInv'
    BY CopyEarly, PlanEarly DEF PipelineInv
  <1>5. ImagesInv'
    BY ImagesEarly DEF PipelineInv, ImagesInv
  <1>6. CausesInv'
    BY CausesEnd DEF PipelineInv
  <1> QED BY <1>2, <1>3, <1>4, <1>5, <1>6 DEF PipelineInv

LEMMA MintKeeps ==
    ASSUME PipelineInv, NEW failed, MintAgentRefresh(failed) PROVE PipelineInv'
  <1>1. /\ pc = "mint" /\ pc' = "preview" /\ outcome' = outcome
        /\ UNCHANGED <<doc, files, tags, preview, frozen, snap, digests, candidates, cache>>
    BY Zenon DEF MintAgentRefresh, workspace, daemon, frozenVs, images, built
  <1>2. outcome = "none" /\ Layers(cache, FirstLayer)
    BY <1>1 DEF PipelineInv, CausesInv, WorkInv
  <1> QED BY <1>1, <1>2, EarlyKeeps DEF Early

LEMMA UpdateKeeps ==
    ASSUME PipelineInv, UpdateRecord PROVE PipelineInv'
  <1>1. /\ pc' = "idle" /\ outcome' = "ok"
        /\ UNCHANGED <<doc, files, tags, preview, frozen, snap, digests, candidates, cache>>
    BY Zenon DEF UpdateRecord, End, workspace, daemon, frozenVs, images, built
  <1>2. Layers(cache, FirstLayer)
    BY DEF PipelineInv, WorkInv
  <1> QED BY <1>1, <1>2, EarlyKeeps DEF Early

\* What happens beside the command leaves what it has in hand alone.
LEMMA BesideKeeps ==
    ASSUME PipelineInv, Elsewhere, doc' \in Docs, tags' \in [ImageRefs -> Nat \ {0}], FilesInv'
    PROVE  PipelineInv'
  <1>1. UNCHANGED <<artifact, candidates, pc, verb, preview, todo, frozen, snap, refs, digests, plan,
                    outcome, cache, tools, extension>>
    BY Zenon DEF Elsewhere, record, images, built
  <1>2. WorkInv'
    BY <1>1 DEF PipelineInv, WorkInv
  <1>3. CopyInv'
    BY <1>1 DEF PipelineInv, CopyInv
  <1>4. ImagesInv' /\ PlanInv'
    BY <1>1, ImagesFrame, PlanFrame DEF PipelineInv
  <1>5. CausesInv'
    BY <1>1, CausesFrame DEF PipelineInv
  <1> QED BY <1>2, <1>3, <1>4, <1>5 DEF PipelineInv

LEMMA ReleaseKeeps ==
    ASSUME PipelineInv, NEW h, NewRelease(h) PROVE PipelineInv'
  <1>1. Elsewhere /\ UNCHANGED <<doc, files, tags, dirty>>
    BY Zenon DEF NewRelease, workspace
  <1>2. UNCHANGED <<pc, todo, snap>>
    BY <1>1, Zenon DEF Elsewhere
  <1>3. FilesInv'
    BY <1>1, <1>2 DEF PipelineInv, FilesInv, StateOf, Snapped
  <1> QED BY <1>1, <1>3, BesideKeeps DEF PipelineInv, WorkInv

LEMMA TagKeeps ==
    ASSUME PipelineInv, NEW r \in ImageRefs, MoveTag(r) PROVE PipelineInv'
  <1>1. Elsewhere /\ UNCHANGED <<doc, files, dirty>> /\ tags' = [tags EXCEPT ![r] = @ + 1]
    BY Zenon DEF MoveTag, workspace
  <1>2. UNCHANGED <<pc, todo, snap>>
    BY <1>1, Zenon DEF Elsewhere
  <1>3. FilesInv'
    BY <1>1, <1>2 DEF PipelineInv, FilesInv, StateOf, Snapped
  <1>4. tags' \in [ImageRefs -> Nat \ {0}]
    BY <1>1 DEF PipelineInv, WorkInv
  <1> QED BY <1>1, <1>3, <1>4, BesideKeeps DEF PipelineInv, WorkInv

LEMMA EditManifestKeeps ==
    ASSUME PipelineInv, NEW d \in Saved, EditManifest(d) PROVE PipelineInv'
  <1>1. /\ Elsewhere /\ UNCHANGED <<files, tags>> /\ doc' = d
        /\ dirty' = (dirty \/ Copying(ManifestPath))
    BY Zenon DEF EditManifest, daemon
  <1>2. UNCHANGED <<pc, todo, snap>>
    BY <1>1, Zenon DEF Elsewhere
  <1>3. FilesInv'
    BY <1>1, <1>2 DEF PipelineInv, FilesInv, StateOf, Snapped
  <1>4. d \in Docs
    BY CandidateAssumption
  <1> QED BY <1>1, <1>3, <1>4, BesideKeeps DEF PipelineInv, WorkInv

\* A file that changes while it is copied is not copied.
LEMMA EditFileKeeps ==
    ASSUME PipelineInv, NEW path \in DOMAIN FileStates, NEW content \in FileStates[path],
           EditFile(path, content)
    PROVE  PipelineInv'
  <1>1. /\ Elsewhere /\ UNCHANGED <<doc, tags>> /\ files' = [files EXCEPT ![path] = content]
        /\ dirty' = (dirty \/ Copying(path))
    BY Zenon DEF EditFile, daemon
  <1>2. UNCHANGED <<pc, todo, snap>>
    BY <1>1, Zenon DEF Elsewhere
  <1>3. FilesInv
    BY DEF PipelineInv
  <1>4. DOMAIN files' = DOMAIN FileStates
    BY <1>1, <1>3 DEF FilesInv
  <1>5. \A p \in DOMAIN FileStates : files'[p] \in FileStates[p]
    BY <1>1, <1>3 DEF FilesInv
  <1>6. ASSUME pc = "read", ~dirty'
        PROVE  StateOf(Head(todo).source)' \notin {Absent, Special}
    <2> DEFINE at == Head(todo).source.at
    <2>1. ~dirty /\ at # path
      BY <1>1, <1>6 DEF Copying
    <2>2. at \in DOMAIN files => files'[at] = files[at]
      BY <1>1, <2>1
    <2>3. StateOf(Head(todo).source)' = StateOf(Head(todo).source)
      BY <1>2, <1>3, <1>4, <2>2 DEF StateOf, FilesInv
    <2> QED BY <1>3, <1>6, <2>1, <2>3 DEF FilesInv
  <1>7. FilesInv'
    BY <1>2, <1>3, <1>4, <1>5, <1>6 DEF FilesInv, Snapped
  <1> QED BY <1>1, <1>7, BesideKeeps DEF PipelineInv, WorkInv

\* What is to be copied for a manifest.
LEMMA EntriesFacts ==
    ASSUME NEW m, IsList(m.imports), NEW s, s = Entries(m)
    PROVE  /\ IsList(s)
           /\ \A e \in ToSet(s) : e.dest = DockerfileDest => e.source.at = DockerfilePath
           /\ \A i \in DOMAIN m.imports :
                 Entry(m.imports[i].source, ImportDest(i), FALSE) \in ToSet(s)
  <1> DEFINE a == Entry(Rel(ManifestPath), SnapshotManifest, FALSE)
             b == Entry(m.env_file, EnvFileDest, FALSE)
             c == Entry(Rel(DockerfilePath), DockerfileDest, FALSE)
             d == Entry(Rel(BuildPath), BuildDest, TRUE)
             x(i) == Entry(m.imports[i].source, ImportDest(i), FALSE)
             imported == [i \in DOMAIN m.imports |-> x(i)]
             env   == When(m.env_file # NoPath, <<b>>)
             build == When(m.extension, <<c, d>>)
  <1>1. s = ((<<a>> \o env) \o build) \o imported
    BY Zenon DEF Entries
  <1>2. /\ a.dest # DockerfileDest /\ b.dest # DockerfileDest /\ d.dest # DockerfileDest
        /\ c.source.at = DockerfilePath
        /\ \A i : x(i).dest # DockerfileDest
    <2>1. /\ SnapshotManifest # DockerfileDest /\ EnvFileDest # DockerfileDest
          /\ BuildDest # DockerfileDest
      BY DEF SnapshotManifest, DockerfileDest, EnvFileDest, BuildDest
    <2>2. \A i : ImportDest(i) # DockerfileDest
      BY DEF ImportDest, DockerfileDest
    <2> QED BY <2>1, <2>2 DEF Entry, Rel
  <1>3. IsList(imported)
    <2>1. Len(m.imports) \in Nat /\ DOMAIN m.imports = 1 .. Len(m.imports)
      BY ListFacts
    <2>2. imported \in [1 .. Len(m.imports) -> ToSet(imported)]
      BY <2>1 DEF ToSet
    <2> HIDE DEF imported
    <2> QED BY <2>1, <2>2, ListOfFunction
  <1>4. ToSet(imported) = {x(i) : i \in DOMAIN m.imports}
    BY DEF ToSet
  <1> HIDE DEF a, b, c, d, x, imported
  <1>5. IsList(<<c, d>>) /\ ToSet(<<c, d>>) = {c, d}
    <2>1. <<c, d>> \in Seq({c, d})
      OBVIOUS
    <2>2. ToSet(<<c, d>>) = {c, d}
      BY DEF ToSet
    <2> QED BY <2>1, <2>2 DEF IsList
  <1>6. /\ IsList(<<a>>) /\ ToSet(<<a>>) = {a}
        /\ IsList(env) /\ ToSet(env) \subseteq {b}
        /\ IsList(build) /\ ToSet(build) \subseteq {c, d}
    BY <1>5, SmallLists DEF When
  <1> HIDE DEF env, build
  <1> DEFINE one == <<a>> \o env
             two == one \o build
  <1>7. IsList(one) /\ ToSet(one) = ToSet(<<a>>) \cup ToSet(env)
    BY <1>6, JoinFacts
  <1> HIDE DEF one
  <1>8. IsList(two) /\ ToSet(two) = ToSet(one) \cup ToSet(build)
    BY <1>6, <1>7, JoinFacts
  <1>a. s = two \o imported
    BY <1>1 DEF one
  <1> HIDE DEF two
  <1>9. IsList(s) /\ ToSet(s) = ToSet(two) \cup ToSet(imported)
    BY <1>a, <1>3, <1>8, JoinFacts
  <1>10. ToSet(s) \subseteq {a, b, c, d} \cup ToSet(imported)
    BY <1>6, <1>7, <1>8, <1>9
  <1>11. \A e \in ToSet(s) : e.dest = DockerfileDest => e.source.at = DockerfilePath
    BY <1>2, <1>4, <1>10
  <1>12. \A i \in DOMAIN m.imports : x(i) \in ToSet(s)
    BY <1>4, <1>9
  <1> QED BY <1>9, <1>11, <1>12 DEF x

LEMMA PreviewKeeps ==
    ASSUME PipelineInv, Preview PROVE PipelineInv'
  <1>1. /\ pc = "preview"
        /\ UNCHANGED <<doc, files, tags, frozen, snap, digests, candidates, cache>>
    BY Zenon DEF Preview, workspace, daemon, images, built
  <1>2. outcome = "none" /\ Layers(cache, FirstLayer) /\ doc \in Docs
    BY <1>1 DEF PipelineInv, CausesInv, WorkInv
  <1>3. CASE pc' = "idle" /\ outcome' = "undecodable" /\ preview' = preview
    BY <1>1, <1>2, <1>3, EarlyKeeps DEF Early
  <1>4. CASE preview' = doc /\ todo' = Entries(doc) /\ pc' = "copy" /\ outcome' = outcome
    <2>1. IsList(doc.imports)
      BY <1>2, CandidateAssumption DEF Document
    <2>2. /\ IsList(todo')
          /\ \A e \in ToSet(todo') : e.dest = DockerfileDest => e.source.at = DockerfilePath
      BY <1>4, <2>1, EntriesFacts
    <2>3. pc' \notin Late /\ pc' \notin Running
      BY <1>4 DEF Late, Running
    <2>4. WorkInv'
      BY <1>1, <1>2, <1>4, <2>3 DEF PipelineInv, WorkInv
    <2>5. FilesInv'
      BY <1>1, <1>4, <2>2 DEF PipelineInv, FilesInv, Snapped
    <2>6. CopyInv'
      BY <1>4, <2>2, <2>3 DEF CopyInv
    <2>7. ImagesInv'
      BY <1>1, <1>4 DEF PipelineInv, ImagesInv, Late, Running
    <2>8. PlanInv'
      BY <1>1, <2>3 DEF PipelineInv, PlanInv
    <2>9. CausesInv'
      BY <1>2, <1>4, CausesEnd DEF PipelineInv
    <2> QED BY <2>4, <2>5, <2>6, <2>7, <2>8, <2>9 DEF PipelineInv
  <1> QED BY <1>3, <1>4, Zenon DEF Preview, End

LEMMA OpenKeeps ==
    ASSUME PipelineInv, CopyOpen PROVE PipelineInv'
  <1> DEFINE e == Head(todo)
             state == StateOf(e.source)
  <1>1. /\ pc = "copy" /\ todo # <<>>
        /\ UNCHANGED <<doc, files, tags, preview, frozen, snap, digests, candidates, cache>>
    BY Zenon DEF CopyOpen, workspace, daemon, images, built
  <1>2. outcome = "none" /\ Layers(cache, FirstLayer) /\ IsList(todo)
    BY <1>1 DEF PipelineInv, CausesInv, WorkInv, CopyInv
  <1>3. \/ /\ state \notin {Absent, Special}
           /\ pc' = "read" /\ todo' = todo /\ outcome' = outcome
        \/ /\ e.optional /\ todo' = Tail(todo) /\ pc' = pc /\ outcome' = outcome
        \/ pc' = "idle" /\ outcome' = "input"
    BY Zenon DEF CopyOpen, End
  <1>4. CASE pc' = "idle" /\ outcome' = "input"
    BY <1>1, <1>2, <1>4, EarlyKeeps DEF Early
  <1>5. CASE \/ state \notin {Absent, Special} /\ pc' = "read" /\ todo' = todo /\ outcome' = outcome
             \/ e.optional /\ todo' = Tail(todo) /\ pc' = pc /\ outcome' = outcome
    <2>1. pc' \notin Late /\ pc' \notin Running /\ pc' \in {"copy", "read"}
      BY <1>1, <1>5 DEF Late, Running
    <2>2. WorkInv'
      BY <1>1, <2>1 DEF PipelineInv, WorkInv
    <2>3. /\ IsList(todo') /\ ToSet(todo') \subseteq ToSet(todo)
          /\ \A x \in ToSet(todo) : x \in ToSet(todo') \/ x.optional
      BY <1>1, <1>2, <1>5, HeadFacts
    <2>4. FilesInv'
      <3>1. pc' = "read" => todo' = todo /\ state \notin {Absent, Special}
        BY <1>1, <1>5
      <3>2. pc' = "read" => StateOf(Head(todo).source)' = state
        BY <1>1, <3>1 DEF StateOf
      <3> QED BY <1>1, <2>3, <3>1, <3>2 DEF PipelineInv, FilesInv, Snapped
    <2>5. CopyInv'
      BY <1>1, <1>5, <2>1, <2>3 DEF PipelineInv, CopyInv
    <2>6. ImagesInv'
      BY <1>1, <2>1 DEF PipelineInv, ImagesInv, Late, Running
    <2>7. PlanInv'
      BY <1>1, <2>1 DEF PipelineInv, PlanInv
    <2>8. CausesInv'
      BY <1>2, <1>5, CausesEnd DEF PipelineInv
    <2> QED BY <2>2, <2>4, <2>5, <2>6, <2>7, <2>8 DEF PipelineInv
  <1> QED BY <1>3, <1>4, <1>5

LEMMA ReadKeeps ==
    ASSUME PipelineInv, CopyRead PROVE PipelineInv'
  <1> DEFINE e == Head(todo)
             copied == [dest |-> e.dest, source |-> e.source.at, content |-> StateOf(e.source)]
  <1>1. /\ pc = "read"
        /\ UNCHANGED <<doc, files, tags, preview, digests, candidates, cache>>
    BY Zenon DEF CopyRead, workspace, daemon, images, built
  <1>2. /\ outcome = "none" /\ Layers(cache, FirstLayer) /\ doc \in Docs
        /\ IsList(todo) /\ todo # <<>>
    BY <1>1 DEF PipelineInv, CausesInv, WorkInv, CopyInv
  <1>3. \/ pc' = "idle" /\ outcome' = "changed" /\ UNCHANGED <<frozen, snap>>
        \/ /\ ~dirty /\ pc' = "copy" /\ todo' = Tail(todo) /\ outcome' = outcome
           /\ \/ e.dest = SnapshotManifest /\ frozen' = doc /\ snap' = snap
              \/ e.dest # SnapshotManifest /\ snap' = snap \cup {copied} /\ frozen' = frozen
    BY Zenon DEF CopyRead, changedDuringCopy, End
  <1>4. CASE pc' = "idle" /\ outcome' = "changed" /\ UNCHANGED <<frozen, snap>>
    BY <1>1, <1>2, <1>4, EarlyKeeps DEF Early
  <1>5. CASE /\ ~dirty /\ pc' = "copy" /\ todo' = Tail(todo) /\ outcome' = outcome
             /\ \/ e.dest = SnapshotManifest /\ frozen' = doc /\ snap' = snap
                \/ e.dest # SnapshotManifest /\ snap' = snap \cup {copied} /\ frozen' = frozen
    <2>1. pc' \notin Late /\ pc' \notin Running
      BY <1>5 DEF Late, Running
    <2>2. WorkInv'
      BY <1>1, <1>2, <1>5, <2>1 DEF PipelineInv, WorkInv
    <2>3. /\ IsList(todo') /\ e \in ToSet(todo)
          /\ ToSet(todo) = {e} \cup ToSet(todo')
      BY <1>2, <1>5, HeadFacts
    <2>4. e.dest = DockerfileDest => StateOf(e.source) \in DOMAIN Texts
      <3> SUFFICES ASSUME e.dest = DockerfileDest PROVE StateOf(e.source) \in DOMAIN Texts
        OBVIOUS
      <3>1. e.source.at = DockerfilePath /\ StateOf(e.source) \notin {Absent, Special}
        BY <1>1, <1>5, <2>3 DEF PipelineInv, FilesInv
      <3>2. DockerfilePath # ManifestPath
        BY DEF DockerfilePath, ManifestPath
      <3>3. DockerfilePath \in DOMAIN files /\ StateOf(e.source) = files[DockerfilePath]
        BY <3>1, <3>2 DEF StateOf
      <3>4. DockerfilePath \in DOMAIN FileStates /\ files[DockerfilePath] \in FileStates[DockerfilePath]
        BY <3>3 DEF PipelineInv, FilesInv
      <3> QED BY <3>1, <3>3, <3>4, CandidateAssumption DEF Contents
    <2>5. FilesInv'
      <3>1. \A f \in snap' : f.dest = DockerfileDest => f.content \in DOMAIN Texts
        <4>1. \A f \in snap : f.dest = DockerfileDest => f.content \in DOMAIN Texts
          BY DEF PipelineInv, FilesInv, Snapped
        <4> QED BY <1>5, <2>4, <4>1
      <3> QED BY <1>1, <1>5, <2>3, <3>1 DEF PipelineInv, FilesInv, Snapped
    <2>6. CopyInv'
      <3> SUFFICES ASSUME NEW x \in ToSet(Entries(preview)), ~x.optional, x.dest # SnapshotManifest
                   PROVE  \/ x \in ToSet(todo')
                          \/ \E f \in snap' : f.dest = x.dest /\ f.source = x.source.at
        BY <1>1, <1>5, <2>1, <2>3 DEF CopyInv
      <3>1. x \in ToSet(todo) \/ \E f \in snap : f.dest = x.dest /\ f.source = x.source.at
        BY <1>1 DEF PipelineInv, CopyInv
      <3>2. snap \subseteq snap' /\ (e.dest # SnapshotManifest => copied \in snap')
        BY <1>5
      <3>3. copied.dest = e.dest /\ copied.source = e.source.at
        OBVIOUS
      <3> HIDE DEF copied, e
      <3> QED BY <2>3, <3>1, <3>2, <3>3
    <2>7. ImagesInv'
      BY <1>1, <1>5 DEF PipelineInv, ImagesInv, Late, Running
    <2>8. PlanInv'
      BY <1>1, <2>1 DEF PipelineInv, PlanInv
    <2>9. CausesInv'
      BY <1>2, <1>5, CausesEnd DEF PipelineInv
    <2> QED BY <2>2, <2>5, <2>6, <2>7, <2>8, <2>9 DEF PipelineInv
  <1> QED BY <1>3, <1>4, <1>5

\* Only what decodes and validates goes on.
LEMMA LoadKeeps ==
    ASSUME PipelineInv, LoadFrozen PROVE PipelineInv'
  <1>1. /\ pc = "copy" /\ todo = <<>>
        /\ UNCHANGED <<doc, files, tags, preview, frozen, snap, todo, digests, candidates, cache>>
    BY Zenon DEF LoadFrozen, workspace, daemon, frozenVs, images, built
  <1>2. outcome = "none" /\ Layers(cache, FirstLayer)
    BY <1>1 DEF PipelineInv, CausesInv, WorkInv
  <1>3. \/ pc' = "idle" /\ outcome' \in {"undecodable", "invalid", "env-file"}
        \/ Validate(frozen) /\ pc' = "artifact" /\ outcome' = outcome
    BY Zenon DEF LoadFrozen, End
  <1>4. CASE pc' = "idle" /\ outcome' \in {"undecodable", "invalid", "env-file"}
    BY <1>1, <1>2, <1>4, EarlyKeeps DEF Early
  <1>5. CASE Validate(frozen) /\ pc' = "artifact" /\ outcome' = outcome
    <2>1. WorkInv'
      BY <1>1, <1>5 DEF PipelineInv, WorkInv
    <2>2. FilesInv'
      BY <1>1, <1>5, FilesFrame DEF PipelineInv
    <2>3. CopyInv'
      BY <1>1, <1>5 DEF PipelineInv, CopyInv
    <2>4. ImagesInv'
      BY <1>1, <1>5 DEF PipelineInv, ImagesInv, Late, Running
    <2>5. PlanInv'
      BY <1>1, <1>5 DEF PipelineInv, PlanInv, Running
    <2>6. CausesInv'
      BY <1>2, <1>5, CausesEnd DEF PipelineInv
    <2> QED BY <2>1, <2>2, <2>3, <2>4, <2>5, <2>6 DEF PipelineInv
  <1> QED BY <1>3, <1>4, <1>5

LEMMA NeedsFrame ==
    ASSUME UNCHANGED <<frozen, artifact>> PROVE Needs' = Needs
  BY DEF Needs, DNSConfPresent

LEMMA ArtifactKeeps ==
    ASSUME PipelineInv, LoadArtifact PROVE PipelineInv'
  <1> DEFINE m    == frozen
             dns  == EgressDNSEnabled(m, DNSConfPresent)
             base == <<Ref(m.base)>>
             own  == When(dns, <<CoreDNSImageRef>>)
             rest == [i \in DOMAIN m.services |-> Ref(m.services[i].image)]
  <1>1. /\ pc = "artifact"
        /\ UNCHANGED <<doc, files, tags, preview, frozen, snap, todo, digests, candidates, cache,
                       artifact, verb, outcome>>
    BY Zenon DEF LoadArtifact, workspace, daemon, record, frozenVs, built
  <1>2. \/ verb = "config" /\ pc' = "compile"
        \/ verb # "config" /\ pc' = "resolve" /\ refs' = (base \o own) \o rest
    BY Zenon DEF LoadArtifact
  <1>3. outcome = "none" /\ Document(frozen)
    BY <1>1, CandidateAssumption DEF PipelineInv, CausesInv, WorkInv
  <1>4. IsList(rest) /\ ToSet(rest) = {Ref(s.image) : s \in ToSet(m.services)}
    <2>1. Len(m.services) \in Nat /\ DOMAIN m.services = 1 .. Len(m.services)
      BY <1>3, ListFacts DEF Document
    <2>2. rest \in [1 .. Len(m.services) -> ToSet(rest)]
      BY <2>1 DEF ToSet
    <2>3. ToSet(rest) = {Ref(s.image) : s \in ToSet(m.services)}
      BY DEF ToSet
    <2> HIDE DEF rest
    <2> QED BY <2>1, <2>2, <2>3, ListOfFunction
  <1>5. /\ IsList(base) /\ ToSet(base) = {Ref(m.base)}
        /\ IsList(own) /\ ToSet(own) = IF dns THEN {CoreDNSImageRef} ELSE {}
    BY SmallLists DEF When
  <1> HIDE DEF base, own, rest
  <1> DEFINE two == base \o own
  <1>6. IsList(two) /\ ToSet(two) = ToSet(base) \cup ToSet(own)
    BY <1>5, JoinFacts
  <1>7. pc' = "resolve" => refs' = two \o rest
    BY <1>2
  <1> HIDE DEF two
  <1>8. pc' = "resolve" => IsList(refs') /\ ToSet(refs') = ToSet(two) \cup ToSet(rest)
    BY <1>4, <1>6, <1>7, JoinFacts
  <1>9. pc' = "resolve" => IsList(refs') /\ ToSet(refs') = Needs
    BY <1>4, <1>5, <1>6, <1>8 DEF Needs
  <1> HIDE DEF m, dns
  <1>10. pc \in Late /\ pc' \in Late /\ pc' \notin Running /\ pc' \notin {"copy", "read"}
    BY <1>1, <1>2 DEF Late, Running
  <1>11. WorkInv' /\ FilesInv' /\ CopyInv'
    BY <1>1, <1>10, WorkFrame, FilesFrame, CopyFrame DEF PipelineInv
  <1>12. ImagesInv'
    <2>1. Needs' = Needs
      BY <1>1, NeedsFrame
    <2>2. pc' # "tools" /\ pc' # "extension"
      BY <1>2
    <2> QED BY <1>1, <1>2, <1>9, <1>10, <2>1, <2>2 DEF PipelineInv, ImagesInv
  <1>13. PlanInv'
    BY <1>1, <1>10 DEF PipelineInv, PlanInv
  <1>14. CausesInv'
    BY <1>1, <1>3, CausesEnd DEF PipelineInv
  <1> QED BY <1>11, <1>12, <1>13, <1>14 DEF PipelineInv

\* The references are of their own kinds.
LEMMA RefsApart ==
    /\ ToolsImageRef # ExtensionImageRef /\ CoreDNSImageRef # ToolsImageRef
    /\ CoreDNSImageRef # ExtensionImageRef
    /\ \A image : /\ Ref(image) # ToolsImageRef /\ Ref(image) # ExtensionImageRef
                  /\ Ref(image) # CoreDNSImageRef /\ Ref(image)[2] = image
  BY DEF Ref, ToolsImageRef, ExtensionImageRef, CoreDNSImageRef

LEMMA NeedsApart ==
    ToolsImageRef \notin Needs /\ ExtensionImageRef \notin Needs
  BY RefsApart DEF Needs

\* A tag always stands for some image.
LEMMA ResolvedFacts ==
    ASSUME WorkInv, Validate(frozen), NEW ref \in Needs
    PROVE  Resolved(ref) # 0
  <1>1. CASE ref = CoreDNSImageRef
    BY <1>1 DEF Resolved, PinnedDigest
  <1>2. ASSUME NEW image \in ImageRefs, ref = Ref(image) PROVE Resolved(ref) # 0
    <2>1. ref # CoreDNSImageRef /\ ref[2] = image
      BY <1>2, RefsApart
    <2>2. tags[image] # 0
      BY DEF WorkInv
    <2> QED BY <2>1, <2>2 DEF Resolved
  <1>3. frozen.base \in ImageRefs /\ \A s \in ToSet(frozen.services) : s.image \in ImageRefs
    BY DEF Validate, ValidImage, ValidService
  <1> QED BY <1>1, <1>2, <1>3 DEF Needs

LEMMA ResolveKeeps ==
    ASSUME PipelineInv, ResolveImage PROVE PipelineInv'
  <1>1. /\ pc = "resolve"
        /\ UNCHANGED <<doc, files, tags, preview, frozen, snap, todo, candidates, cache,
                       artifact, verb, outcome>>
    BY Zenon DEF ResolveImage, workspace, daemon, record, frozenVs, built
  <1>2. \/ /\ refs # <<>> /\ digests' = With(Head(refs), Resolved(Head(refs)))
           /\ refs' = Tail(refs) /\ pc' = "resolve"
        \/ refs = <<>> /\ pc' = "tools" /\ digests' = digests /\ refs' = refs
    BY <1>1, Zenon DEF ResolveImage, images
  <1>3. /\ verb # "config" /\ IsList(refs) /\ ToSet(refs) \subseteq Needs
        /\ Needs \subseteq DOMAIN digests \cup ToSet(refs)
        /\ \A r \in DOMAIN digests : digests[r] # 0
    BY <1>1 DEF PipelineInv, ImagesInv, Late
  <1>4. pc \in Late /\ pc' \in Late /\ pc' \notin Running /\ pc' \notin {"copy", "read"}
    BY <1>1, <1>2 DEF Late, Running
  <1>5. WorkInv' /\ FilesInv' /\ CopyInv'
    BY <1>1, <1>4, WorkFrame, FilesFrame, CopyFrame DEF PipelineInv
  <1>6. Needs' = Needs
    BY <1>1, NeedsFrame
  <1>7. CASE refs = <<>> /\ pc' = "tools" /\ digests' = digests /\ refs' = refs
    <2>1. Needs \subseteq DOMAIN digests
      BY <1>3, <1>7, SmallLists
    <2>2. ImagesInv'
      BY <1>1, <1>3, <1>4, <1>6, <1>7, <2>1 DEF ImagesInv
    <2>3. PlanInv'
      BY <1>1, <1>4 DEF PipelineInv, PlanInv
    <2>4. CausesInv'
      BY <1>1, <1>7, CausesFrame DEF PipelineInv
    <2> QED BY <1>5, <2>2, <2>3, <2>4 DEF PipelineInv
  <1>8. CASE /\ refs # <<>> /\ digests' = With(Head(refs), Resolved(Head(refs)))
             /\ refs' = Tail(refs) /\ pc' = "resolve"
    <2>1. /\ IsList(refs') /\ Head(refs) \in ToSet(refs)
          /\ ToSet(refs) = {Head(refs)} \cup ToSet(refs')
      BY <1>3, <1>8, HeadFacts
    <2>2. Resolved(Head(refs)) # 0
      BY <1>3, <1>4, <2>1, ResolvedFacts DEF PipelineInv, WorkInv
    <2>3. /\ DOMAIN digests' = DOMAIN digests \cup {Head(refs)}
          /\ digests'[Head(refs)] = Resolved(Head(refs))
          /\ \A r \in DOMAIN digests : r # Head(refs) => digests'[r] = digests[r]
      BY <1>8 DEF With
    <2>a. \A r \in DOMAIN digests' : digests'[r] # 0
      BY <1>3, <2>2, <2>3
    <2>4. Needs \subseteq DOMAIN digests' \cup ToSet(refs') /\ ToSet(refs') \subseteq Needs
      BY <1>3, <2>1, <2>3
    <2>5. ImagesInv'
      BY <1>1, <1>3, <1>4, <1>6, <1>8, <2>1, <2>4, <2>a DEF ImagesInv
    <2>6. PlanInv'
      BY <1>1, <1>4 DEF PipelineInv, PlanInv
    <2>7. CausesInv'
      BY <1>1, <1>8, CausesFrame DEF PipelineInv
    <2> QED BY <1>5, <2>5, <2>6, <2>7 DEF PipelineInv
  <1> QED BY <1>2, <1>7, <1>8

\* The generated Dockerfile meets the contract, and the image it makes has a
\* number of its own.
LEMMA ToolsKeeps ==
    ASSUME PipelineInv, BuildTools PROVE PipelineInv'
  <1> DEFINE dockerfile == GenerateInstallPlan(frozen.agents, frozen.toolchains, token # <<>>)
             args == RefreshArgs(dockerfile)
             base == digests[Ref(frozen.base)]
             upTo(n) == Build(dockerfile, n, args, {}, base, heads, cache, FirstLayer)
             b == upTo(Len(dockerfile))
             made == Finished(dockerfile, args, {}, base, b)
  <1>1. /\ pc = "tools"
        /\ UNCHANGED <<doc, files, tags, preview, frozen, snap, todo, candidates, artifact, verb>>
    BY Zenon DEF BuildTools, workspace, daemon, record, frozenVs
  <1>2. \/ ~HasTools(frozen) /\ pc' = "extension" /\ UNCHANGED <<digests, cache, tools, outcome>>
        \/ ~ValidateDockerfile(dockerfile)
        \/ /\ HasTools(frozen) /\ cache' = b.cache /\ digests' = With(ToolsImageRef, b.at)
           /\ tools' = made /\ pc' = "extension" /\ outcome' = outcome
        \/ /\ \E n \in FailsAfter(dockerfile) : cache' = upTo(n).cache
           /\ pc' = "idle" /\ outcome' = "aborted" /\ digests' = digests
    BY Zenon DEF BuildTools, End
  <1>3. IsList(dockerfile) /\ Len(dockerfile) > 0 /\ ValidateDockerfile(dockerfile)
    BY GeneratedIsValid
  <1>4. made.base = base
    BY DEF Finished
  <1>5. /\ Layers(cache, FirstLayer) /\ FirstLayer \in Nat /\ FirstLayer > 0
        /\ Len(dockerfile) \in Nat /\ DOMAIN dockerfile = 1 .. Len(dockerfile)
    BY <1>3, ListFacts DEF PipelineInv, WorkInv, FirstLayer
  <1> HIDE DEF dockerfile
  <1>6. \A n \in Nat : Layers(upTo(n).cache, FirstLayer)
    BY <1>5, BuildFacts
  <1>7. Layers(b.cache, FirstLayer) /\ b.at # 0
    BY <1>3, <1>5, BuildFacts
  <1> HIDE DEF upTo, b, made, base
  <1>8. /\ verb # "config" /\ Needs \subseteq DOMAIN digests
        /\ \A r \in DOMAIN digests : digests[r] # 0
    BY <1>1 DEF PipelineInv, ImagesInv, Late
  <1>9. Needs' = Needs /\ Ref(frozen.base) \in Needs
    BY <1>1, NeedsFrame DEF Needs
  <1>10. CASE /\ \E n \in FailsAfter(dockerfile) : cache' = upTo(n).cache
              /\ pc' = "idle" /\ outcome' = "aborted" /\ digests' = digests
    <2>1. Layers(cache', FirstLayer)
      BY <1>5, <1>6, <1>10 DEF FailsAfter
    <2> QED BY <1>1, <1>10, <2>1, EarlyKeeps DEF Early
  <1>11. CASE /\ pc' = "extension" /\ outcome' = outcome /\ Layers(cache', FirstLayer)
              /\ \/ ~HasTools(frozen) /\ digests' = digests
                 \/ /\ HasTools(frozen) /\ digests' = With(ToolsImageRef, b.at)
                    /\ tools' = made
    <2>1. pc \in Late /\ pc' \in Late /\ pc' \notin Running /\ pc' \notin {"copy", "read"}
      BY <1>1, <1>11 DEF Late, Running
    <2>2. WorkInv'
      BY <1>1, <1>11, <2>1 DEF PipelineInv, WorkInv
    <2>3. FilesInv' /\ CopyInv'
      BY <1>1, <2>1, FilesFrame, CopyFrame DEF PipelineInv
    <2>4. /\ \A r \in DOMAIN digests' : digests'[r] # 0
          /\ Needs \subseteq DOMAIN digests'
          /\ HasTools(frozen) =>
                ToolsImageRef \in DOMAIN digests' /\ tools'.base = digests'[Ref(frozen.base)]
      <3>1. CASE ~HasTools(frozen) /\ digests' = digests
        BY <1>8, <3>1
      <3>2. CASE digests' = With(ToolsImageRef, b.at) /\ tools' = made
        <4>1. /\ DOMAIN digests' = DOMAIN digests \cup {ToolsImageRef}
              /\ \A r \in DOMAIN digests : r # ToolsImageRef => digests'[r] = digests[r]
              /\ digests'[ToolsImageRef] = b.at
          BY <3>2 DEF With
        <4>a. \A r \in DOMAIN digests' : digests'[r] # 0
          BY <1>7, <1>8, <4>1
        <4>2. Ref(frozen.base) # ToolsImageRef /\ Ref(frozen.base) \in DOMAIN digests
          BY <1>8, <1>9, RefsApart
        <4> QED BY <1>4, <1>8, <3>2, <4>1, <4>2, <4>a DEF base
      <3> QED BY <1>11, <3>1, <3>2
    <2>5. ImagesInv'
      BY <1>1, <1>8, <1>9, <1>11, <2>1, <2>4 DEF ImagesInv
    <2>6. PlanInv'
      BY <1>1, <2>1 DEF PipelineInv, PlanInv
    <2>7. CausesInv'
      BY <1>1, <1>11, CausesFrame DEF PipelineInv
    <2> QED BY <2>2, <2>3, <2>5, <2>6, <2>7 DEF PipelineInv
  <1> QED BY <1>2, <1>3, <1>5, <1>7, <1>10, <1>11

(* Nothing that the pipeline is about changes.                             *)
LEMMA SamePipeline ==
    ASSUME PipelineInv,
           UNCHANGED <<doc, preview, frozen, tags, cache, files, snap, todo, dirty, pc, outcome, refs,
                       digests, verb, tools, extension, artifact, plan, candidates>>
    PROVE  PipelineInv'
  <1>1. UNCHANGED <<doc, preview, frozen, tags, cache, files, snap, todo, dirty, pc, outcome, refs,
                    digests, verb, tools, extension, artifact, plan, candidates>>
    OBVIOUS
  <1>2. WorkInv'
    BY <1>1, WorkFrame DEF PipelineInv
  <1>3. FilesInv'
    BY <1>1 DEF PipelineInv, FilesInv, StateOf, Snapped
  <1>4. CopyInv'
    BY <1>1 DEF PipelineInv, CopyInv
  <1>5. ImagesInv' /\ PlanInv'
    BY <1>1, ImagesFrame, PlanFrame DEF PipelineInv
  <1>6. CausesInv'
    BY <1>1, CausesFrame DEF PipelineInv
  <1> QED BY <1>2, <1>3, <1>4, <1>5, <1>6 DEF PipelineInv

\* An approval is remembered, or the command ends.
LEMMA ApproveKeeps ==
    ASSUME PipelineInv, ApproveExtension PROVE PipelineInv'
  <1>1. UNCHANGED <<doc, preview, frozen, tags, cache, files, snap, todo, dirty, refs,
                    digests, verb, tools, extension, artifact, plan, candidates>>
    BY Zenon DEF ApproveExtension, workspace, daemon, record, frozenVs, images
  <1>2. UNCHANGED <<pc, outcome>> \/ (pc' = "idle" /\ outcome' = "declined")
    BY Zenon DEF ApproveExtension, End
  <1>3. CASE UNCHANGED <<pc, outcome>>
    BY <1>1, <1>3, SamePipeline
  <1>4. CASE pc' = "idle" /\ outcome' = "declined"
    <2>1. Layers(cache', FirstLayer)
      BY <1>1 DEF PipelineInv, WorkInv
    <2> QED BY <1>1, <1>4, <2>1, EarlyKeeps DEF Early
  <1> QED BY <1>2, <1>3, <1>4

\* A project's own Dockerfile is built when it meets the contract, so that it
\* has instructions, and the image it makes has a number of its own too.
LEMMA ExtensionKeeps ==
    ASSUME PipelineInv, BuildExtension PROVE PipelineInv'
  <1> DEFINE texts      == Snapped(DockerfileDest)
             dockerfile == ExtensionText
             under == IF HasTools(frozen) THEN ToolsImageRef ELSE Ref(frozen.base)
             base == digests[under]
             b    == Build(dockerfile, Len(dockerfile), {}, Context, base, heads, cache, FirstLayer)
             made == Finished(dockerfile, {}, Context, base, b)
             valid == Contracted
  <1>1. /\ pc = "extension"
        /\ UNCHANGED <<doc, files, tags, preview, frozen, snap, todo, candidates, artifact, verb, tools>>
    BY Zenon DEF BuildExtension, workspace, daemon, record, frozenVs
  <1>2. \/ ~frozen.extension /\ pc' = "compile" /\ UNCHANGED <<digests, cache, outcome>>
        \/ pc' = "idle" /\ outcome' = "dockerfile" /\ UNCHANGED <<digests, cache>>
        \/ /\ valid /\ cache' = b.cache /\ digests' = With(ExtensionImageRef, b.at)
           /\ extension' = made /\ pc' = "compile" /\ outcome' = outcome
    BY Zenon DEF BuildExtension, End
  <1>3. made.base = base
    BY DEF Finished
  <1>4. ASSUME valid PROVE IsList(dockerfile) /\ Len(dockerfile) > 0
    <2> DEFINE f == CHOOSE f \in texts : TRUE
    <2>1. f \in texts
      BY <1>4 DEF Contracted
    <2>2. f.content \in DOMAIN Texts
      BY <2>1 DEF PipelineInv, FilesInv
    <2>3. IsList(dockerfile)
      BY <2>2, CandidateAssumption DEF ExtensionText
    <2>4. ValidateDockerfile(dockerfile)
      BY <1>4 DEF Contracted
    <2> HIDE DEF dockerfile
    <2>5. DOMAIN dockerfile # {}
      BY <2>4 DEF ValidateDockerfile, ToSet
    <2> QED BY <2>3, <2>5, ListFacts
  <1>5. Layers(cache, FirstLayer) /\ FirstLayer \in Nat /\ FirstLayer > 0
    BY DEF PipelineInv, WorkInv, FirstLayer
  <1>6. valid => Layers(b.cache, FirstLayer) /\ b.at # 0
    <2> HIDE DEF dockerfile
    <2> SUFFICES ASSUME valid PROVE Layers(b.cache, FirstLayer) /\ b.at # 0
      OBVIOUS
    <2>1. Len(dockerfile) \in Nat /\ Len(dockerfile) > 0
      BY <1>4, ListFacts
    <2>2. Layers(b.cache, FirstLayer) /\ b.at \in Nat /\ b.at >= FirstLayer
      BY <1>5, <2>1, BuildFacts
    <2> QED BY <1>5, <2>2
  <1> HIDE DEF valid, b, made, base
  <1>7. /\ verb # "config" /\ Needs \subseteq DOMAIN digests
        /\ HasTools(frozen) =>
              ToolsImageRef \in DOMAIN digests /\ tools.base = digests[Ref(frozen.base)]
        /\ \A r \in DOMAIN digests : digests[r] # 0
    BY <1>1 DEF PipelineInv, ImagesInv, Late
  <1>8. Needs' = Needs /\ Ref(frozen.base) \in Needs
    BY <1>1, NeedsFrame DEF Needs
  <1>9. CASE pc' = "idle" /\ outcome' = "dockerfile" /\ UNCHANGED <<digests, cache>>
    BY <1>1, <1>5, <1>9, EarlyKeeps DEF Early
  <1>10. CASE /\ pc' = "compile" /\ outcome' = outcome /\ Layers(cache', FirstLayer)
              /\ \/ ~frozen.extension /\ digests' = digests
                 \/ digests' = With(ExtensionImageRef, b.at) /\ b.at # 0 /\ extension' = made
    <2>1. pc \in Late /\ pc' \in Late /\ pc' \notin Running /\ pc' \notin {"copy", "read"}
      BY <1>1, <1>10 DEF Late, Running
    <2>2. WorkInv'
      BY <1>1, <1>10, <2>1 DEF PipelineInv, WorkInv
    <2>3. FilesInv' /\ CopyInv'
      BY <1>1, <2>1, FilesFrame, CopyFrame DEF PipelineInv
    <2>4. /\ \A r \in DOMAIN digests' : digests'[r] # 0
          /\ Needs \subseteq DOMAIN digests'
          /\ HasTools(frozen) =>
                ToolsImageRef \in DOMAIN digests' /\ tools.base = digests'[Ref(frozen.base)]
          /\ frozen.extension =>
                ExtensionImageRef \in DOMAIN digests' /\ extension'.base = digests'[under]
      <3>1. CASE ~frozen.extension /\ digests' = digests
        BY <1>7, <3>1
      <3>2. CASE digests' = With(ExtensionImageRef, b.at) /\ b.at # 0 /\ extension' = made
        <4>1. /\ DOMAIN digests' = DOMAIN digests \cup {ExtensionImageRef}
              /\ \A r \in DOMAIN digests : r # ExtensionImageRef => digests'[r] = digests[r]
              /\ digests'[ExtensionImageRef] = b.at
          BY <3>2 DEF With
        <4>2. \A r \in DOMAIN digests' : digests'[r] # 0
          BY <1>7, <3>2, <4>1
        <4>3. /\ Ref(frozen.base) # ExtensionImageRef /\ Ref(frozen.base) \in DOMAIN digests
              /\ ToolsImageRef # ExtensionImageRef
          BY <1>7, <1>8, RefsApart
        <4>4. under \in DOMAIN digests /\ under # ExtensionImageRef
          BY <1>7, <4>3
        <4>5. extension'.base = digests'[under]
          BY <1>3, <3>2, <4>1, <4>4 DEF base
        <4> QED BY <1>7, <4>1, <4>2, <4>3, <4>5
      <3> QED BY <1>10, <3>1, <3>2
    <2>5. ImagesInv'
      BY <1>1, <1>7, <1>8, <1>10, <2>1, <2>4 DEF ImagesInv
    <2>6. PlanInv'
      BY <1>1, <2>1 DEF PipelineInv, PlanInv
    <2>7. CausesInv'
      BY <1>1, <1>10, CausesFrame DEF PipelineInv
    <2> QED BY <2>2, <2>3, <2>5, <2>6, <2>7 DEF PipelineInv
  <1> QED BY <1>2, <1>5, <1>6, <1>9, <1>10

\* A refused plan has a clash of the manifest's own.
LEMMA CompileKeeps ==
    ASSUME PipelineInv, CompilePlan PROVE PipelineInv'
  <1>1. /\ pc = "compile"
        /\ UNCHANGED <<doc, files, tags, preview, frozen, snap, todo, digests, refs, candidates, cache,
                       artifact, verb, tools, extension>>
    BY Zenon DEF CompilePlan, workspace, daemon, record, frozenVs, images, built
  <1>2. \/ CompileRefuses(Given) /\ pc' = "idle" /\ outcome' = "plan"
        \/ ~CompileRefuses(Given) /\ pc' = "idle" /\ outcome' = "ok"
        \/ /\ ~CompileRefuses(Given) /\ verb # "config" /\ plan' = <<PlanOf(Given)>>
           /\ pc' = "publish" /\ outcome' = outcome
    BY Zenon DEF CompilePlan, End, Given
  <1>3. Given.m = frozen
    BY DEF Given, Input
  <1>4. Validate(frozen) /\ Document(frozen) /\ Layers(cache, FirstLayer) /\ outcome = "none"
    BY <1>1, CandidateAssumption DEF PipelineInv, WorkInv, CausesInv, Late
  <1>5. CASE CompileRefuses(Given) /\ pc' = "idle" /\ outcome' = "plan"
    <2>1. AsksForAClash(frozen)
      BY <1>3, <1>4, <1>5, RefusedByClash
    <2>2. pc' \in Early /\ pc' \notin Late
      BY <1>5 DEF Early, Late
    <2>3. WorkInv'
      BY <1>1, <2>2, WorkFrame DEF PipelineInv
    <2>4. FilesInv' /\ CopyInv' /\ PlanInv'
      BY <1>1, <1>5, <2>2, FilesFrame, CopyEarly, PlanEarly DEF PipelineInv
    <2>5. ImagesInv'
      BY <1>1, <2>2, ImagesEarly DEF PipelineInv, ImagesInv
    <2>6. CausesInv'
      BY <1>1, <1>5, <2>1 DEF CausesInv
    <2> QED BY <2>3, <2>4, <2>5, <2>6 DEF PipelineInv
  <1>6. CASE pc' = "idle" /\ outcome' = "ok"
    BY <1>1, <1>4, <1>6, EarlyKeeps DEF Early
  <1>7. CASE /\ ~CompileRefuses(Given) /\ verb # "config" /\ plan' = <<PlanOf(Given)>>
             /\ pc' = "publish" /\ outcome' = outcome
    <2>1. pc \in Late /\ pc' \in Late /\ pc' \notin {"copy", "read"}
      BY <1>1, <1>7 DEF Late
    <2>2. WorkInv' /\ FilesInv' /\ CopyInv'
      BY <1>1, <2>1, WorkFrame, FilesFrame, CopyFrame DEF PipelineInv
    <2>3. ImagesInv'
      <3>1. Needs' = Needs
        BY <1>1, NeedsFrame
      <3> QED BY <1>1, <1>7, <3>1 DEF PipelineInv, ImagesInv
    <2>4. Given' = Given
      BY <1>1 DEF Given, DNSConfPresent
    <2>5. PlanInv'
      BY <1>1, <1>7, <2>4 DEF PipelineInv, PlanInv
    <2>6. CausesInv'
      BY <1>1, <1>7, CausesFrame DEF PipelineInv
    <2> QED BY <2>2, <2>3, <2>5, <2>6 DEF PipelineInv
  <1> QED BY <1>2, <1>5, <1>6, <1>7

\* A record that exists is the one that would be written.
LEMMA PublishKeeps ==
    ASSUME PipelineInv, Publish PROVE PipelineInv'
  <1> DEFINE existing == {c \in candidates : c.plan = plan}
             new == [plan |-> plan, at |-> CreatedAt(existing)]
  <1>1. /\ pc = "publish"
        /\ UNCHANGED <<doc, files, tags, preview, frozen, snap, todo, digests, refs, cache,
                       artifact, verb, tools, extension, plan>>
    BY Zenon DEF Publish, workspace, daemon, record, frozenVs, images, built
  <1>2. \/ /\ existing \subseteq {new} /\ candidates' = candidates \cup {new}
           /\ pc' = "reconcile" /\ outcome' = outcome
        \/ ~(existing \subseteq {new})
    BY Zenon DEF Publish
  <1>3. /\ \A c, d \in candidates : c.plan = d.plan => c = d
        /\ \A c \in candidates : c = [plan |-> c.plan, at |-> c.at]
    BY DEF PipelineInv, PlanInv
  <1>4. existing \subseteq {new}
    <2> SUFFICES ASSUME NEW c \in existing PROVE c = new
      OBVIOUS
    <2>1. existing = {c}
      BY <1>3
    <2>2. c.plan = plan
      OBVIOUS
    <2> HIDE DEF existing
    <2>3. CreatedAt(existing) = c.at
      BY <2>1 DEF CreatedAt
    <2>4. c = [plan |-> c.plan, at |-> c.at]
      BY <1>3 DEF existing
    <2> QED BY <2>2, <2>3, <2>4
  <1>5. /\ candidates' = candidates \cup {new} /\ pc' = "reconcile" /\ outcome' = outcome
    BY <1>2, <1>4
  <1>6. pc \in Late /\ pc' \in Late /\ pc \in Running /\ pc' \notin {"copy", "read"}
    BY <1>1, <1>5 DEF Late, Running
  <1>7. WorkInv' /\ FilesInv' /\ CopyInv'
    BY <1>1, <1>6, WorkFrame, FilesFrame, CopyFrame DEF PipelineInv
  <1>8. ImagesInv'
    <2>1. Needs' = Needs
      BY <1>1, NeedsFrame
    <2> QED BY <1>1, <1>5, <2>1 DEF PipelineInv, ImagesInv, Late, Running
  <1>9. PlanInv'
    <2>1. Given' = Given
      BY <1>1 DEF Given, DNSConfPresent
    <2>2. plan' = <<PlanOf(Given)>> /\ ~CompileRefuses(Given)
      BY <1>1, <1>6 DEF PipelineInv, PlanInv
    <2>3. new.plan = plan /\ new = [plan |-> new.plan, at |-> new.at]
      OBVIOUS
    <2>4. \A c \in candidates : c.plan = plan => c = new
      BY <1>4
    <2> HIDE DEF new, existing
    <2>5. \A c, d \in candidates' : c.plan = d.plan => c = d
      BY <1>3, <1>5, <2>3, <2>4
    <2>6. \A c \in candidates' : c = [plan |-> c.plan, at |-> c.at]
      BY <1>3, <1>5, <2>3
    <2> QED BY <2>1, <2>2, <2>5, <2>6 DEF PlanInv
  <1>10. CausesInv'
    BY <1>1, <1>5, CausesFrame DEF PipelineInv
  <1> QED BY <1>7, <1>8, <1>9, <1>10 DEF PipelineInv

LEMMA InitPipeline ==
    ASSUME Init PROVE PipelineInv
  <1>1. /\ doc \in Docs /\ pc = "idle" /\ outcome = "none" /\ cache = {} /\ candidates = {} /\ snap = {}
        /\ files = [p \in DOMAIN FileStates |-> CHOOSE c \in Contents(p) : TRUE]
        /\ tags = [r \in ImageRefs |-> 1] /\ preview = NoDoc /\ frozen = NoDoc
        /\ digests = [r \in {} |-> 0]
    BY Zenon DEF Init
  <1>2. pc \notin Late /\ pc \notin Running
    BY <1>1 DEF Late, Running
  <1>3. WorkInv
    <2>1. Layers({}, FirstLayer)
      BY FS_EmptySet DEF Layers
    <2>2. NoDoc \in Docs
      BY <1>1 DEF NoDoc
    <2> QED BY <1>1, <1>2, <2>1, <2>2 DEF WorkInv
  <1>4. FilesInv
    <2>1. \A p \in DOMAIN FileStates : files[p] \in FileStates[p]
      BY <1>1, CandidateAssumption DEF Contents
    <2> QED BY <1>1, <2>1 DEF FilesInv, Snapped
  <1>5. CopyInv
    BY <1>1, <1>2 DEF CopyInv
  <1>6. ImagesInv
    BY <1>1 DEF ImagesInv, Late, Running
  <1>7. PlanInv /\ CausesInv
    BY <1>1, <1>2 DEF PlanInv, CausesInv
  <1> QED BY <1>3, <1>4, <1>5, <1>6, <1>7 DEF PipelineInv

LEMMA NextPipeline ==
    ASSUME PipelineInv, Next PROVE PipelineInv'
  <1>1. ASSUME NEW v, Begin(v) PROVE PipelineInv'
    BY <1>1, BeginKeeps
  <1>2. ASSUME NEW failed, MintAgentRefresh(failed) PROVE PipelineInv'
    BY <1>2, MintKeeps
  <1>3. Preview \/ CopyOpen \/ CopyRead \/ LoadFrozen => PipelineInv'
    BY PreviewKeeps, OpenKeeps, ReadKeeps, LoadKeeps
  <1>4. LoadArtifact \/ ResolveImage \/ BuildTools \/ ApproveExtension \/ BuildExtension => PipelineInv'
    BY ArtifactKeeps, ResolveKeeps, ToolsKeeps, ApproveKeeps, ExtensionKeeps
  <1>5. CompilePlan \/ Publish \/ UpdateRecord \/ Abort => PipelineInv'
    BY CompileKeeps, PublishKeeps, UpdateKeeps, AbortKeeps
  <1>6. ASSUME NEW d \in Saved, EditManifest(d) PROVE PipelineInv'
    BY <1>6, EditManifestKeeps
  <1>7. ASSUME NEW path \in DOMAIN FileStates, NEW content \in FileStates[path], EditFile(path, content)
        PROVE  PipelineInv'
    BY <1>7, EditFileKeeps
  <1>8. ASSUME NEW h, NewRelease(h) PROVE PipelineInv'
    BY <1>8, ReleaseKeeps
  <1>9. ASSUME NEW r \in ImageRefs, MoveTag(r) PROVE PipelineInv'
    BY <1>9, TagKeeps
  <1> QED BY <1>1, <1>2, <1>3, <1>4, <1>5, <1>6, <1>7, <1>8, <1>9, Zenon DEF Next

LEMMA StutterPipeline ==
    ASSUME PipelineInv, UNCHANGED vars PROVE PipelineInv'
  <1>1. UNCHANGED <<doc, preview, frozen, tags, cache, files, snap, todo, dirty, pc, outcome, refs,
                    digests, verb, tools, extension, artifact, plan, candidates>>
    BY Zenon DEF vars, workspace, daemon, record, frozenVs, images, built
  <1> QED BY <1>1, SamePipeline

-----------------------------------------------------------------------------
(* What follows of a published plan.                                       *)

LEMMA PublishedIsRecorded ==
    ASSUME PipelineInv PROVE InputsRecorded
  <1> SUFFICES ASSUME pc \in Running PROVE InputsRecorded
    BY DEF InputsRecorded, Running
  <1> DEFINE p == PlanOf(Given)
  <1>1. plan[1] = p /\ ~CompileRefuses(Given)
    BY DEF PipelineInv, PlanInv
  <1>2. pc \in Late /\ pc \notin {"artifact", "compile"}
    BY DEF Late, Running
  <1>3. /\ \A r \in DOMAIN digests : digests[r] # 0
        /\ verb # "config" /\ Needs \subseteq DOMAIN digests
        /\ HasTools(frozen) =>
              ToolsImageRef \in DOMAIN digests /\ tools.base = digests[Ref(frozen.base)]
        /\ frozen.extension =>
              /\ ExtensionImageRef \in DOMAIN digests
              /\ extension.base = digests[IF HasTools(frozen) THEN ToolsImageRef ELSE Ref(frozen.base)]
    BY <1>2 DEF PipelineInv, ImagesInv
  <1>4. /\ Given.m = frozen /\ Given.digests = digests /\ Given.dnsConf = DNSConfPresent
    BY DEF Given, Input
  <1>5. IsList(frozen.services) /\ IsList(frozen.imports) /\ Document(frozen)
    BY CandidateAssumption DEF PipelineInv, WorkInv, Document
  <1>6. p.images = {ImageID(ref, digests) : ref \in InventoryRefs(Given)}
    BY <1>4 DEF PlanOf
  <1>7. p.dev.mounts = DevMounts(Given)
    BY DEF PlanOf, DevContainer
  <1>8. \A c \in ToSet(Containers(p)) : c.image \in p.images
    BY <1>4, <1>5, ContainersListed
  <1>9. InventoryRefs(Given) \subseteq DOMAIN digests
    <2> SUFFICES ASSUME NEW ref \in InventoryRefs(Given) PROVE ref \in DOMAIN digests
      OBVIOUS
    <2>1. ref \in Needs \/ (ref = ToolsImageRef /\ HasTools(frozen))
            \/ (ref = ExtensionImageRef /\ frozen.extension)
      BY <1>4, <1>5, InventoryFacts DEF Needs
    <2> QED BY <1>3, <2>1
  <1> HIDE DEF p
  <1>10. \A i \in p.images : i.digest # 0
    BY <1>3, <1>6, <1>9 DEF ImageID
  <1>11. \A ref \in InventoryRefs(Given) : [ref |-> ref, digest |-> digests[ref]] \in p.images
    BY <1>6, <1>9 DEF ImageID
  <1>12. HasTools(frozen) => [ref |-> Ref(frozen.base), digest |-> tools.base] \in p.images
    <2>1. HasTools(frozen) => Ref(frozen.base) \in InventoryRefs(Given)
      BY <1>4 DEF InventoryRefs
    <2> QED BY <1>3, <1>11, <2>1
  <1>13. frozen.extension =>
            [ref |-> IF HasTools(frozen) THEN ToolsImageRef ELSE Ref(frozen.base),
             digest |-> extension.base] \in p.images
    <2>1. frozen.extension =>
            (IF HasTools(frozen) THEN ToolsImageRef ELSE Ref(frozen.base)) \in InventoryRefs(Given)
      BY <1>4 DEF InventoryRefs
    <2> QED BY <1>3, <1>11, <2>1
  <1>14. ASSUME preview = frozen, NEW i \in DOMAIN frozen.imports
         PROVE  \E mount \in ToSet(p.dev.mounts), f \in snap :
                    /\ mount.target = frozen.imports[i].target.at
                    /\ mount.source = f.dest /\ f.source = frozen.imports[i].source.at
    <2> DEFINE mount == ImportMount(i, frozen)
               e == Entry(frozen.imports[i].source, ImportDest(i), FALSE)
    <2>1. reservedTargetFor(frozen.imports[i].target.at) = {}
      BY <1>1, <1>4, <1>14 DEF CompileRefuses
    <2>2. mount \in ToSet(p.dev.mounts)
      BY <1>4, <1>5, <1>7, <1>14, <2>1, ImportsMounted
    <2>3. mount.target = frozen.imports[i].target.at /\ mount.source = ImportDest(i)
      BY DEF ImportMount, BindMount, Mount, ImportDest
    <2>4. e \in ToSet(Entries(preview))
      BY <1>5, <1>14, EntriesFacts
    <2>5. /\ ~e.optional /\ e.dest = ImportDest(i) /\ e.dest # SnapshotManifest
          /\ e.source = frozen.imports[i].source
      BY DEF Entry, ImportDest, SnapshotManifest
    <2> HIDE DEF e, mount
    <2>6. todo = <<>>
      BY <1>2 DEF PipelineInv, CopyInv
    <2>7. e \notin ToSet(todo)
      BY <2>6, SmallLists
    <2>8. \E f \in snap : f.dest = e.dest /\ f.source = e.source.at
      BY <1>2, <2>4, <2>5, <2>7 DEF PipelineInv, CopyInv
    <2> QED BY <2>2, <2>3, <2>5, <2>8
  <1> QED BY <1>1, <1>8, <1>10, <1>12, <1>13, <1>14, Zenon DEF InputsRecorded

\* A published plan accounts for everything it runs (Compile, BuildTools,
\* BuildExtension), for all manifests, files, releases and interruptions.
THEOREM InputsRecordedTheorem == Spec => []InputsRecorded
  <1>1. Init => PipelineInv
    BY InitPipeline
  <1>2. PipelineInv /\ [Next]_vars => PipelineInv'
    BY NextPipeline, StutterPipeline
  <1>3. PipelineInv => InputsRecorded
    BY PublishedIsRecorded
  <1> QED BY <1>1, <1>2, <1>3, PTL DEF Spec

\* What the engine adds to a manifest never makes it refuse that manifest
\* (Validate, Compile, GenerateInstallPlan and PublishCandidate).
THEOREM RefusedForCauseTheorem == Spec => []RefusedForCause
  <1>1. Init => PipelineInv
    BY InitPipeline
  <1>2. PipelineInv /\ [Next]_vars => PipelineInv'
    BY NextPipeline, StutterPipeline
  <1>3. PipelineInv => RefusedForCause
    BY DEF PipelineInv, CausesInv, RefusedForCause
  <1> QED BY <1>1, <1>2, <1>3, PTL DEF Spec

-----------------------------------------------------------------------------
(* Two builds of one Dockerfile.                                           *)

\* A layer is known by the layer below and the step that made it.
Unique(layers) ==
    \A k, l \in layers : k.parent = l.parent /\ k.step = l.step => k = l

\* The arguments that a Dockerfile has declared before its step i.
Declared(dockerfile, args, i) ==
    {a \in args : \E j \in 1 .. i - 1 : dockerfile[j].op = "ARG" /\ dockerfile[j].part = a[1]}

StepAt(dockerfile, args, context, base, i) ==
    Step(dockerfile[i], Declared(dockerfile, args, i), context, base)

\* The layers of a finished build, each on the one before.
Chain(at, layers, dockerfile, n, args, context, base) ==
    /\ at[0] = 0
    /\ \A i \in 1 .. n : \E l \in layers :
          /\ l.parent = at[i - 1] /\ l.id = at[i]
          /\ l.step = StepAt(dockerfile, args, context, base, i)

Chained(layers, dockerfile, n, args, context, base) ==
    \E at : Chain(at, layers, dockerfile, n, args, context, base)

LEMMA ChainKept ==
    ASSUME NEW layers, NEW more, layers \subseteq more,
           NEW dockerfile, NEW n, NEW args, NEW context, NEW base,
           Chained(layers, dockerfile, n, args, context, base)
    PROVE  Chained(more, dockerfile, n, args, context, base)
  <1>1. PICK at : Chain(at, layers, dockerfile, n, args, context, base)
    BY DEF Chained
  <1>2. Chain(at, more, dockerfile, n, args, context, base)
    BY <1>1 DEF Chain
  <1> QED BY <1>2 DEF Chained

\* One step of a build: the layer it leaves was known, or is new.
LEMMA OneStep ==
    ASSUME NEW b, NEW i, NEW dockerfile, NEW args, NEW context, NEW base, NEW versions, NEW first,
           Unique(b.cache),
           NEW c, c = BuildStep(b, i, dockerfile, args, context, base, versions, first)
    PROVE  /\ Unique(c.cache) /\ b.cache \subseteq c.cache
           /\ \E l \in c.cache : /\ l.parent = b.at /\ l.id = c.at
                                 /\ l.step = Step(dockerfile[i], b.declared, context, base)
           /\ \A l \in b.cache :
                 l.parent = b.at /\ l.step = Step(dockerfile[i], b.declared, context, base) =>
                     c.at = l.id /\ c.pulls = b.pulls
           /\ c.pulls \subseteq b.pulls \cup {i}
           /\ c.declared = IF dockerfile[i].op = "ARG"
                           THEN b.declared \cup {a \in args : a[1] = dockerfile[i].part}
                           ELSE b.declared
  <1> DEFINE instruction == dockerfile[i]
             step  == Step(instruction, b.declared, context, base)
             known == {l \in b.cache : l.parent = b.at /\ l.step = step}
             agent == instruction.op = "RUN" /\ instruction.part \in AgentKind
             got   == IF ~agent THEN 0
                      ELSE IF instruction.words[1] \in Words
                           THEN versions[<<instruction.part, instruction.words[1]>>] ELSE 0
             new   == [parent |-> b.at, step |-> step, id |-> first + Cardinality(b.cache), got |-> got]
             layer == IF known # {} THEN CHOOSE l \in known : TRUE ELSE new
  <1>1. /\ c.at = layer.id /\ c.cache = b.cache \cup {layer}
        /\ c.pulls = IF known = {} THEN b.pulls \cup {i} ELSE b.pulls
        /\ c.declared = IF instruction.op = "ARG"
                        THEN b.declared \cup {a \in args : a[1] = instruction.part}
                        ELSE b.declared
    <2>1. c.at = layer.id /\ c.cache = b.cache \cup {layer}
      BY Zenon DEF BuildStep
    <2>2. c.pulls = IF known = {} THEN b.pulls \cup {i} ELSE b.pulls
      BY Zenon DEF BuildStep
    <2>3. c.declared = IF instruction.op = "ARG"
                       THEN b.declared \cup {a \in args : a[1] = instruction.part}
                       ELSE b.declared
      BY Zenon DEF BuildStep
    <2> QED BY <2>1, <2>2, <2>3
  <1> HIDE DEF step
  <1>2. layer.parent = b.at /\ layer.step = step /\ (known # {} => layer \in known)
    <2> HIDE DEF got
    <2>1. CASE known # {}
      <3>1. layer \in known
        BY <2>1
      <3> HIDE DEF layer
      <3> QED BY <3>1
    <2>2. CASE known = {}
      BY <2>2
    <2> QED BY <2>1, <2>2
  <1>3. \A l \in b.cache : l.parent = b.at /\ l.step = step => known # {} /\ l = layer
    <2> SUFFICES ASSUME NEW l \in b.cache, l.parent = b.at, l.step = step
                 PROVE  known # {} /\ l = layer
      OBVIOUS
    <2>1. l \in known
      OBVIOUS
    <2>2. layer \in b.cache
      BY <1>2, <2>1
    <2> HIDE DEF layer
    <2> QED BY <1>2, <2>1, <2>2 DEF Unique
  <1> HIDE DEF layer
  <1>4. Unique(c.cache)
    BY <1>1, <1>2, <1>3 DEF Unique
  <1> HIDE DEF known
  <1>5. \A l \in b.cache : l.parent = b.at /\ l.step = step => c.at = l.id /\ c.pulls = b.pulls
    BY <1>1, <1>3
  <1>6. c.pulls \subseteq b.pulls \cup {i}
    BY <1>1
  <1> QED BY <1>1, <1>2, <1>4, <1>5, <1>6 DEF step

\* What a step has declared when it is run.
LEMMA DeclaredNext ==
    ASSUME NEW dockerfile, NEW args, NEW i \in Nat, i > 0
    PROVE  Declared(dockerfile, args, i + 1) =
             IF dockerfile[i].op = "ARG"
             THEN Declared(dockerfile, args, i) \cup {a \in args : a[1] = dockerfile[i].part}
             ELSE Declared(dockerfile, args, i)
  <1>1. \A j : j \in 1 .. (i + 1) - 1 <=> j \in 1 .. i - 1 \/ j = i
    OBVIOUS
  <1> QED BY <1>1 DEF Declared

\* Against an earlier build of the same Dockerfile, a build pulls only from
\* the first step on that differs.
PullsFromChange(pulls, layers, dockerfile, n, args, context, base) ==
    \A before : Chained(layers, dockerfile, n, before, context, base) =>
        \A i \in pulls : i \in 1 .. n /\ \E j \in 1 .. i :
            StepAt(dockerfile, before, context, base, j) # StepAt(dockerfile, args, context, base, j)

\* A build keeps what is known and leaves a chain.
LEMMA BuildChain ==
    ASSUME NEW dockerfile, NEW n \in Nat, NEW args, NEW context, NEW base, NEW versions,
           NEW known, NEW first, Unique(known),
           NEW b, b = Build(dockerfile, n, args, context, base, versions, known, first)
    PROVE  /\ Unique(b.cache) /\ known \subseteq b.cache
           /\ Chained(b.cache, dockerfile, n, args, context, base)
           /\ PullsFromChange(b.pulls, known, dockerfile, n, args, context, base)
  <1> DEFINE Now(i) == StepAt(dockerfile, args, context, base, i)
  <1>1. PICK after :
              /\ after[0] = Start(known) /\ after[n] = b
              /\ \A i \in 1 .. n :
                    after[i] = BuildStep(after[i - 1], i, dockerfile, args, context, base, versions, first)
    BY BuildSteps
  <1> DEFINE Good(m) ==
               /\ Unique(after[m].cache) /\ known \subseteq after[m].cache
               /\ after[m].declared = Declared(dockerfile, args, m + 1)
               /\ \A i \in 1 .. m : \E l \in after[m].cache :
                     l.parent = after[i - 1].at /\ l.id = after[i].at /\ l.step = Now(i)
             Bad == {m \in 0 .. n : ~Good(m)}
  <1>2. Good(0)
    <2>1. Declared(dockerfile, args, 0 + 1) = {}
      BY DEF Declared
    <2>2. ~\E i : i \in 1 .. 0
      OBVIOUS
    <2> QED BY <1>1, <2>1, <2>2 DEF Start
  <1>3. ASSUME NEW m \in 1 .. n, Good(m - 1)
        PROVE  /\ Good(m)
               /\ \A l \in after[m - 1].cache : l.parent = after[m - 1].at /\ l.step = Now(m) =>
                     after[m].at = l.id /\ after[m].pulls = after[m - 1].pulls
               /\ after[m].pulls \subseteq after[m - 1].pulls \cup {m}
    <2> DEFINE c == after[m - 1]
               d == after[m]
    <2>1. d = BuildStep(c, m, dockerfile, args, context, base, versions, first)
      BY <1>1
    <2>2. m \in Nat /\ m > 0 /\ (m - 1) + 1 = m /\ m - 1 \in 0 .. n
      OBVIOUS
    <2>3. Unique(c.cache) /\ c.declared = Declared(dockerfile, args, m) /\ known \subseteq c.cache
      BY <1>3, <2>2
    <2>4. Now(m) = Step(dockerfile[m], c.declared, context, base)
      BY <2>3 DEF StepAt
    <2>5. /\ Unique(d.cache) /\ c.cache \subseteq d.cache
          /\ \E l \in d.cache : /\ l.parent = c.at /\ l.id = d.at
                                /\ l.step = Step(dockerfile[m], c.declared, context, base)
          /\ \A l \in c.cache :
                l.parent = c.at /\ l.step = Step(dockerfile[m], c.declared, context, base) =>
                    d.at = l.id /\ d.pulls = c.pulls
          /\ d.pulls \subseteq c.pulls \cup {m}
          /\ d.declared = IF dockerfile[m].op = "ARG"
                          THEN c.declared \cup {a \in args : a[1] = dockerfile[m].part}
                          ELSE c.declared
      <3> HIDE DEF c, d
      <3> QED BY <2>1, <2>3, OneStep
    <2>6. d.declared = Declared(dockerfile, args, m + 1)
      <3>1. Declared(dockerfile, args, m + 1) =
              IF dockerfile[m].op = "ARG"
              THEN Declared(dockerfile, args, m) \cup {a \in args : a[1] = dockerfile[m].part}
              ELSE Declared(dockerfile, args, m)
        BY <2>2, DeclaredNext
      <3> QED BY <2>3, <2>5, <3>1
    <2>7. ASSUME NEW i \in 1 .. m
          PROVE  \E l \in d.cache : l.parent = after[i - 1].at /\ l.id = after[i].at /\ l.step = Now(i)
      <3>1. CASE i = m
        BY <2>4, <2>5, <3>1
      <3>2. CASE i # m
        <4>1. i \in 1 .. m - 1
          BY <3>2
        <4>2. \E l \in c.cache : l.parent = after[i - 1].at /\ l.id = after[i].at /\ l.step = Now(i)
          BY <1>3, <4>1
        <4> QED BY <2>5, <4>2
      <3> QED BY <3>1, <3>2
    <2>8. Good(m)
      BY <2>3, <2>5, <2>6, <2>7
    <2> QED BY <2>4, <2>5, <2>8
  <1>4. \A m \in 0 .. n : Good(m)
    <2> HIDE DEF Good
    <2>1. Bad \in SUBSET (0 .. n) /\ 0 \notin Bad
      BY <1>2
    <2>2. \A i \in 1 .. n : i - 1 \notin Bad => i \notin Bad
      <3>1. \A i \in 1 .. n : i - 1 \in 0 .. n
        OBVIOUS
      <3> QED BY <1>3, <3>1
    <2>3. Bad = {}
      <3> HIDE DEF Bad
      <3> QED BY <2>1, <2>2, FirstFailure
    <2> QED BY <2>3
  <1>5. Good(n) /\ \A m \in 1 .. n : Good(m - 1)
    <2>1. n \in 0 .. n /\ \A m \in 1 .. n : m - 1 \in 0 .. n
      OBVIOUS
    <2> HIDE DEF Good
    <2> QED BY <1>4, <2>1
  <1>6. Unique(b.cache) /\ known \subseteq b.cache
    BY <1>1, <1>5
  <1>7. Chained(b.cache, dockerfile, n, args, context, base)
    <2> DEFINE at == [i \in 0 .. n |-> after[i].at]
    <2>1. \A i \in 1 .. n : at[i - 1] = after[i - 1].at /\ at[i] = after[i].at
      OBVIOUS
    <2>2. at[0] = 0
      BY <1>1 DEF Start
    <2> HIDE DEF at
    <2>3. Chain(at, b.cache, dockerfile, n, args, context, base)
      BY <1>1, <1>5, <2>1, <2>2 DEF Chain
    <2> QED BY <2>3 DEF Chained
  <1>8. ASSUME NEW before, Chained(known, dockerfile, n, before, context, base)
        PROVE  \A i \in b.pulls : i \in 1 .. n /\ \E j \in 1 .. i :
                   StepAt(dockerfile, before, context, base, j) # Now(j)
    <2> DEFINE Then(j) == StepAt(dockerfile, before, context, base, j)
    <2>1. PICK at : Chain(at, known, dockerfile, n, before, context, base)
      BY <1>8 DEF Chained
    <2> DEFINE Same(m) == \A j \in 1 .. m : Then(j) = Now(j)
               Fine(m) == /\ Same(m) => after[m].at = at[m]
                          /\ \A i \in after[m].pulls : i \in 1 .. m /\ ~Same(i)
               Wrong   == {m \in 0 .. n : ~Fine(m)}
    <2>2. Fine(0)
      BY <1>1, <2>1 DEF Start, Chain
    <2>3. ASSUME NEW m \in 1 .. n, Fine(m - 1) PROVE Fine(m)
      <3> DEFINE c == after[m - 1]
                 d == after[m]
      <3>1. /\ Good(m - 1) /\ d.pulls \subseteq c.pulls \cup {m}
            /\ \A l \in c.cache : l.parent = c.at /\ l.step = Now(m) =>
                  d.at = l.id /\ d.pulls = c.pulls
        <4> HIDE DEF Good
        <4> QED BY <1>3, <1>5
      <3>2. ASSUME Same(m)
            PROVE  d.at = at[m] /\ d.pulls = c.pulls
        <4>1. Same(m - 1) /\ Then(m) = Now(m)
          BY <3>2
        <4>2. c.at = at[m - 1]
          BY <2>3, <4>1
        <4>3. PICK l \in known : l.parent = at[m - 1] /\ l.id = at[m] /\ l.step = Then(m)
          BY <2>1 DEF Chain
        <4>4. l \in c.cache
          BY <3>1
        <4> HIDE DEF Then, Now
        <4> QED BY <3>1, <4>1, <4>2, <4>3, <4>4
      <3>3. \A i \in d.pulls : i \in 1 .. m /\ ~Same(i)
        <4> HIDE DEF Same
        <4>1. \A i \in c.pulls : i \in 1 .. m - 1 /\ ~Same(i)
          BY <2>3
        <4>2. \A i : i \in 1 .. m - 1 => i \in 1 .. m
          OBVIOUS
        <4>3. m \in 1 .. m
          OBVIOUS
        <4>4. CASE Same(m)
          BY <3>2, <4>1, <4>2, <4>4
        <4>5. CASE ~Same(m)
          BY <3>1, <4>1, <4>2, <4>3, <4>5
        <4> QED BY <4>4, <4>5
      <3> QED BY <3>2, <3>3
    <2>4. Fine(n)
      <3> HIDE DEF Fine
      <3>1. Wrong \in SUBSET (0 .. n) /\ 0 \notin Wrong
        BY <2>2
      <3>2. \A i \in 1 .. n : i - 1 \notin Wrong => i \notin Wrong
        <4>1. \A i \in 1 .. n : i - 1 \in 0 .. n
          OBVIOUS
        <4> QED BY <2>3, <4>1
      <3>3. Wrong = {}
        <4> HIDE DEF Wrong
        <4> QED BY <3>1, <3>2, FirstFailure
      <3> QED BY <3>3
    <2> QED BY <1>1, <2>4
  <1> HIDE DEF Now
  <1>9. \A before : Chained(known, dockerfile, n, before, context, base) =>
            \A i \in b.pulls : i \in 1 .. n /\ \E j \in 1 .. i :
                StepAt(dockerfile, before, context, base, j) # Now(j)
    BY <1>8
  <1> QED BY <1>6, <1>7, <1>9 DEF Now, PullsFromChange

\* In the generated Dockerfile each agent's argument is above its own layer.
LEMMA GeneratedIsGuarded ==
    ASSUME NEW agents, NEW toolchains, NEW busting,
           NEW d, d = GenerateInstallPlan(agents, toolchains, busting)
    PROVE  Guarded(d)
  <1> DEFINE want  == Want(agents, toolchains)
             path  == pathEntries(want)
             from  == Instruction("FROM", "base", <<BaseImageArg>>)
             env   == When(path # <<>>, <<Instruction("ENV", "base", path)>>)
             root  == Instruction("USER", "base", <<"root">>)
             user  == Instruction("USER", "base", <<"vscode">>)
             rooted == rootLayers(want)
             after  == userLayers(want, agents, busting)
             top    == <<DeclareBase>> \o <<from>>
             Fine(s) == IsList(s) /\ Guarded(s)
  <1>1. d = (((((top \o env) \o <<root>>) \o rooted) \o <<user>>) \o after)
    <2>1. top = <<DeclareBase, from>>
      BY Pair
    <2> QED BY <2>1, Zenon DEF GenerateInstallPlan
  <1>2. /\ DeclareBase.part \notin AgentKind
        /\ from.op = "FROM" /\ root.op = "USER" /\ user.op = "USER"
    BY DEF DeclareBase, Instruction, AgentKind
  <1>3. ASSUME NEW x, x.op # "ARG" \/ x.part \notin AgentKind PROVE Fine(<<x>>)
    <2>1. IsList(<<x>>)
      BY SmallLists
    <2>2. \A i \in DOMAIN <<x>> : <<x>>[i] = x
      OBVIOUS
    <2> QED BY <1>3, <2>1, <2>2 DEF Guarded
  <1>4. ASSUME NEW s, NEW t, Fine(s), Fine(t) PROVE Fine(s \o t)
    BY <1>4, GuardedJoin, JoinFacts
  <1>5. Fine(after) /\ Fine(rooted)
    BY UserLayered, RootLayered DEF Layered
  <1>6. Fine(env)
    <2>1. Layered(<<Instruction("ENV", "base", path)>>)
      <3> HIDE DEF path
      <3> QED BY LayeredFacts DEF Instruction
    <2> HIDE DEF path
    <2> QED BY <2>1, LayeredFacts DEF Layered
  <1> HIDE DEF Fine, from, root, user, env, rooted, after
  <1>7. Fine(<<DeclareBase>>) /\ Fine(<<from>>) /\ Fine(<<root>>) /\ Fine(<<user>>)
    BY <1>2, <1>3
  <1>8. Fine(top)
    BY <1>4, <1>7
  <1> HIDE DEF top
  <1>9. Fine((top \o env) \o <<root>>)
    BY <1>4, <1>6, <1>7, <1>8
  <1>10. Fine((((top \o env) \o <<root>>) \o rooted) \o <<user>>)
    BY <1>4, <1>5, <1>7, <1>9
  <1>11. Fine(d)
    BY <1>1, <1>4, <1>5, <1>10
  <1> QED BY <1>11 DEF Fine

\* Steps of two builds differ only when an argument of an agent above does.
LEMMA DifferByArgument ==
    ASSUME NEW d, IsList(d), Guarded(d), NEW context, NEW base, NEW args, NEW before,
           \A a \in args : a[1] \in AgentKind,
           \A a \in before : a[1] \in AgentKind,
           NEW j \in DOMAIN d,
           StepAt(d, before, context, base, j) # StepAt(d, args, context, base, j)
    PROVE  \E k \in 1 .. j : /\ d[k].op = "RUN"
                             /\ {a \in args : a[1] = d[k].part} # {a \in before : a[1] = d[k].part}
  <1>1. Len(d) \in Nat /\ DOMAIN d = 1 .. Len(d)
    BY ListFacts
  <1>2. Declared(d, args, j) # Declared(d, before, j)
    BY DEF StepAt, Step
  <1>3. PICK a : \/ a \in Declared(d, args, j) /\ a \notin Declared(d, before, j)
                 \/ a \in Declared(d, before, j) /\ a \notin Declared(d, args, j)
    <2>1. /\ \A x \in Declared(d, args, j) : x \in Declared(d, args, j)
          /\ \A x \in Declared(d, before, j) : x \in Declared(d, before, j)
      OBVIOUS
    <2> QED BY <1>2, <2>1
  <1>4. PICK m \in 1 .. j - 1 : d[m].op = "ARG" /\ d[m].part = a[1]
    BY <1>3 DEF Declared
  <1>5. \/ a \in args /\ a \notin before
        \/ a \in before /\ a \notin args
    BY <1>3, <1>4 DEF Declared
  <1>6. a[1] \in AgentKind
    BY <1>5
  <1>7. m \in DOMAIN d /\ m + 1 \in 1 .. j
    BY <1>1
  <1>8. d[m + 1].op = "RUN" /\ d[m + 1].part = a[1]
    BY <1>4, <1>6, <1>7 DEF Guarded
  <1>9. {x \in args : x[1] = a[1]} # {x \in before : x[1] = a[1]}
    BY <1>5
  <1> QED BY <1>7, <1>8, <1>9

\* The daemon has one layer for a step on a layer, and all those of the last
\* finished build of the tools image.
CacheInv ==
    /\ Unique(cache)
    /\ \A a \in tools.args : a[1] \in AgentKind
    /\ tools.dockerfile # <<>> =>
          Chained(cache, tools.dockerfile, Len(tools.dockerfile), tools.args, {}, tools.base)

LEMMA CacheGrows ==
    ASSUME CacheInv, Unique(cache'), cache \subseteq cache', tools' = tools
    PROVE  CacheInv'
  <1>1. tools.dockerfile # <<>> =>
          Chained(cache', tools.dockerfile, Len(tools.dockerfile), tools.args, {}, tools.base)
    BY ChainKept DEF CacheInv
  <1> QED BY <1>1 DEF CacheInv

\* What a build of the tools image leaves.
LEMMA ToolsCache ==
    ASSUME PipelineInv, CacheInv, BuildTools
    PROVE  /\ CacheInv'
           /\ pc' = "extension" /\ HasTools(frozen)
              /\ tools'.dockerfile = tools.dockerfile /\ tools'.base = tools.base =>
                 \A i \in tools'.pulls : \E j \in 1 .. i :
                     /\ tools'.dockerfile[j].op = "RUN"
                     /\ ArgOf(tools', tools'.dockerfile[j].part)
                          # ArgOf(tools, tools'.dockerfile[j].part)
  <1> DEFINE d == GenerateInstallPlan(frozen.agents, frozen.toolchains, token # <<>>)
             args == RefreshArgs(d)
             base == digests[Ref(frozen.base)]
             upTo(n) == Build(d, n, args, {}, base, heads, cache, FirstLayer)
             b == upTo(Len(d))
             made == Finished(d, args, {}, base, b)
  <1>1. \/ ~HasTools(frozen) /\ UNCHANGED <<cache, tools>>
        \/ ~ValidateDockerfile(d)
        \/ cache' = b.cache /\ tools' = made
        \/ pc' = "idle" /\ (\E n \in FailsAfter(d) : cache' = upTo(n).cache) /\ tools' = tools
    BY Zenon DEF BuildTools, End
  <1>2. IsList(d) /\ Len(d) > 0 /\ ValidateDockerfile(d) /\ Guarded(d)
    BY GeneratedIsValid, GeneratedIsGuarded
  <1>3. Len(d) \in Nat /\ DOMAIN d = 1 .. Len(d) /\ d # <<>>
    BY <1>2, ListFacts, SmallLists
  <1>4. \A a \in args : a[1] \in AgentKind
    BY DEF RefreshArgs, RefreshKinds
  <1>5. made.dockerfile = d /\ made.args = args /\ made.base = base /\ made.pulls = b.pulls
    BY Zenon DEF Finished
  <1> HIDE DEF d, args, base
  <1>6. ASSUME NEW n \in Nat
        PROVE  /\ Unique(upTo(n).cache) /\ cache \subseteq upTo(n).cache
               /\ Chained(upTo(n).cache, d, n, args, {}, base)
               /\ PullsFromChange(upTo(n).pulls, cache, d, n, args, {}, base)
    BY BuildChain DEF CacheInv
  <1> HIDE DEF upTo
  <1>7. /\ Unique(b.cache) /\ cache \subseteq b.cache
        /\ Chained(b.cache, d, Len(d), args, {}, base)
        /\ PullsFromChange(b.pulls, cache, d, Len(d), args, {}, base)
    BY <1>3, <1>6
  <1> HIDE DEF b, made
  <1>8. CASE ~HasTools(frozen) /\ UNCHANGED <<cache, tools>>
    BY <1>8, CacheGrows DEF CacheInv
  <1>9. CASE pc' = "idle" /\ (\E n \in FailsAfter(d) : cache' = upTo(n).cache) /\ tools' = tools
    <2>1. PICK n \in Nat : cache' = upTo(n).cache
      BY <1>3, <1>9 DEF FailsAfter
    <2>2. CacheInv'
      BY <1>6, <1>9, <2>1, CacheGrows
    <2> QED BY <1>9, <2>2
  <1>10. CASE cache' = b.cache /\ tools' = made
    <2>1. CacheInv'
      BY <1>4, <1>5, <1>7, <1>10 DEF CacheInv
    <2>2. ASSUME made.dockerfile = tools.dockerfile, made.base = tools.base, NEW i \in made.pulls
          PROVE  \E j \in 1 .. i :
                     /\ made.dockerfile[j].op = "RUN"
                     /\ ArgOf(made, made.dockerfile[j].part) # ArgOf(tools, made.dockerfile[j].part)
      <3>1. tools.dockerfile = d /\ tools.base = base
        BY <1>5, <2>2
      <3>2. Chained(cache, d, Len(d), tools.args, {}, base)
        BY <1>3, <3>1 DEF CacheInv
      <3>3. i \in 1 .. Len(d)
        BY <1>5, <1>7, <2>2, <3>2 DEF PullsFromChange
      <3>4. PICK j \in 1 .. i :
              StepAt(d, tools.args, {}, base, j) # StepAt(d, args, {}, base, j)
        BY <1>5, <1>7, <2>2, <3>2 DEF PullsFromChange
      <3>5. j \in DOMAIN d
        BY <1>3, <3>3
      <3>6. PICK k \in 1 .. j :
              /\ d[k].op = "RUN"
              /\ {a \in args : a[1] = d[k].part} # {a \in tools.args : a[1] = d[k].part}
        BY <1>2, <1>4, <3>4, <3>5, DifferByArgument DEF CacheInv
      <3>7. k \in 1 .. i
        BY <1>3, <3>3
      <3> QED BY <1>5, <3>6, <3>7 DEF ArgOf
    <2> QED BY <1>10, <2>1, <2>2
  <1> QED BY <1>1, <1>2, <1>8, <1>9, <1>10

\* A build of an extension only adds to what the daemon knows.
LEMMA ExtensionCache ==
    ASSUME PipelineInv, CacheInv, BuildExtension PROVE CacheInv'
  <1> DEFINE texts == Snapped(DockerfileDest)
             d     == ExtensionText
             base  == digests[IF HasTools(frozen) THEN ToolsImageRef ELSE Ref(frozen.base)]
             b     == Build(d, Len(d), {}, Context, base, heads, cache, FirstLayer)
  <1>1. tools' = tools /\ (cache' = cache \/ (texts # {} /\ cache' = b.cache))
    BY Zenon DEF BuildExtension, Contracted
  <1>2. CASE cache' = cache
    BY <1>1, <1>2, CacheGrows DEF CacheInv
  <1>3. CASE texts # {} /\ cache' = b.cache
    <2> DEFINE f == CHOOSE f \in texts : TRUE
    <2>1. f \in texts
      BY <1>3
    <2>2. f.content \in DOMAIN Texts
      BY <2>1 DEF PipelineInv, FilesInv
    <2>3. IsList(d)
      BY <2>2, CandidateAssumption DEF ExtensionText
    <2>4. Len(d) \in Nat
      BY <2>3, ListFacts
    <2> HIDE DEF d, base
    <2>5. Unique(cache)
      BY DEF CacheInv
    <2>6. PICK c : c = Build(d, Len(d), {}, Context, base, heads, cache, FirstLayer)
      OBVIOUS
    <2>7. Unique(c.cache) /\ cache \subseteq c.cache
      BY <2>4, <2>5, <2>6, BuildChain
    <2>8. Unique(b.cache) /\ cache \subseteq b.cache
      BY <2>6, <2>7
    <2> QED BY <1>1, <1>3, <2>8, CacheGrows
  <1> QED BY <1>1, <1>2, <1>3

\* Every other step leaves both alone, and is not the one from the tools
\* image to the extension.
LEMMA OthersCache ==
    ASSUME Next
    PROVE  \/ BuildTools \/ BuildExtension
           \/ cache' = cache /\ tools' = tools /\ ~(pc = "tools" /\ pc' = "extension")
  <1> DEFINE Apart == cache' = cache /\ tools' = tools /\ ~(pc = "tools" /\ pc' = "extension")
  <1>1. ASSUME NEW v, Begin(v) PROVE Apart
    BY <1>1 DEF Begin, built
  <1>2. ASSUME NEW failed, MintAgentRefresh(failed) PROVE Apart
    <2>1. pc = "mint" /\ cache' = cache /\ tools' = tools
      BY <1>2, Zenon DEF MintAgentRefresh, built
    <2> QED BY <2>1
  <1>3. Preview \/ CopyOpen \/ CopyRead \/ LoadFrozen => Apart
    <2>1. Preview => pc = "preview" /\ cache' = cache /\ tools' = tools
      BY Zenon DEF Preview, built
    <2>2. CopyOpen => pc = "copy" /\ cache' = cache /\ tools' = tools
      BY Zenon DEF CopyOpen, built
    <2>3. CopyRead => pc = "read" /\ cache' = cache /\ tools' = tools
      BY Zenon DEF CopyRead, built
    <2>4. LoadFrozen => pc = "copy" /\ cache' = cache /\ tools' = tools
      BY Zenon DEF LoadFrozen, built
    <2> QED BY <2>1, <2>2, <2>3, <2>4
  <1>4. LoadArtifact \/ ResolveImage => Apart
    <2>1. LoadArtifact => pc = "artifact" /\ cache' = cache /\ tools' = tools
      BY Zenon DEF LoadArtifact, built
    <2>2. ResolveImage => pc = "resolve" /\ cache' = cache /\ tools' = tools
      BY Zenon DEF ResolveImage, built
    <2> QED BY <2>1, <2>2
  <1>5. CompilePlan \/ Publish \/ UpdateRecord \/ Abort => Apart
    <2>1. CompilePlan => pc = "compile" /\ cache' = cache /\ tools' = tools
      BY Zenon DEF CompilePlan, built
    <2>2. Publish => pc = "publish" /\ cache' = cache /\ tools' = tools
      BY Zenon DEF Publish, built
    <2>3. UpdateRecord => pc = "reconcile" /\ cache' = cache /\ tools' = tools
      BY Zenon DEF UpdateRecord, built
    <2>4. Abort => pc' = "idle" /\ cache' = cache /\ tools' = tools
      BY Zenon DEF Abort, End, built
    <2> QED BY <2>1, <2>2, <2>3, <2>4
  <1>6. ASSUME cache' = cache, tools' = tools, pc' = pc PROVE Apart
    BY <1>6
  <1>7. ASSUME NEW d, EditManifest(d) PROVE Apart
    <2>1. cache' = cache /\ tools' = tools /\ pc' = pc
      BY <1>7, Zenon DEF EditManifest, Elsewhere, built
    <2> QED BY <1>6, <2>1
  <1>8. ASSUME NEW path, NEW content, EditFile(path, content) PROVE Apart
    <2>1. cache' = cache /\ tools' = tools /\ pc' = pc
      BY <1>8, Zenon DEF EditFile, Elsewhere, built
    <2> QED BY <1>6, <2>1
  <1>9. ASSUME NEW h, NewRelease(h) PROVE Apart
    <2>1. cache' = cache /\ tools' = tools /\ pc' = pc
      BY <1>9, Zenon DEF NewRelease, Elsewhere, built
    <2> QED BY <1>6, <2>1
  <1>10. ASSUME NEW r, MoveTag(r) PROVE Apart
    <2>1. cache' = cache /\ tools' = tools /\ pc' = pc
      BY <1>10, Zenon DEF MoveTag, Elsewhere, built
    <2> QED BY <1>6, <2>1
  <1>11. ApproveExtension => Apart
    <2>1. ApproveExtension => pc = "extension" /\ cache' = cache /\ tools' = tools
      BY Zenon DEF ApproveExtension
    <2> QED BY <2>1
  <1> QED BY <1>1, <1>2, <1>3, <1>4, <1>5, <1>7, <1>8, <1>9, <1>10, <1>11, Zenon DEF Next

\* A build of the same Dockerfile on the same base pulls an agent again only
\* when its argument or that of an agent before it has changed
\* (GenerateInstallPlan puts each argument directly above its layer), whatever
\* other builds, failures and releases there were.
THEOREM PullsOnlyMovedTheorem == Spec => PullsOnlyMoved
  <1> DEFINE Inv == PipelineInv /\ CacheInv
             Moved == /\ pc = "tools" /\ pc' = "extension" /\ HasTools(frozen)
                      /\ tools'.dockerfile = tools.dockerfile /\ tools'.base = tools.base
             Caused == \A i \in tools'.pulls : \E j \in 1 .. i :
                          LET step == tools'.dockerfile[j]
                          IN  step.op = "RUN" /\ ArgOf(tools', step.part) # ArgOf(tools, step.part)
  <1>1. Init => Inv
    <2> SUFFICES ASSUME Init PROVE Inv
      OBVIOUS
    <2>1. cache = {} /\ tools = NoBuild
      BY Zenon DEF Init
    <2>2. CacheInv
      BY <2>1 DEF CacheInv, Unique, NoBuild
    <2> QED BY <2>2, InitPipeline
  <1>2. Inv /\ [Next]_vars => Inv'
    <2> SUFFICES ASSUME Inv, [Next]_vars PROVE CacheInv'
      BY NextPipeline, StutterPipeline
    <2>1. CASE BuildTools
      BY <2>1, ToolsCache
    <2>2. CASE BuildExtension
      BY <2>2, ExtensionCache
    <2>3. CASE cache' = cache /\ tools' = tools
      BY <2>3, CacheGrows DEF CacheInv
    <2>4. UNCHANGED vars => cache' = cache /\ tools' = tools
      BY Zenon DEF vars, built
    <2> QED BY <2>1, <2>2, <2>3, <2>4, OthersCache
  <1>3. Inv /\ [Next]_vars => [Moved => Caused]_vars
    <2> SUFFICES ASSUME Inv, Next, Moved PROVE Caused
      OBVIOUS
    <2>1. BuildTools
      <3>1. ~BuildExtension
        <4>1. BuildExtension => pc = "extension"
          BY Zenon DEF BuildExtension
        <4> QED BY <4>1
      <3> QED BY <3>1, OthersCache
    <2> QED BY <2>1, ToolsCache
  <1> QED BY <1>1, <1>2, <1>3, PTL DEF Spec, PullsOnlyMoved

-----------------------------------------------------------------------------
(* Rebuilds refresh: what a token says of an agent, and what a layer holds. *)

\* The value that a token has for an agent, and what a value may be.
ValueIn(t, kind) ==
    LET own == ParseAgentRefresh(t, kind) IN IF own # <<>> THEN own ELSE t
Version(n) == <<Word(Unset, "v", n)>>
Stamp(r)   == <<Word(Unset, "t", r)>>

\* An agent that follows a channel, and the channel; no two of a kind.
Tracks(a) == a.kind \in AgentKind /\ AgentChannel(a) \in Words
Feed(a)   == <<a.kind, AgentChannel(a)>>
OnePerKind(agents) == \A a, b \in ToSet(agents) : a.kind = b.kind => a = b

\* A version the channel has come to or the time of a command, and one of
\* this command.
Reached(x, h) ==
    \/ \E n \in Nat : x = Version(n) /\ n <= heads[h]
    \/ \E r \in Nat : x = Stamp(r) /\ r <= runs
Newly(x, h) ==
    \/ \E n \in Nat : x = Version(n) /\ began[h] <= n
    \/ x = Stamp(runs)

\* A layer that was obtained for a value: a version was there already, and
\* the time of this command came after it had begun.
Obtained(got, x, h) ==
    /\ got \in Nat
    /\ \A n \in Nat : x = Version(n) => n <= got
    /\ \A r \in Nat : x = Stamp(r) => r <= runs /\ (r = runs => began[h] <= got)

\* What a token says of the agents it was minted for; one of this command
\* says what is new since it began.
ReachedIn(t, agents) ==
    t # <<>> /\ OnePerKind(agents) =>
        \A a \in ToSet(agents) : Tracks(a) => Reached(ValueIn(t, a.kind), Feed(a))

NewIn(t, agents) ==
    t # <<>> /\ (OnePerKind(agents) =>
        \A a \in ToSet(agents) : Tracks(a) => Newly(ValueIn(t, a.kind), Feed(a)))

\* No channel is behind what it was when the command began.
HeadsInv ==
    /\ runs \in Nat
    /\ {heads, began} \subseteq [AgentKind \X Words -> Nat]
    /\ \A h \in AgentKind \X Words : began[h] <= heads[h]

\* The command's token and the record's, and that of a rebuild once minted.
TokenInv ==
    /\ ReachedIn(token, minted) /\ ReachedIn(refresh, mintedFor)
    /\ verb = "rebuild" /\ pc \notin {"idle", "mint"} => NewIn(token, minted)

\* Beyond the snapshot the token is for the agents at hand, unless mixed.
MatchInv ==
    pc \in Late => Decodes(frozen) /\ (~mixed /\ token # <<>> => minted = frozen.agents)

\* A layer of an agent that follows a channel is as good as its argument.
Refreshed(layer) ==
    \A k \in AgentKind, c \in Words, a \in layer.step.args :
        layer.step.instruction = Run(k, <<c, "refresh">>) /\ a[1] = k =>
            Obtained(layer.got, a[2], <<k, c>>)

LayerInv == ~mixed => \A l \in cache : Refreshed(l)

\* What a rebuild promises, of the image at hand.
AllFresh ==
    \A spec \in ToSet(frozen.agents) : Tracks(spec) =>
        \E v \in tools.inside : v[1] = spec.kind /\ v[2] >= began[Feed(spec)]

\* The tools image of the command is there.
HasBuilt == pc \in {"extension", "compile"} \cup Running \/ outcome = "ok"

FreshInv ==
    verb = "rebuild" /\ HasBuilt /\ ~mixed =>
        (\A spec \in ToSet(frozen.agents) : ParsesAgent(spec)) /\ AllFresh

RefreshInv == HeadsInv /\ TokenInv /\ MatchInv /\ LayerInv /\ FreshInv

-----------------------------------------------------------------------------
(* Tokens.                                                                 *)

(* A list is filtered one element after the other.                        *)
LEMMA OnlySteps ==
    ASSUME NEW s, Len(s) \in Nat, NEW S
    PROVE  \E kept :
              /\ kept[0] = <<>> /\ kept[Len(s)] = Only(s, S)
              /\ \A i \in 1 .. Len(s) :
                    kept[i] = IF s[i] \in S THEN Append(kept[i - 1], s[i]) ELSE kept[i - 1]
  <1> DEFINE n == Len(s)
             next(c, i) == IF s[i] \in S THEN Append(c, s[i]) ELSE c
             kept[i \in 0 .. n] == IF i = 0 THEN <<>> ELSE next(kept[i - 1], i)
             Runs(g, k) == g = [i \in 0 .. k |-> IF i = 0 THEN <<>> ELSE next(g[i - 1], i)]
  <1>1. Only(s, S) = kept[n]
    BY DEF Only
  <1>2. kept = CHOOSE g : Runs(g, n)
    OBVIOUS
  <1> HIDE DEF kept, next
  <1>3. ASSUME NEW k \in Nat, k # 0, \E g : Runs(g, k - 1)
        PROVE  \E g : Runs(g, k)
    <2>1. PICK g : Runs(g, k - 1)
      BY <1>3
    <2> DEFINE h == [i \in 0 .. k |-> IF i < k THEN g[i] ELSE next(g[k - 1], k)]
    <2>2. ASSUME NEW i \in 0 .. k
          PROVE  h[i] = IF i = 0 THEN <<>> ELSE next(h[i - 1], i)
      <3>1. CASE i < k
        <4>1. i \in 0 .. k - 1 /\ h[i] = g[i] /\ (i # 0 => h[i - 1] = g[i - 1])
          BY <1>3, <3>1
        <4>2. g[i] = IF i = 0 THEN <<>> ELSE next(g[i - 1], i)
          BY <2>1, <4>1
        <4> QED BY <4>1, <4>2
      <3>2. CASE i = k
        BY <1>3, <3>2
      <3> QED BY <3>1, <3>2
    <2>3. h = [i \in 0 .. k |-> h[i]]
      OBVIOUS
    <2> HIDE DEF h
    <2>4. Runs(h, k)
      BY <2>2, <2>3
    <2> QED BY <2>4
  <1>4. \A k \in Nat : \E g : Runs(g, k)
    <2>1. Runs([i \in 0 .. 0 |-> <<>>], 0)
      OBVIOUS
    <2> DEFINE Bad == {k \in Nat : ~\E g : Runs(g, k)}
    <2> HIDE DEF Runs
    <2> SUFFICES ASSUME Bad # {} PROVE FALSE
      OBVIOUS
    <2>2. PICK k \in Bad : \A j \in Bad : k <= j
      <3>1. Bad \in SUBSET Nat
        OBVIOUS
      <3> HIDE DEF Bad
      <3> QED BY <3>1, LeastElement
    <2>3. k # 0
      BY <2>1
    <2>4. k - 1 \in Nat /\ k - 1 \notin Bad
      BY <2>2, <2>3
    <2> QED BY <1>3, <2>3, <2>4
  <1>5. Runs(kept, n)
    <2>1. n \in Nat
      OBVIOUS
    <2> HIDE DEF Runs, n
    <2> QED BY <1>2, <1>4, <2>1, Zenon
  <1>6. \A i \in 0 .. n : kept[i] = IF i = 0 THEN <<>> ELSE next(kept[i - 1], i)
    BY <1>5
  <1>7. kept[0] = <<>> /\ \A i \in 1 .. n : kept[i] = next(kept[i - 1], i)
    <2>1. 0 \in 0 .. n /\ \A i \in 1 .. n : i \in 0 .. n /\ i # 0
      OBVIOUS
    <2> QED BY <1>6, <2>1, Zenon
  <1> HIDE DEF kept
  <1> QED BY <1>1, <1>7 DEF next

LEMMA AppendFacts ==
    ASSUME NEW s, NEW x, IsList(s)
    PROVE  /\ IsList(Append(s, x)) /\ Len(Append(s, x)) = Len(s) + 1
           /\ ToSet(Append(s, x)) = ToSet(s) \cup {x}
           /\ \A i \in 1 .. Len(s) : Append(s, x)[i] = s[i]
           /\ Append(s, x)[Len(s) + 1] = x
  <1> DEFINE S == ToSet(s) \cup {x}
             t == Append(s, x)
  <1>1. s \in Seq(S) /\ x \in S
    BY ListFacts
  <1>2. Len(s) \in Nat /\ DOMAIN s = 1 .. Len(s)
    BY ListFacts
  <1> HIDE DEF S
  <1>3. /\ t \in Seq(S) /\ Len(t) = Len(s) + 1 /\ DOMAIN t = 1 .. Len(s) + 1
        /\ t[Len(s) + 1] = x /\ \A i \in 1 .. Len(s) : t[i] = s[i]
    BY <1>1, <1>2
  <1> HIDE DEF t
  <1>4. ToSet(t) = S
    <2>1. ASSUME NEW y \in ToSet(t) PROVE y \in S
      <3>1. PICK i \in 1 .. Len(s) + 1 : y = t[i]
        BY <1>3, <2>1 DEF ToSet
      <3> QED BY <1>3, <3>1
    <2>2. x \in ToSet(t)
      <3>1. Len(s) + 1 \in DOMAIN t
        BY <1>2, <1>3
      <3> QED BY <1>3, <3>1 DEF ToSet
    <2>3. ASSUME NEW y \in ToSet(s) PROVE y \in ToSet(t)
      <3>1. PICK i \in 1 .. Len(s) : y = s[i]
        BY <1>2, <2>3 DEF ToSet
      <3>2. i \in DOMAIN t /\ t[i] = y
        BY <1>2, <1>3, <3>1
      <3> QED BY <3>2 DEF ToSet
    <2> QED BY <2>1, <2>2, <2>3 DEF S
  <1>5. IsList(t)
    BY <1>3, <1>4 DEF IsList
  <1> QED BY <1>3, <1>4, <1>5 DEF S, t

(* What is kept of a list: the elements that are asked for.                *)
LEMMA OnlyKeeps ==
    ASSUME NEW s, IsList(s), NEW S
    PROVE  IsList(Only(s, S)) /\ ToSet(Only(s, S)) = ToSet(s) \cap S
  <1> DEFINE n == Len(s)
  <1>1. n \in Nat /\ DOMAIN s = 1 .. n
    BY ListFacts
  <1>2. PICK kept : /\ kept[0] = <<>> /\ kept[n] = Only(s, S)
                    /\ \A i \in 1 .. n :
                          kept[i] = IF s[i] \in S THEN Append(kept[i - 1], s[i]) ELSE kept[i - 1]
    BY <1>1, OnlySteps
  <1> HIDE DEF n
  <1> DEFINE Good(i) == IsList(kept[i]) /\ ToSet(kept[i]) = {s[j] : j \in 1 .. i} \cap S
             Bad     == {i \in 0 .. n : ~Good(i)}
  <1>3. Good(0)
    BY <1>2, SmallLists
  <1>4. ASSUME NEW i \in 1 .. n, Good(i - 1) PROVE Good(i)
    <2>1. \A j : j \in 1 .. i <=> j = i \/ j \in 1 .. i - 1
      BY <1>1
    <2>2. {s[j] : j \in 1 .. i} = {s[j] : j \in 1 .. i - 1} \cup {s[i]}
      BY <2>1
    <2>3. CASE s[i] \in S
      <3>1. kept[i] = Append(kept[i - 1], s[i])
        BY <1>2, <2>3
      <3>2. IsList(kept[i]) /\ ToSet(kept[i]) = ToSet(kept[i - 1]) \cup {s[i]}
        BY <1>4, <3>1, AppendFacts
      <3> QED BY <1>4, <2>2, <2>3, <3>2
    <2>4. CASE s[i] \notin S
      <3>1. kept[i] = kept[i - 1]
        BY <1>2, <2>4
      <3> QED BY <1>4, <2>2, <2>4, <3>1
    <2> QED BY <2>3, <2>4
  <1> HIDE DEF Good
  <1>5. Bad = {}
    <2>1. Bad \in SUBSET (0 .. n) /\ 0 \notin Bad
      BY <1>3
    <2>2. \A i \in 1 .. n : i - 1 \notin Bad => i \notin Bad
      <3>1. \A i \in 1 .. n : i - 1 \in 0 .. n
        BY <1>1
      <3> QED BY <1>4, <3>1
    <2> HIDE DEF Bad
    <2> QED BY <1>1, <2>1, <2>2, FirstFailure
  <1>6. Good(n)
    BY <1>1, <1>5
  <1>7. ToSet(s) = {s[j] : j \in 1 .. n}
    BY <1>1 DEF ToSet
  <1> QED BY <1>2, <1>6, <1>7 DEF Good

LEMMA GreatestElement ==
    ASSUME NEW n \in Nat, NEW S \in SUBSET (1 .. n), S # {}
    PROVE  \E i \in S : \A j \in S : j <= i
  <1> DEFINE T == {k \in Nat : k <= n /\ n - k \in S}
  <1>1. T # {}
    <2>1. PICK i \in S : TRUE
      OBVIOUS
    <2>2. i \in 1 .. n
      BY <2>1
    <2>3. n - i \in Nat /\ n - i <= n /\ n - (n - i) = i
      BY <2>2
    <2> QED BY <2>1, <2>3
  <1>2. PICK k \in T : \A j \in T : k <= j
    <2>1. T \in SUBSET Nat
      OBVIOUS
    <2> HIDE DEF T
    <2> QED BY <1>1, <2>1, LeastElement
  <1>3. ASSUME NEW j \in S PROVE j <= n - k
    <2>1. j \in 1 .. n
      BY <1>3
    <2>2. n - j \in Nat /\ n - j <= n /\ n - (n - j) = j
      BY <2>1
    <2>3. n - j \in T
      BY <1>3, <2>2
    <2>4. k <= n - j
      BY <1>2, <2>3
    <2> QED BY <1>2, <2>1, <2>4
  <1> QED BY <1>2, <1>3

(* A token is read by its last pair for an agent.                          *)
LEMMA ParseFacts ==
    ASSUME NEW t, IsList(t), NEW kind
    PROVE  \/ /\ \A w \in ToSet(t) : w.key # kind
              /\ ParseAgentRefresh(t, kind) = <<>>
           \/ \E w \in ToSet(t) :
                 w.key = kind /\ ParseAgentRefresh(t, kind) = <<[w EXCEPT !.key = Unset]>>
  <1> DEFINE own  == {i \in DOMAIN t : t[i].key = kind}
             last == CHOOSE i \in own : \A j \in own : j <= i
  <1>1. Len(t) \in Nat /\ DOMAIN t = 1 .. Len(t)
    BY ListFacts
  <1>2. ParseAgentRefresh(t, kind) = IF own = {} THEN <<>> ELSE <<[t[last] EXCEPT !.key = Unset]>>
    BY DEF ParseAgentRefresh
  <1>3. CASE own = {}
    BY <1>2, <1>3 DEF ToSet
  <1>4. CASE own # {}
    <2>1. \E i \in own : \A j \in own : j <= i
      <3>1. own \in SUBSET (1 .. Len(t))
        BY <1>1
      <3> HIDE DEF own
      <3> QED BY <1>1, <1>4, <3>1, GreatestElement
    <2>2. last \in own
      BY <2>1
    <2>3. t[last] \in ToSet(t) /\ t[last].key = kind
      BY <2>2 DEF ToSet
    <2> QED BY <1>2, <1>4, <2>3
  <1> QED BY <1>3, <1>4

(* One of the time alone has no pairs.                                     *)
LEMMA StampValue ==
    ASSUME NEW r, NEW kind
    PROVE  ValueIn(Stamp(r), kind) = Stamp(r)
  <1>1. IsList(Stamp(r)) /\ ToSet(Stamp(r)) = {Word(Unset, "t", r)}
    BY SmallLists DEF Stamp
  <1>2. [Word(Unset, "t", r) EXCEPT !.key = Unset] = Word(Unset, "t", r)
    BY DEF Word
  <1>3. ParseAgentRefresh(Stamp(r), kind) \in {<<>>, Stamp(r)}
    BY <1>1, <1>2, ParseFacts DEF Stamp
  <1> QED BY <1>3 DEF ValueIn

\* What the probe of an agent leaves in the token.
Probed(a, failed) ==
    IF a.kind \in failed THEN Word(a.kind, "t", runs)
    ELSE Word(a.kind, "v", heads[<<a.kind, AgentChannel(a)>>])

LEMMA MintedPairs ==
    ASSUME NEW m, IsList(m.agents), NEW failed, NEW p, p = MintedFor(m, failed)
    PROVE  /\ IsList(p)
           /\ \A w \in ToSet(p) : \E a \in ToSet(m.agents) : w = Probed(a, failed)
           /\ \A a \in ToSet(m.agents) : AgentChannel(a) # Unset => Probed(a, failed) \in ToSet(p)
  <1> DEFINE S == {a \in ToSet(m.agents) : AgentChannel(a) # Unset}
             t == Only(m.agents, S)
             V == {Probed(a, failed) : a \in S}
  <1>1. IsList(t) /\ ToSet(t) = S
    <2>1. ToSet(m.agents) \cap S = S
      OBVIOUS
    <2> HIDE DEF S
    <2> QED BY <2>1, OnlyKeeps
  <1>2. p = [i \in DOMAIN t |-> Probed(t[i], failed)]
    BY DEF MintedFor, Probed
  <1> HIDE DEF t
  <1>3. Len(t) \in Nat /\ DOMAIN t = 1 .. Len(t) /\ \A i \in 1 .. Len(t) : t[i] \in S
    BY <1>1, ListFacts DEF ToSet
  <1>4. p \in [1 .. Len(t) -> V]
    BY <1>2, <1>3
  <1>5. IsList(p) /\ \A x \in ToSet(p) : \E i \in 1 .. Len(t) : x = p[i]
    BY <1>3, <1>4, ListOfFunction
  <1>6. ASSUME NEW w \in ToSet(p) PROVE \E a \in ToSet(m.agents) : w = Probed(a, failed)
    BY <1>4, <1>5, <1>6
  <1>7. ASSUME NEW a \in ToSet(m.agents), AgentChannel(a) # Unset
        PROVE  Probed(a, failed) \in ToSet(p)
    <2>1. a \in ToSet(t)
      BY <1>1, <1>7
    <2>2. PICK i \in DOMAIN t : a = t[i]
      BY <2>1 DEF ToSet
    <2>3. i \in DOMAIN p /\ p[i] = Probed(a, failed)
      BY <1>2, <2>2
    <2> QED BY <2>3 DEF ToSet
  <1> QED BY <1>5, <1>6, <1>7

(* The value minted for an agent is its own, and it is of now.             *)
LEMMA MintedValue ==
    ASSUME IsList(doc.agents), NEW failed, MintAgentRefresh(failed)
    PROVE  /\ token' # <<>>
           /\ OnePerKind(doc.agents) => \A a \in ToSet(doc.agents) : Tracks(a) =>
                 ValueIn(token', a.kind) \in {Stamp(runs), Version(heads[Feed(a)])}
  <1> DEFINE p == MintedFor(doc, failed)
  <1>1. CASE token' = Stamp(runs)
    BY <1>1, StampValue DEF Stamp
  <1>2. CASE token' = p /\ p # <<>>
    <2>1. /\ IsList(p)
          /\ \A w \in ToSet(p) : \E a \in ToSet(doc.agents) : w = Probed(a, failed)
          /\ \A a \in ToSet(doc.agents) : AgentChannel(a) # Unset => Probed(a, failed) \in ToSet(p)
      BY MintedPairs
    <2> HIDE DEF p
    <2>2. ASSUME OnePerKind(doc.agents), NEW a \in ToSet(doc.agents), Tracks(a)
          PROVE  ValueIn(p, a.kind) \in {Stamp(runs), Version(heads[Feed(a)])}
      <3>1. AgentChannel(a) # Unset
        BY <2>2, ManifestAssumption DEF Tracks
      <3>2. Probed(a, failed) \in ToSet(p)
        BY <2>1, <3>1
      <3>3. \A b : Probed(b, failed).key = b.kind
        BY DEF Probed, Word
      <3>4. PICK w \in ToSet(p) :
                w.key = a.kind /\ ParseAgentRefresh(p, a.kind) = <<[w EXCEPT !.key = Unset]>>
        BY <2>1, <3>2, <3>3, ParseFacts
      <3>5. PICK b \in ToSet(doc.agents) : w = Probed(b, failed)
        BY <2>1, <3>4
      <3>6. b = a
        BY <2>2, <3>3, <3>4, <3>5 DEF OnePerKind
      <3>7. [w EXCEPT !.key = Unset] \in {Word(Unset, "t", runs), Word(Unset, "v", heads[Feed(a)])}
        BY <3>5, <3>6 DEF Probed, Word, Feed
      <3>8. ParseAgentRefresh(p, a.kind) \in {Stamp(runs), Version(heads[Feed(a)])}
        BY <3>4, <3>7 DEF Stamp, Version
      <3>9. ParseAgentRefresh(p, a.kind) # <<>>
        BY <3>4
      <3> QED BY <3>8, <3>9 DEF ValueIn
    <2> QED BY <1>2, <2>2
  <1>3. token' = Stamp(runs) \/ (token' = p /\ p # <<>>)
    BY DEF MintAgentRefresh, Stamp
  <1> QED BY <1>1, <1>2, <1>3

-----------------------------------------------------------------------------
(* Time passes: channels move on, and commands begin.                      *)

LEMMA TimesStep ==
    ASSUME HeadsInv, Next
    PROVE  /\ HeadsInv'
           /\ \A h \in AgentKind \X Words : heads[h] <= heads'[h]
           /\ \/ \E v : Begin(v) /\ runs' = runs + 1
              \/ runs' = runs /\ began' = began
  <1>1. ASSUME NEW v, Begin(v)
        PROVE  /\ HeadsInv' /\ runs' = runs + 1
               /\ \A h \in AgentKind \X Words : heads[h] <= heads'[h]
    <2>1. runs' = runs + 1 /\ heads' = heads /\ began' = heads
      BY <1>1 DEF Begin, daemon
    <2> QED BY <2>1 DEF HeadsInv
  <1>2. ASSUME NEW h \in Moving, NewRelease(h)
        PROVE  /\ HeadsInv' /\ runs' = runs /\ began' = began
               /\ \A g \in AgentKind \X Words : heads[g] <= heads'[g]
    <2>1. /\ heads' = [heads EXCEPT ![h] = @ + 1] /\ began' = began /\ runs' = runs
      BY <1>2 DEF NewRelease, Elsewhere, ghosts
    <2>2. h \in AgentKind \X Words
      BY CandidateAssumption
    <2> QED BY <2>1, <2>2 DEF HeadsInv
  <1>3. CASE UNCHANGED <<heads, began, runs>>
    BY <1>3 DEF HeadsInv
  <1>4. \/ \E v : Begin(v)
        \/ \E h \in Moving : NewRelease(h)
        \/ UNCHANGED <<heads, began, runs>>
    <2>1. CASE \E failed : MintAgentRefresh(failed)
      BY <2>1 DEF MintAgentRefresh, daemon
    <2>2. CASE Preview \/ CopyOpen \/ CopyRead \/ LoadFrozen
      BY <2>2 DEF Preview, CopyOpen, CopyRead, LoadFrozen, daemon, ghosts
    <2>3. CASE LoadArtifact \/ ResolveImage \/ BuildTools \/ ApproveExtension \/ BuildExtension
      BY <2>3 DEF LoadArtifact, ResolveImage, BuildTools, ApproveExtension, BuildExtension, daemon, ghosts
    <2>4. CASE CompilePlan \/ Publish \/ UpdateRecord \/ Abort
      BY <2>4 DEF CompilePlan, Publish, UpdateRecord, Abort, daemon, ghosts
    <2>5. CASE \/ \E d \in Saved : EditManifest(d)
               \/ \E path \in DOMAIN FileStates : \E c \in FileStates[path] : EditFile(path, c)
               \/ \E r \in ImageRefs : MoveTag(r)
      BY <2>5 DEF EditManifest, EditFile, MoveTag, Elsewhere, daemon, ghosts
    <2> QED BY <2>1, <2>2, <2>3, <2>4, <2>5 DEF Next
  <1> QED BY <1>1, <1>2, <1>3, <1>4

(* What a channel has come to it does not fall behind.                     *)
LEMMA ReachedValue ==
    ASSUME HeadsInv, Next, NEW x, NEW h \in AgentKind \X Words, Reached(x, h)
    PROVE  Reached(x, h)'
  <1>3. /\ heads[h] \in Nat /\ heads'[h] \in Nat /\ runs \in Nat /\ runs' \in Nat
        /\ heads[h] <= heads'[h] /\ (runs' = runs \/ runs' = runs + 1)
    BY TimesStep DEF HeadsInv
  <1>4. CASE \E n \in Nat : x = Version(n) /\ n <= heads[h]
    <2>1. PICK n \in Nat : x = Version(n) /\ n <= heads[h]
      BY <1>4
    <2>2. n <= heads'[h]
      BY <1>3, <2>1
    <2>3. Version(n)' = Version(n)
      BY DEF Version, Word
    <2> QED BY <2>1, <2>2, <2>3 DEF Reached
  <1>5. CASE \E r \in Nat : x = Stamp(r) /\ r <= runs
    <2>1. PICK r \in Nat : x = Stamp(r) /\ r <= runs
      BY <1>5
    <2>2. r <= runs'
      BY <1>3, <2>1
    <2> QED BY <2>1, <2>2 DEF Reached
  <1> QED BY <1>4, <1>5 DEF Reached

LEMMA ReachedStays ==
    ASSUME HeadsInv, Next, NEW t, NEW agents, ReachedIn(t, agents)
    PROVE  t # <<>> /\ OnePerKind(agents) =>
              \A a \in ToSet(agents) : Tracks(a) => Reached(ValueIn(t, a.kind), Feed(a))'
  <1> SUFFICES ASSUME t # <<>>, OnePerKind(agents), NEW a \in ToSet(agents), Tracks(a)
               PROVE  Reached(ValueIn(t, a.kind), Feed(a))'
    OBVIOUS
  <1>1. Reached(ValueIn(t, a.kind), Feed(a))
    BY DEF ReachedIn
  <1>2. Feed(a) \in AgentKind \X Words
    BY DEF Tracks, Feed
  <1> QED BY <1>1, <1>2, ReachedValue

LEMMA TokenSteps ==
    ASSUME Next
    PROVE  \/ \E v : Begin(v)
           \/ \E failed : MintAgentRefresh(failed)
           \/ UpdateRecord
           \/ Abort
           \/ /\ UNCHANGED <<token, minted, refresh, mintedFor, verb, began, runs>>
              /\ pc \in {"idle", "mint"} => pc' \in {"idle", "mint"}
  <1>2. CASE Preview \/ CopyOpen \/ CopyRead \/ LoadFrozen
    BY <1>2 DEF Preview, CopyOpen, CopyRead, LoadFrozen, record, ghosts
  <1>3. CASE LoadArtifact \/ ResolveImage \/ BuildTools \/ ApproveExtension \/ BuildExtension
    BY <1>3 DEF LoadArtifact, ResolveImage, BuildTools, ApproveExtension, BuildExtension, record, ghosts
  <1>4. CASE CompilePlan \/ Publish
    BY <1>4 DEF CompilePlan, Publish, record, ghosts
  <1>5. CASE \/ \E d \in Saved : EditManifest(d)
             \/ \E path \in DOMAIN FileStates : \E c \in FileStates[path] : EditFile(path, c)
             \/ \E h \in Moving : NewRelease(h)
             \/ \E r \in ImageRefs : MoveTag(r)
    BY <1>5 DEF EditManifest, EditFile, NewRelease, MoveTag, Elsewhere, record, ghosts
  <1> QED BY <1>2, <1>3, <1>4, <1>5 DEF Next

LEMMA TokenKeeps ==
    ASSUME PipelineInv, HeadsInv, TokenInv, Next
    PROVE  TokenInv'
  <1>0. \E t, agents, u, others : t = token /\ agents = minted /\ u = refresh /\ others = mintedFor
    OBVIOUS
  <1>t. PICK t, agents, u, others : t = token /\ agents = minted /\ u = refresh /\ others = mintedFor
    BY <1>0
  <1>1. /\ t # <<>> /\ OnePerKind(agents) =>
              \A a \in ToSet(agents) : Tracks(a) => Reached(ValueIn(t, a.kind), Feed(a))'
        /\ u # <<>> /\ OnePerKind(others) =>
              \A a \in ToSet(others) : Tracks(a) => Reached(ValueIn(u, a.kind), Feed(a))'
    <2>1. ReachedIn(t, agents) /\ ReachedIn(u, others)
      BY <1>t DEF TokenInv
    <2> QED BY <2>1, ReachedStays
  <1>2. ASSUME refresh' = refresh, mintedFor' = mintedFor
        PROVE  ReachedIn(refresh, mintedFor)'
    BY <1>t, <1>1, <1>2 DEF ReachedIn
  <1>3. ASSUME NEW v, Begin(v) PROVE TokenInv'
    <2>1. /\ token' = refresh /\ minted' = mintedFor /\ refresh' = refresh /\ mintedFor' = mintedFor
          /\ verb' = v /\ pc' = IF v = "rebuild" THEN "mint" ELSE "preview"
      BY <1>3 DEF Begin, record
    <2>2. ReachedIn(token, minted)'
      BY <1>t, <1>1, <2>1 DEF ReachedIn
    <2> QED BY <1>2, <2>1, <2>2 DEF TokenInv
  <1>4. ASSUME NEW failed, MintAgentRefresh(failed) PROVE TokenInv'
    <2>1. /\ refresh' = refresh /\ mintedFor' = mintedFor /\ minted' = doc.agents
          /\ UNCHANGED <<heads, began, runs>>
      BY <1>4 DEF MintAgentRefresh, record, daemon
    <2>2. IsList(doc.agents)
      BY CandidateAssumption DEF PipelineInv, WorkInv, Document
    <2>3. /\ token' # <<>>
          /\ OnePerKind(doc.agents) => \A a \in ToSet(doc.agents) : Tracks(a) =>
                ValueIn(token', a.kind) \in {Stamp(runs), Version(heads[Feed(a)])}
      BY <1>4, <2>2, MintedValue
    <2>4. ASSUME NEW a, Tracks(a), NEW x \in {Stamp(runs), Version(heads[Feed(a)])}
          PROVE  Reached(x, Feed(a))' /\ Newly(x, Feed(a))'
      <3>1. Feed(a) \in AgentKind \X Words
        BY <2>4 DEF Tracks, Feed
      <3>2. /\ runs \in Nat /\ heads[Feed(a)] \in Nat
            /\ began[Feed(a)] \in Nat /\ began[Feed(a)] <= heads[Feed(a)]
            /\ runs <= runs /\ heads[Feed(a)] <= heads[Feed(a)]
        BY <3>1 DEF HeadsInv
      <3> QED BY <2>1, <3>2, Zenon DEF Reached, Newly
    <2>5. ReachedIn(token, minted)' /\ NewIn(token, minted)'
      BY <2>1, <2>3, <2>4 DEF ReachedIn, NewIn
    <2> QED BY <1>2, <2>1, <2>5 DEF TokenInv
  <1>5. CASE UpdateRecord
    <2>1. /\ token' = token /\ minted' = minted /\ pc' = "idle"
          /\ \/ refresh' = token /\ mintedFor' = minted
             \/ refresh' = refresh /\ mintedFor' = mintedFor
      BY <1>5 DEF UpdateRecord, End
    <2>2. ReachedIn(token, minted)'
      BY <1>t, <1>1, <2>1 DEF ReachedIn
    <2>3. ReachedIn(refresh, mintedFor)'
      BY <1>t, <1>1, <2>1 DEF ReachedIn
    <2> QED BY <2>1, <2>2, <2>3 DEF TokenInv
  <1>6. CASE Abort
    <2>1. token' = <<>> /\ pc' = "idle" /\ refresh' = refresh /\ mintedFor' = mintedFor
      BY <1>6 DEF Abort, End, record
    <2> QED BY <1>2, <2>1 DEF TokenInv, ReachedIn
  <1>7. CASE /\ UNCHANGED <<token, minted, refresh, mintedFor, verb, began, runs>>
             /\ pc \in {"idle", "mint"} => pc' \in {"idle", "mint"}
    <2>1. ReachedIn(token, minted)'
      BY <1>t, <1>1, <1>7 DEF ReachedIn
    <2>2. NewIn(token, minted) => NewIn(token, minted)'
      BY <1>7 DEF NewIn, Newly
    <2> QED BY <1>2, <1>7, <2>1, <2>2 DEF TokenInv
  <1> QED BY <1>3, <1>4, <1>5, <1>6, <1>7, TokenSteps

-----------------------------------------------------------------------------
(* What changes when.                                                      *)

LEMMA LateSteps ==
    ASSUME Next
    PROVE  \/ LoadFrozen
           \/ pc' \notin Late
           \/ pc \in Late /\ UNCHANGED <<frozen, token, minted, mixed>>
  <1> DEFINE Goal == pc' \notin Late \/ (pc \in Late /\ UNCHANGED <<frozen, token, minted, mixed>>)
  <1>1. ASSUME NEW v, Begin(v) PROVE Goal
    <2>1. pc' \in {"mint", "preview"}
      BY <1>1 DEF Begin
    <2> QED BY <2>1 DEF Late
  <1>2. ASSUME NEW failed, MintAgentRefresh(failed) PROVE Goal
    <2>1. pc' = "preview"
      BY <1>2 DEF MintAgentRefresh
    <2> QED BY <2>1 DEF Late
  <1>3. CASE Preview \/ CopyOpen \/ CopyRead
    <2>1. pc' \in {"idle", "copy", "read"}
      BY <1>3 DEF Preview, CopyOpen, CopyRead, End
    <2> QED BY <2>1 DEF Late
  <1>4. CASE LoadArtifact \/ ResolveImage \/ BuildTools \/ ApproveExtension \/ BuildExtension
    <2>1. pc \in Late
      BY <1>4 DEF LoadArtifact, ResolveImage, BuildTools, ApproveExtension, BuildExtension, Late
    <2>2. UNCHANGED <<frozen, token, minted, mixed>>
      BY <1>4 DEF LoadArtifact, ResolveImage, BuildTools, ApproveExtension, BuildExtension, frozenVs, ghosts
    <2> QED BY <2>1, <2>2
  <1>5. CASE CompilePlan \/ Publish \/ UpdateRecord
    <2>1. pc \in Late
      BY <1>5 DEF CompilePlan, Publish, UpdateRecord, Late
    <2>2. UNCHANGED <<frozen, token, minted, mixed>>
      BY <1>5 DEF CompilePlan, Publish, UpdateRecord, frozenVs, ghosts
    <2> QED BY <2>1, <2>2
  <1>6. CASE Abort
    <2>1. pc' = "idle"
      BY <1>6 DEF Abort, End
    <2> QED BY <2>1 DEF Late
  <1>7. CASE \/ \E d \in Saved : EditManifest(d)
             \/ \E path \in DOMAIN FileStates : \E c \in FileStates[path] : EditFile(path, c)
             \/ \E h \in Moving : NewRelease(h)
             \/ \E r \in ImageRefs : MoveTag(r)
    <2>1. UNCHANGED <<pc, frozen, token, minted, mixed>>
      BY <1>7 DEF EditManifest, EditFile, NewRelease, MoveTag, Elsewhere, ghosts
    <2> QED BY <2>1
  <1>8. CASE Goal
    BY <1>8
  <1> HIDE DEF Goal
  <1> QED BY <1>1, <1>2, <1>3, <1>4, <1>5, <1>6, <1>7, <1>8 DEF Next

LEMMA LoadMixes ==
    ASSUME LoadFrozen
    PROVE  /\ (mixed' <=> mixed \/ (token # <<>> /\ minted # frozen.agents))
           /\ pc' # "idle" => Decodes(frozen)
           /\ UNCHANGED <<frozen, token, minted, verb, tools, began, cache>>
  BY DEF LoadFrozen, End, frozenVs, built

LEMMA MatchKeeps ==
    ASSUME MatchInv, Next
    PROVE  MatchInv'
  <1>1. CASE LoadFrozen
    <2>1. pc' \in Late => pc' # "idle"
      BY DEF Late
    <2> QED BY <1>1, <2>1, LoadMixes DEF MatchInv
  <1>2. CASE pc' \notin Late
    BY <1>2 DEF MatchInv
  <1>3. CASE pc \in Late /\ UNCHANGED <<frozen, token, minted, mixed>>
    BY <1>3 DEF MatchInv
  <1> QED BY <1>1, <1>2, <1>3, LateSteps

LEMMA MixedStays ==
    ASSUME Next, mixed
    PROVE  mixed'
  <1>1. CASE LoadFrozen
    BY <1>1, LoadMixes
  <1>2. CASE \/ \E v : Begin(v)
             \/ \E failed : MintAgentRefresh(failed)
             \/ Abort
    BY <1>2 DEF Begin, MintAgentRefresh, Abort
  <1>3. CASE Preview \/ CopyOpen \/ CopyRead
    BY <1>3 DEF Preview, CopyOpen, CopyRead, ghosts
  <1>4. CASE LoadArtifact \/ ResolveImage \/ BuildTools \/ ApproveExtension \/ BuildExtension
    BY <1>4 DEF LoadArtifact, ResolveImage, BuildTools, ApproveExtension, BuildExtension, ghosts
  <1>5. CASE CompilePlan \/ Publish \/ UpdateRecord
    BY <1>5 DEF CompilePlan, Publish, UpdateRecord, ghosts
  <1>6. CASE \/ \E d \in Saved : EditManifest(d)
             \/ \E path \in DOMAIN FileStates : \E c \in FileStates[path] : EditFile(path, c)
             \/ \E h \in Moving : NewRelease(h)
             \/ \E r \in ImageRefs : MoveTag(r)
    BY <1>6 DEF EditManifest, EditFile, NewRelease, MoveTag, Elsewhere, ghosts
  <1> QED BY <1>1, <1>2, <1>3, <1>4, <1>5, <1>6 DEF Next

LEMMA BuiltSteps ==
    ASSUME CausesInv, Next
    PROVE  \/ BuildTools
           \/ ~(verb' = "rebuild" /\ HasBuilt')
           \/ HasBuilt /\ UNCHANGED <<verb, frozen, tools, began>>
  <1> DEFINE Goal == \/ ~(verb' = "rebuild" /\ HasBuilt')
                     \/ HasBuilt /\ UNCHANGED <<verb, frozen, tools, began>>
  <1>0. pc # "idle" => outcome = "none"
    BY DEF CausesInv
  <1>1. ASSUME NEW v, Begin(v) PROVE Goal
    <2>1. pc' \in {"mint", "preview"} /\ outcome' = "none"
      BY <1>1 DEF Begin
    <2> QED BY <2>1 DEF HasBuilt, Running
  <1>2. ASSUME NEW failed, MintAgentRefresh(failed) PROVE Goal
    <2>1. pc = "mint" /\ pc' = "preview" /\ outcome' = outcome
      BY <1>2 DEF MintAgentRefresh
    <2> QED BY <1>0, <2>1 DEF HasBuilt, Running
  <1>3. CASE Preview \/ CopyOpen \/ CopyRead \/ LoadFrozen
    <2>1. /\ pc' \in {"idle", "copy", "read", "artifact"} /\ pc # "idle"
          /\ outcome' \in {outcome, "undecodable", "input", "changed", "invalid", "env-file"}
      BY <1>3 DEF Preview, CopyOpen, CopyRead, LoadFrozen, End
    <2> QED BY <1>0, <2>1 DEF HasBuilt, Running
  <1>4. CASE LoadArtifact \/ ResolveImage
    <2>1. /\ pc \in {"artifact", "resolve"} /\ outcome' = outcome
          /\ pc' \in {"resolve", "tools"} \/ verb' = "config"
      <3>1. verb' = verb
        BY <1>4 DEF LoadArtifact, ResolveImage
      <3> QED BY <1>4, <3>1 DEF LoadArtifact, ResolveImage
    <2> QED BY <1>0, <2>1 DEF HasBuilt, Running
  <1>5. CASE ApproveExtension \/ BuildExtension
    <2>1. pc = "extension" /\ UNCHANGED <<verb, frozen, tools, began>>
      BY <1>5 DEF ApproveExtension, BuildExtension, frozenVs, ghosts
    <2> QED BY <2>1 DEF HasBuilt
  <1>6. CASE CompilePlan \/ Publish \/ UpdateRecord
    <2>1. pc \in {"compile", "publish", "reconcile"} /\ UNCHANGED <<verb, frozen, tools, began>>
      BY <1>6 DEF CompilePlan, Publish, UpdateRecord, frozenVs, built, ghosts
    <2> QED BY <2>1 DEF HasBuilt, Running
  <1>7. CASE Abort
    <2>1. pc' = "idle" /\ outcome' = "aborted"
      BY <1>7 DEF Abort, End
    <2> QED BY <2>1 DEF HasBuilt, Running
  <1>8. CASE \/ \E d \in Saved : EditManifest(d)
             \/ \E path \in DOMAIN FileStates : \E c \in FileStates[path] : EditFile(path, c)
             \/ \E h \in Moving : NewRelease(h)
             \/ \E r \in ImageRefs : MoveTag(r)
    <2>1. UNCHANGED <<pc, outcome, verb, frozen, tools, began>>
      BY <1>8 DEF EditManifest, EditFile, NewRelease, MoveTag, Elsewhere, built, ghosts
    <2> QED BY <2>1 DEF HasBuilt
  <1>9. CASE Goal
    BY <1>9
  <1> HIDE DEF Goal
  <1> QED BY <1>1, <1>2, <1>3, <1>4, <1>5, <1>6, <1>7, <1>8, <1>9 DEF Next

(* A layer stays what it is; a value of the time of a later command is none *)
(* that a known layer was obtained for.                                     *)
LEMMA RefreshedStays ==
    ASSUME HeadsInv, Next, NEW layer, Refreshed(layer)
    PROVE  Refreshed(layer)'
  <1>1. ASSUME NEW got, NEW x, NEW h \in AgentKind \X Words, Obtained(got, x, h)
        PROVE  Obtained(got, x, h)'
    <2>1. /\ runs \in Nat /\ began[h] \in Nat
          /\ runs' = runs + 1 \/ (runs' = runs /\ began' = began)
      BY TimesStep DEF HeadsInv
    <2>2. ASSUME NEW r \in Nat, x = Stamp(r)
          PROVE  r <= runs' /\ (r = runs' => began'[h] <= got)
      <3>1. r <= runs /\ (r = runs => began[h] <= got)
        BY <1>1, <2>2 DEF Obtained
      <3>2. CASE runs' = runs + 1
        BY <2>1, <3>1, <3>2
      <3>3. CASE runs' = runs /\ began' = began
        BY <3>1, <3>3
      <3> QED BY <2>1, <3>2, <3>3
    <2>3. got \in Nat /\ \A n \in Nat : x = Version(n) => n <= got
      BY <1>1 DEF Obtained
    <2>4. \A n : Version(n)' = Version(n) /\ Stamp(n)' = Stamp(n)
      BY DEF Version, Stamp, Word
    <2> QED BY <2>2, <2>3, <2>4 DEF Obtained
  <1> SUFFICES ASSUME NEW k \in AgentKind, NEW c \in Words, NEW a \in layer.step.args,
                      layer.step.instruction = Run(k, <<c, "refresh">>), a[1] = k
               PROVE  Obtained(layer.got, a[2], <<k, c>>)'
    BY DEF Refreshed
  <1>2. Obtained(layer.got, a[2], <<k, c>>)
    BY DEF Refreshed
  <1>3. <<k, c>> \in AgentKind \X Words
    OBVIOUS
  <1> QED BY <1>1, <1>2, <1>3

-----------------------------------------------------------------------------
(* What a build leaves.                                                    *)

IsAgentRun(instruction) == instruction.op = "RUN" /\ instruction.part \in AgentKind

\* The version that a step obtains when it is run.
GotBy(instruction, versions) ==
    IF ~IsAgentRun(instruction) THEN 0
    ELSE IF instruction.words[1] \in Words
         THEN versions[<<instruction.part, instruction.words[1]>>] ELSE 0

\* From b one step leads to c.
StepLeft(b, c, instruction, step, args, versions) ==
    /\ b.cache \subseteq c.cache /\ b.inside \subseteq c.inside
    /\ \E l \in c.cache : /\ l.step = step
                          /\ IsAgentRun(instruction) => <<instruction.part, l.got>> \in c.inside
    /\ \A l \in c.cache : l \in b.cache \/ (l.step = step /\ l.got = GotBy(instruction, versions))
    /\ c.declared = IF instruction.op = "ARG"
                    THEN b.declared \cup {a \in args : a[1] = instruction.part}
                    ELSE b.declared

LEMMA StepLeaves ==
    ASSUME NEW b, NEW i, NEW dockerfile, NEW args, NEW context, NEW base, NEW versions, NEW first,
           NEW c, c = BuildStep(b, i, dockerfile, args, context, base, versions, first)
    PROVE  StepLeft(b, c, dockerfile[i], Step(dockerfile[i], b.declared, context, base), args, versions)
  <1> DEFINE instruction == dockerfile[i]
             step  == Step(instruction, b.declared, context, base)
             known == {l \in b.cache : l.parent = b.at /\ l.step = step}
             agent == instruction.op = "RUN" /\ instruction.part \in AgentKind
             got   == IF ~agent THEN 0
                      ELSE IF instruction.words[1] \in Words
                           THEN versions[<<instruction.part, instruction.words[1]>>] ELSE 0
             new   == [parent |-> b.at, step |-> step, id |-> first + Cardinality(b.cache), got |-> got]
             layer == IF known # {} THEN CHOOSE l \in known : TRUE ELSE new
  <1>1. c.cache = b.cache \cup {layer}
    BY Zenon DEF BuildStep
  <1>2. c.inside = IF agent THEN b.inside \cup {<<instruction.part, layer.got>>} ELSE b.inside
    BY Zenon DEF BuildStep
  <1>3. c.declared = IF instruction.op = "ARG"
                     THEN b.declared \cup {a \in args : a[1] = instruction.part}
                     ELSE b.declared
    BY Zenon DEF BuildStep
  <1>4. got = GotBy(instruction, versions)
    BY DEF GotBy, IsAgentRun
  <1>5. agent <=> IsAgentRun(instruction)
    BY DEF IsAgentRun
  <1> HIDE DEF step, got, agent
  <1>6. layer.step = step /\ (layer \in b.cache \/ layer.got = got)
    <2>1. CASE known # {}
      <3>1. layer \in known
        BY <2>1
      <3> HIDE DEF layer
      <3> QED BY <3>1
    <2>2. CASE known = {}
      BY <2>2
    <2> QED BY <2>1, <2>2
  <1> HIDE DEF layer
  <1> QED BY <1>1, <1>2, <1>3, <1>4, <1>5, <1>6 DEF step, StepLeft

\* Each layer was known or is that of a step which was run, and each agent
\* that was installed is in the image as its step's layer has it.
Left(b, known, dockerfile, n, args, context, base, versions) ==
    /\ \A l \in b.cache : l \in known \/ \E i \in 1 .. n :
          /\ l.step = StepAt(dockerfile, args, context, base, i)
          /\ l.got = GotBy(dockerfile[i], versions)
    /\ \A i \in 1 .. n : IsAgentRun(dockerfile[i]) =>
          \E l \in b.cache : /\ l.step = StepAt(dockerfile, args, context, base, i)
                             /\ <<dockerfile[i].part, l.got>> \in b.inside

LEMMA BuildLeaves ==
    ASSUME NEW dockerfile, NEW n \in Nat, NEW args, NEW context, NEW base, NEW versions,
           NEW known, NEW first,
           NEW b, b = Build(dockerfile, n, args, context, base, versions, known, first)
    PROVE  Left(b, known, dockerfile, n, args, context, base, versions)
  <1> DEFINE Now(i) == StepAt(dockerfile, args, context, base, i)
  <1>1. PICK after :
              /\ after[0] = Start(known) /\ after[n] = b
              /\ \A i \in 1 .. n :
                    after[i] = BuildStep(after[i - 1], i, dockerfile, args, context, base, versions, first)
    BY BuildSteps
  <1> DEFINE Good(m) ==
               /\ after[m].declared = Declared(dockerfile, args, m + 1)
               /\ Left(after[m], known, dockerfile, m, args, context, base, versions)
             Bad == {m \in 0 .. n : ~Good(m)}
  <1>2. Good(0)
    <2>1. Declared(dockerfile, args, 0 + 1) = {}
      BY DEF Declared
    <2>2. ~\E i : i \in 1 .. 0
      OBVIOUS
    <2> QED BY <1>1, <2>1, <2>2 DEF Start, Left
  <1>3. ASSUME NEW m \in 1 .. n, Good(m - 1) PROVE Good(m)
    <2> DEFINE c == after[m - 1]
               d == after[m]
    <2>1. d = BuildStep(c, m, dockerfile, args, context, base, versions, first)
      BY <1>1
    <2>2. m \in Nat /\ m > 0 /\ (m - 1) + 1 = m
      OBVIOUS
    <2>3. /\ c.declared = Declared(dockerfile, args, m)
          /\ Left(c, known, dockerfile, m - 1, args, context, base, versions)
      BY <1>3, <2>2
    <2>4. Now(m) = Step(dockerfile[m], c.declared, context, base)
      BY <2>3 DEF StepAt
    <2> HIDE DEF c, d
    <2>5. StepLeft(c, d, dockerfile[m], Now(m), args, versions)
      BY <2>1, <2>4, StepLeaves
    <2>6. d.declared = Declared(dockerfile, args, m + 1)
      <3>1. Declared(dockerfile, args, m + 1) =
              IF dockerfile[m].op = "ARG"
              THEN Declared(dockerfile, args, m) \cup {a \in args : a[1] = dockerfile[m].part}
              ELSE Declared(dockerfile, args, m)
        BY <2>2, DeclaredNext
      <3> QED BY <2>3, <2>5, <3>1 DEF StepLeft
    <2> HIDE DEF Now
    <2>7. m \in 1 .. m /\ \A i : i \in 1 .. m <=> i = m \/ i \in 1 .. m - 1
      BY <2>2
    <2>8. ASSUME NEW l \in d.cache
          PROVE  l \in known \/ \E i \in 1 .. m : l.step = Now(i) /\ l.got = GotBy(dockerfile[i], versions)
      <3>1. CASE l \in c.cache
        <4>1. l \in known \/ \E i \in 1 .. m - 1 : l.step = Now(i) /\ l.got = GotBy(dockerfile[i], versions)
          BY <2>3, <3>1 DEF Left, Now
        <4> QED BY <2>7, <4>1
      <3>2. CASE l \notin c.cache
        BY <2>5, <2>7, <3>2 DEF StepLeft
      <3> QED BY <3>1, <3>2
    <2>9. ASSUME NEW i \in 1 .. m, IsAgentRun(dockerfile[i])
          PROVE  \E l \in d.cache : l.step = Now(i) /\ <<dockerfile[i].part, l.got>> \in d.inside
      <3>1. CASE i = m
        BY <2>5, <2>9, <3>1 DEF StepLeft
      <3>2. CASE i # m
        <4>1. i \in 1 .. m - 1
          BY <2>7, <2>9, <3>2
        <4>2. \E l \in c.cache : l.step = Now(i) /\ <<dockerfile[i].part, l.got>> \in c.inside
          BY <2>3, <2>9, <4>1 DEF Left, Now
        <4> QED BY <2>5, <4>2 DEF StepLeft
      <3> QED BY <3>1, <3>2
    <2>10. Left(d, known, dockerfile, m, args, context, base, versions)
      BY <2>8, <2>9 DEF Left, Now
    <2> QED BY <2>6, <2>10 DEF d
  <1> HIDE DEF Good
  <1>4. Bad = {}
    <2>1. Bad \in SUBSET (0 .. n) /\ 0 \notin Bad
      BY <1>2
    <2>2. \A i \in 1 .. n : i - 1 \notin Bad => i \notin Bad
      <3>1. \A i \in 1 .. n : i - 1 \in 0 .. n
        OBVIOUS
      <3> QED BY <1>3, <3>1
    <2> HIDE DEF Bad
    <2> QED BY <2>1, <2>2, FirstFailure
  <1>5. Good(n)
    BY <1>4
  <1> QED BY <1>1, <1>5 DEF Good

-----------------------------------------------------------------------------
(* The layers of the agents in the generated Dockerfile.                   *)

Target(spec) == IF spec.version = Unset THEN DefaultChannel(spec.kind) ELSE spec.version
RunOf(spec, busting) == Run(spec.kind, <<Target(spec)>> \o When(Busts(spec, busting), <<"refresh">>))

\* Agents are only installed as the manifest has them; one that may be
\* refreshed stands below its own argument.
Serves(s, agents, busting) ==
    IsList(s) /\ \A x \in ToSet(s) : IsAgentRun(x) =>
        \E a \in ToSet(agents) : a.kind = x.part /\ x = RunOf(a, busting)

Arranged(s, kind, run) ==
    \E i \in DOMAIN s : /\ i - 1 \in DOMAIN s /\ s[i - 1] = Instruction("ARG", kind, <<kind>>)
                        /\ s[i] = run

LEMMA ArrangedJoin ==
    ASSUME NEW s, NEW t, IsList(s), IsList(t), NEW kind, NEW run,
           Arranged(s, kind, run) \/ Arranged(t, kind, run)
    PROVE  Arranged(s \o t, kind, run)
  <1> DEFINE u == s \o t
             n == Len(s)
             m == Len(t)
  <1>1. /\ IsList(u) /\ Len(u) = n + m
        /\ \A i \in 1 .. n : u[i] = s[i]
        /\ \A i \in 1 .. m : u[n + i] = t[i]
    BY JoinFacts
  <1>2. /\ n \in Nat /\ m \in Nat /\ DOMAIN s = 1 .. n /\ DOMAIN t = 1 .. m
        /\ DOMAIN u = 1 .. n + m
    BY <1>1, ListFacts
  <1> HIDE DEF u, n, m
  <1>3. CASE Arranged(s, kind, run)
    <2>1. PICK i \in 1 .. n : /\ i - 1 \in 1 .. n /\ s[i - 1] = Instruction("ARG", kind, <<kind>>)
                              /\ s[i] = run
      BY <1>2, <1>3 DEF Arranged
    <2>2. i \in DOMAIN u /\ i - 1 \in DOMAIN u /\ u[i] = s[i] /\ u[i - 1] = s[i - 1]
      BY <1>1, <1>2, <2>1
    <2> QED BY <2>1, <2>2 DEF Arranged, u
  <1>4. CASE Arranged(t, kind, run)
    <2>1. PICK i \in 1 .. m : /\ i - 1 \in 1 .. m /\ t[i - 1] = Instruction("ARG", kind, <<kind>>)
                              /\ t[i] = run
      BY <1>2, <1>4 DEF Arranged
    <2>2. n + i \in DOMAIN u /\ n + (i - 1) \in DOMAIN u /\ (n + i) - 1 = n + (i - 1)
      BY <1>2, <2>1
    <2>3. u[n + i] = t[i] /\ u[n + (i - 1)] = t[i - 1]
      BY <1>1, <2>1
    <2> QED BY <2>1, <2>2, <2>3 DEF Arranged, u
  <1> QED BY <1>3, <1>4

LEMMA ServesFacts ==
    ASSUME NEW agents, NEW busting
    PROVE  /\ Serves(<<>>, agents, busting)
           /\ \A x : ~IsAgentRun(x) => Serves(<<x>>, agents, busting)
           /\ \A s, t : Serves(s, agents, busting) /\ Serves(t, agents, busting) =>
                 Serves(s \o t, agents, busting)
           /\ \A s, wanted : Serves(s, agents, busting) => Serves(When(wanted, s), agents, busting)
  <1>1. Serves(<<>>, agents, busting)
    BY SmallLists DEF Serves
  <1>2. ASSUME NEW x, ~IsAgentRun(x) PROVE Serves(<<x>>, agents, busting)
    <2>1. IsList(<<x>>) /\ ToSet(<<x>>) = {x}
      BY SmallLists
    <2> QED BY <1>2, <2>1 DEF Serves
  <1>3. ASSUME NEW s, NEW t, Serves(s, agents, busting), Serves(t, agents, busting)
        PROVE  Serves(s \o t, agents, busting)
    <2>1. IsList(s \o t) /\ ToSet(s \o t) = ToSet(s) \cup ToSet(t)
      BY <1>3, JoinFacts DEF Serves
    <2> QED BY <1>3, <2>1 DEF Serves
  <1>4. ASSUME NEW s, NEW wanted, Serves(s, agents, busting)
        PROVE  Serves(When(wanted, s), agents, busting)
    BY <1>1, <1>4 DEF When
  <1> QED BY <1>1, <1>2, <1>3, <1>4

LEMMA OthersServe ==
    ASSUME NEW agents, NEW busting, NEW part, part \notin AgentKind, NEW words
    PROVE  Serves(<<Run(part, words)>>, agents, busting)
  <1>1. ~IsAgentRun(Run(part, words))
    BY DEF IsAgentRun, Run, Instruction
  <1> QED BY <1>1, ServesFacts

LEMMA AgentServes ==
    ASSUME NEW agents, NEW kind, \E a \in ToSet(agents) : a.kind = kind, NEW busting
    PROVE  /\ Serves(AgentLayer(agents, kind, busting), agents, busting)
           /\ \A a \in ToSet(agents) : a.kind = kind /\ OnePerKind(agents) /\ Busts(a, busting) =>
                 Arranged(AgentLayer(agents, kind, busting), kind, RunOf(a, busting))
  <1> DEFINE spec == CHOOSE a \in ToSet(agents) : a.kind = kind
             bust == Busts(spec, busting)
             arg  == Instruction("ARG", kind, <<kind>>)
             run  == RunOf(spec, busting)
             s    == AgentLayer(agents, kind, busting)
  <1>1. spec \in ToSet(agents) /\ spec.kind = kind
    OBVIOUS
  <1>2. s = refreshArgDecl(bust, kind) \o <<run>>
    <2>1. s = refreshArgDecl(bust, kind)
              \o <<Run(kind, <<IF spec.version = Unset THEN DefaultChannel(kind) ELSE spec.version>>
                             \o When(bust, <<"refresh">>))>>
      BY Zenon DEF AgentLayer
    <2> HIDE DEF spec
    <2> QED BY <1>1, <2>1, Zenon DEF RunOf, Target
  <1> HIDE DEF s, spec
  <1>3. IsList(<<run>>) /\ ToSet(<<run>>) = {run} /\ run.part = kind
    BY <1>1, SmallLists DEF RunOf, Run, Instruction
  <1>4. Serves(<<run>>, agents, busting)
    BY <1>1, <1>3 DEF Serves
  <1>5. IsList(<<arg>>) /\ Serves(<<arg>>, agents, busting)
    <2>1. ~IsAgentRun(arg)
      BY DEF IsAgentRun, Instruction
    <2> HIDE DEF arg
    <2>2. Serves(<<arg>>, agents, busting)
      BY <2>1, ServesFacts
    <2> QED BY <2>2 DEF Serves
  <1> HIDE DEF run, arg
  <1>6. CASE bust
    <2>1. s = <<arg>> \o <<run>> /\ s = <<arg, run>>
      BY <1>2, <1>6, Pair DEF refreshArgDecl, When, arg
    <2>2. Serves(s, agents, busting)
      BY <1>4, <1>5, <2>1, ServesFacts
    <2>3. DOMAIN s = 1 .. 2 /\ s[1] = arg /\ s[2] = run
      BY <2>1
    <2>4. Arranged(s, kind, run)
      BY <2>3 DEF Arranged, arg
    <2>5. \A a \in ToSet(agents) : a.kind = kind /\ OnePerKind(agents) => a = spec
      BY <1>1 DEF OnePerKind
    <2> QED BY <2>2, <2>4, <2>5 DEF s, run
  <1>7. CASE ~bust
    <2>1. Serves(refreshArgDecl(bust, kind), agents, busting)
      BY <1>7, ServesFacts DEF refreshArgDecl, When
    <2>2. Serves(s, agents, busting)
      BY <1>2, <1>4, <2>1, ServesFacts
    <2>3. \A a \in ToSet(agents) : a.kind = kind /\ OnePerKind(agents) => ~Busts(a, busting)
      BY <1>1, <1>7 DEF OnePerKind
    <2> QED BY <2>2, <2>3 DEF s
  <1> QED BY <1>6, <1>7

LEMMA RootServes ==
    ASSUME NEW agents, NEW busting, NEW want
    PROVE  Serves(rootLayers(want), agents, busting)
  <1> DEFINE Fine(s) == Serves(s, agents, busting)
             base   == <<Run("base", <<"agent-state">>)>>
             review == reviewLayers
             tmux   == <<Run("tmux", <<>>), Run("chafa", <<>>)>>
             gh     == <<Run("gh", <<>>)>>
             go     == <<Run("go", <<>>)>>
             node   == <<Run("node", <<>>)>>
             rokit  == <<Run("rokit", <<"unzip">>)>>
  <1>1. rootLayers(want) =
          (((base \o When(wantsAgent(want), (tmux \o review) \o gh))
            \o When("go" \in want, go)) \o When("node" \in want, node)) \o When("rokit" \in want, rokit)
    BY DEF rootLayers
  <1>2. {"base", "tmux", "chafa", "review", "plugins", "parsers", "gh", "go", "node", "rokit"}
           \cap AgentKind = {}
    BY DEF AgentKind
  <1>3. Fine(base) /\ Fine(gh) /\ Fine(go) /\ Fine(node) /\ Fine(rokit)
    BY <1>2, OthersServe
  <1>4. Fine(tmux)
    <2>1. tmux = <<Run("tmux", <<>>)>> \o <<Run("chafa", <<>>)>>
      OBVIOUS
    <2>2. Fine(<<Run("tmux", <<>>)>>) /\ Fine(<<Run("chafa", <<>>)>>)
      BY <1>2, OthersServe
    <2> HIDE DEF tmux
    <2> QED BY <2>1, <2>2, ServesFacts
  <1>5. Fine(review)
    <2>1. review = (<<Run("review", <<>>)>> \o <<Run("plugins", <<>>)>>) \o <<Run("parsers", <<>>)>>
      BY DEF reviewLayers
    <2>2. Fine(<<Run("review", <<>>)>>) /\ Fine(<<Run("plugins", <<>>)>>) /\ Fine(<<Run("parsers", <<>>)>>)
      BY <1>2, OthersServe
    <2> HIDE DEF review
    <2> QED BY <2>1, <2>2, ServesFacts
  <1> HIDE DEF base, review, tmux, gh, go, node, rokit
  <1>6. \A s, t, wanted : /\ Fine(s) /\ Fine(t) => Fine(s \o t)
                          /\ Fine(s) => Fine(When(wanted, s))
    BY ServesFacts
  <1> HIDE DEF Fine
  <1>7. Fine(When(wantsAgent(want), (tmux \o review) \o gh))
    BY <1>3, <1>4, <1>5, <1>6
  <1>8. /\ Fine(When("go" \in want, go)) /\ Fine(When("node" \in want, node))
        /\ Fine(When("rokit" \in want, rokit))
    BY <1>3, <1>6
  <1>9. Fine(rootLayers(want))
    BY <1>1, <1>3, <1>6, <1>7, <1>8
  <1> QED BY <1>9 DEF Fine

LEMMA UserServes ==
    ASSUME NEW agents, NEW busting, NEW want,
           \A kind \in want : kind \in AgentKind => \E a \in ToSet(agents) : a.kind = kind
    PROVE  /\ Serves(userLayers(want, agents, busting), agents, busting)
           /\ \A a \in ToSet(agents) :
                 a.kind \in want /\ a.kind \in AgentKind /\ OnePerKind(agents) /\ Busts(a, busting) =>
                     Arranged(userLayers(want, agents, busting), a.kind, RunOf(a, busting))
  <1> DEFINE Fine(s) == Serves(s, agents, busting)
             bun    == When("bun" \in want, <<Run("bun", <<>>)>>)
             rokit  == When("rokit" \in want, <<Run("rokit", <<>>)>>)
             uv     == When("uv" \in want, <<Run("uv", <<>>)>>)
             layer(kind) == AgentLayer(agents, kind, busting)
             agent(kind) == When(kind \in want, layer(kind))
             chain  == (bun \o rokit) \o uv
             user   == userLayers(want, agents, busting)
  <1>1. user = ((chain \o agent("codex")) \o agent("grok")) \o agent("claude")
    BY DEF userLayers
  <1>2. \A s, t, wanted : /\ Fine(s) /\ Fine(t) => Fine(s \o t)
                          /\ Fine(s) => Fine(When(wanted, s))
    BY ServesFacts
  <1>3. \A s : Fine(s) => IsList(s)
    BY DEF Serves
  <1>4. Fine(bun) /\ Fine(rokit) /\ Fine(uv)
    <2>1. {"bun", "rokit", "uv"} \cap AgentKind = {}
      BY DEF AgentKind
    <2>2. Fine(<<Run("bun", <<>>)>>) /\ Fine(<<Run("rokit", <<>>)>>) /\ Fine(<<Run("uv", <<>>)>>)
      BY <2>1, OthersServe
    <2> QED BY <1>2, <2>2
  <1>5. ASSUME NEW kind \in AgentKind PROVE Fine(agent(kind))
    <2>1. CASE kind \in want
      <3>1. Fine(layer(kind))
        BY <2>1, AgentServes
      <3> QED BY <1>2, <3>1
    <2>2. CASE kind \notin want
      BY <2>2, ServesFacts DEF When
    <2> QED BY <2>1, <2>2
  <1>6. ASSUME NEW a \in ToSet(agents), a.kind \in want, OnePerKind(agents), Busts(a, busting)
        PROVE  Arranged(agent(a.kind), a.kind, RunOf(a, busting))
    <2>1. Arranged(layer(a.kind), a.kind, RunOf(a, busting))
      BY <1>6, AgentServes
    <2>2. agent(a.kind) = layer(a.kind)
      BY <1>6 DEF When
    <2> QED BY <2>1, <2>2
  <1> HIDE DEF bun, rokit, uv, agent, layer, Fine, user
  <1>7. Fine(chain)
    BY <1>2, <1>4
  <1> HIDE DEF chain
  <1>8. Fine(agent("codex")) /\ Fine(agent("grok")) /\ Fine(agent("claude"))
    BY <1>5 DEF AgentKind
  <1>9. /\ Fine(chain \o agent("codex")) /\ Fine((chain \o agent("codex")) \o agent("grok"))
        /\ Fine(user)
    BY <1>1, <1>2, <1>7, <1>8
  <1>10. ASSUME NEW a \in ToSet(agents),
                a.kind \in want, a.kind \in AgentKind, OnePerKind(agents), Busts(a, busting)
         PROVE  Arranged(user, a.kind, RunOf(a, busting))
    <2>1. Arranged(agent(a.kind), a.kind, RunOf(a, busting))
      BY <1>6, <1>10
    <2>2. CASE a.kind = "codex"
      <3>1. Arranged(chain \o agent("codex"), a.kind, RunOf(a, busting))
        BY <1>3, <1>7, <1>8, <2>1, <2>2, ArrangedJoin
      <3>2. Arranged((chain \o agent("codex")) \o agent("grok"), a.kind, RunOf(a, busting))
        BY <1>3, <1>8, <1>9, <3>1, ArrangedJoin
      <3> QED BY <1>1, <1>3, <1>8, <1>9, <3>2, ArrangedJoin
    <2>3. CASE a.kind = "grok"
      <3>1. Arranged((chain \o agent("codex")) \o agent("grok"), a.kind, RunOf(a, busting))
        BY <1>3, <1>8, <1>9, <2>1, <2>3, ArrangedJoin
      <3> QED BY <1>1, <1>3, <1>8, <1>9, <3>1, ArrangedJoin
    <2>4. CASE a.kind = "claude"
      BY <1>1, <1>3, <1>8, <1>9, <2>1, <2>4, ArrangedJoin
    <2> QED BY <1>10, <2>2, <2>3, <2>4 DEF AgentKind
  <1> QED BY <1>9, <1>10 DEF Fine, user

LEMMA GeneratedServes ==
    ASSUME NEW agents, NEW toolchains, ToSet(toolchains) \subseteq Toolchain, NEW busting,
           NEW d, d = GenerateInstallPlan(agents, toolchains, busting)
    PROVE  /\ Serves(d, agents, busting)
           /\ \A a \in ToSet(agents) :
                 a.kind \in AgentKind /\ OnePerKind(agents) /\ Busts(a, busting) =>
                     Arranged(d, a.kind, RunOf(a, busting))
  <1> DEFINE want  == Want(agents, toolchains)
             path  == pathEntries(want)
             from  == Instruction("FROM", "base", <<BaseImageArg>>)
             env   == When(path # <<>>, <<Instruction("ENV", "base", path)>>)
             root  == Instruction("USER", "base", <<"root">>)
             user  == Instruction("USER", "base", <<"vscode">>)
             rooted == rootLayers(want)
             after  == userLayers(want, agents, busting)
             top    == <<DeclareBase>> \o <<from>>
             before == (((top \o env) \o <<root>>) \o rooted) \o <<user>>
             Fine(s) == Serves(s, agents, busting)
  <1>1. d = before \o after
    <2>1. top = <<DeclareBase, from>>
      BY Pair
    <2> QED BY <2>1, Zenon DEF GenerateInstallPlan
  <1>2. \A x : x.op # "RUN" => Fine(<<x>>)
    BY ServesFacts DEF IsAgentRun
  <1>3. \A s, t, wanted : /\ Fine(s) /\ Fine(t) => Fine(s \o t)
                          /\ Fine(s) => Fine(When(wanted, s))
    BY ServesFacts
  <1>4. \A s : Fine(s) => IsList(s)
    BY DEF Serves
  <1>5. \A kind \in want : kind \in AgentKind => \E a \in ToSet(agents) : a.kind = kind
    <2>1. Toolchain \cap AgentKind = {}
      BY DEF Toolchain, AgentKind
    <2>2. "node" \notin AgentKind
      BY DEF AgentKind
    <2> QED BY <2>1, <2>2 DEF Want
  <1>6. \A a \in ToSet(agents) : a.kind \in want
    BY DEF Want
  <1> HIDE DEF want, path
  <1>7. /\ Fine(after)
        /\ \A a \in ToSet(agents) : a.kind \in AgentKind /\ OnePerKind(agents) /\ Busts(a, busting) =>
              Arranged(after, a.kind, RunOf(a, busting))
    BY <1>5, <1>6, UserServes
  <1>8. Fine(rooted)
    BY RootServes
  <1>9. /\ Fine(<<DeclareBase>>) /\ Fine(<<from>>) /\ Fine(<<root>>) /\ Fine(<<user>>)
        /\ Fine(<<Instruction("ENV", "base", path)>>)
    <2>1. \A op, part, words : Instruction(op, part, words).op = op
      BY DEF Instruction
    <2> HIDE DEF Fine
    <2> QED BY <1>2, <2>1 DEF DeclareBase
  <1> HIDE DEF Fine
  <1>10. Fine(env)
    BY <1>3, <1>9
  <1> HIDE DEF from, root, user, env, rooted, after
  <1>11. Fine(before)
    BY <1>3, <1>8, <1>9, <1>10
  <1> HIDE DEF before
  <1>12. Fine(d)
    BY <1>1, <1>3, <1>7, <1>11
  <1>13. ASSUME NEW a \in ToSet(agents), a.kind \in AgentKind, OnePerKind(agents), Busts(a, busting)
         PROVE  Arranged(d, a.kind, RunOf(a, busting))
    BY <1>1, <1>4, <1>7, <1>11, <1>13, ArrangedJoin
  <1> QED BY <1>12, <1>13 DEF Fine

(* What stands in the Dockerfile for an agent that follows a channel, and  *)
(* what an instruction says that does.                                     *)
LEMMA RunFacts ==
    ASSUME NEW spec, Tracks(spec)
    PROVE  /\ RunOf(spec, TRUE) = Run(spec.kind, <<AgentChannel(spec), "refresh">>)
           /\ Busts(spec, TRUE)
  <1>1. Unset \notin Words
    BY ManifestAssumption
  <1>2. Busts(spec, TRUE) /\ Target(spec) = AgentChannel(spec)
    BY <1>1 DEF Tracks, Busts, Target, AgentChannel, isChannel
  <1>3. <<Target(spec)>> \o <<"refresh">> = <<Target(spec), "refresh">>
    BY Pair
  <1> QED BY <1>2, <1>3 DEF RunOf, When

LEMMA RunTells ==
    ASSUME NEW spec, NEW busting \in BOOLEAN, NEW kind, NEW c \in Words,
           RunOf(spec, busting) = Run(kind, <<c, "refresh">>)
    PROVE  busting /\ spec.kind = kind /\ AgentChannel(spec) = c
  <1>1. spec.kind = kind /\ <<Target(spec)>> \o When(Busts(spec, busting), <<"refresh">>) = <<c, "refresh">>
    <2> DEFINE words == <<Target(spec)>> \o When(Busts(spec, busting), <<"refresh">>)
    <2>1. RunOf(spec, busting) = Run(spec.kind, words)
      BY DEF RunOf
    <2> HIDE DEF words
    <2>2. Run(spec.kind, words) = Run(kind, <<c, "refresh">>)
      BY <2>1
    <2>3. spec.kind = kind /\ words = <<c, "refresh">>
      <3>1. /\ Run(spec.kind, words).words = words /\ Run(spec.kind, words).part = spec.kind
            /\ Run(kind, <<c, "refresh">>).words = <<c, "refresh">>
            /\ Run(kind, <<c, "refresh">>).part = kind
        BY DEF Run, Instruction
      <3> QED BY <2>2, <3>1
    <2> QED BY <2>3 DEF words
  <1>2. CASE Busts(spec, busting)
    <2>1. <<Target(spec), "refresh">> = <<c, "refresh">>
      BY <1>1, <1>2, Pair DEF When
    <2>2. Target(spec) = c
      BY <2>1
    <2>3. busting /\ AgentChannel(spec) = Target(spec)
      BY <1>2, <2>2 DEF Busts, Target, AgentChannel, isChannel
    <2> QED BY <1>1, <2>2, <2>3
  <1>3. CASE ~Busts(spec, busting)
    <2>1. <<Target(spec)>> \o <<>> = <<c, "refresh">>
      BY <1>1, <1>3 DEF When
    <2>2. /\ IsList(<<Target(spec)>>) /\ Len(<<Target(spec)>>) = 1 /\ IsList(<<>>) /\ Len(<<>>) = 0
      BY SmallLists
    <2>3. Len(<<Target(spec)>> \o <<>>) = 1 + 0
      BY <2>2, JoinFacts
    <2>4. Len(<<c, "refresh">>) = 2
      OBVIOUS
    <2> QED BY <2>1, <2>3, <2>4
  <1> QED BY <1>2, <1>3

-----------------------------------------------------------------------------
(* A layer is obtained for what the token says, and found again by it.     *)

LEMMA ValuesApart ==
    /\ \A m, n : Version(m) = Version(n) => m = n
    /\ \A m, n : Stamp(m) = Stamp(n) => m = n
    /\ \A m, n : Version(m) # Stamp(n)
  <1>1. \A sort, n : Word(Unset, sort, n).n = n /\ Word(Unset, sort, n).sort = sort
    BY DEF Word
  <1>2. \A m, n : Version(m)[1] = Word(Unset, "v", m) /\ Stamp(n)[1] = Word(Unset, "t", n)
    BY DEF Version, Stamp
  <1> QED BY <1>1, <1>2

LEMMA ObtainedNow ==
    ASSUME HeadsInv, NEW h \in AgentKind \X Words, NEW x, Reached(x, h)
    PROVE  Obtained(heads[h], x, h)
  <1>1. /\ runs \in Nat /\ heads[h] \in Nat /\ began[h] \in Nat /\ began[h] <= heads[h]
    BY DEF HeadsInv
  <1>2. CASE \E n \in Nat : x = Version(n) /\ n <= heads[h]
    BY <1>1, <1>2, ValuesApart DEF Obtained
  <1>3. CASE \E r \in Nat : x = Stamp(r) /\ r <= runs
    BY <1>1, <1>3, ValuesApart DEF Obtained
  <1> QED BY <1>2, <1>3 DEF Reached

LEMMA NewIsFresh ==
    ASSUME HeadsInv, NEW h \in AgentKind \X Words, NEW x, Newly(x, h), NEW got, Obtained(got, x, h)
    PROVE  got >= began[h]
  <1>1. runs \in Nat /\ began[h] \in Nat /\ got \in Nat
    BY DEF HeadsInv, Obtained
  <1>2. CASE \E n \in Nat : x = Version(n) /\ began[h] <= n
    BY <1>1, <1>2 DEF Obtained
  <1>3. CASE x = Stamp(runs)
    BY <1>1, <1>3 DEF Obtained
  <1> QED BY <1>2, <1>3 DEF Newly

LEMMA FrozenAgents ==
    ASSUME PipelineInv, MatchInv, pc = "tools"
    PROVE  /\ IsList(frozen.agents) /\ ToSet(frozen.toolchains) \subseteq Toolchain
           /\ OnePerKind(frozen.agents)
           /\ \A spec \in ToSet(frozen.agents) : ParsesAgent(spec)
           /\ ~mixed /\ token # <<>> => minted = frozen.agents
  <1>1. Validate(frozen) /\ Decodes(frozen) /\ (~mixed /\ token # <<>> => minted = frozen.agents)
    BY DEF PipelineInv, WorkInv, MatchInv, Late
  <1>2. IsList(frozen.agents)
    BY CandidateAssumption DEF PipelineInv, WorkInv, Document
  <1>3. IsInjective([i \in DOMAIN frozen.agents |-> frozen.agents[i].kind])
    BY <1>1 DEF Validate, ValidImage, Distinct
  <1>4. OnePerKind(frozen.agents)
    <2> SUFFICES ASSUME NEW i \in DOMAIN frozen.agents, NEW j \in DOMAIN frozen.agents,
                        frozen.agents[i].kind = frozen.agents[j].kind
                 PROVE  i = j
      BY DEF OnePerKind, ToSet
    <2> QED BY <1>3 DEF IsInjective
  <1> QED BY <1>1, <1>2, <1>4 DEF Decodes

\* The Dockerfile, the arguments and the base of the build at hand.
ToolsFile == GenerateInstallPlan(frozen.agents, frozen.toolchains, token # <<>>)
ToolsArgs == RefreshArgs(ToolsFile)
ToolsBase == digests[Ref(frozen.base)]
ToolsBuild(n) == Build(ToolsFile, n, ToolsArgs, {}, ToolsBase, heads, cache, FirstLayer)
ToolsAt(i) == StepAt(ToolsFile, ToolsArgs, {}, ToolsBase, i)

LEMMA ToolsFileFacts ==
    ASSUME PipelineInv, MatchInv, pc = "tools"
    PROVE  /\ IsList(ToolsFile) /\ Len(ToolsFile) \in Nat /\ DOMAIN ToolsFile = 1 .. Len(ToolsFile)
           /\ \A x \in ToSet(ToolsFile) : IsAgentRun(x) =>
                 \E a \in ToSet(frozen.agents) : a.kind = x.part /\ x = RunOf(a, token # <<>>)
           /\ \A a \in ToSet(frozen.agents) : a.kind \in AgentKind /\ Busts(a, token # <<>>) =>
                 Arranged(ToolsFile, a.kind, RunOf(a, token # <<>>))
           /\ \A a \in ToolsArgs : a[2] = ValueIn(token, a[1])
           /\ \A kind \in RefreshKinds(ToolsFile) : <<kind, ValueIn(token, kind)>> \in ToolsArgs
  <1>1. ToSet(frozen.toolchains) \subseteq Toolchain /\ OnePerKind(frozen.agents)
    BY FrozenAgents
  <1> DEFINE d == ToolsFile
  <1>2. d = GenerateInstallPlan(frozen.agents, frozen.toolchains, token # <<>>)
    BY DEF ToolsFile
  <1>3. \A kind : RefreshValue(kind) = ValueIn(token, kind)
    BY DEF RefreshValue, ValueIn
  <1>4. /\ \A a \in ToolsArgs : a[2] = ValueIn(token, a[1])
        /\ \A kind \in RefreshKinds(d) : <<kind, ValueIn(token, kind)>> \in ToolsArgs
    BY <1>3 DEF ToolsArgs, RefreshArgs
  <1> HIDE DEF d
  <1>5. /\ Serves(d, frozen.agents, token # <<>>)
        /\ \A a \in ToSet(frozen.agents) :
              a.kind \in AgentKind /\ OnePerKind(frozen.agents) /\ Busts(a, token # <<>>) =>
                  Arranged(d, a.kind, RunOf(a, token # <<>>))
    BY <1>1, <1>2, GeneratedServes
  <1>6. IsList(d) /\ Len(d) \in Nat /\ DOMAIN d = 1 .. Len(d)
    BY <1>5, ListFacts DEF Serves
  <1> QED BY <1>1, <1>4, <1>5, <1>6 DEF Serves, d

(* Every layer of a build of the tools image, as far as it got.            *)
LEMMA ToolsRefreshed ==
    ASSUME PipelineInv, RefreshInv, pc = "tools", ~mixed,
           NEW n \in Nat, n <= Len(ToolsFile), NEW l \in ToolsBuild(n).cache
    PROVE  Refreshed(l)
  <1>1. Left(ToolsBuild(n), cache, ToolsFile, n, ToolsArgs, {}, ToolsBase, heads)
    BY BuildLeaves DEF ToolsBuild
  <1>2. CASE l \in cache
    BY <1>2 DEF RefreshInv, LayerInv
  <1>3. CASE \E i \in 1 .. n : l.step = ToolsAt(i) /\ l.got = GotBy(ToolsFile[i], heads)
    <2>1. PICK i \in 1 .. n : l.step = ToolsAt(i) /\ l.got = GotBy(ToolsFile[i], heads)
      BY <1>3
    <2> DEFINE x == ToolsFile[i]
    <2>2. l.step.instruction = x /\ (x.op = "RUN" => l.step.args \subseteq ToolsArgs)
      BY <2>1 DEF ToolsAt, StepAt, Step, Declared
    <2>3. x \in ToSet(ToolsFile)
      BY ToolsFileFacts DEF ToSet, RefreshInv
    <2> HIDE DEF x
    <2> SUFFICES ASSUME NEW k \in AgentKind, NEW c \in Words, NEW a \in l.step.args,
                        l.step.instruction = Run(k, <<c, "refresh">>), a[1] = k
                 PROVE  Obtained(l.got, a[2], <<k, c>>)
      BY DEF Refreshed
    <2>4. /\ x.op = "RUN" /\ x.part = k /\ x.words = <<c, "refresh">>
      BY <2>2 DEF Run, Instruction
    <2>5. IsAgentRun(x) /\ l.got = heads[<<k, c>>]
      <3>1. x.words[1] = c
        BY <2>4
      <3> QED BY <2>1, <2>4, <3>1 DEF GotBy, IsAgentRun, x
    <2>6. a[2] = ValueIn(token, k)
      BY <2>2, <2>4, ToolsFileFacts DEF RefreshInv
    <2>7. PICK spec \in ToSet(frozen.agents) : x = RunOf(spec, token # <<>>)
      BY <2>3, <2>5, ToolsFileFacts DEF RefreshInv
    <2>8. token # <<>> /\ spec.kind = k /\ AgentChannel(spec) = c
      <3>1. (token # <<>>) \in BOOLEAN /\ RunOf(spec, token # <<>>) = Run(k, <<c, "refresh">>)
        BY <2>2, <2>7
      <3> QED BY <3>1, RunTells
    <2>9. Reached(ValueIn(token, k), <<k, c>>)
      <3>1. minted = frozen.agents /\ OnePerKind(frozen.agents)
        BY <2>8, FrozenAgents DEF RefreshInv
      <3>2. Tracks(spec) /\ Feed(spec) = <<k, c>>
        BY <2>8 DEF Tracks, Feed
      <3> QED BY <2>8, <3>1, <3>2 DEF RefreshInv, TokenInv, ReachedIn
    <2> QED BY <2>5, <2>6, <2>9, ObtainedNow DEF RefreshInv
  <1> QED BY <1>1, <1>2, <1>3 DEF Left, ToolsAt

(* An agent that follows a channel is in the tools image of a rebuild as   *)
(* new as the channel was.                                                 *)
LEMMA ToolsFresh ==
    ASSUME PipelineInv, RefreshInv, pc = "tools", verb = "rebuild", ~mixed,
           NEW spec \in ToSet(frozen.agents), Tracks(spec)
    PROVE  \E v \in ToolsBuild(Len(ToolsFile)).inside : v[1] = spec.kind /\ v[2] >= began[Feed(spec)]
  <1> DEFINE k == spec.kind
             c == AgentChannel(spec)
             n == Len(ToolsFile)
             b == ToolsBuild(n)
  <1>1. k \in AgentKind /\ c \in Words /\ Feed(spec) = <<k, c>>
    BY DEF Tracks, Feed
  <1>2. NewIn(token, minted)
    BY DEF RefreshInv, TokenInv
  <1>3. token # <<>> /\ minted = frozen.agents /\ OnePerKind(frozen.agents)
    BY <1>2, FrozenAgents DEF NewIn, RefreshInv
  <1>4. Newly(ValueIn(token, k), <<k, c>>)
    BY <1>1, <1>2, <1>3 DEF NewIn
  <1>5. Arranged(ToolsFile, k, Run(k, <<c, "refresh">>))
    <2>1. (token # <<>>) = TRUE
      BY <1>3
    <2>2. Busts(spec, TRUE) /\ RunOf(spec, TRUE) = Run(k, <<c, "refresh">>)
      BY RunFacts
    <2>3. Busts(spec, token # <<>>) /\ RunOf(spec, token # <<>>) = Run(k, <<c, "refresh">>)
      BY <2>1, <2>2
    <2> QED BY <1>1, <2>3, ToolsFileFacts DEF RefreshInv
  <1>6. n \in Nat /\ DOMAIN ToolsFile = 1 .. n
    BY ToolsFileFacts DEF RefreshInv
  <1> HIDE DEF k, c, n, b
  <1>7. PICK i \in 1 .. n : /\ i - 1 \in 1 .. n
                            /\ ToolsFile[i - 1] = Instruction("ARG", k, <<k>>)
                            /\ ToolsFile[i] = Run(k, <<c, "refresh">>)
    BY <1>5, <1>6 DEF Arranged
  <1>8. <<k, ValueIn(token, k)>> \in ToolsArgs
    <2>1. ToolsFile[i - 1].op = "ARG" /\ ToolsFile[i - 1].part = k
      BY <1>7 DEF Instruction
    <2>2. k \in RefreshKinds(ToolsFile)
      BY <1>1, <1>6, <1>7, <2>1 DEF RefreshKinds
    <2> QED BY <2>2, ToolsFileFacts DEF RefreshInv
  <1>9. <<k, ValueIn(token, k)>> \in Declared(ToolsFile, ToolsArgs, i)
    <2>1. ToolsFile[i - 1].op = "ARG" /\ ToolsFile[i - 1].part = k
      BY <1>7 DEF Instruction
    <2>2. i - 1 \in 1 .. i - 1
      BY <1>6, <1>7
    <2> QED BY <1>8, <2>1, <2>2 DEF Declared
  <1>10. ToolsFile[i].op = "RUN" /\ ToolsFile[i].part = k /\ IsAgentRun(ToolsFile[i])
    BY <1>1, <1>7 DEF Run, Instruction, IsAgentRun
  <1>11. Left(b, cache, ToolsFile, n, ToolsArgs, {}, ToolsBase, heads)
    BY <1>6, BuildLeaves DEF ToolsBuild, b
  <1>12. PICK l \in b.cache : l.step = ToolsAt(i) /\ <<k, l.got>> \in b.inside
    BY <1>10, <1>11 DEF Left, ToolsAt
  <1>13. /\ l.step.instruction = Run(k, <<c, "refresh">>)
         /\ <<k, ValueIn(token, k)>> \in l.step.args
    BY <1>7, <1>9, <1>10, <1>12 DEF ToolsAt, StepAt, Step
  <1>14. Refreshed(l)
    <2>1. n <= n
      BY <1>6
    <2> QED BY <1>6, <1>12, <2>1, ToolsRefreshed DEF b, n
  <1>15. Obtained(l.got, ValueIn(token, k), <<k, c>>)
    <2> DEFINE a == <<k, ValueIn(token, k)>>
    <2>1. a[1] = k /\ a[2] = ValueIn(token, k)
      OBVIOUS
    <2> HIDE DEF a
    <2>2. a \in l.step.args
      BY <1>13 DEF a
    <2> QED BY <1>1, <1>13, <1>14, <2>1, <2>2 DEF Refreshed
  <1>16. l.got >= began[<<k, c>>]
    <2>1. <<k, c>> \in AgentKind \X Words
      BY <1>1
    <2> QED BY <1>4, <1>15, <2>1, NewIsFresh DEF RefreshInv
  <1>17. <<k, l.got>>[1] = k /\ <<k, l.got>>[2] = l.got
    OBVIOUS
  <1> QED BY <1>1, <1>12, <1>16, <1>17 DEF k, n, b

LEMMA ToolsLayers ==
    ASSUME PipelineInv, RefreshInv, BuildTools, ~mixed
    PROVE  \A l \in cache' : Refreshed(l)
  <1>1. /\ pc = "tools"
        /\ \/ cache' = cache
           \/ cache' = ToolsBuild(Len(ToolsFile)).cache
           \/ \E n \in FailsAfter(ToolsFile) : cache' = ToolsBuild(n).cache
    BY Zenon DEF BuildTools, ToolsFile, ToolsBuild, ToolsArgs, ToolsBase
  <1>2. Len(ToolsFile) \in Nat /\ DOMAIN ToolsFile = 1 .. Len(ToolsFile)
    BY <1>1, ToolsFileFacts DEF RefreshInv
  <1>3. CASE cache' = cache
    BY <1>3 DEF RefreshInv, LayerInv
  <1>4. CASE cache' = ToolsBuild(Len(ToolsFile)).cache
    <2>1. Len(ToolsFile) <= Len(ToolsFile)
      BY <1>2
    <2> QED BY <1>1, <1>2, <1>4, <2>1, ToolsRefreshed
  <1>5. CASE \E n \in FailsAfter(ToolsFile) : cache' = ToolsBuild(n).cache
    <2>1. PICK n \in FailsAfter(ToolsFile) : cache' = ToolsBuild(n).cache
      BY <1>5
    <2>2. n \in Nat /\ n <= Len(ToolsFile)
      BY <1>2, <2>1 DEF FailsAfter
    <2> QED BY <1>1, <2>1, <2>2, ToolsRefreshed
  <1> QED BY <1>1, <1>3, <1>4, <1>5

(* An extension passes no arguments.                                       *)
LEMMA ExtensionLayers ==
    ASSUME PipelineInv, RefreshInv, BuildExtension, ~mixed
    PROVE  \A l \in cache' : Refreshed(l)
  <1> DEFINE texts == Snapped(DockerfileDest)
             d     == ExtensionText
             base  == digests[IF HasTools(frozen) THEN ToolsImageRef ELSE Ref(frozen.base)]
             n     == Len(d)
             b     == Build(d, n, {}, Context, base, heads, cache, FirstLayer)
  <1>1. cache' = cache \/ (texts # {} /\ cache' = b.cache)
    BY Zenon DEF BuildExtension, Contracted
  <1>2. \A l \in cache : Refreshed(l)
    BY DEF RefreshInv, LayerInv
  <1>3. CASE texts # {} /\ cache' = b.cache
    <2>1. n \in Nat
      <3> DEFINE f == CHOOSE f \in texts : TRUE
      <3>1. f \in texts
        BY <1>3
      <3>2. f.content \in DOMAIN Texts
        BY <3>1 DEF PipelineInv, FilesInv
      <3>3. IsList(d)
        BY <3>2, CandidateAssumption DEF ExtensionText
      <3> QED BY <3>3, ListFacts
    <2> HIDE DEF d, base, n
    <2>2. Left(b, cache, d, n, {}, Context, base, heads)
      BY <2>1, BuildLeaves
    <2> HIDE DEF b
    <2>3. ASSUME NEW l \in b.cache, l \notin cache PROVE l.step.args = {}
      <3>1. PICK i \in 1 .. n : l.step = StepAt(d, {}, Context, base, i)
        BY <2>2, <2>3 DEF Left
      <3> QED BY <3>1 DEF StepAt, Step, Declared
    <2>4. ASSUME NEW l \in b.cache, l \notin cache PROVE Refreshed(l)
      BY <2>3, <2>4 DEF Refreshed
    <2> QED BY <1>2, <1>3, <2>4
  <1> QED BY <1>1, <1>2, <1>3

LEMMA CacheSteps ==
    ASSUME Next
    PROVE  BuildTools \/ BuildExtension \/ cache' = cache
  BY OthersCache

LEMMA LayersKeep ==
    ASSUME PipelineInv, RefreshInv, Next
    PROVE  LayerInv'
  <1> SUFFICES ASSUME ~mixed' PROVE \A l \in cache' : Refreshed(l)'
    BY DEF LayerInv
  <1>1. ~mixed
    BY MixedStays
  <1>2. \A l \in cache' : Refreshed(l)
    BY <1>1, CacheSteps, ToolsLayers, ExtensionLayers DEF RefreshInv, LayerInv
  <1> QED BY <1>2, RefreshedStays DEF RefreshInv

LEMMA FreshKeeps ==
    ASSUME PipelineInv, RefreshInv, Next
    PROVE  FreshInv'
  <1>1. CASE BuildTools
    <2> SUFFICES ASSUME verb' = "rebuild", HasBuilt', ~mixed' PROVE FreshInv'
      BY DEF FreshInv
    <2>1. /\ pc = "tools" /\ UNCHANGED <<verb, frozen, began, mixed>>
          /\ \/ ~HasTools(frozen)
             \/ pc' = "idle" /\ outcome' \in {"generated", "aborted"}
             \/ tools'.inside = ToolsBuild(Len(ToolsFile)).inside
      <3>1. pc = "tools" /\ UNCHANGED <<verb, frozen, began, mixed>>
        BY <1>1 DEF BuildTools, frozenVs, ghosts
      <3>2. \/ ~HasTools(frozen)
            \/ pc' = "idle" /\ outcome' \in {"generated", "aborted"}
            \/ tools' = Finished(ToolsFile, ToolsArgs, {}, ToolsBase, ToolsBuild(Len(ToolsFile)))
        BY <1>1, Zenon DEF BuildTools, End, ToolsFile, ToolsBuild, ToolsArgs, ToolsBase
      <3>3. \A d, args, base, b : Finished(d, args, {}, base, b).inside = b.inside
        BY DEF Finished
      <3> QED BY <3>1, <3>2, <3>3
    <2>2. verb = "rebuild" /\ ~mixed
      BY <2>1
    <2>3. \A spec \in ToSet(frozen.agents) : ParsesAgent(spec)
      BY <2>1, FrozenAgents DEF RefreshInv
    <2>4. ASSUME NEW spec \in ToSet(frozen.agents), Tracks(spec)
          PROVE  \E v \in tools'.inside : v[1] = spec.kind /\ v[2] >= began[Feed(spec)]
      <3>1. CASE ~HasTools(frozen)
        BY <2>4, <3>1, SmallLists DEF HasTools
      <3>2. CASE pc' = "idle" /\ outcome' \in {"generated", "aborted"}
        BY <3>2 DEF HasBuilt, Running
      <3>3. CASE tools'.inside = ToolsBuild(Len(ToolsFile)).inside
        BY <2>1, <2>2, <2>4, <3>3, ToolsFresh
      <3> QED BY <2>1, <3>1, <3>2, <3>3
    <2> QED BY <2>1, <2>3, <2>4 DEF FreshInv, AllFresh
  <1>2. CASE ~(verb' = "rebuild" /\ HasBuilt')
    BY <1>2 DEF FreshInv
  <1>3. CASE HasBuilt /\ UNCHANGED <<verb, frozen, tools, began>>
    <2>1. ~mixed' => ~mixed
      BY MixedStays
    <2> QED BY <1>3, <2>1 DEF RefreshInv, FreshInv, AllFresh
  <1> QED BY <1>1, <1>2, <1>3, BuiltSteps DEF PipelineInv

LEMMA InitRefresh ==
    ASSUME Init PROVE RefreshInv
  <1>1. HeadsInv
    <2>1. heads = [h \in AgentKind \X Words |-> IF h[2] = "stable" THEN 1 ELSE 2]
          /\ began = heads /\ runs = 0
      BY DEF Init
    <2>2. heads \in [AgentKind \X Words -> Nat]
      BY <2>1
    <2> QED BY <2>1, <2>2 DEF HeadsInv
  <1>2. TokenInv
    BY DEF Init, TokenInv, ReachedIn
  <1>3. MatchInv
    BY DEF Init, MatchInv, Late
  <1>4. LayerInv
    BY DEF Init, LayerInv
  <1>5. FreshInv
    BY DEF Init, FreshInv
  <1> QED BY <1>1, <1>2, <1>3, <1>4, <1>5 DEF RefreshInv

LEMMA NextRefresh ==
    ASSUME PipelineInv, RefreshInv, Next PROVE RefreshInv'
  <1>1. HeadsInv'
    BY TimesStep DEF RefreshInv
  <1>2. TokenInv'
    BY TokenKeeps DEF RefreshInv
  <1>3. MatchInv'
    BY MatchKeeps DEF RefreshInv
  <1> QED BY <1>1, <1>2, <1>3, LayersKeep, FreshKeeps DEF RefreshInv

LEMMA StutterRefresh ==
    ASSUME RefreshInv, UNCHANGED vars PROVE RefreshInv'
  <1> USE DEF vars, workspace, daemon, record, frozenVs, images, built, ghosts
  <1>1. HeadsInv' /\ MatchInv'
    BY DEF RefreshInv, HeadsInv, MatchInv
  <1>2. TokenInv'
    BY DEF RefreshInv, TokenInv, ReachedIn, NewIn, Reached, Newly
  <1>3. LayerInv'
    BY DEF RefreshInv, LayerInv, Refreshed, Obtained
  <1>4. FreshInv'
    BY DEF RefreshInv, FreshInv, HasBuilt, AllFresh
  <1> QED BY <1>1, <1>2, <1>3, <1>4 DEF RefreshInv

LEMMA FreshAgents ==
    ASSUME RefreshInv PROVE RefreshesItsOwn
  <1> SUFFICES ASSUME ~mixed, outcome = "ok", verb = "rebuild",
                      NEW spec \in ToSet(frozen.agents), Follows(spec)
               PROVE  LET channel == IF spec.version = Unset THEN DefaultChannel(spec.kind) ELSE spec.version
                      IN  \E v \in tools.inside : v[1] = spec.kind /\ v[2] >= began[<<spec.kind, channel>>]
    BY DEF RefreshesItsOwn, AgentsAreFresh
  <1>1. ParsesAgent(spec) /\ AllFresh
    BY DEF RefreshInv, FreshInv, HasBuilt
  <1>2. spec.kind \in AgentKind /\ (spec.version = Unset \/ spec.version \in Words)
    BY <1>1 DEF ParsesAgent, Follows
  <1>3. /\ AgentChannel(spec) = IF spec.version = Unset THEN DefaultChannel(spec.kind) ELSE spec.version
        /\ AgentChannel(spec) \in Words
    <2>1. CASE spec.version = Unset
      BY <1>2, <2>1, InstallAssumption, ManifestAssumption DEF AgentChannel, isChannel
    <2>2. CASE spec.version # Unset
      BY <1>2, <2>2 DEF AgentChannel, isChannel
    <2> QED BY <2>1, <2>2
  <1>4. Tracks(spec)
    BY <1>2, <1>3 DEF Tracks
  <1> QED BY <1>1, <1>3, <1>4 DEF AllFresh, Feed

\* After a rebuild that succeeded, an agent that follows a channel is as new
\* as the channel was when the rebuild began, as long as every token was used
\* with the agents it was minted for (mintAgentRefresh gives each its own
\* pair, generateInstallPlan each its own argument): whatever the daemon has
\* cached, whichever probes and builds failed and however often.
THEOREM RefreshesItsOwnTheorem == Spec => []RefreshesItsOwn
  <1>1. Init => PipelineInv /\ RefreshInv
    BY InitPipeline, InitRefresh
  <1>2. PipelineInv /\ RefreshInv /\ [Next]_vars => PipelineInv' /\ RefreshInv'
    BY NextPipeline, StutterPipeline, NextRefresh, StutterRefresh
  <1>3. RefreshInv => RefreshesItsOwn
    BY FreshAgents
  <1> QED BY <1>1, <1>2, <1>3, PTL DEF Spec
==============================================================================
