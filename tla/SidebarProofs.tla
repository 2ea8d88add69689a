----------------------------- MODULE SidebarProofs -------------------------
(***************************************************************************)
(* Theorems about Sidebar, for every fleet, every width of a meta segment, *)
(* every height of the pane and any number of events.                      *)
(***************************************************************************)
EXTENDS Sidebar, WellFoundedInduction, TLAPS

-----------------------------------------------------------------------------
(* Induction and lists.                                                    *)

(* A set of naturals that is not empty has a least element.                *)
LEMMA LeastElement ==
    ASSUME NEW S \in SUBSET Nat, S # {}
    PROVE  \E i \in S : \A j \in S : i <= j
  <1>1. IsWellFoundedOn(OpToRel(<, Nat), Nat)
    BY NatLessThanWellFounded
  <1>2. PICK i \in S : \A j \in S : ~(<<j, i>> \in OpToRel(<, Nat))
    BY <1>1, WFMin
  <1>3. \A j \in S : <<j, i>> \in OpToRel(<, Nat) <=> j < i
    BY DEF OpToRel
  <1>4. \A j \in S : ~(j < i)
    BY <1>2, <1>3, Zenon
  <1> QED BY <1>4

(* What holds first and is kept by every step holds last.                  *)
LEMMA FirstFailure ==
    ASSUME NEW n \in Nat, NEW Bad \in SUBSET (0 .. n), 0 \notin Bad,
           \A i \in 1 .. n : i - 1 \notin Bad => i \notin Bad
    PROVE  Bad = {}
  <1> SUFFICES ASSUME Bad # {} PROVE FALSE
    OBVIOUS
  <1>1. PICK k \in Bad : \A j \in Bad : k <= j
    BY LeastElement
  <1>2. k \in 1 .. n /\ k - 1 \notin Bad
    BY <1>1
  <1> QED BY <1>1, <1>2

LEMMA ListFacts ==
    ASSUME NEW s, IsList(s)
    PROVE  /\ Len(s) \in Nat /\ DOMAIN s = 1 .. Len(s)
           /\ \A S : ToSet(s) \subseteq S => s \in Seq(S)
  <1>1. s \in Seq(ToSet(s))
    BY DEF IsList
  <1>2. Len(s) \in Nat /\ DOMAIN s = 1 .. Len(s) /\ s \in [1 .. Len(s) -> ToSet(s)]
    BY <1>1
  <1>3. ASSUME NEW S, ToSet(s) \subseteq S PROVE s \in Seq(S)
    <2>1. s \in [1 .. Len(s) -> S]
      BY <1>2, <1>3
    <2> QED BY <1>2, <2>1
  <1> QED BY <1>2, <1>3

\* A function on the first numbers is a list.
LEMMA ListOfFunction ==
    ASSUME NEW n \in Nat, NEW S, NEW s \in [1 .. n -> S]
    PROVE  IsList(s) /\ Len(s) = n /\ \A x \in ToSet(s) : \E i \in 1 .. n : x = s[i]
  <1>1. s \in [1 .. n -> ToSet(s)]
    BY DEF ToSet
  <1>2. s \in Seq(ToSet(s))
    BY <1>1
  <1>3. Len(s) = n
    BY <1>1
  <1> QED BY <1>2, <1>3 DEF IsList, ToSet

LEMMA SmallLists ==
    /\ IsList(<<>>) /\ Len(<<>>) = 0 /\ ToSet(<<>>) = {}
    /\ \A x : IsList(<<x>>) /\ Len(<<x>>) = 1 /\ ToSet(<<x>>) = {x} /\ <<x>>[1] = x
  <1>1. IsList(<<>>) /\ Len(<<>>) = 0 /\ ToSet(<<>>) = {}
    BY DEF IsList, ToSet
  <1>2. ASSUME NEW x
        PROVE  IsList(<<x>>) /\ Len(<<x>>) = 1 /\ ToSet(<<x>>) = {x} /\ <<x>>[1] = x
    <2>1. Len(<<x>>) = 1 /\ <<x>>[1] = x /\ DOMAIN <<x>> = 1 .. 1
      OBVIOUS
    <2>2. ToSet(<<x>>) = {x}
      BY <2>1 DEF ToSet
    <2>3. <<x>> \in Seq({x})
      OBVIOUS
    <2> QED BY <2>1, <2>2, <2>3 DEF IsList
  <1> QED BY <1>1, <1>2

LEMMA JoinFacts ==
    ASSUME NEW s, NEW t, IsList(s), IsList(t)
    PROVE  /\ IsList(s \o t) /\ Len(s \o t) = Len(s) + Len(t)
           /\ ToSet(s \o t) = ToSet(s) \cup ToSet(t)
           /\ \A i \in 1 .. Len(s) : (s \o t)[i] = s[i]
           /\ \A i \in 1 .. Len(t) : (s \o t)[Len(s) + i] = t[i]
  <1> DEFINE S == ToSet(s) \cup ToSet(t)
  <1>1. s \in Seq(S) /\ t \in Seq(S)
    BY ListFacts
  <1>a. Len(s) \in Nat /\ DOMAIN s = 1 .. Len(s) /\ Len(t) \in Nat /\ DOMAIN t = 1 .. Len(t)
    BY ListFacts
  <1> HIDE DEF S
  <1>2. /\ s \o t \in Seq(S) /\ Len(s \o t) = Len(s) + Len(t)
        /\ DOMAIN (s \o t) = 1 .. Len(s) + Len(t)
    BY <1>1
  <1>3. \A i \in 1 .. Len(s) : (s \o t)[i] = s[i]
    BY <1>1, <1>a
  <1>4. \A i \in 1 .. Len(t) : (s \o t)[Len(s) + i] = t[i]
    BY <1>1, <1>a
  <1>5. ToSet(s \o t) = S
    <2>1. ASSUME NEW x \in ToSet(s \o t) PROVE x \in S
      <3>1. PICK i \in 1 .. Len(s) + Len(t) : x = (s \o t)[i]
        BY <1>2, <2>1 DEF ToSet
      <3> QED BY <1>2, <3>1
    <2>2. ASSUME NEW x \in ToSet(s) PROVE x \in ToSet(s \o t)
      <3>1. PICK i \in 1 .. Len(s) : x = s[i]
        BY <1>a, <2>2 DEF ToSet
      <3>2. i \in DOMAIN (s \o t) /\ (s \o t)[i] = x
        BY <1>2, <1>3, <1>a, <3>1
      <3> QED BY <3>2 DEF ToSet
    <2>3. ASSUME NEW x \in ToSet(t) PROVE x \in ToSet(s \o t)
      <3>1. PICK i \in 1 .. Len(t) : x = t[i]
        BY <1>a, <2>3 DEF ToSet
      <3>2. Len(s) + i \in DOMAIN (s \o t) /\ (s \o t)[Len(s) + i] = x
        BY <1>2, <1>4, <1>a, <3>1
      <3> QED BY <3>2 DEF ToSet
    <2> QED BY <2>1, <2>2, <2>3 DEF S
  <1>6. IsList(s \o t)
    BY <1>2, <1>5 DEF IsList
  <1> QED BY <1>2, <1>3, <1>4, <1>5, <1>6 DEF S

LEMMA AppendFacts ==
    ASSUME NEW s, NEW x, IsList(s)
    PROVE  /\ IsList(Append(s, x)) /\ Len(Append(s, x)) = Len(s) + 1
           /\ ToSet(Append(s, x)) = ToSet(s) \cup {x}
           /\ \A i \in 1 .. Len(s) : Append(s, x)[i] = s[i]
           /\ Append(s, x)[Len(s) + 1] = x
  <1> DEFINE S == ToSet(s) \cup {x}
             t == Append(s, x)
  <1>1. s \in Seq(S) /\ x \in S
    BY ListFacts
  <1>2. Len(s) \in Nat /\ DOMAIN s = 1 .. Len(s)
    BY ListFacts
  <1> HIDE DEF S
  <1>3. /\ t \in Seq(S) /\ Len(t) = Len(s) + 1 /\ DOMAIN t = 1 .. Len(s) + 1
        /\ t[Len(s) + 1] = x /\ \A i \in 1 .. Len(s) : t[i] = s[i]
    BY <1>1, <1>2
  <1> HIDE DEF t
  <1>4. ToSet(t) = S
    <2>1. ASSUME NEW y \in ToSet(t) PROVE y \in S
      <3>1. PICK i \in 1 .. Len(s) + 1 : y = t[i]
        BY <1>3, <2>1 DEF ToSet
      <3> QED BY <1>3, <3>1
    <2>2. x \in ToSet(t)
      <3>1. Len(s) + 1 \in DOMAIN t
        BY <1>2, <1>3
      <3> QED BY <1>3, <3>1 DEF ToSet
    <2>3. ASSUME NEW y \in ToSet(s) PROVE y \in ToSet(t)
      <3>1. PICK i \in 1 .. Len(s) : y = s[i]
        BY <1>2, <2>3 DEF ToSet
      <3>2. i \in DOMAIN t /\ t[i] = y
        BY <1>2, <1>3, <3>1
      <3> QED BY <3>2 DEF ToSet
    <2> QED BY <2>1, <2>2, <2>3 DEF S
  <1>5. IsList(t)
    BY <1>3, <1>4 DEF IsList
  <1> QED BY <1>3, <1>4, <1>5 DEF S, t

-----------------------------------------------------------------------------
(* Filtering.                                                              *)

LEMMA OnlySteps ==
    ASSUME NEW s, Len(s) \in Nat, NEW S
    PROVE  \E kept :
              /\ kept[0] = <<>> /\ kept[Len(s)] = Only(s, S)
              /\ \A i \in 1 .. Len(s) :
                    kept[i] = IF s[i] \in S THEN Append(kept[i - 1], s[i]) ELSE kept[i - 1]
  <1> DEFINE n == Len(s)
             next(c, i) == IF s[i] \in S THEN Append(c, s[i]) ELSE c
             kept[i \in 0 .. n] == IF i = 0 THEN <<>> ELSE next(kept[i - 1], i)
             Runs(g, k) == g = [i \in 0 .. k |-> IF i = 0 THEN <<>> ELSE next(g[i - 1], i)]
  <1>1. Only(s, S) = kept[n]
    BY DEF Only
  <1>2. kept = CHOOSE g : Runs(g, n)
    OBVIOUS
  <1> HIDE DEF kept, next
  <1>3. ASSUME NEW k \in Nat, k # 0, \E g : Runs(g, k - 1)
        PROVE  \E g : Runs(g, k)
    <2>1. PICK g : Runs(g, k - 1)
      BY <1>3
    <2> DEFINE h == [i \in 0 .. k |-> IF i < k THEN g[i] ELSE next(g[k - 1], k)]
    <2>2. ASSUME NEW i \in 0 .. k
          PROVE  h[i] = IF i = 0 THEN <<>> ELSE next(h[i - 1], i)
      <3>1. CASE i < k
        <4>1. i \in 0 .. k - 1 /\ h[i] = g[i] /\ (i # 0 => h[i - 1] = g[i - 1])
          BY <1>3, <3>1
        <4>2. g[i] = IF i = 0 THEN <<>> ELSE next(g[i - 1], i)
          BY <2>1, <4>1
        <4> QED BY <4>1, <4>2
      <3>2. CASE i = k
        BY <1>3, <3>2
      <3> QED BY <3>1, <3>2
    <2>3. h = [i \in 0 .. k |-> h[i]]
      OBVIOUS
    <2> HIDE DEF h
    <2>4. Runs(h, k)
      BY <2>2, <2>3
    <2> QED BY <2>4
  <1>4. \A k \in Nat : \E g : Runs(g, k)
    <2>1. Runs([i \in 0 .. 0 |-> <<>>], 0)
      OBVIOUS
    <2> DEFINE Bad == {k \in Nat : ~\E g : Runs(g, k)}
    <2> HIDE DEF Runs
    <2> SUFFICES ASSUME Bad # {} PROVE FALSE
      OBVIOUS
    <2>2. PICK k \in Bad : \A j \in Bad : k <= j
      <3>1. Bad \in SUBSET Nat
        OBVIOUS
      <3> HIDE DEF Bad
      <3> QED BY <3>1, LeastElement
    <2>3. k # 0
      BY <2>1
    <2>4. k - 1 \in Nat /\ k - 1 \notin Bad
      BY <2>2, <2>3
    <2> QED BY <1>3, <2>3, <2>4
  <1>5. Runs(kept, n)
    <2>1. n \in Nat
      OBVIOUS
    <2> HIDE DEF Runs, n
    <2> QED BY <1>2, <1>4, <2>1, Zenon
  <1>6. \A i \in 0 .. n : kept[i] = IF i = 0 THEN <<>> ELSE next(kept[i - 1], i)
    BY <1>5
  <1>7. kept[0] = <<>> /\ \A i \in 1 .. n : kept[i] = next(kept[i - 1], i)
    <2>1. 0 \in 0 .. n /\ \A i \in 1 .. n : i \in 0 .. n /\ i # 0
      OBVIOUS
    <2> QED BY <1>6, <2>1, Zenon
  <1> HIDE DEF kept
  <1> QED BY <1>1, <1>7 DEF next

(* What is kept of a list stands there in the order of the list.           *)
Chosen(f, t, s, n, S) ==
    /\ \A j \in 1 .. Len(t) : f[j] \in 1 .. n /\ t[j] = s[f[j]] /\ s[f[j]] \in S
    /\ \A j, k \in 1 .. Len(t) : j < k => f[j] < f[k]
    /\ \A i \in 1 .. n : s[i] \in S => \E j \in 1 .. Len(t) : f[j] = i

LEMMA OnlyChosen ==
    ASSUME NEW s, IsList(s), NEW S
    PROVE  /\ IsList(Only(s, S))
           /\ \E f : Chosen(f, Only(s, S), s, Len(s), S)
  <1> DEFINE n == Len(s)
  <1>1. n \in Nat
    BY ListFacts
  <1>2. PICK kept : /\ kept[0] = <<>> /\ kept[n] = Only(s, S)
                    /\ \A i \in 1 .. n :
                          kept[i] = IF s[i] \in S THEN Append(kept[i - 1], s[i]) ELSE kept[i - 1]
    BY <1>1, OnlySteps
  <1> HIDE DEF n
  <1> DEFINE Good(i) == IsList(kept[i]) /\ \E f : Chosen(f, kept[i], s, i, S)
             Bad     == {i \in 0 .. n : ~Good(i)}
  <1>3. Good(0)
    BY <1>2, SmallLists DEF Chosen
  <1>4. ASSUME NEW i \in 1 .. n, Good(i - 1) PROVE Good(i)
    <2> DEFINE t == kept[i - 1]
               u == kept[i]
    <2>1. IsList(t) /\ Len(t) \in Nat
      BY <1>4, ListFacts
    <2>2. PICK f : Chosen(f, t, s, i - 1, S)
      BY <1>4
    <2>3. u = IF s[i] \in S THEN Append(t, s[i]) ELSE t
      BY <1>2
    <2>i. i \in Nat /\ i - 1 \in Nat
      BY <1>1
    <2> HIDE DEF t, u
    <2>4. CASE s[i] \in S
      <3> DEFINE m == Len(t)
                 g == [j \in 1 .. m + 1 |-> IF j = m + 1 THEN i ELSE f[j]]
      <3>1. /\ IsList(u) /\ Len(u) = m + 1 /\ u[m + 1] = s[i]
            /\ \A j \in 1 .. m : u[j] = t[j]
        BY <2>1, <2>3, <2>4, AppendFacts
      <3>m. m \in Nat
        BY <2>1
      <3> HIDE DEF m
      <3>2. g[m + 1] = i /\ \A j \in 1 .. m : g[j] = f[j] /\ j \in 1 .. m + 1
        BY <3>m
      <3>3. \A j \in 1 .. m : f[j] \in 1 .. i - 1 /\ t[j] = s[f[j]] /\ s[f[j]] \in S
        BY <2>2 DEF Chosen, m
      <3>4. \A j, k \in 1 .. m : j < k => f[j] < f[k]
        BY <2>2 DEF Chosen, m
      <3>5. \A k \in 1 .. i - 1 : s[k] \in S => \E j \in 1 .. m : f[j] = k
        BY <2>2 DEF Chosen, m
      <3> HIDE DEF g
      <3>6. \A j \in 1 .. m + 1 : g[j] \in 1 .. i /\ u[j] = s[g[j]] /\ s[g[j]] \in S
        <4>1. ASSUME NEW j \in 1 .. m + 1 PROVE j = m + 1 \/ j \in 1 .. m
          BY <3>m
        <4>2. i \in 1 .. i /\ \A k \in 1 .. i - 1 : k \in 1 .. i
          BY <2>i
        <4> QED BY <2>4, <3>1, <3>2, <3>3, <4>1, <4>2
      <3>7. \A j, k \in 1 .. m + 1 : j < k => g[j] < g[k]
        <4>1. ASSUME NEW j \in 1 .. m + 1, NEW k \in 1 .. m + 1, j < k
              PROVE  j \in 1 .. m /\ (k = m + 1 \/ k \in 1 .. m)
          BY <3>m, <4>1
        <4>2. \A k \in 1 .. i - 1 : k < i
          BY <2>i
        <4> QED BY <3>2, <3>3, <3>4, <4>1, <4>2
      <3>8. \A k \in 1 .. i : s[k] \in S => \E j \in 1 .. m + 1 : g[j] = k
        <4>1. ASSUME NEW k \in 1 .. i PROVE k = i \/ k \in 1 .. i - 1
          BY <2>i
        <4>2. m + 1 \in 1 .. m + 1
          BY <3>m
        <4> QED BY <3>2, <3>5, <4>1, <4>2
      <3>9. Chosen(g, u, s, i, S)
        BY <3>1, <3>6, <3>7, <3>8 DEF Chosen
      <3> QED BY <3>1, <3>9 DEF u
    <2>5. CASE s[i] \notin S
      <3>1. u = t
        BY <2>3, <2>5
      <3>2. \A k \in 1 .. i : k = i \/ k \in 1 .. i - 1
        BY <2>i
      <3>3. \A k \in 1 .. i - 1 : k \in 1 .. i
        BY <2>i
      <3>4. Chosen(f, u, s, i, S)
        BY <2>2, <2>5, <3>1, <3>2, <3>3 DEF Chosen
      <3> QED BY <2>1, <3>1, <3>4 DEF u
    <2> QED BY <2>4, <2>5
  <1> HIDE DEF Good
  <1>5. Bad = {}
    <2>1. Bad \in SUBSET (0 .. n) /\ 0 \notin Bad
      BY <1>3
    <2>2. \A i \in 1 .. n : i - 1 \notin Bad => i \notin Bad
      <3>1. \A i \in 1 .. n : i - 1 \in 0 .. n
        BY <1>1
      <3> QED BY <1>4, <3>1
    <2> HIDE DEF Bad
    <2> QED BY <1>1, <2>1, <2>2, FirstFailure
  <1>6. Good(n)
    BY <1>1, <1>5
  <1> QED BY <1>2, <1>6 DEF Good, n

(* What is kept of a list: the elements that are asked for.                *)
LEMMA OnlyFacts ==
    ASSUME NEW s, IsList(s), NEW S
    PROVE  IsList(Only(s, S)) /\ ToSet(Only(s, S)) = ToSet(s) \cap S
  <1> DEFINE t == Only(s, S)
  <1>1. IsList(t) /\ DOMAIN t = 1 .. Len(t) /\ DOMAIN s = 1 .. Len(s)
    BY OnlyChosen, ListFacts
  <1>2. PICK f : Chosen(f, t, s, Len(s), S)
    BY OnlyChosen
  <1> HIDE DEF t
  <1>3. ASSUME NEW x \in ToSet(t) PROVE x \in ToSet(s) \cap S
    BY <1>1, <1>2, <1>3 DEF Chosen, ToSet
  <1>4. ASSUME NEW x \in ToSet(s) \cap S PROVE x \in ToSet(t)
    BY <1>1, <1>2, <1>4 DEF Chosen, ToSet
  <1> QED BY <1>1, <1>3, <1>4 DEF t

(* A window that closes.                                                   *)
LEMMA RemoveFacts ==
    ASSUME NEW s, IsList(s), NEW i \in DOMAIN s
    PROVE  IsList(RemoveAt(s, i))
  <1> DEFINE S == ToSet(s)
             t == RemoveAt(s, i)
  <1>1. s \in Seq(S) /\ Len(s) \in Nat /\ i \in 1 .. Len(s)
    BY ListFacts DEF IsList
  <1> HIDE DEF S
  <1>2. t \in Seq(S)
    BY <1>1 DEF RemoveAt
  <1>3. t \in [1 .. Len(t) -> S] /\ Len(t) \in Nat
    BY <1>2
  <1> HIDE DEF t
  <1>4. IsList(t)
    BY <1>3, ListOfFunction, Zenon
  <1> QED BY <1>4 DEF t

-----------------------------------------------------------------------------
(* The invariant: windows and cached entries come in lists, and of two     *)
(* entries of a project none contradicts the other about an agent.         *)

Apart(entries) ==
    \A e, f \in ToSet(entries) :
       e.kind = "agent" =>
          /\ e.name # ""
          /\ f.kind = "agent" /\ f.name = e.name => f = e

WindowsInv ==
    /\ DOMAIN wins = All
    /\ \A p \in All : IsList(wins[p])

CacheInv ==
    \A p \in DOMAIN cache.agents : IsList(cache.agents[p]) /\ Apart(cache.agents[p])

SidebarInv == height \in 0 .. Ample /\ WindowsInv /\ CacheInv

ListsOf(es, kind, names, state) ==
    /\ IsList(es)
    /\ \A e \in ToSet(es) : \E n \in ToSet(names) : e = [kind |-> kind, name |-> n, state |-> state[n]]

LEMMA ListedFacts ==
    ASSUME NEW kind, NEW names, NEW state, IsList(names)
    PROVE  ListsOf(Listed(kind, names, state), kind, names, state)
  <1> DEFINE there == Only(names, {n \in ToSet(names) : state[n] # "none"})
             entry(n) == [kind |-> kind, name |-> n, state |-> state[n]]
             all == [i \in DOMAIN there |-> entry(there[i])]
  <1>1. IsList(there) /\ ToSet(there) \subseteq ToSet(names)
    BY OnlyFacts
  <1>2. Listed(kind, names, state) = all
    BY DEF Listed
  <1> HIDE DEF there
  <1>3. Len(there) \in Nat /\ DOMAIN there = 1 .. Len(there)
    BY <1>1, ListFacts
  <1> HIDE DEF entry
  <1> DEFINE S == {entry(n) : n \in ToSet(there)}
  <1>4. all \in [1 .. Len(there) -> S]
    BY <1>3 DEF ToSet
  <1>a. \A e \in S : \E n \in ToSet(names) : e = entry(n)
    BY <1>1
  <1> HIDE DEF all, S
  <1>5. IsList(all) /\ \A e \in ToSet(all) : \E i \in 1 .. Len(there) : e = all[i]
    BY <1>3, <1>4, ListOfFunction, Zenon
  <1>6. \A e \in ToSet(all) : \E n \in ToSet(names) : e = entry(n)
    BY <1>4, <1>5, <1>a
  <1> QED BY <1>2, <1>5, <1>6 DEF entry, ListsOf

LEMMA EntriesApart ==
    ASSUME NEW p \in All, NEW ok, NEW reached
    PROVE  IsList(agentEntriesFor(p, ok, reached)) /\ Apart(agentEntriesFor(p, ok, reached))
  <1> DEFINE agents   == Listed("agent", AgentsOf[p], inner[p])
             services == Listed("svc", ServicesOf[p], inner[p])
             sidecars == Listed("sidecar", SidecarsOf[p], cars[p])
             first == IF Up(dev[p]) /\ reached THEN agents \o services ELSE <<>>
             last  == IF ok THEN sidecars ELSE <<>>
  <1>1. agentEntriesFor(p, ok, reached) = first \o last
    BY DEF agentEntriesFor
  <1>2. /\ IsList(agents) /\ IsList(services) /\ IsList(sidecars)
        /\ \A e \in ToSet(agents) :
              \E n \in ToSet(AgentsOf[p]) : e = [kind |-> "agent", name |-> n, state |-> inner[p][n]]
        /\ "" \notin ToSet(AgentsOf[p])
        /\ \A e \in ToSet(services) \cup ToSet(sidecars) : e.kind # "agent"
    <2>1. IsList(AgentsOf[p]) /\ IsList(ServicesOf[p]) /\ IsList(SidecarsOf[p]) /\ "" \notin ToSet(AgentsOf[p])
      BY FleetAssumption
    <2>2. /\ ListsOf(agents, "agent", AgentsOf[p], inner[p])
          /\ ListsOf(services, "svc", ServicesOf[p], inner[p])
          /\ ListsOf(sidecars, "sidecar", SidecarsOf[p], cars[p])
      BY <2>1, ListedFacts
    <2> HIDE DEF agents, services, sidecars
    <2>3. \A e \in ToSet(agents) : \E n \in ToSet(AgentsOf[p]) :
             e = [kind |-> "agent", name |-> n, state |-> inner[p][n]]
      BY <2>2, Zenon DEF ListsOf
    <2>4. \A e \in ToSet(services) \cup ToSet(sidecars) : e.kind # "agent"
      BY <2>2 DEF ListsOf
    <2> QED BY <2>1, <2>2, <2>3, <2>4 DEF ListsOf
  <1> HIDE DEF agents, services, sidecars
  <1>3. IsList(agents \o services) /\ ToSet(agents \o services) = ToSet(agents) \cup ToSet(services)
    BY <1>2, JoinFacts
  <1>4. IsList(first) /\ ToSet(first) \subseteq ToSet(agents) \cup ToSet(services)
    BY <1>3, SmallLists
  <1>5. IsList(last) /\ ToSet(last) \subseteq ToSet(sidecars)
    BY <1>2, SmallLists
  <1> HIDE DEF first, last
  <1>6. /\ IsList(first \o last)
        /\ ToSet(first \o last) \subseteq ToSet(agents) \cup ToSet(services) \cup ToSet(sidecars)
    BY <1>4, <1>5, JoinFacts
  <1>7. Apart(first \o last)
    <2> DEFINE es == first \o last
    <2> HIDE DEF es
    <2> SUFFICES ASSUME NEW e \in ToSet(es), NEW f \in ToSet(es), e.kind = "agent"
                 PROVE  e.name # "" /\ (f.kind = "agent" /\ f.name = e.name => f = e)
      BY DEF Apart, es
    <2>1. e \in ToSet(agents) /\ (f.kind = "agent" => f \in ToSet(agents))
      BY <1>2, <1>6 DEF es
    <2>2. PICK n \in ToSet(AgentsOf[p]) : e = [kind |-> "agent", name |-> n, state |-> inner[p][n]]
      BY <1>2, <2>1
    <2>3. e.name = n /\ n # ""
      BY <1>2, <2>2
    <2>4. ASSUME f.kind = "agent", f.name = e.name PROVE f = e
      <3>1. PICK k \in ToSet(AgentsOf[p]) : f = [kind |-> "agent", name |-> k, state |-> inner[p][k]]
        BY <1>2, <2>1, <2>4
      <3>2. k = n
        BY <2>3, <2>4, <3>1
      <3> QED BY <2>2, <3>1, <3>2
    <2> QED BY <2>3, <2>4
  <1> QED BY <1>1, <1>6, <1>7

LEMMA FetchedApart ==
    ASSUME NEW ok, NEW reached, NEW c, c = Fetched(ok, reached)
    PROVE  \A p \in DOMAIN c.agents : IsList(c.agents[p]) /\ Apart(c.agents[p])
  <1>1. c.agents = [p \in All |-> agentEntriesFor(p, ok, reached)]
    BY DEF Fetched
  <1> QED BY <1>1, EntriesApart

LEMMA InitInv == Init => SidebarInv
  <1> SUFFICES ASSUME Init PROVE SidebarInv
    OBVIOUS
  <1>1. height \in 0 .. Ample /\ WindowsInv
    BY FleetAssumption DEF Init, WindowsInv
  <1>2. CASE cache = NoCache
    BY <1>1, <1>2 DEF NoCache, CacheInv, SidebarInv
  <1>3. CASE cache = Fetched(TRUE, TRUE)
    BY <1>1, <1>3, FetchedApart DEF CacheInv, SidebarInv
  <1> QED BY <1>2, <1>3 DEF Init

LEMMA OpenedWindows ==
    ASSUME WindowsInv, NEW p, NEW stamp, wins' = Opened(p, stamp)
    PROVE  WindowsInv'
  <1> DEFINE id == CHOOSE n \in 1 .. Len(wins[p]) + 1 : \A w \in ToSet(wins[p]) : w.id # n
             window == [id |-> id, stamp |-> stamp, mark |-> "", state |-> ""]
  <1>1. wins' = [wins EXCEPT ![p] = Append(wins[p], window)]
    BY Zenon DEF Opened
  <1> HIDE DEF window
  <1>2. \A q \in All : wins'[q] = wins[q] \/ wins'[q] = Append(wins[q], window)
    BY <1>1 DEF WindowsInv
  <1>3. \A q \in All : IsList(wins[q]) /\ IsList(Append(wins[q], window))
    BY AppendFacts DEF WindowsInv
  <1> QED BY <1>1, <1>2, <1>3 DEF WindowsInv

LEMMA MarkedWindows ==
    ASSUME WindowsInv, NEW p, NEW there, NEW mark, NEW st, wins' = Marked(p, there, mark, st)
    PROVE  WindowsInv'
  <1> DEFINE w(i) == IF i \in there THEN [wins[p][i] EXCEPT !.mark = mark, !.state = st]
                                    ELSE wins[p][i]
             told == [i \in DOMAIN wins[p] |-> w(i)]
  <1>1. wins' = [wins EXCEPT ![p] = told]
    BY Zenon DEF Marked
  <1>2. p \in All => IsList(told)
    <2> SUFFICES ASSUME p \in All PROVE IsList(told)
      OBVIOUS
    <2>1. Len(wins[p]) \in Nat /\ DOMAIN wins[p] = 1 .. Len(wins[p])
      BY ListFacts DEF WindowsInv
    <2> HIDE DEF w
    <2>2. told \in [1 .. Len(wins[p]) -> {w(i) : i \in 1 .. Len(wins[p])}]
      BY <2>1
    <2> QED BY <2>1, <2>2, ListOfFunction, Zenon
  <1> HIDE DEF told
  <1> QED BY <1>1, <1>2 DEF WindowsInv

LEMMA StepInv ==
    ASSUME SidebarInv, [Next]_vars
    PROVE  SidebarInv'
  <1> DEFINE kept == UNCHANGED <<height, cache>>
  <1>1. ASSUME NEW ok \in BOOLEAN, NEW reached \in BOOLEAN, Fetch(ok, reached)
        PROVE  SidebarInv'
    BY <1>1, FetchedApart DEF Fetch, SidebarInv, WindowsInv, CacheInv
  <1>2. ASSUME NEW h \in Heights, Resize(h)
        PROVE  SidebarInv'
    BY <1>2, FleetAssumption DEF Resize, SidebarInv, WindowsInv, CacheInv
  <1>3. ASSUME NEW p, NEW a, NEW st, NEW hooked, AgentMoves(p, a, st, hooked)
        PROVE  kept /\ WindowsInv'
    BY <1>3, MarkedWindows DEF AgentMoves, SidebarInv
  <1>4. ASSUME NEW p, NEW n, NEW st, ServiceMoves(p, n, st)
        PROVE  kept /\ wins' = wins
    BY <1>4 DEF ServiceMoves
  <1>5. ASSUME NEW p, NEW st, DevMoves(p, st)
        PROVE  kept /\ wins' = wins
    BY <1>5 DEF DevMoves
  <1>6. ASSUME NEW p, NEW c, NEW st, SidecarMoves(p, c, st)
        PROVE  kept /\ wins' = wins
    BY <1>6 DEF SidecarMoves
  <1>7. ASSUME NEW p, NEW a, OpenViewer(p, a)
        PROVE  kept /\ WindowsInv'
    BY <1>7, OpenedWindows DEF OpenViewer, SidebarInv
  <1>14. ASSUME NEW p, NEW i, FrontendDies(p, i)
         PROVE  kept /\ WindowsInv'
    BY <1>14, MarkedWindows DEF FrontendDies, SidebarInv
  <1>8. ASSUME NEW p, NEW i, CloseWindow(p, i)
        PROVE  kept /\ WindowsInv'
    <2>1. kept /\ i \in DOMAIN wins[p] /\ wins' = [wins EXCEPT ![p] = RemoveAt(wins[p], i)]
      BY <1>8 DEF CloseWindow
    <2>2. p \in All => IsList(RemoveAt(wins[p], i))
      BY <2>1, RemoveFacts DEF SidebarInv, WindowsInv
    <2> QED BY <2>1, <2>2 DEF SidebarInv, WindowsInv
  <1>9. ASSUME NEW p, CloseSession(p)
        PROVE  kept /\ WindowsInv'
    BY <1>9, SmallLists DEF CloseSession, SidebarInv, WindowsInv
  <1>10. ASSUME NEW to, Click(to)
         PROVE  kept /\ WindowsInv'
    <2>1. ASSUME NEW p, NEW a, ClickAgent(p, a) PROVE kept /\ WindowsInv'
      BY <2>1, OpenedWindows DEF ClickAgent, SidebarInv
    <2>2. ASSUME NEW p, ClickService(p) PROVE kept /\ WindowsInv'
      BY <2>2, OpenedWindows DEF ClickService, SidebarInv
    <2>3. ASSUME NEW p, ClickFold(p) PROVE kept /\ WindowsInv'
      BY <2>3 DEF ClickFold, SidebarInv, WindowsInv
    <2>4. ASSUME NEW p, ClickCold(p) PROVE kept /\ WindowsInv'
      BY <2>4, OpenedWindows DEF ClickCold, SidebarInv
    <2> QED BY <1>10, <2>1, <2>2, <2>3, <2>4 DEF Click
  <1>11. kept /\ WindowsInv' => SidebarInv'
    BY DEF SidebarInv, CacheInv
  <1>12. wins' = wins => WindowsInv'
    BY DEF SidebarInv, WindowsInv
  <1> HIDE DEF kept
  <1>13. CASE UNCHANGED vars
    BY <1>11, <1>12, <1>13 DEF vars, kept
  <1> QED BY <1>1, <1>2, <1>3, <1>4, <1>5, <1>6, <1>7, <1>8, <1>9, <1>10, <1>11, <1>12, <1>13,
             <1>14, Zenon DEF Next

-----------------------------------------------------------------------------
(* One door to an agent.                                                   *)

LEMMA SelfEntries ==
    ASSUME SidebarInv
    PROVE  IsList(Entries(Input, Session(Self))) /\ Apart(Entries(Input, Session(Self)))
  <1>1. Session(Self).p = Self /\ Input.agents = cache.agents
    BY DEF Session, Input
  <1>2. Entries(Input, Session(Self)) = IF Self \in DOMAIN cache.agents THEN cache.agents[Self] ELSE <<>>
    BY <1>1 DEF Entries
  <1>3. IsList(<<>>) /\ Apart(<<>>)
    BY SmallLists DEF Apart
  <1> QED BY <1>2, <1>3 DEF SidebarInv, CacheInv

(* A list made of a list.                                                  *)
LEMMA ListMade ==
    ASSUME NEW s, IsList(s), NEW t, t = [i \in DOMAIN s |-> t[i]]
    PROVE  /\ IsList(t) /\ Len(t) = Len(s) /\ DOMAIN t = DOMAIN s
           /\ ToSet(t) = {t[i] : i \in DOMAIN s}
  <1>1. Len(s) \in Nat /\ DOMAIN s = 1 .. Len(s)
    BY ListFacts
  <1>2. DOMAIN t = DOMAIN s
    OBVIOUS
  <1>3. ToSet(t) = {t[i] : i \in DOMAIN s}
    BY <1>2 DEF ToSet
  <1>4. t \in [DOMAIN s -> {t[i] : i \in DOMAIN s}]
    OBVIOUS
  <1>5. PICK S : t \in [DOMAIN s -> S]
    BY <1>4, Zenon
  <1>6. t \in [1 .. Len(s) -> S]
    BY <1>1, <1>5, Zenon
  <1>7. IsList(t) /\ Len(t) = Len(s)
    BY <1>1, <1>6, ListOfFunction, Zenon
  <1> QED BY <1>2, <1>3, <1>7, Zenon

LEMMA EndFacts ==
    ASSUME NEW s, IsList(s), s # <<>>
    PROVE  /\ Len(s) \in Nat \ {0}
           /\ 1 \in DOMAIN s /\ s[1] \in ToSet(s)
           /\ Len(s) \in DOMAIN s /\ s[Len(s)] \in ToSet(s)
  <1>1. s \in Seq(ToSet(s)) /\ Len(s) \in Nat /\ DOMAIN s = 1 .. Len(s)
    BY ListFacts DEF IsList
  <1>2. Len(s) # 0
    BY <1>1
  <1> QED BY <1>1, <1>2 DEF ToSet

(* The rows of agents, as a set: one for a window with a glyph, and one    *)
(* for an entry that no such window shows.                                 *)
LEMMA AgentRowsAre ==
    ASSUME NEW s, IsList(s.wins), NEW entries, IsList(entries)
    PROVE  /\ IsList(agentRows(s, entries))
           /\ ToSet(agentRows(s, entries)) =
                 {WindowRow(s, w) : w \in ToSet(Shown(s))}
                 \cup {CacheRow(s, e) : e \in {x \in ToSet(entries) :
                          x.kind = "agent" /\ x.state \in AgentStates /\ x.name \notin DrawnIn(s)}}
  <1> DEFINE shown  == Shown(s)
             known  == OfKind(entries, "agent", AgentStates)
             cached == Only(known, {e \in ToSet(known) : e.name \notin DrawnIn(s)})
             of(w)  == WindowRow(s, w)
             for(e) == CacheRow(s, e)
             first  == [i \in DOMAIN shown |-> of(shown[i])]
             last   == [i \in DOMAIN cached |-> for(cached[i])]
  <1>1. agentRows(s, entries) = first \o last
    BY DEF agentRows
  <1>2. IsList(shown)
    BY OnlyFacts DEF Shown
  <1>3. IsList(known) /\ ToSet(known) = {x \in ToSet(entries) : x.kind = "agent" /\ x.state \in AgentStates}
    BY OnlyFacts DEF OfKind
  <1>4. IsList(cached) /\ ToSet(cached) = {x \in ToSet(known) : x.name \notin DrawnIn(s)}
    <2> HIDE DEF known
    <2> QED BY <1>3, OnlyFacts
  <1> HIDE DEF shown, known, cached, of, for
  <1>5. /\ first = [i \in DOMAIN shown |-> first[i]]
        /\ last = [i \in DOMAIN cached |-> last[i]]
    OBVIOUS
  <1>6. /\ \A i \in DOMAIN shown : first[i] = of(shown[i])
        /\ \A i \in DOMAIN cached : last[i] = for(cached[i])
    OBVIOUS
  <1> HIDE DEF first, last
  <1>7. IsList(first) /\ ToSet(first) = {of(w) : w \in ToSet(shown)}
    <2>1. IsList(first) /\ ToSet(first) = {first[i] : i \in DOMAIN shown}
      BY <1>2, <1>5, ListMade
    <2>2. {first[i] : i \in DOMAIN shown} = {of(shown[i]) : i \in DOMAIN shown}
      BY <1>6
    <2>3. {of(shown[i]) : i \in DOMAIN shown} = {of(w) : w \in ToSet(shown)}
      BY DEF ToSet
    <2> QED BY <2>1, <2>2, <2>3, Zenon
  <1>8. IsList(last) /\ ToSet(last) = {for(e) : e \in ToSet(cached)}
    <2>1. IsList(last) /\ ToSet(last) = {last[i] : i \in DOMAIN cached}
      BY <1>4, <1>5, ListMade
    <2>2. {last[i] : i \in DOMAIN cached} = {for(cached[i]) : i \in DOMAIN cached}
      BY <1>6
    <2>3. {for(cached[i]) : i \in DOMAIN cached} = {for(e) : e \in ToSet(cached)}
      BY DEF ToSet
    <2> QED BY <2>1, <2>2, <2>3, Zenon
  <1>9. IsList(first \o last) /\ ToSet(first \o last) = ToSet(first) \cup ToSet(last)
    BY <1>7, <1>8, JoinFacts
  <1>10. ToSet(cached) = {x \in ToSet(entries) :
                          x.kind = "agent" /\ x.state \in AgentStates /\ x.name \notin DrawnIn(s)}
    BY <1>3, <1>4
  <1> QED BY <1>1, <1>7, <1>8, <1>9, <1>10 DEF of, for, shown

(* The verdict of the chooser on an agent, in the terms of the entries.    *)
LEMMA VerdictIs ==
    ASSUME NEW s, NEW entries, IsList(entries), Apart(entries), NEW a, a # ""
    PROVE  /\ Verdict(s, entries, a) = "attach" <=>
                  /\ a \notin Viewed(s)
                  /\ \E e \in ToSet(entries) : e.kind = "agent" /\ e.name = a /\ AgentLive(e.state)
           /\ Verdict(s, entries, a) = "launch" =>
                  \/ a \notin Viewed(s)
                  \/ \E e \in ToSet(entries) : e.name = a /\ ~AgentLive(e.state)
  <1> DEFINE of    == {e \in ToSet(entries) : e.kind = "agent" /\ e.name = a}
             known == Only(entries, of)
             alive  == known # <<>> /\ AgentLive(known[1].state)
  <1>1. IsList(known) /\ ToSet(known) = of
    BY OnlyFacts
  <1>2. Verdict(s, entries, a) =
           IF a \in Viewed(s) /\ (alive \/ known = <<>>) THEN "jump"
           ELSE IF alive THEN "attach" ELSE "launch"
    BY Zenon DEF Verdict
  <1>3. known # <<>> => known[1] \in of
    <2> HIDE DEF known, of
    <2> QED BY <1>1, EndFacts
  <1>4. known = <<>> => of = {}
    BY <1>1, SmallLists
  <1>5. \A e, f \in of : e = f
    BY DEF Apart
  <1>6. alive <=> \E e \in of : AgentLive(e.state)
    <2> HIDE DEF known, of
    <2> QED BY <1>3, <1>4, <1>5
  <1> HIDE DEF alive, known
  <1>7. known # <<>> /\ ~alive => \E e \in of : ~AgentLive(e.state)
    BY <1>3, <1>6
  <1> QED BY <1>2, <1>6, <1>7

(* A alive agent has one door.                                              *)
LEMMA DoorFacts ==
    ASSUME SidebarInv
    PROVE  OneDoor
  <1> DEFINE self     == Session(Self)
             entries  == Entries(Input, self)
             windowed == {w.stamp : w \in ToSet(wins[Self])}
             agents   == {e.name : e \in {x \in ToSet(entries) : x.kind = "agent" /\ AgentLive(x.state)}}
             ghosts   == {e.name : e \in ToSet(ghostCells(self, entries))}
             rows     == ToSet(agentRows(self, entries))
             opens    == {r.name : r \in {x \in rows : x.to[2] = "agent"}}
             menu     == Chooser(self, entries)
  <1>1. IsList(entries) /\ Apart(entries)
    BY SelfEntries
  <1>2. IsList(self.wins) /\ self.wins = wins[Self] /\ self.p = Self
    BY FleetAssumption DEF SidebarInv, WindowsInv, Session
  <1>3. Viewed(self) = windowed \ {""}
    BY <1>2 DEF Viewed
  <1> HIDE DEF self, entries
  <1>4. \A e \in ToSet(entries) : e.kind = "agent" => e.name # ""
    BY <1>1 DEF Apart
  <1>5. ToSet(ghostCells(self, entries)) =
           {e \in ToSet(entries) : /\ e.kind = "agent"
                                   /\ e.name \notin Viewed(self) /\ AgentLive(e.state)}
    BY <1>1, OnlyFacts DEF ghostCells
  <1>6. ghosts = agents \ windowed
    BY <1>3, <1>4, <1>5
  <1>7. rows = {WindowRow(self, w) : w \in ToSet(Shown(self))}
               \cup {CacheRow(self, e) : e \in {x \in ToSet(entries) :
                          x.kind = "agent" /\ x.state \in AgentStates /\ x.name \notin DrawnIn(self)}}
    BY <1>1, <1>2, AgentRowsAre
  <1>8. \A w : WindowRow(self, w).to[2] # "agent"
    BY DEF WindowRow, Row
  <1>9. \A e : /\ CacheRow(self, e).name = e.name
               /\ CacheRow(self, e).to[2] = "agent" <=> e.name \notin Viewed(self) /\ AgentLive(e.state)
    BY DEF CacheRow, Row
  <1>10. DrawnIn(self) \subseteq Viewed(self)
    <2>1. ToSet(Shown(self)) \subseteq ToSet(self.wins)
      <3> DEFINE S == {w \in ToSet(self.wins) : w.mark # ""}
      <3>1. Shown(self) = Only(self.wins, S)
        BY Zenon DEF Shown
      <3> HIDE DEF S
      <3>2. ToSet(Only(self.wins, S)) = ToSet(self.wins) \cap S
        BY <1>2, OnlyFacts
      <3> QED BY <3>1, <3>2
    <2> QED BY <2>1 DEF DrawnIn, Viewed
  <1>11. \A st : AgentLive(st) => st \in AgentStates
    BY DEF AgentLive, AgentStates
  <1> HIDE DEF rows
  <1>12. opens = ghosts
    <2>1. ASSUME NEW a \in opens PROVE a \in ghosts
      BY <1>5, <1>7, <1>8, <1>9, <2>1
    <2>2. ASSUME NEW a \in ghosts PROVE a \in opens
      <3>1. PICK e \in ToSet(entries) : /\ e.kind = "agent" /\ e.name = a
                                        /\ e.name \notin Viewed(self) /\ AgentLive(e.state)
        BY <1>5, <2>2
      <3>2. CacheRow(self, e) \in rows
        BY <1>7, <1>10, <1>11, <3>1
      <3> QED BY <1>9, <3>1, <3>2
    <2> QED BY <2>1, <2>2
  <1>13. ASSUME NEW a \in DOMAIN menu
         PROVE  /\ menu[a] = "attach" <=> a \in ghosts
                /\ menu[a] = "launch" /\ a \in windowed =>
                      \E e \in ToSet(entries) : e.name = a /\ ~AgentLive(e.state)
    <2>1. a \in Menu /\ a # "" /\ menu[a] = Verdict(self, entries, a)
      BY FleetAssumption DEF Chooser
    <2>2. a \in ghosts <=>
            /\ a \notin Viewed(self)
            /\ \E e \in ToSet(entries) : e.kind = "agent" /\ e.name = a /\ AgentLive(e.state)
      BY <1>5
    <2>3. /\ Verdict(self, entries, a) = "attach" <=>
                  /\ a \notin Viewed(self)
                  /\ \E e \in ToSet(entries) : e.kind = "agent" /\ e.name = a /\ AgentLive(e.state)
          /\ Verdict(self, entries, a) = "launch" =>
                  \/ a \notin Viewed(self)
                  \/ \E e \in ToSet(entries) : e.name = a /\ ~AgentLive(e.state)
      BY <1>1, <2>1, VerdictIs
    <2> HIDE DEF menu, ghosts, windowed
    <2> QED BY <1>3, <2>1, <2>2, <2>3
  <1> HIDE DEF windowed, agents, ghosts, opens, menu
  <1>14. /\ ghosts = agents \ windowed /\ opens = ghosts
         /\ \A a \in DOMAIN menu :
               /\ menu[a] = "attach" <=> a \in ghosts
               /\ menu[a] = "launch" /\ a \in windowed =>
                     \E e \in ToSet(entries) : e.name = a /\ ~AgentLive(e.state)
    BY <1>6, <1>12, <1>13
  <1> QED BY <1>14, Zenon DEF OneDoor, windowed, agents, ghosts, opens, menu, rows, entries, self

LEMMA SidebarInvariant == Spec => []SidebarInv
  <1> QED BY InitInv, StepInv, PTL DEF Spec

(* On every surface a live agent has the one door that the windows leave   *)
(* it, whatever the last fetch saw (tmuxui/frame.go:636-642,               *)
(* chooser.go:62-68).                                                      *)
THEOREM OneDoorTheorem == Spec => []OneDoor
  <1> QED BY SidebarInvariant, DoorFacts, PTL

-----------------------------------------------------------------------------
(* The roster of a block.                                                  *)

LEMMA AtMostFacts ==
    ASSUME NEW s, IsList(s), NEW n \in Nat
    PROVE  /\ IsList(AtMost(n, s))
           /\ Len(AtMost(n, s)) = (IF n < Len(s) THEN n ELSE Len(s))
           /\ \A i \in 1 .. Len(AtMost(n, s)) : i \in 1 .. Len(s) /\ AtMost(n, s)[i] = s[i]
           /\ ToSet(AtMost(n, s)) \subseteq ToSet(s)
  <1> DEFINE S == ToSet(s)
             m == IF n < Len(s) THEN n ELSE Len(s)
             t == SubSeq(s, 1, m)
  <1>1. s \in Seq(S) /\ Len(s) \in Nat /\ DOMAIN s = 1 .. Len(s)
    BY ListFacts DEF IsList
  <1>2. AtMost(n, s) = t
    BY DEF AtMost
  <1>3. m \in 0 .. Len(s)
    BY <1>1
  <1> HIDE DEF m, S
  <1>4. t \in Seq(S) /\ Len(t) = m /\ DOMAIN t = 1 .. m /\ \A i \in 1 .. m : t[i] = s[i]
    BY <1>1, <1>3
  <1> HIDE DEF t
  <1>5. t \in [1 .. m -> S] /\ m \in Nat
    BY <1>3, <1>4
  <1>6. IsList(t)
    BY <1>5, ListOfFunction, Zenon
  <1>7. \A i \in 1 .. m : i \in 1 .. Len(s)
    BY <1>1, <1>3
  <1>8. ToSet(t) \subseteq S
    BY <1>1, <1>4, <1>7 DEF ToSet, S
  <1> QED BY <1>2, <1>4, <1>6, <1>7, <1>8 DEF m, S

LEMMA ReverseFacts ==
    ASSUME NEW s, IsList(s)
    PROVE  /\ IsList(Reverse(s)) /\ Len(Reverse(s)) = Len(s) /\ ToSet(Reverse(s)) = ToSet(s)
           /\ \A i \in 1 .. Len(s) : Reverse(s)[i] = s[Len(s) - i + 1]
  <1> DEFINE n == Len(s)
             t == [i \in 1 .. n |-> s[(n - i) + 1]]
  <1>1. n \in Nat /\ DOMAIN s = 1 .. n
    BY ListFacts
  <1>2. Reverse(s) = t
    BY DEF Reverse
  <1> HIDE DEF n
  <1>3. \A i \in 1 .. n : (n - i) + 1 \in 1 .. n /\ (n - ((n - i) + 1)) + 1 = i
    BY <1>1
  <1>4. t \in [1 .. n -> ToSet(s)]
    BY <1>1, <1>3 DEF ToSet
  <1>5. DOMAIN t = 1 .. n /\ \A i \in 1 .. n : t[i] = s[(n - i) + 1]
    OBVIOUS
  <1> HIDE DEF t
  <1>6. IsList(t) /\ Len(t) = n
    BY <1>1, <1>4, ListOfFunction, Zenon
  <1>7. ToSet(t) = ToSet(s)
    <2>1. ASSUME NEW x \in ToSet(s) PROVE x \in ToSet(t)
      <3>1. PICK i \in 1 .. n : x = s[i]
        BY <1>1, <2>1 DEF ToSet
      <3>2. (n - i) + 1 \in DOMAIN t /\ t[(n - i) + 1] = x
        BY <1>3, <1>5, <3>1
      <3> QED BY <3>2 DEF ToSet
    <2> QED BY <1>4, <1>5, <2>1 DEF ToSet
  <1> QED BY <1>1, <1>2, <1>5, <1>6, <1>7 DEF n

(* A strictly increasing map does not fall behind.                         *)
LEMMA Increasing ==
    ASSUME NEW n \in Nat, NEW m \in Nat, NEW g,
           \A j \in 1 .. n : g[j] \in 1 .. m,
           \A j, k \in 1 .. n : j < k => g[j] < g[k]
    PROVE  n <= m
  <1> DEFINE Bad == {j \in 0 .. n : j # 0 /\ ~(j <= g[j])}
  <1>1. Bad \in SUBSET (0 .. n) /\ 0 \notin Bad
    OBVIOUS
  <1>2. \A j \in 1 .. n : j - 1 \notin Bad => j \notin Bad
    <2> SUFFICES ASSUME NEW j \in 1 .. n, j - 1 \notin Bad PROVE j <= g[j]
      OBVIOUS
    <2>1. CASE j = 1
      BY <2>1
    <2>2. CASE j # 1
      <3>1. j - 1 \in 1 .. n /\ j - 1 < j /\ j - 1 <= g[j - 1]
        BY <2>2
      <3>2. g[j - 1] < g[j] /\ g[j - 1] \in Int /\ g[j] \in Int
        BY <3>1
      <3> QED BY <3>1, <3>2
    <2> QED BY <2>1, <2>2
  <1> HIDE DEF Bad
  <1>3. Bad = {}
    BY <1>1, <1>2, FirstFailure
  <1>4. CASE n = 0
    BY <1>4
  <1>5. CASE n # 0
    <2>1. n \in 1 .. n
      BY <1>5
    <2>2. n <= g[n] /\ g[n] \in 1 .. m
      BY <1>3, <2>1 DEF Bad
    <2> QED BY <2>2
  <1> QED BY <1>4, <1>5

(* When of what is kept of a list the last h go, they are fewer by h.      *)
LEMMA Shortened ==
    ASSUME NEW s, IsList(s), NEW S, NEW G, NEW t, t = Only(s, S), NEW h \in 0 .. Len(t),
           \A k \in 1 .. Len(t) : k > Len(t) - h => t[k] \in G
    PROVE  Len(Only(s, S \ G)) <= Len(t) - h
  <1> DEFINE u == Only(s, S \ G)
             n == Len(t)
             m == Len(u)
  <1>1. n \in Nat /\ m \in Nat /\ Len(s) \in Nat
    BY OnlyChosen, ListFacts
  <1>2. PICK f : Chosen(f, t, s, Len(s), S)
    BY OnlyChosen
  <1>3. PICK g : Chosen(g, u, s, Len(s), S \ G)
    BY OnlyChosen
  <1>4. /\ \A j \in 1 .. n : f[j] \in 1 .. Len(s) /\ t[j] = s[f[j]]
        /\ \A j, k \in 1 .. n : j < k => f[j] < f[k]
        /\ \A i \in 1 .. Len(s) : s[i] \in S => \E j \in 1 .. n : f[j] = i
    BY <1>2 DEF Chosen
  <1>5. /\ \A j \in 1 .. m : g[j] \in 1 .. Len(s) /\ s[g[j]] \in S \ G
        /\ \A j, k \in 1 .. m : j < k => g[j] < g[k]
    BY <1>3 DEF Chosen
  <1>6. \A k \in 1 .. n : k > n - h => t[k] \in G
    OBVIOUS
  <1>h. h \in 0 .. n
    OBVIOUS
  <1> HIDE DEF n, m, u
  <1> DEFINE c == [j \in 1 .. m |-> CHOOSE k \in 1 .. n : f[k] = g[j]]
  <1>7. \A j \in 1 .. m : c[j] \in 1 .. n /\ f[c[j]] = g[j]
    BY <1>4, <1>5
  <1> HIDE DEF c
  <1>8. \A j \in 1 .. m : c[j] \in 1 .. n - h
    <2> SUFFICES ASSUME NEW j \in 1 .. m PROVE c[j] \in 1 .. n - h
      OBVIOUS
    <2>1. c[j] \in 1 .. n /\ t[c[j]] \notin G
      BY <1>4, <1>5, <1>7
    <2>2. ~(c[j] > n - h)
      BY <1>6, <2>1
    <2> QED BY <1>1, <1>h, <2>1, <2>2
  <1>9. \A j, k \in 1 .. m : j < k => c[j] < c[k]
    <2> SUFFICES ASSUME NEW j \in 1 .. m, NEW k \in 1 .. m, j < k, ~(c[j] < c[k]) PROVE FALSE
      OBVIOUS
    <2>1. c[j] \in 1 .. n /\ c[k] \in 1 .. n /\ g[j] < g[k] /\ f[c[j]] = g[j] /\ f[c[k]] = g[k]
      BY <1>5, <1>7
    <2>2. g[j] \in 1 .. Len(s) /\ g[k] \in 1 .. Len(s)
      BY <1>5
    <2>3. c[j] = c[k] \/ c[k] < c[j]
      BY <1>1, <2>1
    <2>4. c[k] < c[j] => f[c[k]] < f[c[j]]
      BY <1>4, <2>1
    <2> QED BY <1>1, <2>1, <2>2, <2>3, <2>4
  <1>10. n - h \in Nat
    BY <1>1, <1>h
  <1>11. m <= n - h
    BY <1>1, <1>8, <1>9, <1>10, Increasing
  <1> QED BY <1>11 DEF m, n, u

LEMMA OneMore ==
    \A x, y, z \in Nat : x + y = z => (x + 1) + y = z + 1 /\ x + (y + 1) = z + 1
  OBVIOUS

(* A list is what is kept of it and what is not.                           *)
LEMMA OnlyParts ==
    ASSUME NEW s, IsList(s), NEW S, NEW T, NEW U,
           \A x : ~(x \in S /\ x \in T) /\ (x \in U <=> x \in S \/ x \in T)
    PROVE  Len(Only(s, S)) + Len(Only(s, T)) = Len(Only(s, U))
  <1> DEFINE n == Len(s)
  <1>1. n \in Nat
    BY ListFacts
  <1>2. PICK a : /\ a[0] = <<>> /\ a[n] = Only(s, S)
                 /\ \A i \in 1 .. n : a[i] = IF s[i] \in S THEN Append(a[i - 1], s[i]) ELSE a[i - 1]
    BY <1>1, OnlySteps
  <1>3. PICK b : /\ b[0] = <<>> /\ b[n] = Only(s, T)
                 /\ \A i \in 1 .. n : b[i] = IF s[i] \in T THEN Append(b[i - 1], s[i]) ELSE b[i - 1]
    BY <1>1, OnlySteps
  <1>4. PICK c : /\ c[0] = <<>> /\ c[n] = Only(s, U)
                 /\ \A i \in 1 .. n : c[i] = IF s[i] \in U THEN Append(c[i - 1], s[i]) ELSE c[i - 1]
    BY <1>1, OnlySteps
  <1> HIDE DEF n
  <1> DEFINE Good(i) == /\ IsList(a[i]) /\ IsList(b[i]) /\ IsList(c[i])
                        /\ Len(a[i]) + Len(b[i]) = Len(c[i])
             Bad     == {i \in 0 .. n : ~Good(i)}
  <1>5. Good(0)
    BY <1>2, <1>3, <1>4, SmallLists
  <1>6. ASSUME NEW i \in 1 .. n, Good(i - 1) PROVE Good(i)
    <2>1. /\ Len(a[i - 1]) \in Nat /\ Len(b[i - 1]) \in Nat /\ Len(c[i - 1]) \in Nat
          /\ Len(a[i - 1]) + Len(b[i - 1]) = Len(c[i - 1])
      BY <1>6, ListFacts
    <2>s. PICK x, y, z \in Nat : /\ x = Len(a[i - 1]) /\ y = Len(b[i - 1]) /\ z = Len(c[i - 1])
                                /\ x + y = z
      BY <2>1
    <2>2. /\ IsList(Append(a[i - 1], s[i])) /\ Len(Append(a[i - 1], s[i])) = Len(a[i - 1]) + 1
          /\ IsList(Append(b[i - 1], s[i])) /\ Len(Append(b[i - 1], s[i])) = Len(b[i - 1]) + 1
          /\ IsList(Append(c[i - 1], s[i])) /\ Len(Append(c[i - 1], s[i])) = Len(c[i - 1]) + 1
      BY <1>6, AppendFacts
    <2>3. /\ a[i] = IF s[i] \in S THEN Append(a[i - 1], s[i]) ELSE a[i - 1]
          /\ b[i] = IF s[i] \in T THEN Append(b[i - 1], s[i]) ELSE b[i - 1]
          /\ c[i] = IF s[i] \in S \/ s[i] \in T THEN Append(c[i - 1], s[i]) ELSE c[i - 1]
      BY <1>2, <1>3, <1>4
    <2>4. ~(s[i] \in S /\ s[i] \in T)
      OBVIOUS
    <2>5. CASE s[i] \in S
      <3>1. a[i] = Append(a[i - 1], s[i]) /\ b[i] = b[i - 1] /\ c[i] = Append(c[i - 1], s[i])
        BY <2>3, <2>4, <2>5
      <3>2. /\ Len(a[i]) = Len(a[i - 1]) + 1 /\ Len(b[i]) = Len(b[i - 1])
            /\ Len(c[i]) = Len(c[i - 1]) + 1
            /\ IsList(a[i]) /\ IsList(b[i]) /\ IsList(c[i])
        BY <1>6, <2>2, <3>1, Zenon
      <3>3. (x + 1) + y = z + 1
        BY <2>s, OneMore, Zenon
      <3> QED BY <2>s, <3>2, <3>3, Zenon
    <2>6. CASE s[i] \in T
      <3>1. a[i] = a[i - 1] /\ b[i] = Append(b[i - 1], s[i]) /\ c[i] = Append(c[i - 1], s[i])
        BY <2>3, <2>4, <2>6
      <3>2. /\ Len(a[i]) = Len(a[i - 1]) /\ Len(b[i]) = Len(b[i - 1]) + 1
            /\ Len(c[i]) = Len(c[i - 1]) + 1
            /\ IsList(a[i]) /\ IsList(b[i]) /\ IsList(c[i])
        BY <1>6, <2>2, <3>1, Zenon
      <3>3. x + (y + 1) = z + 1
        BY <2>s, OneMore, Zenon
      <3> QED BY <2>s, <3>2, <3>3, Zenon
    <2>7. CASE s[i] \notin S /\ s[i] \notin T
      BY <1>6, <2>3, <2>7
    <2> QED BY <2>5, <2>6, <2>7
  <1> HIDE DEF Good
  <1>7. Bad = {}
    <2>1. Bad \in SUBSET (0 .. n) /\ 0 \notin Bad
      BY <1>5
    <2>2. \A i \in 1 .. n : i - 1 \notin Bad => i \notin Bad
      <3>1. \A i \in 1 .. n : i - 1 \in 0 .. n
        BY <1>1
      <3> QED BY <1>6, <3>1
    <2> HIDE DEF Bad
    <2> QED BY <1>1, <2>1, <2>2, FirstFailure
  <1>8. Good(n)
    BY <1>1, <1>7
  <1> QED BY <1>2, <1>3, <1>4, <1>8 DEF Good, n

(* All of a list.                                                          *)
LEMMA OnlyAll ==
    ASSUME NEW s, IsList(s), NEW S, ToSet(s) \subseteq S
    PROVE  Len(Only(s, S)) = Len(s)
  <1> DEFINE t == Only(s, S)
             n == Len(s)
             m == Len(t)
  <1>1. n \in Nat /\ m \in Nat /\ DOMAIN s = 1 .. n
    BY OnlyChosen, ListFacts
  <1>2. PICK f : Chosen(f, t, s, n, S)
    BY OnlyChosen
  <1>3. \A i \in 1 .. n : s[i] \in S
    BY <1>1 DEF ToSet
  <1>4. /\ \A j \in 1 .. m : f[j] \in 1 .. n
        /\ \A j, k \in 1 .. m : j < k => f[j] < f[k]
        /\ \A i \in 1 .. n : \E j \in 1 .. m : f[j] = i
    BY <1>2, <1>3 DEF Chosen
  <1> HIDE DEF n, m
  <1>5. m <= n
    BY <1>1, <1>4, Increasing
  <1> DEFINE g == [i \in 1 .. n |-> CHOOSE j \in 1 .. m : f[j] = i]
  <1>6. \A i \in 1 .. n : g[i] \in 1 .. m /\ f[g[i]] = i
    BY <1>4
  <1> HIDE DEF g
  <1>7. \A i, k \in 1 .. n : i < k => g[i] < g[k]
    <2> SUFFICES ASSUME NEW i \in 1 .. n, NEW k \in 1 .. n, i < k, ~(g[i] < g[k]) PROVE FALSE
      OBVIOUS
    <2>1. g[i] \in 1 .. m /\ g[k] \in 1 .. m /\ f[g[i]] = i /\ f[g[k]] = k
      BY <1>6
    <2>2. g[i] = g[k] \/ g[k] < g[i]
      BY <1>1, <2>1
    <2>3. g[k] < g[i] => k < i
      BY <1>4, <2>1
    <2> QED BY <1>1, <2>1, <2>2, <2>3
  <1>8. n <= m
    BY <1>1, <1>6, <1>7, Increasing
  <1> QED BY <1>1, <1>5, <1>8 DEF n, m

(* Nothing is added.                                                       *)
LEMMA OnlyShorter ==
    ASSUME NEW s, IsList(s), NEW S
    PROVE  Len(Only(s, S)) \in 0 .. Len(s)
  <1> DEFINE t == Only(s, S)
             m == Len(t)
             n == Len(s)
  <1>1. n \in Nat /\ m \in Nat
    BY OnlyChosen, ListFacts
  <1>2. PICK f : Chosen(f, t, s, n, S)
    BY OnlyChosen
  <1>3. (\A j \in 1 .. m : f[j] \in 1 .. n) /\ \A j, k \in 1 .. m : j < k => f[j] < f[k]
    BY <1>2 DEF Chosen
  <1> HIDE DEF n, m
  <1>4. m <= n
    BY <1>1, <1>3, Increasing
  <1> QED BY <1>1, <1>4 DEF n, m

(* The rows of a group that are quiet, or are not, from its bottom.        *)
Loud(rows, quiet) == {r \in ToSet(rows) : r.dim = quiet}

LEMMA GroupLeft ==
    ASSUME NEW rows, IsList(rows), NEW quiet, NEW t, t = FromBottom(rows, quiet),
           NEW h \in 0 .. Len(t), NEW gone, \A k \in 1 .. h : t[k] \in gone
    PROVE  Len(Only(rows, Loud(rows, quiet) \ gone)) <= Len(t) - h
  <1> DEFINE o == Only(rows, Loud(rows, quiet))
             n == Len(t)
  <1>1. IsList(o) /\ Len(o) \in Nat
    BY OnlyFacts, ListFacts
  <1>2. t = Reverse(o)
    BY DEF FromBottom, Loud
  <1>3. Len(o) = n /\ \A k \in 1 .. n : t[k] = o[n - k + 1]
    BY <1>1, <1>2, ReverseFacts
  <1>h. n \in Nat /\ h \in 0 .. n
    BY <1>1, <1>3
  <1> HIDE DEF o, n
  <1>4. ASSUME NEW k \in 1 .. n, k > n - h PROVE o[k] \in gone
    <2>1. (n - k) + 1 \in 1 .. h /\ (n - k) + 1 \in 1 .. n /\ (n - ((n - k) + 1)) + 1 = k
      BY <1>h, <1>4
    <2>2. o[k] = t[(n - k) + 1]
      BY <1>3, <2>1
    <2> QED BY <2>1, <2>2
  <1>5. Len(Only(rows, Loud(rows, quiet) \ gone)) <= Len(o) - h
    BY <1>3, <1>4, <1>h, Shortened DEF o
  <1> QED BY <1>3, <1>5 DEF n

LEMMA HalfFacts ==
    ASSUME NEW rows, IsList(rows), \A r \in ToSet(rows) : r.dim \in BOOLEAN, NEW gone
    PROVE  /\ Len(Only(rows, Loud(rows, TRUE))) + Len(Only(rows, Loud(rows, FALSE))) = Len(rows)
           /\ Len(Only(rows, Loud(rows, TRUE) \ gone)) + Len(Only(rows, Loud(rows, FALSE) \ gone))
                 = Len(Only(rows, ToSet(rows) \ gone))
  <1>1. \A x : /\ ~(x \in Loud(rows, TRUE) /\ x \in Loud(rows, FALSE))
               /\ x \in ToSet(rows) <=> x \in Loud(rows, TRUE) \/ x \in Loud(rows, FALSE)
    BY DEF Loud
  <1>2. Len(Only(rows, Loud(rows, TRUE))) + Len(Only(rows, Loud(rows, FALSE))) = Len(Only(rows, ToSet(rows)))
    BY <1>1, OnlyParts
  <1> DEFINE A == Loud(rows, TRUE) \ gone
             B == Loud(rows, FALSE) \ gone
             C == ToSet(rows) \ gone
  <1>3. \A x : ~(x \in A /\ x \in B) /\ (x \in C <=> x \in A \/ x \in B)
    BY <1>1
  <1> HIDE DEF A, B, C
  <1>4. Len(Only(rows, A)) + Len(Only(rows, B)) = Len(Only(rows, C))
    BY <1>3, OnlyParts
  <1>5. Len(Only(rows, ToSet(rows))) = Len(rows)
    BY OnlyAll
  <1> QED BY <1>2, <1>4, <1>5 DEF A, B, C

LEMMA BottomFacts ==
    ASSUME NEW rows, IsList(rows), NEW quiet
    PROVE  /\ IsList(FromBottom(rows, quiet))
           /\ Len(FromBottom(rows, quiet)) = Len(Only(rows, Loud(rows, quiet)))
           /\ ToSet(FromBottom(rows, quiet)) = Loud(rows, quiet)
  <1> DEFINE o == Only(rows, Loud(rows, quiet))
  <1>1. IsList(o) /\ ToSet(o) = ToSet(rows) \cap Loud(rows, quiet)
    BY OnlyFacts
  <1>2. ToSet(rows) \cap Loud(rows, quiet) = Loud(rows, quiet)
    BY DEF Loud
  <1>3. FromBottom(rows, quiet) = Reverse(o)
    BY DEF FromBottom, Loud
  <1> HIDE DEF o
  <1> QED BY <1>1, <1>2, <1>3, ReverseFacts DEF o

(* The order of folding: all that is quiet, then the rest.                 *)
QuietRows(agents, listed) ==
    Len(Only(agents, Loud(agents, TRUE))) + Len(Only(listed, Loud(listed, TRUE)))

Booleans(rows) == \A r \in ToSet(rows) : r.dim \in BOOLEAN

LEMMA OrderFacts ==
    ASSUME NEW agents, NEW listed, IsList(agents), IsList(listed),
           Booleans(agents), Booleans(listed),
           NEW h \in 0 .. Len(agents) + Len(listed),
           NEW gone, gone = ToSet(AtMost(h, FoldOrder(agents, listed)))
    PROVE  /\ Len(Only(agents, ToSet(agents) \ gone)) + Len(Only(listed, ToSet(listed) \ gone))
                 <= (Len(agents) + Len(listed)) - h
           /\ gone \subseteq ToSet(agents) \cup ToSet(listed)
           /\ (\E r \in gone : ~r.dim) => Loud(agents, TRUE) \cup Loud(listed, TRUE) \subseteq gone
           /\ h <= QuietRows(agents, listed) => \A r \in gone : r.dim
  <1> DEFINE a == FromBottom(listed, TRUE)
             b == FromBottom(agents, TRUE)
             c == FromBottom(listed, FALSE)
             d == FromBottom(agents, FALSE)
             F == FoldOrder(agents, listed)
  <1>1. /\ IsList(a) /\ ToSet(a) = Loud(listed, TRUE)
        /\ IsList(b) /\ ToSet(b) = Loud(agents, TRUE)
        /\ IsList(c) /\ ToSet(c) = Loud(listed, FALSE)
        /\ IsList(d) /\ ToSet(d) = Loud(agents, FALSE)
    BY BottomFacts
  <1>2. /\ Len(a) = Len(Only(listed, Loud(listed, TRUE)))
        /\ Len(b) = Len(Only(agents, Loud(agents, TRUE)))
        /\ Len(c) = Len(Only(listed, Loud(listed, FALSE)))
        /\ Len(d) = Len(Only(agents, Loud(agents, FALSE)))
    BY BottomFacts
  <1>3. F = ((a \o b) \o c) \o d
    BY DEF FoldOrder
  <1>4. /\ Len(a) + Len(c) = Len(listed)
        /\ Len(b) + Len(d) = Len(agents)
    BY <1>2, HalfFacts DEF Booleans
  <1> HIDE DEF a, b, c, d, F
  <1>5. Len(a) \in Nat /\ Len(b) \in Nat /\ Len(c) \in Nat /\ Len(d) \in Nat
    BY <1>1, ListFacts
  <1>6. /\ IsList(a \o b) /\ Len(a \o b) = Len(a) + Len(b)
        /\ \A k \in 1 .. Len(a) : (a \o b)[k] = a[k]
        /\ \A k \in 1 .. Len(b) : (a \o b)[Len(a) + k] = b[k]
    BY <1>1, JoinFacts
  <1>7. /\ IsList((a \o b) \o c) /\ Len((a \o b) \o c) = Len(a \o b) + Len(c)
        /\ \A k \in 1 .. Len(a \o b) : ((a \o b) \o c)[k] = (a \o b)[k]
        /\ \A k \in 1 .. Len(c) : ((a \o b) \o c)[Len(a \o b) + k] = c[k]
    <2> DEFINE ab == a \o b
    <2>1. IsList(ab)
      BY <1>6
    <2> HIDE DEF ab
    <2>2. /\ IsList(ab \o c) /\ Len(ab \o c) = Len(ab) + Len(c)
          /\ \A k \in 1 .. Len(ab) : (ab \o c)[k] = ab[k]
          /\ \A k \in 1 .. Len(c) : (ab \o c)[Len(ab) + k] = c[k]
      BY <1>1, <2>1, JoinFacts
    <2> QED BY <2>2 DEF ab
  <1>8. /\ IsList(F) /\ Len(F) = Len((a \o b) \o c) + Len(d)
        /\ \A k \in 1 .. Len((a \o b) \o c) : F[k] = ((a \o b) \o c)[k]
        /\ \A k \in 1 .. Len(d) : F[Len((a \o b) \o c) + k] = d[k]
    <2> DEFINE abc == (a \o b) \o c
    <2>1. IsList(abc) /\ F = abc \o d
      BY <1>3, <1>7
    <2> HIDE DEF abc
    <2>2. /\ IsList(abc \o d) /\ Len(abc \o d) = Len(abc) + Len(d)
          /\ \A k \in 1 .. Len(abc) : (abc \o d)[k] = abc[k]
          /\ \A k \in 1 .. Len(d) : (abc \o d)[Len(abc) + k] = d[k]
      BY <1>1, <2>1, JoinFacts
    <2> QED BY <2>1, <2>2 DEF abc
  <1> DEFINE na == Len(a)
             nb == Len(b)
             nc == Len(c)
             nd == Len(d)
  <1>n. na \in Nat /\ nb \in Nat /\ nc \in Nat /\ nd \in Nat
    BY <1>5
  <1>9. /\ IsList(F) /\ Len(F) = na + nb + nc + nd
        /\ \A k \in 1 .. na : F[k] = a[k]
        /\ \A k \in 1 .. nb : F[na + k] = b[k]
        /\ \A k \in 1 .. nc : F[na + nb + k] = c[k]
        /\ \A k \in 1 .. nd : F[na + nb + nc + k] = d[k]
    <2> HIDE DEF na, nb, nc, nd
    <2>1. /\ \A k \in 1 .. na : k \in 1 .. na + nb /\ k \in 1 .. na + nb + nc
          /\ \A k \in 1 .. nb : na + k \in 1 .. na + nb /\ na + k \in 1 .. na + nb + nc
          /\ \A k \in 1 .. nc : na + nb + k \in 1 .. na + nb + nc
      BY <1>n
    <2>2. /\ Len(a \o b) = na + nb /\ Len((a \o b) \o c) = na + nb + nc
          /\ Len(F) = na + nb + nc + nd
      BY <1>6, <1>7, <1>8 DEF na, nb, nc, nd
    <2>3. /\ \A k \in 1 .. na : (a \o b)[k] = a[k]
          /\ \A k \in 1 .. nb : (a \o b)[na + k] = b[k]
          /\ \A k \in 1 .. na + nb : ((a \o b) \o c)[k] = (a \o b)[k]
          /\ \A k \in 1 .. nc : ((a \o b) \o c)[na + nb + k] = c[k]
          /\ \A k \in 1 .. na + nb + nc : F[k] = ((a \o b) \o c)[k]
          /\ \A k \in 1 .. nd : F[na + nb + nc + k] = d[k]
      BY <1>6, <1>7, <1>8, <2>2 DEF na, nb, nc, nd
    <2> QED BY <1>8, <2>1, <2>2, <2>3
  <1> HIDE DEF na, nb, nc, nd
  <1>10. Len(agents) + Len(listed) = na + nb + nc + nd /\ h \in 0 .. na + nb + nc + nd
    <2>1. Len(agents) = nb + nd /\ Len(listed) = na + nc
      BY <1>4 DEF na, nb, nc, nd
    <2>2. (nb + nd) + (na + nc) = na + nb + nc + nd
      BY <1>n
    <2> QED BY <2>1, <2>2
  <1> DEFINE G == AtMost(h, F)
  <1>11. DOMAIN G = 1 .. h /\ \A k \in 1 .. h : k \in 1 .. na + nb + nc + nd /\ G[k] = F[k]
    <2>1. h \in Nat
      BY <1>n, <1>10
    <2>2. IsList(G) /\ Len(G) = (IF h < Len(F) THEN h ELSE Len(F))
          /\ \A i \in 1 .. Len(G) : i \in 1 .. Len(F) /\ G[i] = F[i]
      BY <1>9, <2>1, AtMostFacts
    <2>3. DOMAIN G = 1 .. Len(G)
      BY <2>2, ListFacts
    <2> HIDE DEF G
    <2>4. Len(G) = h
      BY <1>n, <1>9, <1>10, <2>2
    <2> QED BY <1>9, <2>2, <2>3, <2>4
  <1>12. gone = ToSet(G)
    BY DEF F
  <1> HIDE DEF G
  <1>13. /\ \A k \in 1 .. h : F[k] \in gone
         /\ \A r \in gone : \E k \in 1 .. h : r = F[k]
    BY <1>11, <1>12 DEF ToSet
  \* how much of each group is gone
  <1> DEFINE ha == IF h < na THEN h ELSE na
             hb == IF h < na THEN 0 ELSE IF h < na + nb THEN h - na ELSE nb
             hc == IF h < na + nb THEN 0 ELSE IF h < na + nb + nc THEN h - na - nb ELSE nc
             hd == IF h < na + nb + nc THEN 0 ELSE h - na - nb - nc
  <1>14. /\ ha \in 0 .. na /\ hb \in 0 .. nb /\ hc \in 0 .. nc /\ hd \in 0 .. nd
         /\ ha + hb + hc + hd = h
         /\ \A k \in 1 .. ha : k \in 1 .. na /\ k \in 1 .. h
         /\ \A k \in 1 .. hb : k \in 1 .. nb /\ na + k \in 1 .. h
         /\ \A k \in 1 .. hc : k \in 1 .. nc /\ na + nb + k \in 1 .. h
         /\ \A k \in 1 .. hd : k \in 1 .. nd /\ na + nb + nc + k \in 1 .. h
    BY <1>n, <1>10
  <1> HIDE DEF ha, hb, hc, hd
  <1>15. /\ \A k \in 1 .. ha : a[k] \in gone
         /\ \A k \in 1 .. hb : b[k] \in gone
         /\ \A k \in 1 .. hc : c[k] \in gone
         /\ \A k \in 1 .. hd : d[k] \in gone
    BY <1>9, <1>13, <1>14
  <1>16. /\ Len(Only(listed, Loud(listed, TRUE) \ gone)) <= na - ha
         /\ Len(Only(agents, Loud(agents, TRUE) \ gone)) <= nb - hb
         /\ Len(Only(listed, Loud(listed, FALSE) \ gone)) <= nc - hc
         /\ Len(Only(agents, Loud(agents, FALSE) \ gone)) <= nd - hd
    BY <1>14, <1>15, GroupLeft DEF a, b, c, d, na, nb, nc, nd
  <1>17. /\ DOMAIN a = 1 .. na /\ DOMAIN b = 1 .. nb /\ DOMAIN c = 1 .. nc /\ DOMAIN d = 1 .. nd
    BY <1>1, ListFacts DEF na, nb, nc, nd
  <1>18. ASSUME NEW k \in 1 .. h
         PROVE  \/ k <= na + nb /\ F[k] \in ToSet(a) \cup ToSet(b)
                \/ k > na + nb /\ F[k] \in ToSet(c) \cup ToSet(d)
    <2>1. \/ k \in 1 .. na
          \/ k > na /\ k - na \in 1 .. nb /\ na + (k - na) = k /\ k <= na + nb
          \/ k > na + nb /\ k - na - nb \in 1 .. nc /\ na + nb + (k - na - nb) = k
          \/ k > na + nb /\ k - na - nb - nc \in 1 .. nd /\ na + nb + nc + (k - na - nb - nc) = k
      BY <1>n, <1>10
    <2>2. CASE k \in 1 .. na
      <3>1. F[k] \in ToSet(a)
        BY <1>9, <1>17, <2>2 DEF ToSet
      <3>2. k <= na + nb
        BY <1>n, <2>2
      <3> QED BY <3>1, <3>2
    <2>3. CASE k > na /\ k - na \in 1 .. nb /\ na + (k - na) = k /\ k <= na + nb
      <3>1. F[k] = b[k - na]
        BY <1>9, <2>3
      <3>2. b[k - na] \in ToSet(b)
        BY <1>17, <2>3 DEF ToSet
      <3> QED BY <2>3, <3>1, <3>2
    <2>4. CASE k > na + nb /\ k - na - nb \in 1 .. nc /\ na + nb + (k - na - nb) = k
      <3>1. F[k] = c[k - na - nb]
        BY <1>9, <2>4
      <3>2. c[k - na - nb] \in ToSet(c)
        BY <1>17, <2>4 DEF ToSet
      <3> QED BY <2>4, <3>1, <3>2
    <2>5. CASE k > na + nb /\ k - na - nb - nc \in 1 .. nd /\ na + nb + nc + (k - na - nb - nc) = k
      <3>1. F[k] = d[k - na - nb - nc]
        BY <1>9, <2>5
      <3>2. d[k - na - nb - nc] \in ToSet(d)
        BY <1>17, <2>5 DEF ToSet
      <3> QED BY <2>5, <3>1, <3>2
    <2> QED BY <2>1, <2>2, <2>3, <2>4, <2>5
  <1>19. /\ ToSet(a) \cup ToSet(b) \cup ToSet(c) \cup ToSet(d) \subseteq ToSet(agents) \cup ToSet(listed)
         /\ \A r \in ToSet(a) \cup ToSet(b) : r.dim
         /\ \A r \in ToSet(c) \cup ToSet(d) : ~r.dim
    BY <1>1 DEF Loud
  <1>20. Len(Only(agents, ToSet(agents) \ gone)) + Len(Only(listed, ToSet(listed) \ gone))
            <= (Len(agents) + Len(listed)) - h
    <2> DEFINE la == Len(Only(listed, Loud(listed, TRUE) \ gone))
               lb == Len(Only(agents, Loud(agents, TRUE) \ gone))
               lc == Len(Only(listed, Loud(listed, FALSE) \ gone))
               ld == Len(Only(agents, Loud(agents, FALSE) \ gone))
    <2>1. /\ la + lc = Len(Only(listed, ToSet(listed) \ gone))
          /\ lb + ld = Len(Only(agents, ToSet(agents) \ gone))
      BY HalfFacts DEF Booleans
    <2>2. la \in Nat /\ lb \in Nat /\ lc \in Nat /\ ld \in Nat
      BY OnlyFacts, ListFacts
    <2>3. la <= na - ha /\ lb <= nb - hb /\ lc <= nc - hc /\ ld <= nd - hd
      BY <1>16
    <2> HIDE DEF la, lb, lc, ld
    <2>4. (lb + ld) + (la + lc) <= (na + nb + nc + nd) - h
      BY <1>n, <1>14, <2>2, <2>3
    <2>5. (lb + ld) + (la + lc)
             = Len(Only(agents, ToSet(agents) \ gone)) + Len(Only(listed, ToSet(listed) \ gone))
      BY <2>1, Zenon
    <2>6. (na + nb + nc + nd) - h = (Len(agents) + Len(listed)) - h
      BY <1>10, Zenon
    <2> QED BY <2>4, <2>5, <2>6, Zenon
  <1>21. gone \subseteq ToSet(agents) \cup ToSet(listed)
    BY <1>13, <1>18, <1>19
  <1>22. ASSUME NEW r \in gone, ~r.dim PROVE ToSet(a) \cup ToSet(b) \subseteq gone
    <2>1. PICK k \in 1 .. h : r = F[k]
      BY <1>13
    <2>2. k > na + nb
      BY <1>18, <1>19, <1>22, <2>1
    <2>3. ha = na /\ hb = nb
      BY <1>n, <1>10, <2>2 DEF ha, hb
    <2> QED BY <1>15, <1>17, <2>3 DEF ToSet
  <1>23. ASSUME h <= na + nb, NEW r \in gone PROVE r.dim
    <2>1. PICK k \in 1 .. h : r = F[k]
      BY <1>13
    <2>2. ~(k > na + nb)
      BY <1>n, <1>10, <1>23
    <2> QED BY <1>18, <1>19, <2>1, <2>2
  <1>24. QuietRows(agents, listed) = na + nb
    <2>1. QuietRows(agents, listed) = nb + na
      BY <1>2 DEF QuietRows, na, nb
    <2> QED BY <1>n, <2>1
  <1> QED BY <1>1, <1>20, <1>21, <1>22, <1>23, <1>24

(* What is kept of two lists joined.                                       *)
LEMMA OnlyJoined ==
    ASSUME NEW s, NEW t, IsList(s), IsList(t), NEW S
    PROVE  Len(Only(s \o t, S)) = Len(Only(s, S)) + Len(Only(t, S))
  <1> DEFINE n == Len(s)
             m == Len(t)
             u == s \o t
  <1>1. n \in Nat /\ m \in Nat
    BY ListFacts
  <1>2. /\ Len(u) = n + m
        /\ \A i \in 1 .. n : u[i] = s[i]
        /\ \A i \in 1 .. m : u[n + i] = t[i]
    BY JoinFacts
  <1>3. PICK a : /\ a[0] = <<>> /\ a[n] = Only(s, S)
                 /\ \A i \in 1 .. n : a[i] = IF s[i] \in S THEN Append(a[i - 1], s[i]) ELSE a[i - 1]
    BY <1>1, OnlySteps
  <1>4. PICK b : /\ b[0] = <<>> /\ b[m] = Only(t, S)
                 /\ \A i \in 1 .. m : b[i] = IF t[i] \in S THEN Append(b[i - 1], t[i]) ELSE b[i - 1]
    BY <1>1, OnlySteps
  <1>5. PICK c : /\ c[0] = <<>> /\ c[n + m] = Only(u, S)
                 /\ \A i \in 1 .. n + m : c[i] = IF u[i] \in S THEN Append(c[i - 1], u[i]) ELSE c[i - 1]
    <2>1. Len(u) \in Nat
      BY <1>1, <1>2
    <2> HIDE DEF u, n, m
    <2>2. \E k : /\ k[0] = <<>> /\ k[Len(u)] = Only(u, S)
                 /\ \A i \in 1 .. Len(u) :
                       k[i] = IF u[i] \in S THEN Append(k[i - 1], u[i]) ELSE k[i - 1]
      BY <2>1, OnlySteps
    <2> QED BY <1>2, <2>2
  <1>6. IsList(a[n])
    BY <1>3, OnlyFacts
  <1> HIDE DEF n, m, u
  <1> DEFINE Differ == {i \in 0 .. n : c[i] # a[i]}
  <1>7. Differ = {}
    <2>1. Differ \in SUBSET (0 .. n) /\ 0 \notin Differ
      BY <1>3, <1>5
    <2>2. \A i \in 1 .. n : i - 1 \notin Differ => i \notin Differ
      <3> SUFFICES ASSUME NEW i \in 1 .. n, i - 1 \notin Differ PROVE c[i] = a[i]
        OBVIOUS
      <3>1. i - 1 \in 0 .. n /\ i \in 1 .. n + m
        BY <1>1
      <3>2. c[i - 1] = a[i - 1]
        BY <3>1
      <3> QED BY <1>2, <1>3, <1>5, <3>1, <3>2
    <2> HIDE DEF Differ
    <2> QED BY <1>1, <2>1, <2>2, FirstFailure
  <1>8. c[n] = a[n]
    BY <1>1, <1>7
  <1> DEFINE Good(i) == /\ IsList(b[i]) /\ IsList(c[n + i])
                        /\ Len(a[n]) + Len(b[i]) = Len(c[n + i])
             Bad     == {i \in 0 .. m : ~Good(i)}
  <1>9. Good(0)
    <2>1. Len(a[n]) \in Nat
      BY <1>6, ListFacts
    <2>2. n + 0 = n /\ Len(a[n]) + 0 = Len(a[n])
      BY <1>1, <2>1
    <2> QED BY <1>4, <1>6, <1>8, <2>2, SmallLists
  <1>10. ASSUME NEW i \in 1 .. m, Good(i - 1) PROVE Good(i)
    <2>1. n + i \in 1 .. n + m /\ (n + i) - 1 = n + (i - 1)
      BY <1>1
    <2>2. /\ b[i] = IF t[i] \in S THEN Append(b[i - 1], t[i]) ELSE b[i - 1]
          /\ c[n + i] = IF t[i] \in S THEN Append(c[n + (i - 1)], t[i]) ELSE c[n + (i - 1)]
      BY <1>2, <1>4, <1>5, <2>1
    <2>3. IsList(b[i - 1]) /\ IsList(c[n + (i - 1)]) /\ Len(a[n]) + Len(b[i - 1]) = Len(c[n + (i - 1)])
      BY <1>10
    <2> DEFINE d == b[i - 1]
               e == c[n + (i - 1)]
    <2> HIDE DEF d, e
    <2>4. PICK x, y, z \in Nat : x = Len(a[n]) /\ y = Len(d) /\ z = Len(e) /\ x + y = z
      BY <1>6, <2>3, ListFacts DEF d, e
    <2>5. /\ IsList(Append(d, t[i])) /\ Len(Append(d, t[i])) = Len(d) + 1
          /\ IsList(Append(e, t[i])) /\ Len(Append(e, t[i])) = Len(e) + 1
      BY <2>3, AppendFacts DEF d, e
    <2>6. x + (y + 1) = z + 1
      BY <2>4, OneMore, Zenon
    <2>7. CASE t[i] \in S
      <3>1. b[i] = Append(d, t[i]) /\ c[n + i] = Append(e, t[i])
        BY <2>2, <2>7 DEF d, e
      <3> QED BY <2>4, <2>5, <2>6, <3>1, Zenon
    <2>8. CASE t[i] \notin S
      BY <2>2, <2>3, <2>8
    <2> QED BY <2>7, <2>8
  <1> HIDE DEF Good
  <1>11. Bad = {}
    <2>1. Bad \in SUBSET (0 .. m) /\ 0 \notin Bad
      BY <1>9
    <2>2. \A i \in 1 .. m : i - 1 \notin Bad => i \notin Bad
      <3>1. \A i \in 1 .. m : i - 1 \in 0 .. m
        BY <1>1
      <3> QED BY <1>10, <3>1
    <2> HIDE DEF Bad
    <2> QED BY <1>1, <2>1, <2>2, FirstFailure
  <1>12. Good(m)
    BY <1>1, <1>11
  <1>13. Len(a[n]) + Len(b[m]) = Len(c[n + m])
    BY <1>12 DEF Good
  <1> QED BY <1>3, <1>4, <1>5, <1>13 DEF u

LEMMA FiveParts ==
    ASSUME NEW a, NEW b, NEW c, NEW d, NEW e,
           IsList(a), IsList(b), IsList(c), IsList(d), IsList(e)
    PROVE  /\ IsList(a \o b \o c \o d \o e)
           /\ Len(a \o b \o c \o d \o e) = Len(a) + Len(b) + Len(c) + Len(d) + Len(e)
           /\ ToSet(a \o b \o c \o d \o e)
                 = ToSet(a) \cup ToSet(b) \cup ToSet(c) \cup ToSet(d) \cup ToSet(e)
  <1>1. /\ IsList(a \o b) /\ Len(a \o b) = Len(a) + Len(b)
        /\ ToSet(a \o b) = ToSet(a) \cup ToSet(b)
    BY JoinFacts
  <1>2. PICK ab : ab = a \o b
    OBVIOUS
  <1>3. /\ IsList(ab \o c) /\ Len(ab \o c) = Len(ab) + Len(c)
        /\ ToSet(ab \o c) = ToSet(ab) \cup ToSet(c)
    BY <1>1, <1>2, JoinFacts
  <1>4. PICK abc : abc = ab \o c
    OBVIOUS
  <1>5. /\ IsList(abc \o d) /\ Len(abc \o d) = Len(abc) + Len(d)
        /\ ToSet(abc \o d) = ToSet(abc) \cup ToSet(d)
    BY <1>3, <1>4, JoinFacts
  <1>6. PICK abcd : abcd = abc \o d
    OBVIOUS
  <1>7. /\ IsList(abcd \o e) /\ Len(abcd \o e) = Len(abcd) + Len(e)
        /\ ToSet(abcd \o e) = ToSet(abcd) \cup ToSet(e)
    BY <1>5, <1>6, JoinFacts
  <1>8. a \o b \o c \o d \o e = abcd \o e
    BY <1>2, <1>4, <1>6
  <1> QED BY <1>1, <1>2, <1>3, <1>4, <1>5, <1>6, <1>7, <1>8, Zenon

(* Only what is in the list matters.                                       *)
LEMMA OnlySame ==
    ASSUME NEW s, IsList(s), NEW S, NEW T, \A x \in ToSet(s) : x \in S <=> x \in T
    PROVE  Only(s, S) = Only(s, T)
  <1> DEFINE n == Len(s)
  <1>1. n \in Nat /\ DOMAIN s = 1 .. n
    BY ListFacts
  <1>2. PICK a : /\ a[0] = <<>> /\ a[n] = Only(s, S)
                 /\ \A i \in 1 .. n : a[i] = IF s[i] \in S THEN Append(a[i - 1], s[i]) ELSE a[i - 1]
    BY <1>1, OnlySteps
  <1>3. PICK b : /\ b[0] = <<>> /\ b[n] = Only(s, T)
                 /\ \A i \in 1 .. n : b[i] = IF s[i] \in T THEN Append(b[i - 1], s[i]) ELSE b[i - 1]
    BY <1>1, OnlySteps
  <1>4. \A i \in 1 .. n : s[i] \in S <=> s[i] \in T
    BY <1>1 DEF ToSet
  <1> HIDE DEF n
  <1> DEFINE Differ == {i \in 0 .. n : a[i] # b[i]}
  <1>5. Differ \in SUBSET (0 .. n) /\ 0 \notin Differ
    BY <1>2, <1>3
  <1>6. \A i \in 1 .. n : i - 1 \notin Differ => i \notin Differ
    <2> SUFFICES ASSUME NEW i \in 1 .. n, i - 1 \notin Differ PROVE a[i] = b[i]
      OBVIOUS
    <2>1. i - 1 \in 0 .. n
      BY <1>1
    <2>2. a[i - 1] = b[i - 1]
      BY <2>1
    <2> QED BY <1>2, <1>3, <1>4, <2>2
  <1>7. Differ = {}
    <2> HIDE DEF Differ
    <2> QED BY <1>1, <1>5, <1>6, FirstFailure
  <1>8. a[n] = b[n]
    BY <1>1, <1>7
  <1> QED BY <1>2, <1>3, <1>8

LEMMA OnlyNone ==
    ASSUME NEW s, s = <<>>, NEW S
    PROVE  Len(Only(s, S)) = 0
  <1>1. IsList(s) /\ Len(s) = 0
    BY SmallLists
  <1>2. Len(Only(s, S)) \in 0 .. Len(s)
    BY <1>1, OnlyShorter
  <1> QED BY <1>1, <1>2

(* Rows as the two groups of a roster have them.                           *)
RowList(rows) == IsList(rows) /\ \A r \in ToSet(rows) : r.kind = "row" /\ r.dim \in BOOLEAN

LEMMA HiddenFacts ==
    ASSUME NEW total \in Nat, NEW head \in Nat, NEW avail \in Int, NEW h, h = Hidden(total, head, avail)
    PROVE  /\ h \in 0 .. total
           /\ total + head <= avail => h = 0
           /\ total + head > avail /\ avail > head => h = ((total + head) + 1) - avail /\ h > 0
           /\ total + head > avail /\ avail <= head => h = total
  BY DEF Hidden, NonNeg

LEMMA HeadersFacts ==
    ASSUME NEW agents, NEW services
    PROVE  Headers(agents, services) \in {0, 1, 2}
  BY DEF Headers

\* A list cut to more than it has is that list.
LEMMA AtMostAll ==
    ASSUME NEW s, IsList(s), NEW n \in Nat, Len(s) <= n
    PROVE  ToSet(AtMost(n, s)) = ToSet(s)
  <1> DEFINE t == AtMost(n, s)
  <1>1. Len(s) \in Nat /\ DOMAIN s = 1 .. Len(s)
    BY ListFacts
  <1>2. /\ IsList(t) /\ Len(t) = (IF n < Len(s) THEN n ELSE Len(s))
        /\ \A i \in 1 .. Len(t) : i \in 1 .. Len(s) /\ t[i] = s[i]
    BY AtMostFacts
  <1>3. DOMAIN t = 1 .. Len(t)
    BY <1>2, ListFacts
  <1> HIDE DEF t
  <1>4. Len(t) = Len(s)
    <2>1. Len(t) = (IF n < Len(s) THEN n ELSE Len(s))
      BY <1>2
    <2>2. ~(n < Len(s))
      BY <1>1
    <2> QED BY <2>1, <2>2, Zenon
  <1>5. ToSet(t) = ToSet(s)
    BY <1>1, <1>2, <1>3, <1>4 DEF ToSet
  <1> QED BY <1>5 DEF t

Heading(p, services, closed) ==
    Label("header", "services", <<p, "svcfold">>, closed => \A r \in ToSet(services) : r.dim)

(* What a roster is: it takes no more rows than it is given, it shows rows *)
(* of its groups, headings and a count, it hides no signal while it shows  *)
(* a quiet row, and it has room for as much as its cap says.               *)
RosterIs(p, agents, services, avail, closed, out) ==
    LET listed == Unfolded(services, closed)
        roll   == ToSet(agents) \cup ToSet(listed)
    IN  /\ IsList(out) /\ Len(out) <= NonNeg(avail)
        /\ \A x \in ToSet(out) : \/ x \in roll
                                 \/ x.kind \in {"header", "more"} /\ x.to = <<>>
                                 \/ x = Heading(p, services, closed)
        /\ (\E r \in roll : r \notin ToSet(out) /\ ~r.dim) => \A r \in roll \cap ToSet(out) : ~r.dim
        /\ avail >= signalCap(agents, services) => \A r \in roll : ~r.dim => r \in ToSet(out)
        /\ Len(agents) + Len(listed) + Headers(agents, services) <= avail =>
              /\ roll \subseteq ToSet(out)
              /\ Len(out) = Len(agents) + Len(listed) + Headers(agents, services)

LEMMA RosterFacts ==
    ASSUME NEW p, NEW agents, NEW services, NEW avail \in Int, NEW closed,
           RowList(agents), RowList(services),
           NEW R, R = rosterBlock(p, agents, services, avail, closed)
    PROVE  RosterIs(p, agents, services, avail, closed, R)
  <1> DEFINE listed == Unfolded(services, closed)
             head   == Headers(agents, services)
             total  == Len(agents) + Len(listed)
             hidden == Hidden(total, head, avail)
             gone   == ToSet(AtMost(hidden, FoldOrder(agents, listed)))
             Left(rows) == Only(rows, ToSet(rows) \ gone)
             h1 == IF head = 2 THEN <<Label("header", "agents", <<>>, TRUE)>> ELSE <<>>
             h2 == IF head = 0 THEN <<>> ELSE <<Heading(p, services, closed)>>
             mo == IF hidden > 0 THEN <<Label("more", "", <<>>, TRUE)>> ELSE <<>>
             la == Left(agents)
             ls == Left(listed)
             out == h1 \o la \o h2 \o ls \o mo
             room == NonNeg(avail)
  <1>1. R = AtMost(room, out)
    BY Zenon DEF rosterBlock, Heading
  <1>2. RowList(listed)
    BY SmallLists DEF Unfolded, RowList
  <1>3. /\ Len(agents) \in Nat /\ Len(services) \in Nat /\ Len(listed) \in Nat /\ total \in Nat
    BY <1>2, ListFacts DEF RowList
  <1>4. head \in {0, 1, 2} /\ room \in Nat /\ (avail > 0 => room = avail)
    BY HeadersFacts DEF NonNeg
  <1>5. /\ hidden \in 0 .. total
        /\ total + head <= avail => hidden = 0
        /\ total + head > avail /\ avail > head => hidden = ((total + head) + 1) - avail /\ hidden > 0
        /\ total + head > avail /\ avail <= head => hidden = total
    <2> HIDE DEF total, head
    <2>1. head \in Nat
      BY <1>4
    <2> QED BY <1>3, <2>1, HiddenFacts
  <1>6. /\ Len(la) + Len(ls) <= total - hidden
        /\ gone \subseteq ToSet(agents) \cup ToSet(listed)
        /\ (\E r \in gone : ~r.dim) => Loud(agents, TRUE) \cup Loud(listed, TRUE) \subseteq gone
        /\ hidden <= QuietRows(agents, listed) => \A r \in gone : r.dim
    <2>1. Booleans(agents) /\ Booleans(listed) /\ IsList(agents) /\ IsList(listed)
      BY <1>2 DEF RowList, Booleans
    <2> HIDE DEF listed, hidden
    <2> QED BY <1>5, <2>1, OrderFacts
  <1>7. /\ IsList(la) /\ ToSet(la) = ToSet(agents) \ gone
        /\ IsList(ls) /\ ToSet(ls) = ToSet(listed) \ gone
    <2> HIDE DEF listed, gone
    <2>1. ToSet(agents) \cap (ToSet(agents) \ gone) = ToSet(agents) \ gone
      OBVIOUS
    <2>2. ToSet(listed) \cap (ToSet(listed) \ gone) = ToSet(listed) \ gone
      OBVIOUS
    <2> QED BY <1>2, <2>1, <2>2, OnlyFacts DEF RowList
  <1>8. Len(la) \in Nat /\ Len(ls) \in Nat
    BY <1>7, ListFacts
  <1>9. hidden = 0 => Len(la) = Len(agents) /\ Len(ls) = Len(listed)
    <2> SUFFICES ASSUME hidden = 0 PROVE Len(la) = Len(agents) /\ Len(ls) = Len(listed)
      OBVIOUS
    <2>1. gone = {}
      <3>1. gone = ToSet(AtMost(0, FoldOrder(agents, listed)))
        OBVIOUS
      <3>2. AtMost(0, FoldOrder(agents, listed)) = <<>>
        <4>1. (IF 0 < Len(FoldOrder(agents, listed)) THEN 0 ELSE Len(FoldOrder(agents, listed))) <= 0
              \/ TRUE
          OBVIOUS
        <4> QED BY DEF AtMost
      <3> QED BY <3>1, <3>2, SmallLists
    <2>2. Len(Only(agents, ToSet(agents))) = Len(agents) /\ Len(Only(listed, ToSet(listed))) = Len(listed)
      BY <1>2, OnlyAll DEF RowList
    <2> HIDE DEF listed, gone
    <2>3. ToSet(agents) \ gone = ToSet(agents) /\ ToSet(listed) \ gone = ToSet(listed)
      BY <2>1
    <2> QED BY <2>2, <2>3
  <1>10. /\ IsList(h1) /\ Len(h1) = (IF head = 2 THEN 1 ELSE 0)
         /\ \A x \in ToSet(h1) : x.kind = "header" /\ x.to = <<>>
         /\ IsList(h2) /\ Len(h2) = (IF head = 0 THEN 0 ELSE 1)
         /\ \A x \in ToSet(h2) : x = Heading(p, services, closed)
         /\ IsList(mo) /\ Len(mo) = (IF hidden > 0 THEN 1 ELSE 0)
         /\ \A x \in ToSet(mo) : x.kind = "more" /\ x.to = <<>>
    <2> HIDE DEF head, hidden
    <2>1. IsList(h1) /\ Len(h1) = (IF head = 2 THEN 1 ELSE 0)
      BY SmallLists
    <2>2. ASSUME NEW x \in ToSet(h1) PROVE x.kind = "header" /\ x.to = <<>>
      <3>1. x = Label("header", "agents", <<>>, TRUE)
        BY <2>2, SmallLists
      <3> QED BY <3>1 DEF Label
    <2>3. IsList(h2) /\ Len(h2) = (IF head = 0 THEN 0 ELSE 1)
      BY SmallLists
    <2>4. \A x \in ToSet(h2) : x = Heading(p, services, closed)
      BY SmallLists
    <2>5. IsList(mo) /\ Len(mo) = (IF hidden > 0 THEN 1 ELSE 0)
      BY SmallLists
    <2>6. ASSUME NEW x \in ToSet(mo) PROVE x.kind = "more" /\ x.to = <<>>
      <3>1. x = Label("more", "", <<>>, TRUE)
        BY <2>6, SmallLists
      <3> QED BY <3>1 DEF Label
    <2> HIDE DEF h1, h2, mo
    <2> QED BY <2>1, <2>2, <2>3, <2>4, <2>5, <2>6
  <1>11. /\ IsList(out) /\ Len(out) = Len(h1) + Len(la) + Len(h2) + Len(ls) + Len(mo)
         /\ ToSet(out) = ToSet(h1) \cup ToSet(la) \cup ToSet(h2) \cup ToSet(ls) \cup ToSet(mo)
    <2>1. out = h1 \o la \o h2 \o ls \o mo
      OBVIOUS
    <2> HIDE DEF h1, la, h2, ls, mo, out
    <2>2. IsList(h1) /\ IsList(la) /\ IsList(h2) /\ IsList(ls) /\ IsList(mo)
      BY <1>7, <1>10
    <2>3. /\ IsList(h1 \o la \o h2 \o ls \o mo)
          /\ Len(h1 \o la \o h2 \o ls \o mo) = Len(h1) + Len(la) + Len(h2) + Len(ls) + Len(mo)
          /\ ToSet(h1 \o la \o h2 \o ls \o mo)
                = ToSet(h1) \cup ToSet(la) \cup ToSet(h2) \cup ToSet(ls) \cup ToSet(mo)
      BY <2>2, FiveParts
    <2> QED BY <2>1, <2>3, Zenon
  <1> HIDE DEF listed, head, hidden, gone, h1, h2, mo, la, ls, out, room
  <1>12. Len(out) = head + (Len(la) + Len(ls)) + (IF hidden > 0 THEN 1 ELSE 0)
    <2>1. /\ Len(h1) = (IF head = 2 THEN 1 ELSE 0)
          /\ Len(h2) = (IF head = 0 THEN 0 ELSE 1)
          /\ Len(mo) = (IF hidden > 0 THEN 1 ELSE 0)
      BY <1>10
    <2>2. Len(h1) + Len(h2) = head
      BY <1>4, <2>1
    <2>3. Len(out) = Len(h1) + Len(la) + Len(h2) + Len(ls) + Len(mo)
      BY <1>11
    <2>4. Len(h1) \in Nat /\ Len(h2) \in Nat /\ Len(mo) \in Nat
      BY <2>1
    <2> DEFINE a == Len(h1)
               b == Len(la)
               c == Len(h2)
               d == Len(ls)
               e == Len(mo)
    <2>5. /\ a \in Nat /\ b \in Nat /\ c \in Nat /\ d \in Nat /\ e \in Nat
          /\ a + c = head /\ Len(out) = a + b + c + d + e /\ e = IF hidden > 0 THEN 1 ELSE 0
      BY <1>8, <2>1, <2>2, <2>3, <2>4
    <2> HIDE DEF a, b, c, d, e
    <2>6. a + b + c + d + e = head + (b + d) + e
      BY <2>5
    <2> QED BY <2>5, <2>6, Zenon DEF b, d
  <1>13. /\ IsList(R) /\ Len(R) <= room /\ ToSet(R) \subseteq ToSet(out)
    <2>1. /\ IsList(R) /\ Len(R) = (IF room < Len(out) THEN room ELSE Len(out))
          /\ ToSet(R) \subseteq ToSet(out)
      BY <1>1, <1>4, <1>11, AtMostFacts
    <2>2. Len(out) \in Nat
      BY <1>11, ListFacts
    <2> QED BY <1>4, <2>1, <2>2
  <1> DEFINE roll == ToSet(agents) \cup ToSet(listed)
  <1>14. avail > head => Len(out) <= room /\ ToSet(R) = ToSet(out)
    <2> SUFFICES ASSUME avail > head PROVE Len(out) <= room /\ ToSet(R) = ToSet(out)
      OBVIOUS
    <2>1. avail > 0 /\ room = avail
      BY <1>4
    <2>2. CASE total + head <= avail
      <3>1. hidden = 0 /\ Len(la) + Len(ls) = total
        BY <1>5, <1>9, <2>2
      <3>2. Len(out) = head + total
        BY <1>3, <1>4, <1>12, <3>1
      <3>3. Len(out) <= room
        BY <1>3, <1>4, <2>1, <2>2, <3>2
      <3> QED BY <1>1, <1>4, <1>11, <3>3, AtMostAll
    <2>3. CASE total + head > avail
      <3>1. hidden = ((total + head) + 1) - avail /\ hidden > 0
        BY <1>5, <2>3
      <3>2. Len(la) + Len(ls) <= total - hidden
        BY <1>6
      <3> DEFINE both == Len(la) + Len(ls)
      <3>3. both \in Nat
        BY <1>8
      <3> HIDE DEF both, total
      <3>4. Len(out) = head + both + 1 /\ both <= total - hidden
        BY <1>12, <3>1, <3>2 DEF both
      <3>5. Len(out) <= room
        BY <1>3, <1>4, <2>1, <3>1, <3>3, <3>4
      <3> QED BY <1>1, <1>4, <1>11, <3>5, AtMostAll
    <2> QED BY <1>3, <1>4, <2>2, <2>3
  <1>15. \A x \in ToSet(h1) \cup ToSet(h2) \cup ToSet(mo) : x \notin roll
    BY <1>2, <1>10 DEF RowList, Heading, Label
  <1>16. avail > head => roll \cap ToSet(R) = roll \ gone
    BY <1>7, <1>11, <1>14, <1>15
  <1>17. avail <= head /\ total + head > avail => roll \cap ToSet(R) = {}
    <2> SUFFICES ASSUME avail <= head, total + head > avail PROVE roll \cap ToSet(R) = {}
      OBVIOUS
    <2>1. hidden = total
      BY <1>5
    <2>2. Len(la) = 0 /\ Len(ls) = 0
      BY <1>3, <1>6, <1>8, <2>1
    <2>3. ToSet(la) = {} /\ ToSet(ls) = {}
      <3>1. DOMAIN la = 1 .. 0 /\ DOMAIN ls = 1 .. 0
        BY <1>7, <2>2, ListFacts
      <3> QED BY <3>1 DEF ToSet
    <2> QED BY <1>11, <1>13, <1>15, <2>3
  \* no more rows than there are
  <1>18. \A x \in ToSet(R) : \/ x \in roll
                             \/ x.kind \in {"header", "more"} /\ x.to = <<>>
                             \/ x = Heading(p, services, closed)
    BY <1>7, <1>10, <1>11, <1>13
  <1>19. total + head <= avail => roll \subseteq ToSet(R) /\ Len(R) = total + head
    <2> SUFFICES ASSUME total + head <= avail PROVE roll \subseteq ToSet(R) /\ Len(R) = total + head
      OBVIOUS
    <2>1. hidden = 0 /\ Len(la) + Len(ls) = total /\ Len(la) = Len(agents) /\ Len(ls) = Len(listed)
      BY <1>5, <1>9
    <2>2. Len(out) = total + head
      BY <1>3, <1>4, <1>12, <2>1
    <2>3. room = avail \/ (room = 0 /\ total + head = 0)
      BY <1>3, <1>4 DEF room, NonNeg
    <2>4. Len(out) <= room
      BY <1>3, <1>4, <2>2, <2>3
    <2>5. ToSet(R) = ToSet(out) /\ Len(R) = Len(out)
      <3>1. ToSet(R) = ToSet(out)
        BY <1>1, <1>4, <1>11, <2>4, AtMostAll
      <3>2. Len(R) = (IF room < Len(out) THEN room ELSE Len(out))
        BY <1>1, <1>4, <1>11, AtMostFacts
      <3>3. Len(out) \in Nat
        BY <1>11, ListFacts
      <3> QED BY <1>4, <2>4, <3>1, <3>2, <3>3
    <2>6. gone = {}
      <3>1. AtMost(0, FoldOrder(agents, listed)) = <<>>
        BY DEF AtMost
      <3> QED BY <2>1, <3>1, SmallLists DEF gone
    <2> QED BY <1>7, <1>11, <2>2, <2>5, <2>6
  \* quiet rows first
  <1>20. (\E r \in roll : r \notin ToSet(R) /\ ~r.dim) => \A r \in roll \cap ToSet(R) : ~r.dim
    <2> SUFFICES ASSUME NEW r \in roll, r \notin ToSet(R), ~r.dim,
                        NEW q \in roll \cap ToSet(R), q.dim
                 PROVE  FALSE
      BY <1>2 DEF RowList
    <2>1. avail > head
      BY <1>3, <1>4, <1>17, <1>19
    <2>2. r \in gone /\ q \notin gone
      BY <1>16, <2>1
    <2>3. q \in Loud(agents, TRUE) \cup Loud(listed, TRUE)
      BY <1>2 DEF Loud, RowList
    <2> QED BY <1>6, <2>2, <2>3
  \* the cap leaves room for the signals
  <1>21. ASSUME avail >= signalCap(agents, services), NEW r \in roll, ~r.dim
         PROVE  r \in ToSet(R)
    <2> DEFINE loud == Len(Only(agents, Loud(agents, FALSE))) + Len(Only(listed, Loud(listed, FALSE)))
               signal == Signals(agents \o services)
    <2>1. loud + QuietRows(agents, listed) = total
      <3>1. /\ Len(Only(agents, Loud(agents, TRUE))) + Len(Only(agents, Loud(agents, FALSE))) = Len(agents)
            /\ Len(Only(listed, Loud(listed, TRUE))) + Len(Only(listed, Loud(listed, FALSE))) = Len(listed)
        BY <1>2, HalfFacts DEF RowList
      <3>2. /\ Len(Only(agents, Loud(agents, TRUE))) \in Nat /\ Len(Only(agents, Loud(agents, FALSE))) \in Nat
            /\ Len(Only(listed, Loud(listed, TRUE))) \in Nat /\ Len(Only(listed, Loud(listed, FALSE))) \in Nat
        BY <1>2, OnlyFacts, ListFacts DEF RowList
      <3> DEFINE a == Len(Only(agents, Loud(agents, TRUE)))
                 b == Len(Only(agents, Loud(agents, FALSE)))
                 c == Len(Only(listed, Loud(listed, TRUE)))
                 d == Len(Only(listed, Loud(listed, FALSE)))
      <3>3. a + b = Len(agents) /\ c + d = Len(listed) /\ loud = b + d /\ QuietRows(agents, listed) = a + c
        BY <3>1 DEF QuietRows
      <3>4. a \in Nat /\ b \in Nat /\ c \in Nat /\ d \in Nat
        BY <3>2
      <3> HIDE DEF a, b, c, d, loud
      <3>5. (b + d) + (a + c) = (a + b) + (c + d)
        BY <3>4
      <3> QED BY <3>3, <3>5
    <2>2. loud <= signal /\ signal \in Nat /\ loud \in Nat /\ QuietRows(agents, listed) \in Nat
      <3> DEFINE U == {x \in ToSet(agents \o services) : ~x.dim}
      <3>1. ToSet(agents \o services) = ToSet(agents) \cup ToSet(services) /\ IsList(agents \o services)
        BY JoinFacts DEF RowList
      <3>2. signal = Len(Only(agents \o services, U))
        BY DEF Signals
      <3>3. signal = Len(Only(agents, U)) + Len(Only(services, U))
        BY <3>2, OnlyJoined DEF RowList
      <3>4. Only(agents, U) = Only(agents, Loud(agents, FALSE))
        BY <3>1, OnlySame DEF Loud, RowList
      <3>5. Only(services, U) = Only(services, Loud(services, FALSE))
        BY <3>1, OnlySame DEF Loud, RowList
      <3>6. Len(Only(listed, Loud(listed, FALSE))) <= Len(Only(services, Loud(services, FALSE)))
        <4>1. CASE closed
          <5>1. listed = <<>>
            BY <4>1 DEF listed, Unfolded
          <5>2. Len(Only(listed, Loud(listed, FALSE))) = 0
            BY <5>1, OnlyNone
          <5>3. Len(Only(services, Loud(services, FALSE))) \in Nat
            BY OnlyFacts, ListFacts DEF RowList
          <5> DEFINE k == Len(Only(services, Loud(services, FALSE)))
          <5>4. k \in Nat
            BY <5>3
          <5> HIDE DEF k
          <5>5. 0 <= k
            BY <5>4
          <5> QED BY <5>2, <5>5 DEF k
        <4>2. CASE ~closed
          <5>1. listed = services
            BY <4>2 DEF listed, Unfolded
          <5> DEFINE k == Len(Only(services, Loud(services, FALSE)))
          <5>2. k \in Nat
            BY OnlyFacts, ListFacts DEF RowList
          <5>3. Len(Only(listed, Loud(listed, FALSE))) = k
            BY <5>1
          <5> HIDE DEF k
          <5>4. k <= k
            BY <5>2
          <5> QED BY <5>3, <5>4 DEF k
        <4> QED BY <4>1, <4>2
      <3>7. /\ Len(Only(agents, Loud(agents, TRUE))) \in Nat /\ Len(Only(agents, Loud(agents, FALSE))) \in Nat
            /\ Len(Only(listed, Loud(listed, TRUE))) \in Nat /\ Len(Only(listed, Loud(listed, FALSE))) \in Nat
            /\ Len(Only(services, Loud(services, FALSE))) \in Nat
        BY <1>2, OnlyFacts, ListFacts DEF RowList
      <3> DEFINE a == Len(Only(agents, Loud(agents, TRUE)))
                 b == Len(Only(agents, Loud(agents, FALSE)))
                 c == Len(Only(listed, Loud(listed, TRUE)))
                 d == Len(Only(listed, Loud(listed, FALSE)))
                 e == Len(Only(services, Loud(services, FALSE)))
      <3>8. signal = b + e /\ loud = b + d /\ QuietRows(agents, listed) = a + c /\ d <= e
        BY <3>3, <3>4, <3>5, <3>6, Zenon DEF QuietRows
      <3>9. a \in Nat /\ b \in Nat /\ c \in Nat /\ d \in Nat /\ e \in Nat
        BY <3>7
      <3> HIDE DEF a, b, c, d, e, loud, signal
      <3> QED BY <3>8, <3>9
    <2>3. loud > 0
      <3>1. r \in Loud(agents, FALSE) \/ r \in Loud(listed, FALSE)
        BY <1>2, <1>21 DEF Loud, RowList
      <3>2. r \in ToSet(Only(agents, Loud(agents, FALSE))) \/ r \in ToSet(Only(listed, Loud(listed, FALSE)))
        BY <1>2, <3>1, OnlyFacts DEF Loud, RowList
      <3>3. \A s : IsList(s) /\ (\E x : x \in ToSet(s)) => Len(s) \in Nat \ {0}
        BY SmallLists, EndFacts, ListFacts
      <3>4. /\ IsList(Only(agents, Loud(agents, FALSE))) /\ IsList(Only(listed, Loud(listed, FALSE)))
        BY <1>2, OnlyFacts DEF RowList
      <3>5. /\ Len(Only(agents, Loud(agents, FALSE))) \in Nat
            /\ Len(Only(listed, Loud(listed, FALSE))) \in Nat
        BY <3>4, ListFacts
      <3>6. \/ Len(Only(agents, Loud(agents, FALSE))) \in Nat \ {0}
            \/ Len(Only(listed, Loud(listed, FALSE))) \in Nat \ {0}
        BY <3>2, <3>3, <3>4
      <3> DEFINE b == Len(Only(agents, Loud(agents, FALSE)))
                 d == Len(Only(listed, Loud(listed, FALSE)))
      <3>7. b \in Nat /\ d \in Nat /\ (b \in Nat \ {0} \/ d \in Nat \ {0}) /\ loud = b + d
        BY <3>5, <3>6
      <3> HIDE DEF b, d, loud
      <3> QED BY <3>7
    <2> HIDE DEF loud, signal, total
    <2>4. /\ signalCap(agents, services) =
                (head + signal) + (IF signal < Len(agents) + Len(services) THEN 1 ELSE 0)
          /\ signal > 0
      <3>1. signal # 0 /\ signal > 0
        BY <2>2, <2>3
      <3> QED BY <1>4, <2>2, <3>1 DEF signalCap, signal, head
    <2>5. avail > head
      BY <1>4, <1>21, <2>2, <2>4
    <2>6. CASE total + head <= avail
      BY <1>19, <2>6
    <2>7. CASE total + head > avail
      <3>1. hidden = ((total + head) + 1) - avail
        BY <1>5, <2>5, <2>7
      <3>2. total <= Len(agents) + Len(services)
        <4>1. Len(listed) <= Len(services)
          BY <1>3, SmallLists DEF listed, Unfolded
        <4> QED BY <1>3, <4>1 DEF total
      <3>3. signal < Len(agents) + Len(services)
        BY <1>3, <1>4, <1>21, <2>2, <2>4, <2>7, <3>2
      <3>4. avail >= (head + signal) + 1
        BY <1>21, <2>4, <3>3
      <3>5. hidden <= QuietRows(agents, listed)
        BY <1>3, <1>4, <2>1, <2>2, <3>1, <3>4
      <3>6. r \notin gone
        BY <1>6, <1>21, <3>5
      <3> QED BY <1>16, <2>5, <3>6
    <2> QED BY <1>3, <1>4, <2>6, <2>7
  <1>22. total = Len(agents) + Len(Unfolded(services, closed)) /\ head = Headers(agents, services)
         /\ roll = ToSet(agents) \cup ToSet(Unfolded(services, closed)) /\ room = NonNeg(avail)
    BY DEF listed, head, room
  <1> HIDE DEF total, roll
  <1>23. \A r \in roll : avail >= signalCap(agents, services) /\ ~r.dim => r \in ToSet(R)
    BY <1>21
  <1> QED BY <1>13, <1>18, <1>19, <1>20, <1>22, <1>23, Zenon DEF RosterIs

-----------------------------------------------------------------------------
(* What a frame is made of.                                                *)

NatList(s) == IsList(s) /\ \A x \in ToSet(s) : x \in Nat

LEMMA NatListFacts ==
    /\ NatList(<<>>) /\ \A x \in Nat : NatList(<<x>>)
    /\ \A s, t : NatList(s) /\ NatList(t) => NatList(s \o t)
    /\ \A s, c : NatList(s) => NatList(If(c, s))
  <1>1. NatList(<<>>)
    BY SmallLists DEF NatList
  <1>2. \A x \in Nat : NatList(<<x>>)
    BY SmallLists DEF NatList
  <1>3. ASSUME NEW s, NEW t, NatList(s), NatList(t) PROVE NatList(s \o t)
    BY <1>3, JoinFacts DEF NatList
  <1>4. ASSUME NEW s, NEW c, NatList(s) PROVE NatList(If(c, s))
    BY <1>1, <1>4 DEF If
  <1> QED BY <1>1, <1>2, <1>3, <1>4

\* The segments of a meta line have widths.
LEMMA MetaFacts ==
    ASSUME NEW in, NEW s
    PROVE  NatList(Meta(in, s))
  <1>1. \A g \in Segments : Cells[g] \in Nat
    BY WidthsAssumption
  <1>2. /\ Cells["branch"] \in Nat /\ Cells["churn"] \in Nat /\ Cells["pending"] \in Nat
        /\ Cells["dev"] \in Nat /\ Cells["detail"] \in Nat /\ Cells["stale"] \in Nat
        /\ Cells["stopped"] \in Nat
    BY <1>1 DEF Segments
  <1> DEFINE churn == s.p \in DOMAIN in.fleet /\ in.fleet[s.p].churn
             f     == in.fleet[s.p]
             w     == Cells["branch"] + (IF churn THEN 2 + Cells["churn"] ELSE 0)
             own   == If(in.detail[1], <<Cells["detail"]>>)
             other == If(s.p \in DOMAIN in.fleet, FleetMeta(f))
  <1>3. Meta(in, s) = If(s.branch, <<w>>)
                      \o IF s.p = in.self /\ in.detail # <<>> THEN own ELSE other
    BY Zenon DEF Meta
  <1>4. w \in Nat
    <2>1. CASE churn
      BY <1>2, <2>1
    <2>2. CASE ~churn
      BY <1>2, <2>2
    <2> QED BY <2>1, <2>2
  <1>5. NatList(own)
    BY <1>2, NatListFacts
  <1>6. NatList(FleetMeta(f))
    <2> DEFINE a == If(f.token \in {"stale", "stopped"}, <<Cells[f.token]>>)
               b == If(f.pending, <<Cells["pending"]>>)
               c == If(f.dev, <<Cells["dev"]>>)
    <2>1. NatList(a)
      BY <1>2, NatListFacts DEF If
    <2>2. NatList(b) /\ NatList(c)
      BY <1>2, NatListFacts
    <2>3. FleetMeta(f) = (a \o b) \o c
      BY DEF FleetMeta
    <2> HIDE DEF a, b, c
    <2> QED BY <2>1, <2>2, <2>3, NatListFacts
  <1>7. NatList(other)
    BY <1>6, NatListFacts
  <1> HIDE DEF w, own, other
  <1>8. NatList(If(s.branch, <<w>>))
    BY <1>4, NatListFacts
  <1> QED BY <1>3, <1>5, <1>7, <1>8, NatListFacts

LEMMA WrapSteps ==
    ASSUME NEW widths, Len(widths) \in Nat
    PROVE  \E line :
              /\ line[0] = [rows |-> 0, cur |-> 0]
              /\ wrapSegments(widths) = line[Len(widths)].rows + (IF line[Len(widths)].cur = 0 THEN 0 ELSE 1)
              /\ \A i \in 1 .. Len(widths) : line[i] = Add(line[i - 1], widths[i])
  <1> DEFINE n == Len(widths)
             first == [rows |-> 0, cur |-> 0]
             next(c, i) == Add(c, widths[i])
             line[i \in 0 .. n] == IF i = 0 THEN first ELSE next(line[i - 1], i)
             Runs(g, k) == g = [i \in 0 .. k |-> IF i = 0 THEN first ELSE next(g[i - 1], i)]
  <1>1. wrapSegments(widths) = line[n].rows + (IF line[n].cur = 0 THEN 0 ELSE 1)
    BY DEF wrapSegments
  <1>2. line = CHOOSE g : Runs(g, n)
    OBVIOUS
  <1> HIDE DEF line, next, first
  <1>3. ASSUME NEW k \in Nat, k # 0, \E g : Runs(g, k - 1)
        PROVE  \E g : Runs(g, k)
    <2>1. PICK g : Runs(g, k - 1)
      BY <1>3
    <2> DEFINE h == [i \in 0 .. k |-> IF i < k THEN g[i] ELSE next(g[k - 1], k)]
    <2>2. ASSUME NEW i \in 0 .. k
          PROVE  h[i] = IF i = 0 THEN first ELSE next(h[i - 1], i)
      <3>1. CASE i < k
        <4>1. i \in 0 .. k - 1 /\ h[i] = g[i] /\ (i # 0 => h[i - 1] = g[i - 1])
          BY <1>3, <3>1
        <4>2. g[i] = IF i = 0 THEN first ELSE next(g[i - 1], i)
          BY <2>1, <4>1
        <4> QED BY <4>1, <4>2
      <3>2. CASE i = k
        BY <1>3, <3>2
      <3> QED BY <3>1, <3>2
    <2>3. h = [i \in 0 .. k |-> h[i]]
      OBVIOUS
    <2> HIDE DEF h
    <2>4. Runs(h, k)
      BY <2>2, <2>3
    <2> QED BY <2>4
  <1>4. \A k \in Nat : \E g : Runs(g, k)
    <2>1. Runs([i \in 0 .. 0 |-> first], 0)
      OBVIOUS
    <2> DEFINE Bad == {k \in Nat : ~\E g : Runs(g, k)}
    <2> HIDE DEF Runs
    <2> SUFFICES ASSUME Bad # {} PROVE FALSE
      OBVIOUS
    <2>2. PICK k \in Bad : \A j \in Bad : k <= j
      <3>1. Bad \in SUBSET Nat
        OBVIOUS
      <3> HIDE DEF Bad
      <3> QED BY <3>1, LeastElement
    <2>3. k # 0
      BY <2>1
    <2>4. k - 1 \in Nat /\ k - 1 \notin Bad
      BY <2>2, <2>3
    <2> QED BY <1>3, <2>3, <2>4
  <1>5. Runs(line, n)
    <2>1. n \in Nat
      OBVIOUS
    <2> HIDE DEF Runs, n
    <2> QED BY <1>2, <1>4, <2>1, Zenon
  <1>6. \A i \in 0 .. n : line[i] = IF i = 0 THEN first ELSE next(line[i - 1], i)
    BY <1>5
  <1>7. line[0] = first /\ \A i \in 1 .. n : line[i] = next(line[i - 1], i)
    <2>1. 0 \in 0 .. n /\ \A i \in 1 .. n : i \in 0 .. n /\ i # 0
      OBVIOUS
    <2> QED BY <1>6, <2>1, Zenon
  <1> HIDE DEF line
  <1> QED BY <1>1, <1>7 DEF next, first

LEMMA WrapFacts ==
    ASSUME NEW widths, NatList(widths)
    PROVE  wrapSegments(widths) \in Nat
  <1> DEFINE n == Len(widths)
  <1>1. n \in Nat /\ DOMAIN widths = 1 .. n
    BY ListFacts DEF NatList
  <1>2. \A i \in 1 .. n : widths[i] \in Nat
    BY <1>1 DEF NatList, ToSet
  <1>3. PICK line : /\ line[0] = [rows |-> 0, cur |-> 0]
                    /\ wrapSegments(widths) = line[n].rows + (IF line[n].cur = 0 THEN 0 ELSE 1)
                    /\ \A i \in 1 .. n : line[i] = Add(line[i - 1], widths[i])
    BY <1>1, WrapSteps
  <1> HIDE DEF n
  <1> DEFINE Bad == {i \in 0 .. n : line[i] \notin [rows : Nat, cur : Nat]}
  <1>4. Bad \in SUBSET (0 .. n) /\ 0 \notin Bad
    BY <1>3
  <1>5. \A i \in 1 .. n : i - 1 \notin Bad => i \notin Bad
    <2> SUFFICES ASSUME NEW i \in 1 .. n, i - 1 \notin Bad PROVE line[i] \in [rows : Nat, cur : Nat]
      OBVIOUS
    <2>1. i - 1 \in 0 .. n
      BY <1>1
    <2>2. line[i - 1] \in [rows : Nat, cur : Nat] /\ widths[i] \in Nat
      BY <1>2, <2>1
    <2>3. line[i] = Add(line[i - 1], widths[i])
      BY <1>3
    <2>4. ASSUME NEW c \in [rows : Nat, cur : Nat], NEW w \in Nat PROVE Add(c, w) \in [rows : Nat, cur : Nat]
      BY WidthsAssumption DEF Add
    <2> QED BY <2>2, <2>3, <2>4
  <1>6. Bad = {}
    <2> HIDE DEF Bad
    <2> QED BY <1>1, <1>4, <1>5, FirstFailure
  <1>7. line[n] \in [rows : Nat, cur : Nat]
    BY <1>1, <1>6
  <1> QED BY <1>3, <1>7

(* Rows that lead somewhere in a project.                                  *)
RowOf(p, r) ==
    /\ r.kind = "row" /\ r.dim \in BOOLEAN
    /\ r.to[1] = p /\ \A q : r.to # <<q, "svcfold">>
RowsOf(p, rows) == IsList(rows) /\ \A r \in ToSet(rows) : RowOf(p, r)

LEMMA MadeRows ==
    /\ \A s, w : RowOf(s.p, WindowRow(s, w))
    /\ \A s, e : RowOf(s.p, CacheRow(s, e))
    /\ \A s, e : RowOf(s.p, ServiceRow(s, e))
    /\ \A s, e : RowOf(s.p, SidecarRow(s, e))
  <1>1. ASSUME NEW p, NEW name, NEW to, NEW dim \in BOOLEAN, NEW spin,
               to[1] = p, \A q : to # <<q, "svcfold">>
        PROVE  RowOf(p, Row(name, to, dim, spin))
    BY <1>1 DEF RowOf, Row
  <1>2. \A a, b, c, q : <<a, b, c>> # <<q, "svcfold">>
    OBVIOUS
  <1>3. ASSUME NEW s, NEW w PROVE RowOf(s.p, WindowRow(s, w))
    <2>1. (~windowSignal(w)) \in BOOLEAN
      OBVIOUS
    <2>2. <<s.p, "window", w.id>>[1] = s.p
      OBVIOUS
    <2> QED BY <1>1, <1>2, <2>1, <2>2, Zenon DEF WindowRow
  <1>4. ASSUME NEW s, NEW e PROVE RowOf(s.p, CacheRow(s, e))
    <2> DEFINE door == IF AgentLive(e.state) THEN "agent" ELSE "dead"
               to == IF e.name \in Viewed(s) THEN <<s.p, "window", Viewer(s, e.name)>>
                     ELSE <<s.p, door, e.name>>
    <2>1. (~AgentSignal(e.state)) \in BOOLEAN
      OBVIOUS
    <2>2. \A x, y : <<s.p, x, y>>[1] = s.p
      OBVIOUS
    <2> HIDE DEF door
    <2>3. to[1] = s.p /\ \A q : to # <<q, "svcfold">>
      BY <1>2, <2>2, Zenon
    <2> DEFINE quiet == ~AgentSignal(e.state)
    <2>4. CacheRow(s, e) = Row(e.name, to, quiet, e.state = "working") /\ quiet \in BOOLEAN
      BY <2>1, Zenon DEF CacheRow, door
    <2> HIDE DEF to, quiet
    <2>5. RowOf(s.p, Row(e.name, to, quiet, e.state = "working"))
      BY <1>1, <2>3, <2>4
    <2> QED BY <2>4, <2>5, Zenon
  <1>5. ASSUME NEW s, NEW e PROVE RowOf(s.p, ServiceRow(s, e))
    <2>1. (e.state # "exited") \in BOOLEAN
      OBVIOUS
    <2>2. \A x, y : <<s.p, x, y>>[1] = s.p
      OBVIOUS
    <2> QED BY <1>1, <1>2, <2>1, <2>2, Zenon DEF ServiceRow
  <1>6. ASSUME NEW s, NEW e PROVE RowOf(s.p, SidecarRow(s, e))
    <2> DEFINE to == IF e.name = "dns" THEN <<s.p, "egress">> ELSE <<s.p>>
    <2>1. (e.state = "running") \in BOOLEAN
      OBVIOUS
    <2>2. \A q : <<s.p, "egress">> # <<q, "svcfold">> /\ <<s.p>> # <<q, "svcfold">>
      OBVIOUS
    <2>3. <<s.p, "egress">>[1] = s.p /\ <<s.p>>[1] = s.p
      OBVIOUS
    <2>4. to[1] = s.p /\ \A q : to # <<q, "svcfold">>
      BY <2>2, <2>3, Zenon
    <2> DEFINE quiet == e.state = "running"
    <2>5. SidecarRow(s, e) = Row(e.name, to, quiet, FALSE) /\ quiet \in BOOLEAN
      BY <2>1, Zenon DEF SidecarRow
    <2> HIDE DEF to, quiet
    <2>6. RowOf(s.p, Row(e.name, to, quiet, FALSE))
      BY <1>1, <2>4, <2>5
    <2> QED BY <2>5, <2>6, Zenon
  <1> QED BY <1>3, <1>4, <1>5, <1>6

LEMMA GroupRows ==
    ASSUME NEW s, NEW entries, IsList(s.wins), IsList(entries)
    PROVE  RowsOf(s.p, agentRows(s, entries)) /\ RowsOf(s.p, serviceRows(s, entries))
  <1>1. RowsOf(s.p, agentRows(s, entries))
    <2>1. IsList(agentRows(s, entries)) /\ \A r \in ToSet(agentRows(s, entries)) :
             (\E w : r = WindowRow(s, w)) \/ (\E e : r = CacheRow(s, e))
      BY AgentRowsAre
    <2> QED BY <2>1, MadeRows, Zenon DEF RowsOf
  <1>2. RowsOf(s.p, serviceRows(s, entries))
    <2> DEFINE svcs == OfKind(entries, "svc", AgentStates)
               carz == OfKind(entries, "sidecar", SidecarStates)
               of(e)  == ServiceRow(s, e)
               for(e) == SidecarRow(s, e)
               first  == [i \in DOMAIN svcs |-> of(svcs[i])]
               last   == [i \in DOMAIN carz |-> for(carz[i])]
    <2>1. serviceRows(s, entries) = first \o last
      BY DEF serviceRows
    <2>2. IsList(svcs) /\ IsList(carz)
      BY OnlyFacts DEF OfKind
    <2>m. \A e : RowOf(s.p, of(e)) /\ RowOf(s.p, for(e))
      BY MadeRows
    <2> HIDE DEF svcs, carz, of, for
    <2>3. first = [i \in DOMAIN svcs |-> first[i]] /\ last = [i \in DOMAIN carz |-> last[i]]
      OBVIOUS
    <2>4. \A i \in DOMAIN svcs : first[i] = of(svcs[i])
      OBVIOUS
    <2>5. \A i \in DOMAIN carz : last[i] = for(carz[i])
      OBVIOUS
    <2> HIDE DEF first, last
    <2>6. IsList(first) /\ \A r \in ToSet(first) : RowOf(s.p, r)
      <3>1. IsList(first) /\ ToSet(first) = {first[i] : i \in DOMAIN svcs}
        BY <2>2, <2>3, ListMade
      <3> QED BY <2>m, <2>4, <3>1
    <2>7. IsList(last) /\ \A r \in ToSet(last) : RowOf(s.p, r)
      <3>1. IsList(last) /\ ToSet(last) = {last[i] : i \in DOMAIN carz}
        BY <2>2, <2>3, ListMade
      <3> QED BY <2>m, <2>5, <3>1
    <2>8. IsList(first \o last) /\ ToSet(first \o last) = ToSet(first) \cup ToSet(last)
      BY <2>6, <2>7, JoinFacts
    <2> QED BY <2>1, <2>6, <2>7, <2>8 DEF RowsOf
  <1> QED BY <1>1, <1>2

(* The block of a project, and what a frame has of blocks.                 *)
BlockOf(b) ==
    /\ b.p \in All /\ b.meta \in Nat
    /\ RowsOf(b.p, b.agents) /\ RowsOf(b.p, b.services)

LaidOut(lay) ==
    /\ lay.limit \in Nat
    /\ IsList(lay.blocks) /\ IsList(lay.cold)
    /\ \A i \in 1 .. Len(lay.blocks) : BlockOf(lay.blocks[i])
    /\ \A i, j \in 1 .. Len(lay.blocks) : lay.blocks[i].p = lay.blocks[j].p => i = j

LEMMA BlockFacts ==
    ASSUME SidebarInv, NEW p \in All
    PROVE  BlockOf(frameBlock(Input, Session(p)))
  <1> DEFINE s == Session(p)
             es == Entries(Input, s)
             b == frameBlock(Input, s)
  <1>1. s.p = p /\ IsList(s.wins)
    BY DEF Session, SidebarInv, WindowsInv
  <1>2. IsList(es)
    <2>1. Input.agents = cache.agents
      BY DEF Input
    <2>2. es = IF p \in DOMAIN cache.agents THEN cache.agents[p] ELSE <<>>
      BY <1>1, <2>1 DEF Entries
    <2> QED BY <2>2, SmallLists DEF SidebarInv, CacheInv
  <1>3. wrapSegments(Meta(Input, s)) \in Nat
    BY MetaFacts, WrapFacts
  <1>4. /\ b.p = s.p /\ b.agents = agentRows(s, es) /\ b.services = serviceRows(s, es)
        /\ b.meta = wrapSegments(Meta(Input, s))
    BY DEF frameBlock
  <1> HIDE DEF s, es, b
  <1>5. RowsOf(s.p, agentRows(s, es)) /\ RowsOf(s.p, serviceRows(s, es))
    BY <1>1, <1>2, GroupRows
  <1>6. BlockOf(b)
    BY <1>1, <1>3, <1>4, <1>5 DEF BlockOf
  <1> QED BY <1>6 DEF b, s

LEMMA BlocksAre ==
    ASSUME SidebarInv
    PROVE  /\ IsList(Blocks(Input))
           /\ \A i \in 1 .. Len(Blocks(Input)) : BlockOf(Blocks(Input)[i])
           /\ \A i, j \in 1 .. Len(Blocks(Input)) : Blocks(Input)[i].p = Blocks(Input)[j].p => i = j
           /\ IsList(Cold(Input)) /\ ToSet(Cold(Input)) \subseteq All
  <1> DEFINE shown == Only(Projects, live)
             n == Len(shown)
             bs == Blocks(Input)
  <1>1. IsList(Projects) /\ IsInjective(Projects)
    BY FleetAssumption
  <1>2. /\ IsList(shown) /\ ToSet(shown) = All \cap live
        /\ \E f : Chosen(f, shown, Projects, Len(Projects), live)
    BY <1>1, OnlyFacts, OnlyChosen DEF All
  <1>3. PICK f : Chosen(f, shown, Projects, Len(Projects), live)
    BY <1>2
  <1>4. /\ n \in Nat /\ DOMAIN shown = 1 .. n
        /\ Len(Projects) \in Nat /\ DOMAIN Projects = 1 .. Len(Projects)
    BY <1>1, <1>2, ListFacts
  <1>5. \A i, j \in 1 .. n : shown[i] = shown[j] => i = j
    <2> SUFFICES ASSUME NEW i \in 1 .. n, NEW j \in 1 .. n, shown[i] = shown[j] PROVE i = j
      OBVIOUS
    <2>1. /\ f[i] \in 1 .. Len(Projects) /\ shown[i] = Projects[f[i]]
          /\ f[j] \in 1 .. Len(Projects) /\ shown[j] = Projects[f[j]]
      BY <1>3 DEF Chosen
    <2>2. f[i] = f[j]
      BY <1>1, <1>4, <2>1 DEF IsInjective
    <2>3. /\ i < j => f[i] < f[j]
          /\ j < i => f[j] < f[i]
      BY <1>3 DEF Chosen
    <2> QED BY <1>4, <2>1, <2>2, <2>3
  <1>6. /\ DOMAIN Input.sessions = 1 .. n
        /\ \A i \in 1 .. n : Input.sessions[i] = Session(shown[i])
    BY <1>4 DEF Input
  <1>7. bs = [i \in 1 .. n |-> frameBlock(Input, Input.sessions[i])]
    BY <1>6 DEF Blocks
  <1> HIDE DEF shown, n, bs
  <1>8. /\ bs = [i \in DOMAIN shown |-> bs[i]]
        /\ \A i \in 1 .. n : bs[i] = frameBlock(Input, Session(shown[i]))
    BY <1>4, <1>6, <1>7
  <1>9. IsList(bs) /\ Len(bs) = n
    BY <1>2, <1>8, ListMade DEF n
  <1>10. \A i \in 1 .. n : BlockOf(bs[i]) /\ bs[i].p = shown[i]
    <2> SUFFICES ASSUME NEW i \in 1 .. n PROVE BlockOf(bs[i]) /\ bs[i].p = shown[i]
      OBVIOUS
    <2>1. shown[i] \in All
      BY <1>2, <1>4 DEF ToSet
    <2>2. frameBlock(Input, Session(shown[i])).p = shown[i]
      BY DEF frameBlock, Session
    <2> QED BY <1>8, <2>1, <2>2, BlockFacts
  <1>11. IsList(Cold(Input)) /\ ToSet(Cold(Input)) \subseteq All
    BY <1>1, OnlyFacts DEF Cold, All
  <1> QED BY <1>5, <1>9, <1>10, <1>11 DEF bs

LEMMA LayoutFacts ==
    ASSUME SidebarInv
    PROVE  /\ LaidOut(Layout(Input))
           /\ Layout(Input).limit = NonNeg(height - 1)
           /\ Layout(Input).blocks = Blocks(Input) /\ Layout(Input).cold = Cold(Input)
           /\ ToSet(Cold(Input)) \subseteq All
  <1>1. /\ Layout(Input).limit = Limit(Input) /\ Layout(Input).blocks = Blocks(Input)
        /\ Layout(Input).cold = Cold(Input)
    BY DEF Layout
  <1>2. Limit(Input) = NonNeg(height - 1)
    BY DEF Limit, Input
  <1>3. NonNeg(height - 1) \in Nat
    BY DEF SidebarInv, NonNeg
  <1> QED BY <1>1, <1>2, <1>3, BlocksAre, Zenon DEF LaidOut

-----------------------------------------------------------------------------
(* The canvas.                                                             *)

(* Rows are drawn one below the other, from the second one of the pane to  *)
(* the last above the limit.                                               *)
Filled(c, limit) ==
    /\ c = [row |-> c.row, out |-> c.out, hidden |-> c.hidden]
    /\ c.row \in Nat /\ c.row # 0 /\ c.hidden \in Nat
    /\ IsList(c.out)
    /\ Len(c.out) = NonNeg((IF c.row < limit THEN c.row ELSE limit) - 1)
    /\ \A k \in 1 .. Len(c.out) : c.out[k].row = k

(* How rows were put on a canvas.                                          *)
Grown(c, rows, limit, d) ==
    /\ d.row = c.row + Len(rows) /\ d.hidden = c.hidden
    /\ Len(c.out) <= Len(d.out)
    /\ \A k \in 1 .. Len(c.out) : d.out[k] = c.out[k]
    /\ \A k \in 1 .. Len(d.out) : k > Len(c.out) =>
          (k - c.row) + 1 \in 1 .. Len(rows) /\ d.out[k].what = rows[(k - c.row) + 1]
    /\ \A k \in 1 .. Len(rows) : (c.row + k) - 1 < limit =>
          /\ (c.row + k) - 1 \in 1 .. Len(d.out)
          /\ d.out[(c.row + k) - 1].what = rows[k]

LEMMA PutAllFacts ==
    ASSUME NEW limit \in Nat, NEW c, Filled(c, limit), NEW rows, IsList(rows),
           NEW d, d = PutAll(c, rows, limit)
    PROVE  Filled(d, limit) /\ Grown(c, rows, limit, d)
  <1> DEFINE row  == c.row
             n    == Len(rows)
             room == NonNeg(limit - row)
             part == AtMost(room, rows)
             m    == Len(part)
             entry(i) == [row |-> c.row + i - 1, what |-> rows[i]]
             new  == [i \in 1 .. m |-> entry(i)]
             old  == c.out
             l    == Len(c.out)
  <1>1. /\ c = [row |-> row, out |-> old, hidden |-> c.hidden]
        /\ row \in Nat /\ row # 0 /\ c.hidden \in Nat /\ IsList(old)
        /\ l = NonNeg((IF row < limit THEN row ELSE limit) - 1)
        /\ \A k \in 1 .. l : old[k].row = k
    BY DEF Filled
  <1>2. n \in Nat /\ room \in Nat
    BY <1>1, ListFacts DEF NonNeg
  <1>3. m = (IF room < n THEN room ELSE n)
    <2> HIDE DEF room
    <2> QED BY <1>2, AtMostFacts
  <1>4. d = [c EXCEPT !.row = row + n, !.out = old \o new]
    BY Zenon DEF PutAll
  <1>5. d = [row |-> row + n, out |-> old \o new, hidden |-> c.hidden]
    <2> HIDE DEF new
    <2> QED BY <1>1, <1>4
  <1> HIDE DEF part, entry
  <1>6. m \in Nat
    BY <1>2, <1>3
  <1>7. IsList(new) /\ Len(new) = m /\ \A i \in 1 .. m : new[i] = entry(i)
    <2> HIDE DEF m
    <2>1. new \in [1 .. m -> {entry(i) : i \in 1 .. m}]
      OBVIOUS
    <2>2. \A i \in 1 .. m : new[i] = entry(i)
      OBVIOUS
    <2> HIDE DEF new
    <2>3. PICK S : new \in [1 .. m -> S]
      BY <2>1, Zenon
    <2> QED BY <1>6, <2>2, <2>3, ListOfFunction
  <1> HIDE DEF new, m, room, l, n
  <1>8. /\ IsList(old \o new) /\ Len(old \o new) = l + m
        /\ \A i \in 1 .. l : (old \o new)[i] = old[i]
        /\ \A i \in 1 .. m : (old \o new)[l + i] = new[i]
    BY <1>1, <1>7, JoinFacts DEF l
  <1>9. d.row = row + n /\ d.out = old \o new /\ d.hidden = c.hidden
    BY <1>5
  <1> DEFINE u == d.out
  <1>10. /\ IsList(u) /\ Len(u) = l + m
         /\ \A i \in 1 .. l : u[i] = old[i]
         /\ \A i \in 1 .. m : u[l + i] = entry(i)
    BY <1>7, <1>8, <1>9
  <1>11. \A i \in 1 .. m : entry(i).row = row + i - 1 /\ entry(i).what = rows[i]
    BY DEF entry
  <1> HIDE DEF row, old, u
  \* where the next rows go
  <1>12. /\ l \in Nat
         /\ row < limit => l = row - 1 /\ room = limit - row
         /\ ~(row < limit) => room = 0 /\ m = 0 /\ l = NonNeg(limit - 1)
    BY <1>1, <1>2, <1>3 DEF room, NonNeg
  <1>13. l + m = NonNeg((IF row + n < limit THEN row + n ELSE limit) - 1)
    <2>1. CASE row < limit
      <3>1. CASE room < n
        <4>1. m = limit - row /\ l = row - 1 /\ ~(row + n < limit)
          BY <1>1, <1>2, <1>3, <1>12, <2>1, <3>1
        <4>2. l + m = limit - 1
          BY <1>1, <4>1
        <4> QED BY <1>1, <2>1, <4>1, <4>2 DEF NonNeg
      <3>2. CASE ~(room < n)
        <4>1. m = n /\ l = row - 1 /\ (row + n < limit \/ row + n = limit)
          BY <1>1, <1>2, <1>3, <1>12, <2>1, <3>2
        <4> QED BY <1>1, <1>2, <4>1 DEF NonNeg
      <3> QED BY <3>1, <3>2
    <2>2. CASE ~(row < limit)
      <3>1. ~(row + n < limit) /\ l + m = NonNeg(limit - 1)
        BY <1>1, <1>2, <1>12, <2>2 DEF NonNeg
      <3> QED BY <3>1
    <2> QED BY <2>1, <2>2
  <1>14. ASSUME NEW k \in 1 .. l + m
         PROVE  k \in 1 .. l \/ (row < limit /\ k > l /\ k - l \in 1 .. m /\ k = l + (k - l))
    BY <1>6, <1>12, <1>14
  <1>15. \A k \in 1 .. Len(u) : u[k].row = k
    <2> SUFFICES ASSUME NEW k \in 1 .. l + m PROVE u[k].row = k
      BY <1>10
    <2>1. CASE k \in 1 .. l
      BY <1>1, <1>10, <2>1
    <2>2. CASE row < limit /\ k > l /\ k - l \in 1 .. m /\ k = l + (k - l)
      <3>1. u[k] = entry(k - l)
        BY <1>10, <2>2
      <3>2. entry(k - l).row = row + (k - l) - 1
        BY <1>11, <2>2
      <3>3. row + (k - l) - 1 = k
        BY <1>1, <1>12, <2>2
      <3> QED BY <3>1, <3>2, <3>3
    <2> QED BY <1>14, <2>1, <2>2
  <1>16. Filled(d, limit)
    <2>1. d = [row |-> d.row, out |-> u, hidden |-> d.hidden]
      BY <1>5, <1>9 DEF u, old, row
    <2>2. d.row \in Nat /\ d.row # 0 /\ d.hidden \in Nat
      BY <1>1, <1>2, <1>9 DEF row
    <2>3. d.row = row + n
      BY <1>9 DEF row
    <2>4. Len(u) = NonNeg((IF d.row < limit THEN d.row ELSE limit) - 1)
      BY <1>10, <1>13, <2>3
    <2> QED BY <1>10, <1>15, <2>1, <2>2, <2>4 DEF Filled, u
  <1>17. \A k \in 1 .. Len(u) : k > l =>
            (k - row) + 1 \in 1 .. n /\ u[k].what = rows[(k - row) + 1]
    <2> SUFFICES ASSUME NEW k \in 1 .. l + m, k > l
                 PROVE  (k - row) + 1 \in 1 .. n /\ u[k].what = rows[(k - row) + 1]
      BY <1>10
    <2>1. row < limit /\ k - l \in 1 .. m /\ k = l + (k - l)
      BY <1>14, <1>12
    <2>2. u[k] = entry(k - l)
      BY <1>10, <2>1
    <2>3. k - l = (k - row) + 1 /\ k - l \in 1 .. n
      BY <1>1, <1>2, <1>3, <1>12, <2>1
    <2>4. entry(k - l).what = rows[k - l]
      BY <1>11, <2>1
    <2> QED BY <2>2, <2>3, <2>4
  <1>18. \A k \in 1 .. n : (row + k) - 1 < limit =>
            (row + k) - 1 \in 1 .. Len(u) /\ u[(row + k) - 1].what = rows[k]
    <2> SUFFICES ASSUME NEW k \in 1 .. n, (row + k) - 1 < limit
                 PROVE  (row + k) - 1 \in 1 .. Len(u) /\ u[(row + k) - 1].what = rows[k]
      OBVIOUS
    <2>1. row < limit /\ k \in 1 .. m /\ (row + k) - 1 = l + k /\ l + k \in 1 .. l + m
      BY <1>1, <1>2, <1>3, <1>12
    <2>2. u[l + k] = entry(k) /\ entry(k).what = rows[k]
      BY <1>10, <1>11, <2>1
    <2> QED BY <1>10, <2>1, <2>2
  <1>19. l <= Len(u)
    BY <1>6, <1>10, <1>12
  <1>20. Grown(c, rows, limit, d)
    <2>1. d.row = c.row + Len(rows) /\ d.hidden = c.hidden
      BY <1>9 DEF row, n
    <2> QED BY <1>10, <1>17, <1>18, <1>19, <2>1 DEF Grown, u, l, n, row, old
  <1> QED BY <1>16, <1>20

LEMMA FourParts ==
    ASSUME NEW a, NEW b, NEW c, NEW d, IsList(a), IsList(b), IsList(c), IsList(d)
    PROVE  /\ IsList(a \o b \o c \o d)
           /\ Len(a \o b \o c \o d) = Len(a) + Len(b) + Len(c) + Len(d)
           /\ \A k \in 1 .. Len(a) : (a \o b \o c \o d)[k] = a[k]
           /\ \A k \in 1 .. Len(b) : (a \o b \o c \o d)[Len(a) + k] = b[k]
           /\ \A k \in 1 .. Len(c) : (a \o b \o c \o d)[Len(a) + Len(b) + k] = c[k]
           /\ \A k \in 1 .. Len(d) : (a \o b \o c \o d)[Len(a) + Len(b) + Len(c) + k] = d[k]
  <1>1. PICK na, nb, nc, nd \in Nat : na = Len(a) /\ nb = Len(b) /\ nc = Len(c) /\ nd = Len(d)
    BY ListFacts
  <1>2. PICK ab : ab = a \o b
    OBVIOUS
  <1>3. /\ IsList(ab) /\ Len(ab) = na + nb
        /\ \A k \in 1 .. na : ab[k] = a[k]
        /\ \A k \in 1 .. nb : ab[na + k] = b[k]
    BY <1>1, <1>2, JoinFacts
  <1>x. PICK n2 \in Nat : n2 = Len(ab) /\ n2 = na + nb
    BY <1>1, <1>3
  <1>4. PICK abc : abc = ab \o c
    OBVIOUS
  <1>5. /\ IsList(abc) /\ Len(abc) = n2 + nc
        /\ \A k \in 1 .. n2 : abc[k] = ab[k]
        /\ \A k \in 1 .. nc : abc[n2 + k] = c[k]
    <2>1. IsList(ab)
      BY <1>3
    <2>2. /\ IsList(ab \o c) /\ Len(ab \o c) = Len(ab) + Len(c)
          /\ \A k \in 1 .. Len(ab) : (ab \o c)[k] = ab[k]
          /\ \A k \in 1 .. Len(c) : (ab \o c)[Len(ab) + k] = c[k]
      BY <2>1, JoinFacts
    <2> QED BY <1>1, <1>x, <1>4, <2>2, Zenon
  <1>y. PICK n3 \in Nat : n3 = Len(abc) /\ n3 = n2 + nc
    BY <1>1, <1>5
  <1>6. PICK u : u = abc \o d
    OBVIOUS
  <1>7. /\ IsList(u) /\ Len(u) = n3 + nd
        /\ \A k \in 1 .. n3 : u[k] = abc[k]
        /\ \A k \in 1 .. nd : u[n3 + k] = d[k]
    <2>1. IsList(abc)
      BY <1>5
    <2>2. /\ IsList(abc \o d) /\ Len(abc \o d) = Len(abc) + Len(d)
          /\ \A k \in 1 .. Len(abc) : (abc \o d)[k] = abc[k]
          /\ \A k \in 1 .. Len(d) : (abc \o d)[Len(abc) + k] = d[k]
      BY <2>1, JoinFacts
    <2> QED BY <1>1, <1>y, <1>6, <2>2, Zenon
  <1>8. a \o b \o c \o d = u
    BY <1>2, <1>4, <1>6
  <1>9. /\ \A k \in 1 .. na : k \in 1 .. n2 /\ k \in 1 .. n3
        /\ \A k \in 1 .. nb : na + k \in 1 .. n2 /\ na + k \in 1 .. n3
        /\ \A k \in 1 .. nc : n2 + k \in 1 .. n3
        /\ n2 = na + nb /\ n3 = na + nb + nc
    BY <1>1, <1>x, <1>y
  <1>10. /\ \A k \in 1 .. na : u[k] = a[k]
         /\ \A k \in 1 .. nb : u[na + k] = b[k]
         /\ \A k \in 1 .. nc : u[n2 + k] = c[k]
         /\ \A k \in 1 .. nd : u[n3 + k] = d[k]
    BY <1>3, <1>5, <1>7, <1>9
  <1>11. Len(u) = na + nb + nc + nd
    BY <1>1, <1>7, <1>9
  <1>12. \A k \in 1 .. nc : u[na + nb + k] = c[k]
    BY <1>1, <1>9, <1>10
  <1>13. \A k \in 1 .. nd : u[na + nb + nc + k] = d[k]
    BY <1>1, <1>9, <1>10
  <1> HIDE <1>3, <1>5, <1>x, <1>y
  <1> QED BY <1>1, <1>7, <1>8, <1>10, <1>11, <1>12, <1>13

(* The rows of a project.                                                  *)
NameRow(b) == Label("name", b.p, <<b.p>>, ~b.self)
MetaRow(b) == Label("meta", b.p, <<b.p>>, TRUE)
SlopRow(b) == Label("slop", b.p, <<b.p>>, TRUE)

BlockLines(b, roster, rows) ==
    /\ IsList(rows) /\ Len(rows) = 1 + b.meta + Len(roster) + 1
    /\ rows[1] = NameRow(b)
    /\ \A i \in 1 .. b.meta : rows[1 + i] = MetaRow(b)
    /\ \A i \in 1 .. Len(roster) : rows[1 + b.meta + i] = roster[i]
    /\ rows[1 + b.meta + Len(roster) + 1] = SlopRow(b)

(* What is left for the roster when the blank row is kept free.            *)
Room(lay, b, row) == lay.limit - (row + 1 + b.meta) - 1

BlockDrawn(lay, b, row, rows, avail, roster) ==
    /\ avail \in Int /\ avail <= Room(lay, b, row)
    /\ avail = Room(lay, b, row)
          \/ (lay.tight /\ ~b.self /\ avail = signalCap(b.agents, b.services))
    /\ lay.tight /\ ~b.self => avail <= signalCap(b.agents, b.services)
    /\ IsList(roster) /\ Len(roster) \in Nat /\ Len(roster) <= NonNeg(avail)
    /\ Len(roster) <= NonNeg(Room(lay, b, row))
    /\ RosterIs(b.p, b.agents, b.services, avail, b.fold, roster)
    /\ BlockLines(b, roster, rows)

LEMMA CapFacts ==
    ASSUME NEW agents, NEW services, IsList(agents), IsList(services)
    PROVE  signalCap(agents, services) \in Nat
  <1>1. IsList(agents \o services)
    BY JoinFacts
  <1>2. Signals(agents \o services) \in Nat
    <2> DEFINE u == agents \o services
               S == {r \in ToSet(u) : ~r.dim}
    <2>1. Len(u) \in Nat
      BY <1>1, ListFacts
    <2>2. Signals(u) = Len(Only(u, S))
      BY DEF Signals
    <2> HIDE DEF u, S
    <2>3. Len(Only(u, S)) \in 0 .. Len(u)
      BY <1>1, OnlyShorter DEF u
    <2>4. Signals(u) \in Nat
      BY <2>1, <2>2, <2>3
    <2> QED BY <2>4 DEF u
  <1>3. Headers(agents, services) \in {0, 1, 2}
    BY HeadersFacts
  <1> DEFINE signal == Signals(agents \o services)
             head == Headers(agents, services)
             marker == IF signal < Len(agents) + Len(services) THEN 1 ELSE 0
  <1>4. signalCap(agents, services) = IF signal = 0 THEN 0 ELSE head + signal + marker
    BY Zenon DEF signalCap
  <1>5. marker \in {0, 1}
    OBVIOUS
  <1>6. signal \in Nat /\ head \in Nat
    BY <1>2, <1>3
  <1> HIDE DEF marker, signal, head
  <1> QED BY <1>4, <1>5, <1>6

LEMMA BlockRowsFacts ==
    ASSUME NEW lay, lay.limit \in Nat, NEW b, BlockOf(b), NEW row \in Nat,
           NEW rows, rows = BlockRows(lay, b, row)
    PROVE  \E avail, roster : BlockDrawn(lay, b, row, rows, avail, roster)
  <1> DEFINE room  == Room(lay, b, row)
             cap   == signalCap(b.agents, b.services)
             tight == lay.tight /\ ~b.self
             avail == IF tight /\ room > cap THEN cap ELSE room
             roster == rosterBlock(b.p, b.agents, b.services, avail, b.fold)
             metas == [i \in 1 .. b.meta |-> MetaRow(b)]
             first == <<NameRow(b)>>
             last  == <<SlopRow(b)>>
  <1>1. rows = first \o metas \o roster \o last
    BY Zenon DEF BlockRows, Roster, Room, NameRow, MetaRow, SlopRow
  <1>2. /\ b.meta \in Nat
        /\ RowList(b.agents) /\ RowList(b.services) /\ IsList(b.agents) /\ IsList(b.services)
    BY DEF BlockOf, RowsOf, RowOf, RowList
  <1>3. cap \in Nat
    BY <1>2, CapFacts
  <1>4. room \in Int
    BY <1>2 DEF Room
  <1> HIDE DEF room, cap
  <1>5. /\ avail \in Int /\ avail <= room /\ (avail = room \/ (tight /\ avail = cap))
        /\ tight => avail <= cap
    BY <1>3, <1>4
  <1> HIDE DEF avail, tight
  <1>6. RosterIs(b.p, b.agents, b.services, avail, b.fold, roster)
    BY <1>2, <1>5, RosterFacts
  <1> HIDE DEF roster
  <1>7. IsList(roster) /\ Len(roster) <= NonNeg(avail)
    BY <1>6 DEF RosterIs
  <1>8. Len(roster) \in Nat
    BY <1>7, ListFacts
  <1>9. Len(roster) <= NonNeg(room)
    <2>1. NonNeg(avail) <= NonNeg(room) /\ NonNeg(avail) \in Nat /\ NonNeg(room) \in Nat
      BY <1>4, <1>5 DEF NonNeg
    <2> QED BY <1>7, <1>8, <2>1
  <1>10. IsList(first) /\ Len(first) = 1 /\ first[1] = NameRow(b)
    BY SmallLists
  <1>11. IsList(last) /\ Len(last) = 1 /\ last[1] = SlopRow(b)
    BY SmallLists
  <1>12. IsList(metas) /\ Len(metas) = b.meta /\ \A i \in 1 .. b.meta : metas[i] = MetaRow(b)
    <2> DEFINE x == MetaRow(b)
               k == b.meta
               t == [i \in 1 .. k |-> x]
    <2> HIDE DEF x, k
    <2>1. t \in [1 .. k -> {x}] /\ \A i \in 1 .. k : t[i] = x
      OBVIOUS
    <2>2. k \in Nat
      BY <1>2 DEF k
    <2> HIDE DEF t
    <2>3. IsList(t) /\ Len(t) = k
      BY <2>1, <2>2, ListOfFunction, Zenon
    <2> QED BY <2>1, <2>3 DEF t, k, x
  <1> HIDE DEF first, last, metas
  <1> DEFINE u == first \o metas \o roster \o last
  <1>13. /\ IsList(u) /\ Len(u) = Len(first) + Len(metas) + Len(roster) + Len(last)
         /\ \A k \in 1 .. Len(first) : u[k] = first[k]
         /\ \A k \in 1 .. Len(metas) : u[Len(first) + k] = metas[k]
         /\ \A k \in 1 .. Len(roster) : u[Len(first) + Len(metas) + k] = roster[k]
         /\ \A k \in 1 .. Len(last) : u[Len(first) + Len(metas) + Len(roster) + k] = last[k]
    <2>1. IsList(first) /\ IsList(metas) /\ IsList(roster) /\ IsList(last)
      BY <1>7, <1>10, <1>11, <1>12
    <2> QED BY <2>1, FourParts
  <1> HIDE DEF u
  <1>14. BlockLines(b, roster, u)
    <2>1. IsList(u) /\ Len(u) = 1 + b.meta + Len(roster) + 1
      BY <1>10, <1>11, <1>12, <1>13
    <2>2. u[1] = NameRow(b)
      BY <1>10, <1>13
    <2>3. \A i \in 1 .. b.meta : u[1 + i] = MetaRow(b)
      BY <1>10, <1>12, <1>13
    <2>4. \A i \in 1 .. Len(roster) : u[1 + b.meta + i] = roster[i]
      BY <1>10, <1>12, <1>13
    <2>5. u[1 + b.meta + Len(roster) + 1] = SlopRow(b)
      BY <1>10, <1>11, <1>12, <1>13
    <2> QED BY <2>1, <2>2, <2>3, <2>4, <2>5 DEF BlockLines
  <1>15. BlockLines(b, roster, rows)
    BY <1>1, <1>14 DEF u
  <1>16. BlockDrawn(lay, b, row, rows, avail, roster)
    BY <1>5, <1>6, <1>7, <1>8, <1>9, <1>15 DEF BlockDrawn, room, tight, cap
  <1> QED BY <1>16

\* What no roster is made of.
LEMMA RosterKinds ==
    ASSUME NEW b, BlockOf(b), NEW avail, NEW roster, NEW x \in ToSet(roster),
           RosterIs(b.p, b.agents, b.services, avail, b.fold, roster)
    PROVE  x.kind \in {"row", "header", "more"}
  <1>1. \/ x \in ToSet(b.agents) \/ x \in ToSet(Unfolded(b.services, b.fold))
        \/ x.kind \in {"header", "more"}
        \/ x = Heading(b.p, b.services, b.fold)
    BY DEF RosterIs
  <1>2. \A r \in ToSet(b.agents) \cup ToSet(b.services) : r.kind = "row"
    BY DEF BlockOf, RowsOf, RowOf
  <1>3. ToSet(Unfolded(b.services, b.fold)) \subseteq ToSet(b.services)
    BY SmallLists DEF Unfolded
  <1>4. Heading(b.p, b.services, b.fold).kind = "header"
    BY DEF Heading, Label
  <1> QED BY <1>1, <1>2, <1>3, <1>4

(* What an item of the fleet is drawn as: a line is kept free below the    *)
(* roster of a project, so that the last line of the pane never shows one  *)
(* of its rows.                                                            *)
ItemKinds == {"name", "meta", "row", "header", "more", "slop", "cold"}

LEMMA LayFacts ==
    ASSUME NEW lay, LaidOut(lay)
    PROVE  /\ lay.limit \in Nat /\ Len(lay.blocks) \in Nat /\ Len(lay.cold) \in Nat
           /\ Fleet(lay) \in Nat
  <1>1. lay.limit \in Nat /\ IsList(lay.blocks) /\ IsList(lay.cold)
    BY DEF LaidOut
  <1>2. Len(lay.blocks) \in Nat /\ Len(lay.cold) \in Nat
    BY <1>1, ListFacts
  <1>3. PICK m, k \in Nat : m = Len(lay.blocks) /\ k = Len(lay.cold)
    BY <1>2
  <1>4. Fleet(lay) = m + k
    BY <1>3, Zenon DEF Fleet
  <1>5. Fleet(lay) \in Nat
    BY <1>4
  <1> QED BY <1>1, <1>2, <1>5

LEMMA Zones ==
    ASSUME NEW m \in Nat, NEW k \in Nat, NEW j \in 1 .. 1 + m + k + 1
    PROVE  \/ j = 1 \/ (j - 1 \in 1 .. m /\ j = 1 + (j - 1))
           \/ (j - (1 + m) \in 1 .. k /\ j = 1 + m + (j - (1 + m)))
           \/ j = 1 + m + k + 1
  <1>1. CASE j <= 1 + m
    BY <1>1
  <1>2. CASE j > 1 + m /\ j <= 1 + m + k
    BY <1>2
  <1>3. CASE j > 1 + m + k
    BY <1>3
  <1> QED BY <1>1, <1>2, <1>3

\* The last line of the pane shows a meta line of a project, or what follows
\* the roster that has been cut to its room.
CutAt(m, k, row, l) ==
    /\ m \in Nat /\ k \in Nat /\ row \in Nat /\ l \in Nat
    /\ row + 1 < l /\ row + (1 + m + k + 1) >= l /\ k <= NonNeg(l - (row + 1 + m) - 1)
LastLine(m, k, row, l) ==
    (l - row - 1 \in 1 .. m /\ l - row = 1 + (l - row - 1)) \/ l - row = 1 + m + k + 1

LEMMA AtEnd ==
    ASSUME NEW m, NEW k, NEW row, NEW l, CutAt(m, k, row, l)
    PROVE  LastLine(m, k, row, l)
  <1>0. /\ m \in Nat /\ k \in Nat /\ row \in Nat /\ l \in Nat
        /\ row + 1 < l /\ row + (1 + m + k + 1) >= l /\ k <= NonNeg(l - (row + 1 + m) - 1)
    BY Zenon DEF CutAt
  <1> DEFINE y == l - row
  <1>1. y \in Int /\ y > 1 /\ y <= m + (k + 2) /\ l - (row + 1 + m) - 1 = y - (m + 2)
    BY <1>0
  <1> HIDE DEF y
  <1>2. k <= NonNeg(y - (m + 2))
    BY <1>0, <1>1
  <1>3. CASE y <= 1 + m
    <2>1. y - 1 \in 1 .. m /\ y = 1 + (y - 1)
      BY <1>0, <1>1, <1>3
    <2> QED BY <2>1 DEF y, LastLine
  <1>4. CASE y = m + 2
    <2>1. NonNeg(y - (m + 2)) = 0
      BY <1>4 DEF NonNeg
    <2>2. k = 0 /\ y = 1 + m + k + 1
      BY <1>0, <1>2, <1>4, <2>1
    <2> QED BY <2>2 DEF y, LastLine
  <1>5. CASE y > m + 2
    <2>1. NonNeg(y - (m + 2)) = y - (m + 2)
      BY <1>0, <1>1, <1>5 DEF NonNeg
    <2>2. k <= y - (m + 2)
      BY <1>2, <2>1
    <2>3. y = 1 + m + k + 1
      BY <1>0, <1>1, <2>2
    <2> QED BY <2>3 DEF y, LastLine
  <1> QED BY <1>0, <1>1, <1>3, <1>4, <1>5

LEMMA ItemFacts ==
    ASSUME NEW lay, LaidOut(lay), NEW i \in 1 .. Fleet(lay), NEW row \in Nat,
           NEW rows, rows = FleetRows(lay, i, row)
    PROVE  /\ IsList(rows) /\ Len(rows) \in Nat
           /\ \A k \in 1 .. Len(rows) : rows[k].kind \in ItemKinds
           /\ row + 1 < lay.limit /\ row + Len(rows) >= lay.limit =>
                 rows[lay.limit - row].kind \in {"meta", "slop"}
  <1> DEFINE limit == lay.limit
  <1>1. limit \in Nat /\ Len(lay.blocks) \in Nat /\ Len(lay.cold) \in Nat
        /\ Fleet(lay) = Len(lay.blocks) + Len(lay.cold)
    BY LayFacts DEF Fleet
  <1>2. CASE i <= Len(lay.blocks)
    <2> DEFINE b == lay.blocks[i]
    <2>1. BlockOf(b)
      BY <1>1, <1>2 DEF LaidOut
    <2>2. rows = BlockRows(lay, b, row)
      BY <1>2, Zenon DEF FleetRows
    <2> HIDE DEF b
    <2>3. PICK avail, roster : BlockDrawn(lay, b, row, rows, avail, roster)
      BY <1>1, <2>1, <2>2, BlockRowsFacts
    <2>4. BlockLines(b, roster, rows) /\ IsList(roster)
          /\ RosterIs(b.p, b.agents, b.services, avail, b.fold, roster)
          /\ Len(roster) <= NonNeg(Room(lay, b, row))
      BY <2>3 DEF BlockDrawn
    <2>5. PICK m, k \in Nat : m = b.meta /\ k = Len(roster) /\ DOMAIN roster = 1 .. k
      BY <2>1, <2>4, ListFacts DEF BlockOf
    <2>6. /\ IsList(rows) /\ Len(rows) = 1 + m + k + 1
          /\ rows[1] = NameRow(b)
          /\ \A j \in 1 .. m : rows[1 + j] = MetaRow(b)
          /\ \A j \in 1 .. k : rows[1 + m + j] = roster[j]
          /\ rows[1 + m + k + 1] = SlopRow(b)
      BY <2>4, <2>5 DEF BlockLines
    <2>7. NameRow(b).kind = "name" /\ MetaRow(b).kind = "meta" /\ SlopRow(b).kind = "slop"
      BY DEF NameRow, MetaRow, SlopRow, Label
    <2>8. \A j \in 1 .. k : roster[j].kind \in {"row", "header", "more"}
      <3>1. \A j \in 1 .. k : roster[j] \in ToSet(roster)
        BY <2>5 DEF ToSet
      <3> QED BY <2>1, <2>4, <3>1, RosterKinds
    <2>9. ASSUME NEW j \in 1 .. 1 + m + k + 1
          PROVE  \/ j = 1 \/ (j - 1 \in 1 .. m /\ j = 1 + (j - 1))
                 \/ (j - (1 + m) \in 1 .. k /\ j = 1 + m + (j - (1 + m)))
                 \/ j = 1 + m + k + 1
      BY <2>9, Zones
    <2>10. \A j \in 1 .. 1 + m + k + 1 : rows[j].kind \in ItemKinds
      <3> SUFFICES ASSUME NEW j \in 1 .. 1 + m + k + 1 PROVE rows[j].kind \in ItemKinds
        OBVIOUS
      <3>1. CASE j = 1
        BY <2>6, <2>7, <3>1 DEF ItemKinds
      <3>2. CASE j - 1 \in 1 .. m /\ j = 1 + (j - 1)
        <4>1. rows[j] = MetaRow(b)
          BY <2>6, <3>2
        <4> QED BY <2>7, <4>1 DEF ItemKinds
      <3>3. CASE j - (1 + m) \in 1 .. k /\ j = 1 + m + (j - (1 + m))
        <4>1. rows[j] = roster[j - (1 + m)]
          BY <2>6, <3>3
        <4> QED BY <2>8, <3>3, <4>1 DEF ItemKinds
      <3>4. CASE j = 1 + m + k + 1
        BY <2>6, <2>7, <3>4 DEF ItemKinds
      <3> QED BY <2>9, <3>1, <3>2, <3>3, <3>4
    <2>11. PICK n \in Nat : n = Len(rows) /\ n = 1 + m + k + 1
      BY <2>5, <2>6
    <2>12. ASSUME row + 1 < limit, row + n >= limit
           PROVE  rows[limit - row].kind \in {"meta", "slop"}
      <3> DEFINE room == limit - (row + 1 + m) - 1
      <3>1. k <= NonNeg(room)
        BY <2>4, <2>5 DEF Room
      <3>2. \/ limit - row - 1 \in 1 .. m /\ limit - row = 1 + (limit - row - 1)
            \/ limit - row = 1 + m + k + 1
        <4>1. PICK l \in Nat : l = limit
          BY <1>1
        <4>2. row + 1 < l /\ row + (1 + m + k + 1) >= l
          BY <2>11, <2>12, <4>1, Zenon
        <4>3. k <= NonNeg(l - (row + 1 + m) - 1)
          BY <3>1, <4>1
        <4>4. CutAt(m, k, row, l)
          BY <2>5, <4>1, <4>2, <4>3, Zenon DEF CutAt
        <4>5. LastLine(m, k, row, l)
          BY <4>4, AtEnd
        <4> QED BY <4>1, <4>5, Zenon DEF LastLine
      <3>3. CASE limit - row - 1 \in 1 .. m /\ limit - row = 1 + (limit - row - 1)
        <4>1. rows[1 + (limit - row - 1)] = MetaRow(b)
          BY <2>6, <3>3
        <4> QED BY <2>7, <3>3, <4>1
      <3>4. CASE limit - row = 1 + m + k + 1
        BY <2>6, <2>7, <3>4
      <3> QED BY <3>2, <3>3, <3>4
    <2> QED BY <2>6, <2>10, <2>11, <2>12
  <1>3. CASE ~(i <= Len(lay.blocks))
    <2> DEFINE x == ColdRow(lay.cold[i - Len(lay.blocks)])
    <2>1. rows = <<x>>
      BY <1>3, Zenon DEF FleetRows
    <2>2. x.kind = "cold"
      BY DEF ColdRow, Label
    <2> HIDE DEF x
    <2>3. IsList(rows) /\ Len(rows) = 1 /\ rows[1] = x
      BY <2>1, SmallLists
    <2> QED BY <1>1, <2>2, <2>3 DEF ItemKinds
  <1> QED BY <1>2, <1>3

(* The draw pass, item by item.                                            *)
LEMMA DrawSteps ==
    ASSUME NEW lay, Fleet(lay) \in Nat
    PROVE  \E canvas :
              /\ canvas[0] = Blank /\ canvas[Fleet(lay)] = DrawFleet(lay)
              /\ \A i \in 1 .. Fleet(lay) : canvas[i] = DrawOne(lay, canvas[i - 1], i)
  <1> DEFINE n == Fleet(lay)
             next(c, i) == DrawOne(lay, c, i)
             canvas[i \in 0 .. n] == IF i = 0 THEN Blank ELSE next(canvas[i - 1], i)
             Runs(g, k) == g = [i \in 0 .. k |-> IF i = 0 THEN Blank ELSE next(g[i - 1], i)]
  <1>1. DrawFleet(lay) = canvas[n]
    BY Zenon DEF DrawFleet
  <1>2. canvas = CHOOSE g : Runs(g, n)
    OBVIOUS
  <1> HIDE DEF canvas, next
  <1>3. ASSUME NEW k \in Nat, k # 0, \E g : Runs(g, k - 1)
        PROVE  \E g : Runs(g, k)
    <2>1. PICK g : Runs(g, k - 1)
      BY <1>3
    <2> DEFINE h == [i \in 0 .. k |-> IF i < k THEN g[i] ELSE next(g[k - 1], k)]
    <2>2. ASSUME NEW i \in 0 .. k
          PROVE  h[i] = IF i = 0 THEN Blank ELSE next(h[i - 1], i)
      <3>1. CASE i < k
        <4>1. i \in 0 .. k - 1 /\ h[i] = g[i] /\ (i # 0 => h[i - 1] = g[i - 1])
          BY <1>3, <3>1
        <4>2. g[i] = IF i = 0 THEN Blank ELSE next(g[i - 1], i)
          BY <2>1, <4>1
        <4> QED BY <4>1, <4>2
      <3>2. CASE i = k
        BY <1>3, <3>2
      <3> QED BY <3>1, <3>2
    <2>3. h = [i \in 0 .. k |-> h[i]]
      OBVIOUS
    <2> HIDE DEF h
    <2>4. Runs(h, k)
      BY <2>2, <2>3
    <2> QED BY <2>4
  <1>4. \A k \in Nat : \E g : Runs(g, k)
    <2>1. Runs([i \in 0 .. 0 |-> Blank], 0)
      OBVIOUS
    <2> DEFINE Bad == {k \in Nat : ~\E g : Runs(g, k)}
    <2> HIDE DEF Runs
    <2> SUFFICES ASSUME Bad # {} PROVE FALSE
      OBVIOUS
    <2>2. PICK k \in Bad : \A j \in Bad : k <= j
      <3>1. Bad \in SUBSET Nat
        OBVIOUS
      <3> HIDE DEF Bad
      <3> QED BY <3>1, LeastElement
    <2>3. k # 0
      BY <2>1
    <2>4. k - 1 \in Nat /\ k - 1 \notin Bad
      BY <2>2, <2>3
    <2> QED BY <1>3, <2>3, <2>4
  <1>5. Runs(canvas, n)
    <2>1. n \in Nat
      OBVIOUS
    <2> HIDE DEF Runs, n
    <2> QED BY <1>2, <1>4, <2>1, Zenon
  <1>6. \A i \in 0 .. n : canvas[i] = IF i = 0 THEN Blank ELSE next(canvas[i - 1], i)
    BY <1>5
  <1>7. canvas[0] = Blank /\ \A i \in 1 .. n : canvas[i] = next(canvas[i - 1], i)
    <2>1. 0 \in 0 .. n /\ \A i \in 1 .. n : i \in 0 .. n /\ i # 0
      OBVIOUS
    <2> QED BY <1>6, <2>1, Zenon
  <1> HIDE DEF canvas
  <1> QED BY <1>1, <1>7 DEF next

(* The rows of an item, where the canvas stood when its turn came.         *)
Item(lay, canvas, j) == FleetRows(lay, j, canvas[j - 1].row)

(* What an item that was drawn left on the canvas, and where a row of the  *)
(* canvas comes from.                                                      *)
DrawnAt(limit, row, rows, c) ==
    \A k \in 1 .. Len(rows) : (row + k) - 1 < limit =>
        (row + k) - 1 \in 1 .. Len(c.out) /\ c.out[(row + k) - 1].what = rows[k]
PartOf(x, rows) == \E k \in 1 .. Len(rows) : x.what = rows[k]

Drawn(lay, canvas, i) ==
    /\ \A j \in 1 .. i : canvas[j].hidden = 0 =>
          DrawnAt(lay.limit, canvas[j - 1].row, Item(lay, canvas, j), canvas[i])
    /\ \A k \in 1 .. Len(canvas[i].out) : \E j \in 1 .. i :
          canvas[j].hidden = 0 /\ PartOf(canvas[i].out[k], Item(lay, canvas, j))

(* Where the tally of what is left would go there is no row that matters.  *)
Clear(lay, c, i) ==
    /\ c.hidden > 0 => c.row + 1 >= lay.limit
    /\ (i < Fleet(lay) \/ c.hidden > 0) /\ c.row >= lay.limit /\ lay.limit >= 2 =>
          c.out[lay.limit - 1].what.kind \in {"meta", "slop"}

CanvasIs(lay, canvas, i) ==
    Filled(canvas[i], lay.limit) /\ Clear(lay, canvas[i], i) /\ Drawn(lay, canvas, i)

LEMMA BlankFacts ==
    ASSUME NEW lay, lay.limit \in Nat, NEW canvas, canvas[0] = Blank
    PROVE  CanvasIs(lay, canvas, 0)
  <1>1. /\ Blank.row = 1 /\ Blank.out = <<>> /\ Blank.hidden = 0
        /\ Blank = [row |-> 1, out |-> <<>>, hidden |-> 0]
    BY DEF Blank
  <1>2. IsList(<<>>) /\ Len(<<>>) = 0
    BY SmallLists
  <1>3. Filled(Blank, lay.limit)
    <2>1. NonNeg((IF 1 < lay.limit THEN 1 ELSE lay.limit) - 1) = 0
      BY DEF NonNeg
    <2> QED BY <1>1, <1>2, <2>1 DEF Filled
  <1>4. Clear(lay, Blank, 0)
    BY <1>1 DEF Clear
  <1>5. Drawn(lay, canvas, 0)
    BY <1>1, <1>2 DEF Drawn
  <1> QED BY <1>3, <1>4, <1>5 DEF CanvasIs

\* What is on the canvas already stays.
LEMMA DrawnStays ==
    ASSUME NEW lay, NEW canvas, NEW i \in Nat, i # 0, NEW c, NEW d, c = canvas[i - 1], d = canvas[i],
           Drawn(lay, canvas, i - 1), Len(c.out) \in Nat, Len(d.out) \in Nat,
           Len(c.out) <= Len(d.out), \A k \in 1 .. Len(c.out) : d.out[k] = c.out[k]
    PROVE  /\ \A j \in 1 .. i - 1 : canvas[j].hidden = 0 =>
                 DrawnAt(lay.limit, canvas[j - 1].row, Item(lay, canvas, j), d)
           /\ \A k \in 1 .. Len(c.out) : \E j \in 1 .. i - 1 :
                 canvas[j].hidden = 0 /\ PartOf(d.out[k], Item(lay, canvas, j))
  <1>1. \A k \in 1 .. Len(c.out) : k \in 1 .. Len(d.out) /\ d.out[k] = c.out[k]
    OBVIOUS
  <1>2. ASSUME NEW j \in 1 .. i - 1, canvas[j].hidden = 0
        PROVE  DrawnAt(lay.limit, canvas[j - 1].row, Item(lay, canvas, j), d)
    <2> DEFINE rows == Item(lay, canvas, j)
               row  == canvas[j - 1].row
    <2>1. DrawnAt(lay.limit, row, rows, c)
      BY <1>2 DEF Drawn
    <2> HIDE DEF rows, row
    <2>2. DrawnAt(lay.limit, row, rows, d)
      BY <1>1, <2>1, Zenon DEF DrawnAt
    <2> QED BY <2>2 DEF rows, row
  <1>3. ASSUME NEW k \in 1 .. Len(c.out)
        PROVE  \E j \in 1 .. i - 1 : canvas[j].hidden = 0 /\ PartOf(d.out[k], Item(lay, canvas, j))
    <2>1. d.out[k] = c.out[k]
      BY <1>1
    <2>2. \E j \in 1 .. i - 1 : canvas[j].hidden = 0 /\ PartOf(c.out[k], Item(lay, canvas, j))
      BY DEF Drawn
    <2> QED BY <2>1, <2>2
  <1> QED BY <1>2, <1>3

LEMMA CanvasStep ==
    ASSUME NEW lay, LaidOut(lay), NEW canvas, NEW i \in 1 .. Fleet(lay),
           canvas[i] = DrawOne(lay, canvas[i - 1], i), CanvasIs(lay, canvas, i - 1)
    PROVE  CanvasIs(lay, canvas, i)
  <1> DEFINE c == canvas[i - 1]
             d == canvas[i]
             limit == lay.limit
             n == Fleet(lay)
             rest == n - i + 1
             rows == FleetRows(lay, i, c.row)
  <1>1. limit \in Nat /\ n \in Nat /\ i \in Nat /\ i # 0 /\ i <= n
    BY LayFacts
  <1>2. Filled(c, limit) /\ Clear(lay, c, i - 1) /\ Drawn(lay, canvas, i - 1)
    BY DEF CanvasIs
  <1>3. /\ c = [row |-> c.row, out |-> c.out, hidden |-> c.hidden]
        /\ c.row \in Nat /\ c.row # 0 /\ c.hidden \in Nat /\ IsList(c.out)
        /\ Len(c.out) = NonNeg((IF c.row < limit THEN c.row ELSE limit) - 1)
        /\ \A k \in 1 .. Len(c.out) : c.out[k].row = k
    BY <1>2 DEF Filled
  <1>4. Len(c.out) \in Nat
    BY <1>3, ListFacts
  <1>5. d = IF c.hidden > 0 THEN c
            ELSE IF rest > 1 /\ c.row + 1 >= limit THEN [c EXCEPT !.hidden = rest]
            ELSE PutAll(c, rows, limit)
    BY Zenon DEF DrawOne
  <1>6. i - 1 < n /\ rest \in Nat /\ (rest > 1 <=> i < n)
    BY <1>1
  <1>7. c.row >= limit /\ limit >= 2 => c.out[limit - 1].what.kind \in {"meta", "slop"}
    BY <1>2, <1>6 DEF Clear
  <1>j. \A j \in 1 .. i : j \in 1 .. i - 1 \/ j = i
    BY <1>1
  <1>k. \A j \in 1 .. i - 1 : j \in 1 .. i
    BY <1>1
  <1> HIDE DEF rest
  \* nothing is drawn
  <1>8. ASSUME d.row = c.row, d.out = c.out, d.hidden \in Nat, d.hidden > 0,
               d = [row |-> d.row, out |-> d.out, hidden |-> d.hidden], c.row + 1 >= limit
        PROVE  CanvasIs(lay, canvas, i)
    <2>1. Filled(d, limit)
      BY <1>3, <1>8, Zenon DEF Filled
    <2>2. Clear(lay, d, i)
      BY <1>7, <1>8 DEF Clear
    <2>3. /\ \A j \in 1 .. i - 1 : canvas[j].hidden = 0 =>
                 DrawnAt(limit, canvas[j - 1].row, Item(lay, canvas, j), d)
          /\ \A k \in 1 .. Len(c.out) : \E j \in 1 .. i - 1 :
                 canvas[j].hidden = 0 /\ PartOf(d.out[k], Item(lay, canvas, j))
      <3>1. Len(c.out) <= Len(d.out) /\ Len(d.out) \in Nat
            /\ \A k \in 1 .. Len(c.out) : d.out[k] = c.out[k]
        BY <1>4, <1>8
      <3> HIDE DEF c, d, limit
      <3> QED BY <1>1, <1>2, <1>4, <3>1, DrawnStays DEF c, d, limit
    <2>4. Drawn(lay, canvas, i)
      <3>1. d.hidden # 0
        BY <1>8
      <3> QED BY <1>8, <1>j, <1>k, <2>3, <3>1 DEF Drawn
    <2> QED BY <2>1, <2>2, <2>4 DEF CanvasIs
  <1>9. CASE c.hidden > 0
    <2>1. d = c
      BY <1>5, <1>9, Zenon
    <2>2. c.row + 1 >= limit
      BY <1>2, <1>9 DEF Clear
    <2> QED BY <1>3, <1>8, <1>9, <2>1, <2>2
  <1>10. CASE ~(c.hidden > 0) /\ rest > 1 /\ c.row + 1 >= limit
    <2>1. d = [c EXCEPT !.hidden = rest]
      BY <1>5, <1>10, Zenon
    <2>2. d = [row |-> c.row, out |-> c.out, hidden |-> rest]
      BY <1>3, <2>1
    <2> HIDE DEF c, d
    <2>3. d.row = c.row /\ d.out = c.out /\ d.hidden = rest
      BY <2>2
    <2>4. d.hidden \in Nat /\ d.hidden > 0
      BY <1>6, <1>10, <2>3
    <2> QED BY <1>8, <1>10, <2>2, <2>3, <2>4 DEF c, d
  <1>11. CASE ~(c.hidden > 0) /\ ~(rest > 1 /\ c.row + 1 >= limit)
    <2>1. d = PutAll(c, rows, limit)
      BY <1>5, <1>11, Zenon
    <2>2. /\ IsList(rows) /\ Len(rows) \in Nat
          /\ c.row + 1 < limit /\ c.row + Len(rows) >= limit =>
                rows[limit - c.row].kind \in {"meta", "slop"}
      BY <1>3, ItemFacts
    <2>r. rows = Item(lay, canvas, i)
      BY DEF Item
    <2> HIDE DEF c, d, rows
    <2>3. Filled(d, limit) /\ Grown(c, rows, limit, d)
      BY <1>1, <1>2, <2>1, <2>2, PutAllFacts
    <2>4. /\ d.row = c.row + Len(rows) /\ d.hidden = 0
          /\ Len(c.out) <= Len(d.out) /\ \A k \in 1 .. Len(c.out) : d.out[k] = c.out[k]
          /\ \A k \in 1 .. Len(d.out) : k > Len(c.out) =>
                (k - c.row) + 1 \in 1 .. Len(rows) /\ d.out[k].what = rows[(k - c.row) + 1]
          /\ \A k \in 1 .. Len(rows) : (c.row + k) - 1 < limit =>
                /\ (c.row + k) - 1 \in 1 .. Len(d.out)
                /\ d.out[(c.row + k) - 1].what = rows[k]
      <3>1. c.hidden = 0
        BY <1>3, <1>11
      <3> QED BY <2>3, <3>1 DEF Grown
    <2>5. Len(d.out) \in Nat
      BY <2>3, ListFacts DEF Filled
    <2>6. Clear(lay, d, i)
      <3> SUFFICES ASSUME i < n, d.row >= limit, limit >= 2
                   PROVE  d.out[limit - 1].what.kind \in {"meta", "slop"}
        BY <2>4 DEF Clear
      <3>1. rest > 1 /\ c.row + 1 < limit
        BY <1>1, <1>3, <1>6, <1>11
      <3>2. rows[limit - c.row].kind \in {"meta", "slop"}
        BY <2>2, <2>4, <3>1
      <3>3. PICK k \in Nat : k = limit - c.row /\ k \in 1 .. Len(rows) /\ (c.row + k) - 1 = limit - 1
        <4>1. c.row + Len(rows) >= limit
          BY <2>4
        <4>2. limit - c.row \in Nat /\ limit - c.row \in 1 .. Len(rows)
              /\ (c.row + (limit - c.row)) - 1 = limit - 1
          <5>1. PICK a, n1 \in Nat : a = c.row /\ n1 = Len(rows)
            BY <1>3, <2>2
          <5>2. limit \in Nat /\ a + n1 >= limit /\ a + 1 < limit
            BY <1>1, <3>1, <4>1, <5>1
          <5>3. limit - a \in Nat /\ limit - a \in 1 .. n1 /\ (a + (limit - a)) - 1 = limit - 1
            BY <5>2
          <5> QED BY <5>1, <5>3
        <4> QED BY <4>2
      <3>4. limit - 1 < limit
        BY <1>1
      <3>5. d.out[limit - 1].what = rows[k]
        BY <2>4, <3>3, <3>4
      <3> QED BY <3>2, <3>3, <3>5
    <2>7. /\ \A j \in 1 .. i - 1 : canvas[j].hidden = 0 =>
                 DrawnAt(limit, canvas[j - 1].row, Item(lay, canvas, j), d)
          /\ \A k \in 1 .. Len(c.out) : \E j \in 1 .. i - 1 :
                 canvas[j].hidden = 0 /\ PartOf(d.out[k], Item(lay, canvas, j))
      <3> HIDE DEF limit
      <3> QED BY <1>1, <1>2, <1>4, <2>4, <2>5, DrawnStays DEF c, d, limit
    <2>8. DrawnAt(limit, c.row, rows, d)
      BY <2>4, Zenon DEF DrawnAt
    <2>9. ASSUME NEW k \in 1 .. Len(d.out)
          PROVE  \E j \in 1 .. i : canvas[j].hidden = 0 /\ PartOf(d.out[k], Item(lay, canvas, j))
      <3>1. CASE k \in 1 .. Len(c.out)
        BY <1>k, <2>7, <3>1
      <3>2. CASE k > Len(c.out)
        <4>1. PartOf(d.out[k], rows)
          BY <2>4, <2>9, <3>2 DEF PartOf
        <4>2. i \in 1 .. i /\ canvas[i].hidden = 0
          BY <1>1, <2>4 DEF d
        <4> QED BY <2>r, <4>1, <4>2
      <3> QED BY <1>4, <2>5, <2>9, <3>1, <3>2
    <2>10. Drawn(lay, canvas, i)
      <3>1. ASSUME NEW j \in 1 .. i, canvas[j].hidden = 0
            PROVE  DrawnAt(limit, canvas[j - 1].row, Item(lay, canvas, j), d)
        <4>1. CASE j = i
          BY <2>8, <2>r, <4>1 DEF c
        <4>2. CASE j \in 1 .. i - 1
          BY <2>7, <3>1, <4>2
        <4> QED BY <1>j, <4>1, <4>2
      <3> QED BY <2>9, <3>1 DEF Drawn, d
    <2> QED BY <2>3, <2>6, <2>10 DEF CanvasIs, d
  <1> QED BY <1>9, <1>10, <1>11

(* The canvas of a fleet, at each item and in the end.                     *)
Canvases(lay, canvas) ==
    /\ canvas[0] = Blank /\ canvas[Fleet(lay)] = DrawFleet(lay)
    /\ \A i \in 1 .. Fleet(lay) : canvas[i] = DrawOne(lay, canvas[i - 1], i)
    /\ \A i \in 0 .. Fleet(lay) : CanvasIs(lay, canvas, i)

LEMMA CanvasFacts ==
    ASSUME NEW lay, LaidOut(lay)
    PROVE  \E canvas : Canvases(lay, canvas)
  <1> DEFINE n == Fleet(lay)
  <1>1. n \in Nat /\ lay.limit \in Nat
    BY LayFacts
  <1>2. PICK canvas : /\ canvas[0] = Blank /\ canvas[n] = DrawFleet(lay)
                      /\ \A i \in 1 .. n : canvas[i] = DrawOne(lay, canvas[i - 1], i)
    BY <1>1, DrawSteps
  <1> DEFINE Bad == {i \in 0 .. n : ~CanvasIs(lay, canvas, i)}
  <1>3. Bad \in SUBSET (0 .. n) /\ 0 \notin Bad
    BY <1>1, <1>2, BlankFacts
  <1>4. \A i \in 1 .. n : i - 1 \notin Bad => i \notin Bad
    <2> SUFFICES ASSUME NEW i \in 1 .. n, i - 1 \notin Bad PROVE CanvasIs(lay, canvas, i)
      OBVIOUS
    <2>1. i - 1 \in 0 .. n
      BY <1>1
    <2>2. CanvasIs(lay, canvas, i - 1)
      BY <2>1
    <2>3. canvas[i] = DrawOne(lay, canvas[i - 1], i)
      BY <1>2
    <2> QED BY <2>2, <2>3, CanvasStep
  <1>5. Bad = {}
    <2> HIDE DEF Bad, n
    <2> QED BY <1>1, <1>3, <1>4, FirstFailure
  <1>6. \A i \in 0 .. n : CanvasIs(lay, canvas, i)
    BY <1>5
  <1>7. Canvases(lay, canvas)
    BY <1>2, <1>6 DEF Canvases
  <1> QED BY <1>7

(* Every row has a place of its own in the pane, but for what the tally    *)
(* paints over.                                                            *)
Meets(x, y) == y.kind = "tally" /\ x.kind \in {"meta", "slop"}

Tidy(rows, h) ==
    /\ IsList(rows)
    /\ \A k \in 1 .. Len(rows) : rows[k].row \in 0 .. h - 1
    /\ \A i, j \in 1 .. Len(rows) :
          i < j /\ rows[i].row = rows[j].row => Meets(rows[i].what, rows[j].what)

(* What comes after the fleet leads nowhere.                               *)
Followed(out, rows) ==
    /\ Len(out) \in Nat /\ Len(out) <= Len(rows)
    /\ \A k \in 1 .. Len(out) : rows[k] = out[k]
    /\ \A k \in 1 .. Len(rows) : k > Len(out) =>
          rows[k].what.to = <<>> /\ rows[k].what.kind \in {"tally", "hint"}

Shape(c) == c = [row |-> c.row, out |-> c.out, hidden |-> c.hidden]

(* What may be put on a canvas that has the rows o of the fleet.           *)
PutReady(h, c, o, row, limit, what) ==
    /\ h \in Nat /\ limit \in Nat /\ row \in Nat /\ row < h /\ row < limit
    /\ Shape(c) /\ Tidy(c.out, h) /\ Followed(o, c.out)
    /\ what.to = <<>> /\ what.kind \in {"tally", "hint"}
    /\ \A k \in 1 .. Len(c.out) : c.out[k].row = row => Meets(c.out[k].what, what)

LEMMA PutFacts ==
    ASSUME NEW h, NEW c, NEW o, NEW row, NEW limit, NEW what,
           PutReady(h, c, o, row, limit, what), NEW d, d = putAt(c, row, what, limit)
    PROVE  /\ Shape(d) /\ Tidy(d.out, h) /\ Followed(o, d.out)
           /\ d.row = c.row /\ d.hidden = c.hidden
           /\ Len(d.out) = Len(c.out) + 1 /\ d.out[Len(c.out) + 1].row = row
           /\ \A k \in 1 .. Len(c.out) : d.out[k] = c.out[k]
  <1> DEFINE x == [row |-> row, what |-> what]
             old == c.out
             u == Append(old, x)
             n == Len(old)
  <1>0. /\ h \in Nat /\ limit \in Nat /\ row \in Nat /\ row < h /\ row < limit
        /\ Shape(c) /\ Tidy(c.out, h) /\ Followed(o, c.out)
        /\ what.to = <<>> /\ what.kind \in {"tally", "hint"}
        /\ \A k \in 1 .. Len(c.out) : c.out[k].row = row => Meets(c.out[k].what, what)
    BY DEF PutReady
  <1>1. x.row = row /\ x.what = what
    OBVIOUS
  <1> HIDE DEF x
  <1>2. IsList(old) /\ n \in Nat
    BY <1>0, ListFacts DEF Tidy
  <1>3. /\ IsList(u) /\ Len(u) = n + 1
        /\ \A k \in 1 .. n : u[k] = old[k]
        /\ u[n + 1] = x
    BY <1>2, AppendFacts
  <1>4. d = [c EXCEPT !.out = u]
    BY <1>0, Zenon DEF putAt, x
  <1> HIDE DEF u
  <1>5. d = [row |-> c.row, out |-> u, hidden |-> c.hidden]
    BY <1>0, <1>4 DEF Shape
  <1>6. d.row = c.row /\ d.hidden = c.hidden /\ d.out = u /\ Shape(d)
    BY <1>5 DEF Shape
  <1>7. \A k \in 1 .. n + 1 : k \in 1 .. n \/ k = n + 1
    BY <1>2
  <1>8. /\ \A k \in 1 .. n : old[k].row \in 0 .. h - 1
        /\ \A i, j \in 1 .. n : i < j /\ old[i].row = old[j].row => Meets(old[i].what, old[j].what)
        /\ \A k \in 1 .. n : old[k].row = row => Meets(old[k].what, what)
    BY <1>0 DEF Tidy
  <1>9. /\ Len(o) \in Nat /\ Len(o) <= n
        /\ \A k \in 1 .. Len(o) : old[k] = o[k]
        /\ \A k \in 1 .. n : k > Len(o) => old[k].what.to = <<>> /\ old[k].what.kind \in {"tally", "hint"}
    BY <1>0 DEF Followed
  <1>d. Len(d.out) = Len(c.out) + 1 /\ d.out[Len(c.out) + 1].row = row
        /\ \A k \in 1 .. Len(c.out) : d.out[k] = c.out[k]
    BY <1>1, <1>3, <1>6
  <1> HIDE DEF n, old
  <1>10. Tidy(u, h)
    <2>1. ASSUME NEW k \in 1 .. n + 1 PROVE u[k].row \in 0 .. h - 1
      <3>1. row \in 0 .. h - 1
        BY <1>0
      <3> QED BY <1>1, <1>3, <1>7, <1>8, <3>1
    <2>2. ASSUME NEW i \in 1 .. n + 1, NEW j \in 1 .. n + 1, i < j, u[i].row = u[j].row
          PROVE  Meets(u[i].what, u[j].what)
      <3>1. i \in 1 .. n /\ u[i] = old[i]
        BY <1>2, <1>3, <2>2
      <3>2. CASE j \in 1 .. n
        <4>1. u[j] = old[j]
          BY <1>3, <3>2
        <4> QED BY <1>8, <2>2, <3>1, <3>2, <4>1
      <3>3. CASE j = n + 1
        BY <1>1, <1>3, <1>8, <2>2, <3>1, <3>3
      <3> QED BY <1>7, <3>2, <3>3
    <2> QED BY <1>3, <2>1, <2>2 DEF Tidy
  <1>11. Followed(o, u)
    <2>1. Len(o) <= Len(u)
      BY <1>2, <1>3, <1>9
    <2>2. ASSUME NEW k \in 1 .. Len(o) PROVE u[k] = o[k]
      <3>1. k \in 1 .. n
        BY <1>2, <1>9
      <3> QED BY <1>3, <1>9, <3>1
    <2>3. ASSUME NEW k \in 1 .. n + 1, k > Len(o)
          PROVE  u[k].what.to = <<>> /\ u[k].what.kind \in {"tally", "hint"}
      <3>1. CASE k \in 1 .. n
        BY <1>3, <1>9, <2>3, <3>1
      <3>2. CASE k = n + 1
        BY <1>0, <1>1, <1>3, <3>2
      <3> QED BY <1>7, <3>1, <3>2
    <2> QED BY <1>3, <1>9, <2>1, <2>2, <2>3 DEF Followed
  <1> QED BY <1>6, <1>10, <1>11, <1>d

LEMMA MaxFacts ==
    ASSUME NEW m \in Nat, NEW S \in SUBSET (0 .. m), S # {}
    PROVE  Max(S) \in S /\ \A x \in S : x <= Max(S)
  <1> DEFINE T == {m - x : x \in S}
  <1>1. T \in SUBSET Nat /\ T # {}
    <2>1. \A x \in S : m - x \in Nat
      OBVIOUS
    <2>2. PICK x : x \in S
      OBVIOUS
    <2>3. m - x \in T
      BY <2>2
    <2> QED BY <2>1, <2>3
  <1>2. PICK t \in T : \A y \in T : t <= y
    <2> HIDE DEF T
    <2> QED BY <1>1, LeastElement
  <1>3. PICK x \in S : t = m - x
    BY <1>2
  <1>4. \A y \in S : x >= y
    <2> SUFFICES ASSUME NEW y \in S PROVE x >= y
      OBVIOUS
    <2>1. m - x <= m - y
      BY <1>2, <1>3
    <2>2. x \in 0 .. m /\ y \in 0 .. m
      OBVIOUS
    <2> QED BY <2>1, <2>2
  <1>5. Max(S) \in S /\ \A y \in S : Max(S) >= y
    BY <1>4, Zenon DEF Max
  <1>6. \A y \in S : y <= Max(S)
    <2> DEFINE top == Max(S)
    <2>1. top \in 0 .. m /\ \A y \in S : y \in 0 .. m /\ top >= y
      BY <1>5
    <2> HIDE DEF top
    <2>2. \A y \in S : y <= top
      BY <2>1
    <2> QED BY <2>2 DEF top
  <1> QED BY <1>5, <1>6

\* A canvas on which nothing but the fleet has been drawn.
LEMMA CleanCanvas ==
    ASSUME NEW h \in Nat, NEW limit, limit = NonNeg(h - 1), NEW c, Filled(c, limit)
    PROVE  /\ Shape(c) /\ Tidy(c.out, h) /\ Followed(c.out, c.out)
           /\ Len(c.out) = NonNeg((IF c.row < limit THEN c.row ELSE limit) - 1)
           /\ \A k \in 1 .. Len(c.out) : c.out[k].row = k
  <1>1. /\ Shape(c) /\ c.row \in Nat /\ IsList(c.out) /\ Len(c.out) \in Nat
        /\ Len(c.out) = NonNeg((IF c.row < limit THEN c.row ELSE limit) - 1)
        /\ \A k \in 1 .. Len(c.out) : c.out[k].row = k
    BY ListFacts DEF Filled, Shape
  <1>2. PICK n \in Nat : n = Len(c.out)
    BY <1>1
  <1>3. n <= NonNeg(limit - 1)
    <2>1. n = NonNeg((IF c.row < limit THEN c.row ELSE limit) - 1)
      BY <1>1, <1>2
    <2>2. limit \in Nat
      BY DEF NonNeg
    <2> QED BY <1>1, <2>1, <2>2 DEF NonNeg
  <1>4. \A k \in 1 .. n : k \in 0 .. h - 1
    BY <1>3 DEF NonNeg
  <1>5. Tidy(c.out, h)
    <2>1. \A k \in 1 .. n : c.out[k].row \in 0 .. h - 1
      BY <1>1, <1>2, <1>4
    <2>2. \A i, j \in 1 .. n : i < j => c.out[i].row # c.out[j].row
      BY <1>1, <1>2
    <2> QED BY <1>1, <1>2, <2>1, <2>2 DEF Tidy
  <1>6. Followed(c.out, c.out)
    <2>1. \A k \in 1 .. n : ~(k > n)
      OBVIOUS
    <2> QED BY <1>2, <2>1 DEF Followed
  <1> QED BY <1>1, <1>5, <1>6

LEMMA TallyFacts ==
    ASSUME NEW h \in Nat, NEW lay, lay.limit = NonNeg(h - 1), NEW c, Filled(c, lay.limit),
           Clear(lay, c, Fleet(lay)), NEW t, t = DrawTally(lay.limit, c)
    PROVE  Shape(t) /\ Tidy(t.out, h) /\ Followed(c.out, t.out)
  <1> DEFINE limit == lay.limit
             row   == IF c.row >= limit THEN limit - 1 ELSE c.row
             tally == Label("tally", "", <<>>, TRUE)
             p     == putAt(c, row, tally, limit)
  <1>1. t = IF c.hidden = 0 \/ row < 0 THEN c ELSE [p EXCEPT !.row = row + 1]
    BY Zenon DEF DrawTally
  <1>2. limit \in Nat /\ (limit = 0 \/ limit = h - 1)
    BY DEF NonNeg
  <1>3. /\ Shape(c) /\ Tidy(c.out, h) /\ Followed(c.out, c.out)
        /\ Len(c.out) = NonNeg((IF c.row < limit THEN c.row ELSE limit) - 1)
        /\ \A k \in 1 .. Len(c.out) : c.out[k].row = k
    BY CleanCanvas
  <1>4. c.hidden \in Nat /\ c.row \in Nat /\ Len(c.out) \in Nat
    BY ListFacts DEF Filled
  <1>5. tally.to = <<>> /\ tally.kind = "tally"
    BY DEF Label
  <1> HIDE DEF p, tally
  <1>6. CASE c.hidden = 0 \/ row < 0
    BY <1>1, <1>3, <1>6, Zenon
  <1>7. CASE ~(c.hidden = 0 \/ row < 0)
    <2>1. c.row + 1 >= limit
      BY <1>4, <1>7 DEF Clear
    <2>2. limit # 0 /\ row = limit - 1
      <3>1. CASE c.row >= limit
        BY <1>2, <1>7, <3>1
      <3>2. CASE ~(c.row >= limit)
        BY <1>2, <1>4, <2>1, <3>2
      <3> QED BY <3>1, <3>2
    <2> DEFINE at == limit - 1
    <2>3. at \in Nat /\ at < h /\ at < limit
      BY <1>2, <2>2
    <2>4. \A k \in 1 .. Len(c.out) : c.out[k].row = at => Meets(c.out[k].what, tally)
      <3> SUFFICES ASSUME NEW k \in 1 .. Len(c.out), k = limit - 1
                   PROVE  Meets(c.out[k].what, tally)
        BY <1>3
      <3>1. limit >= 2
        BY <1>2
      <3>2. c.row >= limit
        <4> SUFFICES ASSUME c.row < limit PROVE FALSE
          BY <1>2, <1>4
        <4>1. Len(c.out) = NonNeg(c.row - 1)
          BY <1>3
        <4>2. Len(c.out) < limit - 1
          BY <1>2, <1>4, <3>1, <4>1 DEF NonNeg
        <4> QED BY <1>2, <1>4, <4>2
      <3>3. c.out[limit - 1].what.kind \in {"meta", "slop"}
        BY <1>4, <1>7, <3>1, <3>2 DEF Clear
      <3> QED BY <1>5, <3>3 DEF Meets
    <2>5. p = putAt(c, at, tally, limit)
      BY <2>2 DEF p
    <2> HIDE DEF at, row, limit
    <2>6. /\ Shape(p) /\ Tidy(p.out, h) /\ Followed(c.out, p.out)
          /\ p.row = c.row /\ p.hidden = c.hidden
      <3>1. limit \in Nat /\ Shape(c) /\ Tidy(c.out, h) /\ Followed(c.out, c.out)
        BY <1>2, <1>3
      <3>2. tally.kind \in {"tally", "hint"}
        BY <1>5
      <3>3. PutReady(h, c, c.out, at, limit, tally)
        BY <1>5, <2>3, <2>4, <3>1, <3>2, Zenon DEF PutReady
      <3> QED BY <2>5, <3>3, PutFacts
    <2>7. t = [p EXCEPT !.row = row + 1]
      BY <1>1, <1>7, Zenon
    <2>8. t = [row |-> row + 1, out |-> p.out, hidden |-> p.hidden]
      BY <2>6, <2>7 DEF Shape
    <2>9. Shape(t) /\ t.out = p.out
      BY <2>8 DEF Shape
    <2> QED BY <2>6, <2>9
  <1> QED BY <1>6, <1>7

LEMMA HintFacts ==
    ASSUME NEW h \in Nat, NEW c, Shape(c), Tidy(c.out, h), NEW o, Followed(o, c.out),
           NEW row \in Nat, row < h, \A k \in 1 .. Len(c.out) : c.out[k].row < row,
           NEW d, d = Hint(c, row, h)
    PROVE  /\ Shape(d) /\ Tidy(d.out, h) /\ Followed(o, d.out)
           /\ \A k \in 1 .. Len(d.out) : d.out[k].row < row + 1
  <1> DEFINE hint == Label("hint", "", <<>>, TRUE)
  <1>1. hint.to = <<>> /\ hint.kind = "hint"
    BY DEF Label
  <1>2. d = putAt(c, row, hint, h)
    BY Zenon DEF Hint
  <1> HIDE DEF hint
  <1>3. Len(c.out) \in Nat /\ \A k \in 1 .. Len(c.out) : c.out[k].row \in 0 .. h - 1
    BY ListFacts DEF Tidy
  <1>4. \A k \in 1 .. Len(c.out) : c.out[k].row = row => Meets(c.out[k].what, hint)
    BY <1>3
  <1>5. /\ Shape(d) /\ Tidy(d.out, h) /\ Followed(o, d.out)
        /\ Len(d.out) = Len(c.out) + 1 /\ d.out[Len(c.out) + 1].row = row
        /\ \A k \in 1 .. Len(c.out) : d.out[k] = c.out[k]
    <2>1. hint.kind \in {"tally", "hint"}
      BY <1>1
    <2>2. PutReady(h, c, o, row, h, hint)
      BY <1>1, <1>4, <2>1, Zenon DEF PutReady
    <2> QED BY <1>2, <2>2, PutFacts
  <1>6. \A k \in 1 .. Len(d.out) : d.out[k].row < row + 1
    <2> SUFFICES ASSUME NEW k \in 1 .. Len(c.out) + 1 PROVE d.out[k].row < row + 1
      BY <1>5
    <2>1. CASE k \in 1 .. Len(c.out)
      <3>1. d.out[k] = c.out[k]
        BY <1>5, <2>1
      <3>2. PICK y \in 0 .. h - 1 : y = c.out[k].row /\ y < row
        BY <1>3, <2>1
      <3>3. y < row + 1
        BY <3>2
      <3> QED BY <3>1, <3>2, <3>3
    <2>2. CASE k = Len(c.out) + 1
      BY <1>5, <2>2
    <2> QED BY <1>3, <2>1, <2>2
  <1> QED BY <1>5, <1>6

LEMMA FooterFacts ==
    ASSUME NEW h \in Nat, NEW c, Shape(c), Tidy(c.out, h), NEW o, Followed(o, c.out),
           NEW d, d = DrawFooter(h, c)
    PROVE  Tidy(d.out, h) /\ Followed(o, d.out)
  <1> DEFINE last == h - 1
             S    == {0} \cup {x.row : x \in ToSet(c.out)}
             used == Max(S)
  <1>1. d = IF last <= used THEN c
            ELSE IF last - 2 > used THEN Hint(Hint(c, last - 2, h), last - 1, h)
            ELSE IF last - 1 > used THEN Hint(Hint(c, last - 1, h), last, h)
            ELSE Hint(c, last, h)
    BY Zenon DEF DrawFooter
  <1>2. IsList(c.out) /\ DOMAIN c.out = 1 .. Len(c.out)
        /\ \A k \in 1 .. Len(c.out) : c.out[k].row \in 0 .. h - 1
    BY ListFacts DEF Tidy
  <1>3. S \in SUBSET (0 .. h) /\ S # {}
    <2>1. \A x \in ToSet(c.out) : x.row \in 0 .. h
      <3>1. \A k \in 1 .. Len(c.out) : c.out[k].row \in 0 .. h
        BY <1>2
      <3> QED BY <1>2, <3>1 DEF ToSet
    <2> QED BY <2>1
  <1>4. \A k \in 1 .. Len(c.out) : c.out[k].row \in S
    BY <1>2 DEF ToSet
  <1> HIDE DEF S
  <1>5. used \in S /\ \A x \in S : x <= used
    BY <1>3, MaxFacts, Zenon
  <1>6. used \in Nat /\ \A k \in 1 .. Len(c.out) : c.out[k].row <= used
    <2> HIDE DEF used
    <2>1. used \in 0 .. h
      BY <1>3, <1>5
    <2>2. \A k \in 1 .. Len(c.out) : c.out[k].row <= used
      BY <1>4, <1>5, Zenon
    <2> QED BY <2>1, <2>2
  <1> HIDE DEF used, last
  <1>7. ASSUME NEW a \in Nat, a > used, a < h
        PROVE  \A k \in 1 .. Len(c.out) : c.out[k].row < a
    BY <1>2, <1>6, <1>7
  <1>8. ASSUME NEW a \in Nat, a > used, a < h, NEW e, e = Hint(c, a, h)
        PROVE  /\ Shape(e) /\ Tidy(e.out, h) /\ Followed(o, e.out)
               /\ \A k \in 1 .. Len(e.out) : e.out[k].row < a + 1
    BY <1>7, <1>8, HintFacts
  <1>9. CASE last <= used
    BY <1>1, <1>9, Zenon
  <1>10. ASSUME NEW a \in Nat, a > used, a + 1 < h, d = Hint(Hint(c, a, h), a + 1, h)
         PROVE  Tidy(d.out, h) /\ Followed(o, d.out)
    <2>1. PICK e : e = Hint(c, a, h)
      OBVIOUS
    <2>2. a < h
      BY <1>10
    <2>3. /\ Shape(e) /\ Tidy(e.out, h) /\ Followed(o, e.out)
          /\ \A k \in 1 .. Len(e.out) : e.out[k].row < a + 1
      BY <1>8, <1>10, <2>1, <2>2
    <2>4. d = Hint(e, a + 1, h) /\ a + 1 \in Nat
      BY <1>10, <2>1
    <2> QED BY <1>10, <2>3, <2>4, HintFacts
  <1>11. CASE ~(last <= used) /\ last - 2 > used
    <2>1. d = Hint(Hint(c, last - 2, h), last - 1, h)
      BY <1>1, <1>11, Zenon
    <2>2. last - 2 \in Nat /\ (last - 2) + 1 = last - 1 /\ last - 1 < h
      BY <1>6, <1>11 DEF last
    <2> QED BY <1>10, <1>11, <2>1, <2>2
  <1>12. CASE ~(last <= used) /\ ~(last - 2 > used) /\ last - 1 > used
    <2>1. d = Hint(Hint(c, last - 1, h), last, h)
      BY <1>1, <1>12, Zenon
    <2>2. last - 1 \in Nat /\ (last - 1) + 1 = last /\ last < h
      BY <1>6, <1>12 DEF last
    <2> QED BY <1>10, <1>12, <2>1, <2>2
  <1>13. CASE ~(last <= used) /\ ~(last - 2 > used) /\ ~(last - 1 > used)
    <2>1. d = Hint(c, last, h)
      BY <1>1, <1>13, Zenon
    <2>2. last \in Nat /\ last < h /\ last > used
      BY <1>6, <1>13 DEF last
    <2> QED BY <1>8, <2>1, <2>2
  <1> QED BY <1>9, <1>11, <1>12, <1>13

(* What a frame is: the fleet, and what comes after it.                    *)
LEMMA FrameFacts ==
    ASSUME SidebarInv
    PROVE  Tidy(frame(Input), height) /\ Followed(DrawFleet(Layout(Input)).out, frame(Input))
  <1> DEFINE lay == Layout(Input)
             c == DrawFleet(lay)
             t == DrawTally(lay.limit, c)
             d == DrawFooter(height, t)
  <1>1. LaidOut(lay) /\ lay.limit = NonNeg(height - 1)
    BY LayoutFacts
  <1>2. height \in Nat
    BY DEF SidebarInv
  <1>3. Limit(Input) = lay.limit /\ Input.height = height
    BY <1>1 DEF Limit, Input
  <1>4. frame(Input) = d.out
    BY <1>3, Zenon DEF frame
  <1> HIDE DEF d, t, c, lay
  <1>5. PICK canvas : Canvases(lay, canvas)
    BY <1>1, CanvasFacts
  <1>6. Fleet(lay) \in Nat
    BY <1>1, LayFacts
  <1>7. CanvasIs(lay, canvas, Fleet(lay)) /\ canvas[Fleet(lay)] = c
    <2>1. Fleet(lay) \in 0 .. Fleet(lay)
      BY <1>6
    <2> QED BY <1>5, <2>1 DEF Canvases, c
  <1>8. Filled(c, lay.limit) /\ Clear(lay, c, Fleet(lay))
    BY <1>7 DEF CanvasIs
  <1>9. Shape(t) /\ Tidy(t.out, height) /\ Followed(c.out, t.out)
    BY <1>1, <1>2, <1>8, TallyFacts DEF t
  <1>10. Tidy(d.out, height) /\ Followed(c.out, d.out)
    BY <1>2, <1>9, FooterFacts DEF d
  <1> QED BY <1>4, <1>10 DEF c, lay

(* What is drawn and what is clicked.                                      *)
LEMMA SeenFacts ==
    ASSUME NEW rows, NEW h \in Nat, Tidy(rows, h), NEW y, NEW seen, seen = Seen(rows, y), seen # <<>>
    PROVE  /\ Len(seen) \in Nat \ {0} /\ DOMAIN seen = 1 .. Len(seen)
           /\ ToSet(seen) = {x \in ToSet(rows) : x.row = y}
           /\ y \in 0 .. h - 1
           /\ \A i, j \in 1 .. Len(seen) : i < j => Meets(seen[i].what, seen[j].what)
  <1> DEFINE S == {x \in ToSet(rows) : x.row = y}
             n == Len(seen)
             m == Len(rows)
  <1>1. /\ IsList(rows) /\ \A k \in 1 .. m : rows[k].row \in 0 .. h - 1
        /\ \A i, j \in 1 .. m : i < j /\ rows[i].row = rows[j].row => Meets(rows[i].what, rows[j].what)
    BY DEF Tidy
  <1>2. seen = Only(rows, S)
    BY Zenon DEF Seen
  <1>3. IsList(seen) /\ ToSet(seen) = ToSet(rows) \cap S
    BY <1>1, <1>2, OnlyFacts
  <1>4. PICK f : Chosen(f, seen, rows, m, S)
    BY <1>1, <1>2, OnlyChosen
  <1>5. n \in Nat \ {0} /\ DOMAIN seen = 1 .. n /\ 1 \in 1 .. n
    <2>1. n \in Nat \ {0}
      BY <1>3, EndFacts
    <2> QED BY <1>3, <2>1, ListFacts
  <1>6. /\ \A j \in 1 .. n : f[j] \in 1 .. m /\ seen[j] = rows[f[j]] /\ rows[f[j]] \in S
        /\ \A j, k \in 1 .. n : j < k => f[j] < f[k]
    BY <1>4 DEF Chosen
  <1>7. \A j \in 1 .. n : rows[f[j]].row = y
    BY <1>6
  <1>8. y \in 0 .. h - 1
    BY <1>1, <1>5, <1>6, <1>7
  <1>9. ASSUME NEW i \in 1 .. n, NEW j \in 1 .. n, i < j
        PROVE  Meets(seen[i].what, seen[j].what)
    BY <1>1, <1>6, <1>7, <1>9
  <1> QED BY <1>3, <1>5, <1>8, <1>9

LEMMA ClickedFacts ==
    ASSUME NEW rows, IsList(rows), NEW y, NEW x,
           {z \in ToSet(rows) : z.row = y} = {x}
    PROVE  Clicked(rows, y) = x.what.to
  <1> DEFINE there == {z \in ToSet(rows) : z.what.to # <<>>}
             map   == Only(rows, there)
             S     == {z \in ToSet(map) : z.row = y}
             here  == Only(map, S)
  <1>1. IsList(map) /\ ToSet(map) = ToSet(rows) \cap there
    BY OnlyFacts
  <1>2. Map(rows) = map
    BY Zenon DEF Map
  <1>3. Seen(Map(rows), y) = here
    BY <1>2, Zenon DEF Seen
  <1>4. Clicked(rows, y) = IF here = <<>> THEN <<>> ELSE here[1].what.to
    BY <1>3, Zenon DEF Clicked
  <1>5. \A z : z \in ToSet(map) /\ z.row = y <=> z = x /\ x.what.to # <<>>
    BY <1>1
  <1> HIDE DEF map
  <1>6. IsList(here) /\ ToSet(here) = ToSet(map) \cap S
    BY <1>1, OnlyFacts
  <1>7. \A z \in ToSet(here) : z = x /\ x.what.to # <<>>
    BY <1>5, <1>6
  <1>8. x.what.to # <<>> => x \in ToSet(here)
    BY <1>5, <1>6
  <1> HIDE DEF here
  <1>9. CASE here = <<>>
    <2>1. ToSet(here) = {}
      BY <1>9, SmallLists
    <2> QED BY <1>4, <1>8, <1>9, <2>1
  <1>10. CASE here # <<>>
    <2>1. here[1] \in ToSet(here)
      BY <1>6, <1>10, EndFacts
    <2> QED BY <1>4, <1>7, <1>10, <2>1
  <1> QED BY <1>9, <1>10

LEMMA ClickFacts ==
    ASSUME SidebarInv
    PROVE  DrawnIsClicked
  <1> DEFINE rows == frame(Input)
  <1>1. height \in Nat
    BY DEF SidebarInv
  <1>2. Tidy(rows, height) /\ IsList(rows)
    BY FrameFacts DEF Tidy
  <1> HIDE DEF rows
  <1>3. ASSUME NEW y \in 0 .. height + 1, NEW seen, seen = Seen(rows, y), seen # <<>>,
               NEW top, top = seen[Len(seen)].what
        PROVE  /\ y < height
               /\ top.kind # "tally" => Len(seen) = 1 /\ Clicked(rows, y) = top.to
               /\ top.kind = "tally" => \A i \in 1 .. Len(seen) - 1 :
                                            seen[i].what.kind \in {"meta", "slop"}
    <2> DEFINE n == Len(seen)
    <2>1. /\ n \in Nat \ {0} /\ DOMAIN seen = 1 .. n
          /\ ToSet(seen) = {x \in ToSet(rows) : x.row = y}
          /\ y \in 0 .. height - 1
          /\ \A i, j \in 1 .. n : i < j => Meets(seen[i].what, seen[j].what)
      BY <1>1, <1>2, <1>3, SeenFacts
    <2>2. y < height
      BY <1>1, <2>1
    <2>3. \A i \in 1 .. n - 1 : i \in 1 .. n /\ n \in 1 .. n /\ i < n
      BY <2>1
    <2>4. \A i \in 1 .. n - 1 : Meets(seen[i].what, top)
      BY <1>3, <2>1, <2>3
    <2>5. ASSUME top.kind # "tally" PROVE n = 1 /\ Clicked(rows, y) = top.to
      <3>1. n = 1
        <4> SUFFICES ASSUME n # 1 PROVE FALSE
          OBVIOUS
        <4>1. 1 \in 1 .. n - 1
          BY <2>1
        <4> QED BY <2>4, <2>5, <4>1 DEF Meets
      <3>2. ToSet(seen) = {seen[1]}
        BY <2>1, <3>1 DEF ToSet
      <3>3. Clicked(rows, y) = seen[1].what.to
        BY <1>2, <2>1, <3>2, ClickedFacts
      <3> QED BY <1>3, <3>1, <3>3
    <2>6. ASSUME top.kind = "tally" PROVE \A i \in 1 .. n - 1 : seen[i].what.kind \in {"meta", "slop"}
      BY <2>4 DEF Meets
    <2> QED BY <2>2, <2>5, <2>6
  <1> QED BY <1>3, Zenon DEF DrawnIsClicked, rows

(* In every state nothing is drawn outside the pane or over a row that     *)
(* matters, and a click leads where the row on the screen says             *)
(* (tmuxui/frame.go:245-263, 992-1003).                                    *)
THEOREM DrawnIsClickedTheorem == Spec => []DrawnIsClicked
  <1> QED BY SidebarInvariant, ClickFacts, PTL

(* Where a row of the frame comes from.                                    *)
LEMMA RowsFrom ==
    ASSUME SidebarInv, NEW lay, lay = Layout(Input), NEW canvas, Canvases(lay, canvas),
           NEW x \in ToSet(frame(Input))
    PROVE  \/ x.what.to = <<>> /\ x.what.kind \in {"tally", "hint"}
           \/ \E i \in 1 .. Fleet(lay) : canvas[i].hidden = 0 /\ PartOf(x, Item(lay, canvas, i))
  <1> DEFINE rows == frame(Input)
             n == Fleet(lay)
             out == canvas[n].out
  <1>1. LaidOut(lay)
    BY LayoutFacts
  <1>2. n \in Nat
    BY <1>1, LayFacts
  <1>3. n \in 0 .. n
    BY <1>2
  <1>4. canvas[n] = DrawFleet(lay) /\ Drawn(lay, canvas, n)
    BY <1>3 DEF Canvases, CanvasIs
  <1>5. IsList(rows) /\ Followed(out, rows)
    BY <1>4, FrameFacts DEF Tidy
  <1> HIDE DEF rows
  <1>6. PICK k \in 1 .. Len(rows) : x = rows[k]
    <2>1. DOMAIN rows = 1 .. Len(rows)
      BY <1>5, ListFacts
    <2> QED BY <2>1 DEF ToSet, rows
  <1>7. CASE k > Len(out)
    BY <1>5, <1>6, <1>7 DEF Followed
  <1>8. CASE ~(k > Len(out))
    <2>1. k \in 1 .. Len(out) /\ x = out[k]
      <3>1. Len(out) \in Nat
        BY <1>5 DEF Followed
      <3>2. k \in 1 .. Len(out)
        BY <1>8, <3>1
      <3> QED BY <1>5, <1>6, <3>2 DEF Followed
    <2> QED BY <1>4, <2>1 DEF Drawn
  <1> QED BY <1>7, <1>8

(* What an item that was drawn shows above the limit is in the frame.      *)
LEMMA RowsShown ==
    ASSUME SidebarInv, NEW lay, lay = Layout(Input), NEW canvas, Canvases(lay, canvas),
           NEW i \in 1 .. Fleet(lay), canvas[i].hidden = 0,
           NEW rows, rows = Item(lay, canvas, i),
           NEW k \in 1 .. Len(rows), (canvas[i - 1].row + k) - 1 < lay.limit
    PROVE  \E x \in ToSet(frame(Input)) : x.what = rows[k]
  <1> DEFINE all == frame(Input)
             n == Fleet(lay)
             out == canvas[n].out
             y == (canvas[i - 1].row + k) - 1
  <1>1. LaidOut(lay)
    BY LayoutFacts
  <1>2. n \in Nat
    BY <1>1, LayFacts
  <1>3. n \in 0 .. n
    BY <1>2
  <1>4. canvas[n] = DrawFleet(lay) /\ Drawn(lay, canvas, n)
    BY <1>3 DEF Canvases, CanvasIs
  <1>5. IsList(all) /\ Followed(out, all)
    BY <1>4, FrameFacts DEF Tidy
  <1>6. DrawnAt(lay.limit, canvas[i - 1].row, rows, canvas[n])
    BY <1>4 DEF Drawn
  <1>7. y \in 1 .. Len(out) /\ out[y].what = rows[k]
    BY <1>6 DEF DrawnAt
  <1> HIDE DEF all, y, out
  <1>8. y \in 1 .. Len(all) /\ all[y] = out[y]
    <2>1. Len(out) \in Nat /\ Len(all) \in Nat /\ Len(out) <= Len(all)
      BY <1>5, ListFacts DEF Followed
    <2>2. y \in 1 .. Len(all)
      BY <1>7, <2>1
    <2> QED BY <1>5, <1>7, <2>2 DEF Followed
  <1>9. all[y] \in ToSet(all)
    <2>1. DOMAIN all = 1 .. Len(all)
      BY <1>5, ListFacts
    <2> QED BY <1>8, <2>1 DEF ToSet
  <1> QED BY <1>7, <1>8, <1>9 DEF all

(* The rows of a block.                                                    *)
LEMMA PartFacts ==
    ASSUME NEW b, b.meta \in Nat, NEW roster, IsList(roster), NEW rows, BlockLines(b, roster, rows)
    PROVE  /\ \A x : PartOf(x, rows) =>
                 \/ x.what \in {NameRow(b), MetaRow(b), SlopRow(b)}
                 \/ x.what \in ToSet(roster)
           /\ 1 \in 1 .. Len(rows) /\ rows[1] = NameRow(b)
           /\ \A r \in ToSet(roster) : \E k \in 1 .. Len(rows) :
                 rows[k] = r /\ k <= 1 + b.meta + Len(roster)
  <1>1. PICK m, k \in Nat : m = b.meta /\ k = Len(roster) /\ DOMAIN roster = 1 .. k
    BY ListFacts
  <1>2. /\ IsList(rows) /\ Len(rows) = 1 + m + k + 1
        /\ rows[1] = NameRow(b)
        /\ \A j \in 1 .. m : rows[1 + j] = MetaRow(b)
        /\ \A j \in 1 .. k : rows[1 + m + j] = roster[j]
        /\ rows[1 + m + k + 1] = SlopRow(b)
    BY <1>1 DEF BlockLines
  <1>3. ASSUME NEW j \in 1 .. 1 + m + k + 1
        PROVE  rows[j] \in {NameRow(b), MetaRow(b), SlopRow(b)} \/ rows[j] \in ToSet(roster)
    <2>1. \/ j = 1 \/ (j - 1 \in 1 .. m /\ j = 1 + (j - 1))
          \/ (j - (1 + m) \in 1 .. k /\ j = 1 + m + (j - (1 + m)))
          \/ j = 1 + m + k + 1
      BY <1>3, Zones
    <2>2. CASE j = 1
      BY <1>2, <2>2
    <2>3. CASE j - 1 \in 1 .. m /\ j = 1 + (j - 1)
      <3>1. rows[1 + (j - 1)] = MetaRow(b)
        BY <1>2, <2>3
      <3> QED BY <2>3, <3>1
    <2>4. CASE j - (1 + m) \in 1 .. k /\ j = 1 + m + (j - (1 + m))
      <3>1. rows[1 + m + (j - (1 + m))] = roster[j - (1 + m)]
        BY <1>2, <2>4
      <3>2. roster[j - (1 + m)] \in ToSet(roster)
        BY <1>1, <2>4 DEF ToSet
      <3> QED BY <2>4, <3>1, <3>2
    <2>5. CASE j = 1 + m + k + 1
      BY <1>2, <2>5
    <2> QED BY <2>1, <2>2, <2>3, <2>4, <2>5
  <1>4. ASSUME NEW x, PartOf(x, rows)
        PROVE  x.what \in {NameRow(b), MetaRow(b), SlopRow(b)} \/ x.what \in ToSet(roster)
    <2>1. PICK j \in 1 .. 1 + m + k + 1 : x.what = rows[j]
      BY <1>2, <1>4 DEF PartOf
    <2> QED BY <1>3, <2>1
  <1>5. ASSUME NEW r \in ToSet(roster)
        PROVE  \E j \in 1 .. Len(rows) : rows[j] = r /\ j <= 1 + b.meta + Len(roster)
    <2>1. PICK i \in 1 .. k : r = roster[i]
      BY <1>1 DEF ToSet
    <2>2. 1 + m + i \in 1 .. 1 + m + k + 1 /\ 1 + m + i <= 1 + m + k
      BY <1>1
    <2>3. rows[1 + m + i] = r
      BY <1>2, <2>1
    <2> QED BY <1>1, <1>2, <2>2, <2>3
  <1>6. 1 \in 1 .. Len(rows)
    BY <1>1, <1>2
  <1> QED BY <1>2, <1>4, <1>5, <1>6

(* A project that was drawn has its whole roster in the frame.             *)
Shows(lay, canvas, i, b, avail, roster) ==
    /\ BlockDrawn(lay, b, canvas[i - 1].row, Item(lay, canvas, i), avail, roster)
    /\ canvas[i].hidden = 0 =>
          \A r \in ToSet(roster) : \E x \in ToSet(frame(Input)) : x.what = r

LEMMA BlockShown ==
    ASSUME SidebarInv, NEW lay, lay = Layout(Input), NEW canvas, Canvases(lay, canvas),
           NEW i \in 1 .. Len(lay.blocks), NEW b, b = lay.blocks[i]
    PROVE  /\ i \in 1 .. Fleet(lay) /\ BlockOf(b) /\ canvas[i - 1].row \in Nat
           /\ Item(lay, canvas, i) = BlockRows(lay, b, canvas[i - 1].row)
           /\ \E avail, roster : Shows(lay, canvas, i, b, avail, roster)
  <1> DEFINE row == canvas[i - 1].row
             rows == Item(lay, canvas, i)
  <1>1. /\ LaidOut(lay) /\ lay.limit \in Nat /\ Fleet(lay) \in Nat
        /\ Len(lay.blocks) \in Nat /\ Len(lay.cold) \in Nat
    BY LayoutFacts, LayFacts
  <1>2. i \in 1 .. Fleet(lay) /\ i - 1 \in 0 .. Fleet(lay)
    <2>1. PICK m, k \in Nat : m = Len(lay.blocks) /\ k = Len(lay.cold)
      BY <1>1
    <2>2. Fleet(lay) = m + k
      BY <2>1, Zenon DEF Fleet
    <2>3. i \in 1 .. m
      BY <2>1
    <2> QED BY <2>2, <2>3
  <1>3. BlockOf(b)
    BY <1>1 DEF LaidOut
  <1>4. row \in Nat
    BY <1>2 DEF Canvases, CanvasIs, Filled
  <1>5. rows = BlockRows(lay, b, row)
    <2>1. i <= Len(lay.blocks)
      BY <1>1
    <2> QED BY <2>1, Zenon DEF Item, FleetRows
  <1> HIDE DEF row, rows
  <1>6. PICK avail, roster : BlockDrawn(lay, b, row, rows, avail, roster)
    BY <1>1, <1>3, <1>4, <1>5, BlockRowsFacts
  <1>7. ASSUME canvas[i].hidden = 0, NEW r \in ToSet(roster)
        PROVE  \E x \in ToSet(frame(Input)) : x.what = r
    <2>1. /\ BlockLines(b, roster, rows) /\ IsList(roster)
          /\ Len(roster) \in Nat /\ Len(roster) <= NonNeg(Room(lay, b, row))
      BY <1>6 DEF BlockDrawn
    <2>2. PICK m \in Nat : m = b.meta
      BY <1>3 DEF BlockOf
    <2>3. PICK k \in 1 .. Len(rows) : rows[k] = r /\ k <= 1 + b.meta + Len(roster)
      BY <2>1, <2>2, PartFacts
    <2>4. Len(roster) # 0
      <3>1. DOMAIN roster = 1 .. Len(roster)
        BY <2>1, ListFacts
      <3> QED BY <1>7, <3>1 DEF ToSet
    <2>5. PICK n \in Nat : n = Len(roster)
      BY <2>1
    <2>6. n # 0 /\ n <= NonNeg(lay.limit - (row + 1 + m) - 1) /\ k <= 1 + m + n
      BY <2>1, <2>2, <2>3, <2>4, <2>5 DEF Room
    <2>7. (row + k) - 1 < lay.limit
      <3> DEFINE l == lay.limit
      <3>1. l \in Nat
        BY <1>1
      <3> HIDE DEF l
      <3>2. n <= NonNeg(l - (row + 1 + m) - 1)
        BY <2>6 DEF l
      <3>3. n <= l - (row + 1 + m) - 1
        BY <1>4, <2>6, <3>1, <3>2 DEF NonNeg
      <3>4. (row + k) - 1 < l
        BY <1>4, <2>6, <3>1, <3>3
      <3> QED BY <3>4 DEF l
    <2> QED BY <1>2, <1>7, <2>3, <2>7, RowsShown DEF row, rows
  <1>8. Shows(lay, canvas, i, b, avail, roster)
    BY <1>6, <1>7 DEF Shows, row, rows
  <1> QED BY <1>2, <1>3, <1>4, <1>5, <1>8 DEF row, rows

(* Rows of one project are not rows of another.                            *)
LEMMA TargetsApart ==
    /\ \A p, q : <<p>> # <<q, "svcfold">> /\ <<>> # <<q, "svcfold">>
    /\ \A p, q, w : <<p, w>> = <<q, "svcfold">> => p = q
    /\ \A p, w : <<p, w>>[1] = p
  OBVIOUS

LEMMA FoldRows ==
    ASSUME SidebarInv, NEW lay, lay = Layout(Input), NEW canvas, Canvases(lay, canvas),
           NEW j \in 1 .. Len(lay.blocks), NEW b, b = lay.blocks[j],
           NEW x \in ToSet(frame(Input)), x.what.to = <<b.p, "svcfold">>
    PROVE  x.what = Heading(b.p, b.services, b.fold)
  <1>1. LaidOut(lay) /\ Fleet(lay) \in Nat /\ Len(lay.blocks) \in Nat /\ BlockOf(b)
        /\ lay.cold = Cold(Input) /\ ToSet(lay.cold) \subseteq All
    BY LayoutFacts, LayFacts, BlockShown
  <1>2. PICK i \in 1 .. Fleet(lay) : canvas[i].hidden = 0 /\ PartOf(x, Item(lay, canvas, i))
    BY RowsFrom, TargetsApart
  <1>3. CASE i <= Len(lay.blocks)
    <2> DEFINE c == lay.blocks[i]
    <2>1. i \in 1 .. Len(lay.blocks)
      BY <1>1, <1>3
    <2>2. PICK avail, roster :
             BlockDrawn(lay, c, canvas[i - 1].row, Item(lay, canvas, i), avail, roster)
      BY <2>1, BlockShown DEF Shows
    <2>3. BlockOf(c)
      BY <2>1, BlockShown
    <2> HIDE DEF c
    <2>4. /\ BlockLines(c, roster, Item(lay, canvas, i)) /\ IsList(roster)
          /\ RosterIs(c.p, c.agents, c.services, avail, c.fold, roster)
      BY <2>2 DEF BlockDrawn
    <2>5. x.what \in {NameRow(c), MetaRow(c), SlopRow(c)} \/ x.what \in ToSet(roster)
      <3>1. c.meta \in Nat
        BY <2>3 DEF BlockOf
      <3> QED BY <1>2, <2>4, <3>1, PartFacts
    <2>6. NameRow(c).to = <<c.p>> /\ MetaRow(c).to = <<c.p>> /\ SlopRow(c).to = <<c.p>>
      BY DEF NameRow, MetaRow, SlopRow, Label
    <2>7. x.what \in ToSet(roster)
      BY <2>5, <2>6, TargetsApart
    <2>8. \/ x.what \in ToSet(c.agents) \/ x.what \in ToSet(Unfolded(c.services, c.fold))
          \/ x.what.to = <<>> \/ x.what = Heading(c.p, c.services, c.fold)
      BY <2>4, <2>7, Zenon DEF RosterIs
    <2>9. \A r \in ToSet(c.agents) \cup ToSet(c.services) : \A q : r.to # <<q, "svcfold">>
      BY <2>3 DEF BlockOf, RowsOf, RowOf
    <2>10. ToSet(Unfolded(c.services, c.fold)) \subseteq ToSet(c.services)
      BY SmallLists DEF Unfolded
    <2>11. x.what = Heading(c.p, c.services, c.fold)
      BY <2>8, <2>9, <2>10, TargetsApart
    <2>12. Heading(c.p, c.services, c.fold).to = <<c.p, "svcfold">>
      BY DEF Heading, Label
    <2>13. c.p = b.p
      BY <2>11, <2>12, TargetsApart
    <2>14. i = j
      BY <1>1, <2>1, <2>13 DEF LaidOut, c
    <2> QED BY <2>11, <2>14 DEF c
  <1>4. CASE ~(i <= Len(lay.blocks))
    <2> DEFINE p == lay.cold[i - Len(lay.blocks)]
    <2>1. Item(lay, canvas, i) = <<ColdRow(p)>>
      BY <1>4, Zenon DEF Item, FleetRows
    <2>2. x.what = ColdRow(p)
      BY <1>2, <2>1, SmallLists DEF PartOf
    <2>3. x.what.to = <<"cold", p>>
      BY <2>2 DEF ColdRow, Label
    <2>4. b.p = "cold"
      BY <2>3, TargetsApart
    <2>5. b.p \in All
      BY <1>1 DEF BlockOf
    <2> QED BY <2>4, <2>5, FleetAssumption
  <1> QED BY <1>3, <1>4

Painted(lay, canvas, j, b, avail, roster) ==
    /\ lay = Layout(Input) /\ Canvases(lay, canvas)
    /\ j \in 1 .. Len(lay.blocks) /\ b = lay.blocks[j]
    /\ BlockDrawn(lay, b, canvas[j - 1].row, Item(lay, canvas, j), avail, roster)

\* The rows of a block that are drawn are those of its roster.
LEMMA RollFrom ==
    ASSUME SidebarInv, NEW lay, NEW canvas, NEW j, NEW b, NEW avail, NEW roster, Painted(lay, canvas, j, b, avail, roster),
           NEW r \in Roll(b), NEW x \in ToSet(frame(Input)), x.what = r
    PROVE  canvas[j].hidden = 0 /\ r \in ToSet(roster)
  <1>0. /\ lay = Layout(Input) /\ Canvases(lay, canvas)
        /\ j \in 1 .. Len(lay.blocks) /\ b = lay.blocks[j]
        /\ BlockDrawn(lay, b, canvas[j - 1].row, Item(lay, canvas, j), avail, roster)
    BY DEF Painted
  <1>1. LaidOut(lay) /\ Fleet(lay) \in Nat /\ Len(lay.blocks) \in Nat /\ BlockOf(b)
    BY <1>0, LayoutFacts, LayFacts, BlockShown
  <1>2. r.kind = "row" /\ r.to[1] = b.p
    BY <1>1 DEF Roll, BlockOf, RowsOf, RowOf
  <1>3. PICK i \in 1 .. Fleet(lay) : canvas[i].hidden = 0 /\ PartOf(x, Item(lay, canvas, i))
    BY <1>0, <1>2, RowsFrom
  <1>4. CASE i <= Len(lay.blocks)
    <2> DEFINE c == lay.blocks[i]
    <2>1. i \in 1 .. Len(lay.blocks)
      BY <1>1, <1>4
    <2>2. ASSUME NEW a, NEW R, BlockDrawn(lay, c, canvas[i - 1].row, Item(lay, canvas, i), a, R)
          PROVE  r \in ToSet(R) /\ c.p = b.p
      <3>1. BlockOf(c)
        BY <1>0, <2>1, BlockShown
      <3> HIDE DEF c
      <3>2. /\ BlockLines(c, R, Item(lay, canvas, i)) /\ IsList(R)
            /\ RosterIs(c.p, c.agents, c.services, a, c.fold, R)
        BY <2>2 DEF BlockDrawn
      <3>3. x.what \in {NameRow(c), MetaRow(c), SlopRow(c)} \/ x.what \in ToSet(R)
        <4>1. c.meta \in Nat
          BY <3>1 DEF BlockOf
        <4> QED BY <1>3, <3>2, <4>1, PartFacts
      <3>4. NameRow(c).kind = "name" /\ MetaRow(c).kind = "meta" /\ SlopRow(c).kind = "slop"
        BY DEF NameRow, MetaRow, SlopRow, Label
      <3>5. r \in ToSet(R)
        BY <1>2, <3>3, <3>4
      <3>6. \/ r \in ToSet(c.agents) \/ r \in ToSet(Unfolded(c.services, c.fold))
            \/ r.kind \in {"header", "more"} \/ r = Heading(c.p, c.services, c.fold)
        BY <3>2, <3>5, Zenon DEF RosterIs
      <3>7. Heading(c.p, c.services, c.fold).kind = "header"
        BY DEF Heading, Label
      <3>8. ToSet(Unfolded(c.services, c.fold)) \subseteq ToSet(c.services)
        BY SmallLists DEF Unfolded
      <3>9. r \in ToSet(c.agents) \cup ToSet(c.services)
        BY <1>2, <3>6, <3>7, <3>8
      <3>10. r.to[1] = c.p
        BY <3>1, <3>9 DEF BlockOf, RowsOf, RowOf
      <3> QED BY <1>2, <3>5, <3>10
    <2>3. PICK a, R : BlockDrawn(lay, c, canvas[i - 1].row, Item(lay, canvas, i), a, R)
      BY <1>0, <2>1, BlockShown DEF Shows
    <2>4. c.p = b.p
      BY <2>2, <2>3
    <2>5. i = j
      BY <1>0, <1>1, <2>1, <2>4 DEF LaidOut
    <2>6. r \in ToSet(roster)
      BY <1>0, <2>2, <2>5
    <2> QED BY <1>3, <2>5, <2>6
  <1>5. CASE ~(i <= Len(lay.blocks))
    <2> DEFINE p == lay.cold[i - Len(lay.blocks)]
    <2>1. Item(lay, canvas, i) = <<ColdRow(p)>>
      BY <1>5, Zenon DEF Item, FleetRows
    <2>2. x.what = ColdRow(p)
      BY <1>3, <2>1, SmallLists DEF PartOf
    <2>3. ColdRow(p).kind = "cold"
      BY DEF ColdRow, Label
    <2> QED BY <1>2, <2>2, <2>3
  <1> QED BY <1>4, <1>5

LEMMA QuietFacts ==
    ASSUME SidebarInv
    PROVE  QuietFoldsFirst
  <1> DEFINE rows == frame(Input)
             lay == Layout(Input)
  <1>1. LaidOut(lay) /\ lay.blocks = Blocks(Input)
    BY LayoutFacts
  <1>2. PICK canvas : Canvases(lay, canvas)
    BY <1>1, CanvasFacts
  <1>l. lay = Layout(Input)
    OBVIOUS
  <1> HIDE DEF lay, rows
  <1>3. ASSUME NEW b \in ToSet(Blocks(Input)), NEW drawn, drawn = DrawnOf(rows, Roll(b))
        PROVE  /\ (\E r \in Roll(b) \ drawn : ~r.dim) => \A r \in drawn : ~r.dim
               /\ b.fold /\ (\E r \in ToSet(b.services) : ~r.dim) =>
                     \A x \in ToSet(rows) : x.what.to = <<b.p, "svcfold">> => ~x.what.dim
    <2>1. PICK j \in 1 .. Len(lay.blocks) : b = lay.blocks[j]
      <3>1. IsList(lay.blocks) /\ b \in ToSet(lay.blocks)
        BY <1>1, <1>3 DEF LaidOut
      <3>2. DOMAIN lay.blocks = 1 .. Len(lay.blocks)
        BY <3>1, ListFacts
      <3> QED BY <3>1, <3>2 DEF ToSet
    <2>2. PICK avail, roster :
             /\ BlockDrawn(lay, b, canvas[j - 1].row, Item(lay, canvas, j), avail, roster)
             /\ canvas[j].hidden = 0 =>
                   \A r \in ToSet(roster) : \E x \in ToSet(rows) : x.what = r
      <3>1. \E avail, roster : Shows(lay, canvas, j, b, avail, roster)
        BY <1>2, <1>l, <2>1, BlockShown
      <3> QED BY <3>1, Zenon DEF Shows, rows
    <2>3. ASSUME NEW r \in drawn
          PROVE  canvas[j].hidden = 0 /\ r \in Roll(b) /\ r \in ToSet(roster)
      <3>1. r \in Roll(b)
        BY <1>3, <2>3 DEF DrawnOf
      <3>2. PICK x \in ToSet(rows) : x.what = r
        BY <1>3, <2>3 DEF DrawnOf
      <3>3. canvas[j].hidden = 0 /\ r \in ToSet(roster)
        <4>1. x \in ToSet(frame(Input)) /\ x.what = r
          BY <3>2 DEF rows
        <4>2. Painted(lay, canvas, j, b, avail, roster)
          BY <1>2, <1>l, <2>1, <2>2, Zenon DEF Painted
        <4> QED BY <3>1, <4>1, <4>2, RollFrom
      <3> QED BY <3>1, <3>3
    <2>4. ASSUME NEW r \in Roll(b), r \notin drawn, canvas[j].hidden = 0
          PROVE  r \notin ToSet(roster)
      BY <1>3, <2>2, <2>4 DEF DrawnOf
    <2>5. Roll(b) = ToSet(b.agents) \cup ToSet(Unfolded(b.services, b.fold))
      <3>1. ToSet(Unfolded(b.services, b.fold)) = IF b.fold THEN {} ELSE ToSet(b.services)
        BY SmallLists DEF Unfolded
      <3> QED BY <3>1 DEF Roll
    <2>6. (\E r \in Roll(b) : r \notin ToSet(roster) /\ ~r.dim) =>
             \A r \in Roll(b) \cap ToSet(roster) : ~r.dim
      <3>1. RosterIs(b.p, b.agents, b.services, avail, b.fold, roster)
        BY <2>2 DEF BlockDrawn
      <3> QED BY <2>5, <3>1, Zenon DEF RosterIs
    <2>7. ASSUME NEW r \in Roll(b), r \notin drawn, ~r.dim, NEW s \in drawn PROVE ~s.dim
      <3>1. canvas[j].hidden = 0 /\ s \in Roll(b) /\ s \in ToSet(roster)
        BY <2>3, <2>7
      <3>2. r \notin ToSet(roster)
        BY <2>4, <2>7, <3>1
      <3> QED BY <2>6, <2>7, <3>1, <3>2
    <2>8. ASSUME b.fold, NEW r \in ToSet(b.services), ~r.dim,
                 NEW x \in ToSet(rows), x.what.to = <<b.p, "svcfold">>
          PROVE  ~x.what.dim
      <3>1. x.what = Heading(b.p, b.services, b.fold)
        BY <1>2, <2>1, <2>8, FoldRows DEF lay, rows
      <3>2. Heading(b.p, b.services, b.fold).dim = (b.fold => \A s \in ToSet(b.services) : s.dim)
        BY DEF Heading, Label
      <3> QED BY <2>8, <3>1, <3>2
    <2> QED BY <2>7, <2>8
  <1> QED BY <1>3, Zenon DEF QuietFoldsFirst, rows

(* In every state a row that needs eyes is never the hidden one while a    *)
(* quiet row of its project shows, and a folded group that hides one says  *)
(* so (tmuxui/frame.go:421-433).                                           *)
THEOREM QuietFoldsFirstTheorem == Spec => []QuietFoldsFirst
  <1> QED BY SidebarInvariant, QuietFacts, PTL

-----------------------------------------------------------------------------
(* Sizes: no roster is longer than what counts as ample.                   *)
Names(p) == Len(AgentsOf[p]) + Len(ServicesOf[p]) + Len(SidecarsOf[p])

(* A session that is opened has a window more than the bound at most.      *)
SizesInv ==
    /\ \A p \in All : Len(wins[p]) <= MaxWindows + 1 /\ (p \notin live => Len(wins[p]) <= MaxWindows)
    /\ \A p \in All : p \in DOMAIN cache.agents => Len(cache.agents[p]) <= Names(p)

LEMMA AmpleFacts == Ample \in Nat
  BY SMT DEF Ample

LEMMA NamesFacts ==
    ASSUME NEW p \in All
    PROVE  /\ Len(AgentsOf[p]) \in Nat /\ Len(ServicesOf[p]) \in Nat /\ Len(SidecarsOf[p]) \in Nat
           /\ Names(p) \in Nat
  <1>1. IsList(AgentsOf[p]) /\ IsList(ServicesOf[p]) /\ IsList(SidecarsOf[p])
    BY FleetAssumption
  <1>2. Len(AgentsOf[p]) \in Nat /\ Len(ServicesOf[p]) \in Nat /\ Len(SidecarsOf[p]) \in Nat
    BY <1>1, ListFacts
  <1>3. PICK a, b, c \in Nat : a = Len(AgentsOf[p]) /\ b = Len(ServicesOf[p]) /\ c = Len(SidecarsOf[p])
    BY <1>2
  <1>4. Names(p) = a + b + c
    BY <1>3, Zenon DEF Names
  <1> QED BY <1>2, <1>4

LEMMA ListedSize ==
    ASSUME NEW kind, NEW names, NEW state, IsList(names)
    PROVE  IsList(Listed(kind, names, state)) /\ Len(Listed(kind, names, state)) \in 0 .. Len(names)
  <1> DEFINE S == {n \in ToSet(names) : state[n] # "none"}
             there == Only(names, S)
             entry(n) == [kind |-> kind, name |-> n, state |-> state[n]]
             all == [i \in DOMAIN there |-> entry(there[i])]
  <1>1. IsList(there) /\ Len(there) \in 0 .. Len(names)
    <2> HIDE DEF S
    <2> QED BY OnlyFacts, OnlyShorter
  <1>2. Listed(kind, names, state) = all
    BY DEF Listed
  <1> HIDE DEF there, entry
  <1>3. all = [i \in DOMAIN there |-> all[i]]
    OBVIOUS
  <1> HIDE DEF all
  <1>4. IsList(all) /\ Len(all) = Len(there)
    BY <1>1, <1>3, ListMade
  <1> QED BY <1>1, <1>2, <1>4

LEMMA EntriesSize ==
    ASSUME NEW p \in All, NEW ok, NEW reached
    PROVE  Len(agentEntriesFor(p, ok, reached)) <= Names(p)
  <1> DEFINE agents   == Listed("agent", AgentsOf[p], inner[p])
             services == Listed("svc", ServicesOf[p], inner[p])
             sidecars == Listed("sidecar", SidecarsOf[p], cars[p])
             first == IF Up(dev[p]) /\ reached THEN agents \o services ELSE <<>>
             last  == IF ok THEN sidecars ELSE <<>>
  <1>1. agentEntriesFor(p, ok, reached) = first \o last
    BY DEF agentEntriesFor
  <1>2. IsList(AgentsOf[p]) /\ IsList(ServicesOf[p]) /\ IsList(SidecarsOf[p])
    BY FleetAssumption
  <1>3. /\ IsList(agents) /\ Len(agents) \in 0 .. Len(AgentsOf[p])
        /\ IsList(services) /\ Len(services) \in 0 .. Len(ServicesOf[p])
        /\ IsList(sidecars) /\ Len(sidecars) \in 0 .. Len(SidecarsOf[p])
    BY <1>2, ListedSize
  <1>4. PICK a, b, c \in Nat : a = Len(AgentsOf[p]) /\ b = Len(ServicesOf[p]) /\ c = Len(SidecarsOf[p])
    BY NamesFacts
  <1> HIDE DEF agents, services, sidecars
  <1>5. IsList(agents \o services) /\ Len(agents \o services) = Len(agents) + Len(services)
    BY <1>3, JoinFacts
  <1>6. IsList(first) /\ Len(first) \in 0 .. a + b
    <2>1. Len(agents) \in 0 .. a /\ Len(services) \in 0 .. b
      BY <1>3, <1>4
    <2>x. PICK x \in 0 .. a, y \in 0 .. b : x = Len(agents) /\ y = Len(services)
      BY <2>1
    <2>y. x + y \in 0 .. a + b /\ 0 \in 0 .. a + b
      BY <2>x
    <2>2. Len(agents \o services) \in 0 .. a + b
      BY <1>5, <2>x, <2>y, Zenon
    <2>3. CASE Up(dev[p]) /\ reached
      <3>1. first = agents \o services
        BY <2>3
      <3> HIDE DEF first
      <3> QED BY <1>5, <2>2, <3>1, Zenon
    <2>4. CASE ~(Up(dev[p]) /\ reached)
      <3>1. first = <<>>
        BY <2>4
      <3> HIDE DEF first
      <3> QED BY <2>y, <3>1, SmallLists, Zenon
    <2> QED BY <2>3, <2>4
  <1>7. IsList(last) /\ Len(last) \in 0 .. c
    <2>1. CASE ok
      BY <1>3, <1>4, <2>1
    <2>2. CASE ~ok
      BY <1>4, <2>2, SmallLists
    <2> QED BY <2>1, <2>2
  <1> HIDE DEF first, last
  <1>8. Len(first \o last) = Len(first) + Len(last)
    BY <1>6, <1>7, JoinFacts
  <1>9. Len(first \o last) <= a + b + c
    BY <1>6, <1>7, <1>8
  <1> QED BY <1>1, <1>4, <1>9 DEF Names

LEMMA FetchedSize ==
    ASSUME NEW ok, NEW reached, NEW c, c = Fetched(ok, reached)
    PROVE  \A p \in All : p \in DOMAIN c.agents => Len(c.agents[p]) <= Names(p)
  <1>1. c.agents = [p \in All |-> agentEntriesFor(p, ok, reached)]
    BY DEF Fetched
  <1> QED BY <1>1, EntriesSize

LEMMA InitSizes == Init => SizesInv
  <1> SUFFICES ASSUME Init PROVE SizesInv
    OBVIOUS
  <1>1. ASSUME NEW p \in All
        PROVE  Len(wins[p]) <= MaxWindows + 1 /\ Len(wins[p]) <= MaxWindows
    <2>1. Len(wins[p]) <= MaxWindows /\ IsList(wins[p]) /\ MaxWindows \in Nat
      BY FleetAssumption, AmpleAssumption DEF Init
    <2>2. Len(wins[p]) \in Nat
      BY <2>1, ListFacts
    <2> QED BY <2>1, <2>2
  <1>2. CASE cache = NoCache
    BY <1>1, <1>2 DEF NoCache, SizesInv
  <1>3. CASE cache = Fetched(TRUE, TRUE)
    BY <1>1, <1>3, FetchedSize DEF SizesInv
  <1> QED BY <1>2, <1>3 DEF Init

LEMMA RemoveSize ==
    ASSUME NEW s, IsList(s), NEW i \in DOMAIN s
    PROVE  Len(RemoveAt(s, i)) <= Len(s)
  <1> DEFINE S == ToSet(s)
             n == Len(s)
  <1>1. s \in Seq(S) /\ n \in Nat /\ i \in 1 .. n
    BY ListFacts DEF IsList
  <1> HIDE DEF S
  <1>2. RemoveAt(s, i) = SubSeq(s, 1, i - 1) \o SubSeq(s, i + 1, n)
    BY DEF RemoveAt
  <1>3. SubSeq(s, 1, i - 1) \in Seq(S) /\ Len(SubSeq(s, 1, i - 1)) = i - 1
    BY <1>1
  <1>4. SubSeq(s, i + 1, n) \in Seq(S) /\ Len(SubSeq(s, i + 1, n)) = n - i
    BY <1>1
  <1>5. Len(RemoveAt(s, i)) = (i - 1) + (n - i)
    BY <1>2, <1>3, <1>4
  <1> QED BY <1>1, <1>5

LEMMA OpenedSize ==
    ASSUME WindowsInv, NEW p, NEW stamp, wins' = Opened(p, stamp)
    PROVE  \A q \in All : wins'[q] = wins[q] \/ (q = p /\ Len(wins'[q]) = Len(wins[q]) + 1)
  <1> DEFINE id == CHOOSE n \in 1 .. Len(wins[p]) + 1 : \A w \in ToSet(wins[p]) : w.id # n
             window == [id |-> id, stamp |-> stamp, mark |-> "", state |-> ""]
  <1>1. wins' = [wins EXCEPT ![p] = Append(wins[p], window)]
    BY Zenon DEF Opened
  <1> HIDE DEF window
  <1>2. \A q \in All : wins'[q] = wins[q] \/ (q = p /\ wins'[q] = Append(wins[q], window))
    BY <1>1 DEF WindowsInv
  <1>3. \A q \in All : Len(Append(wins[q], window)) = Len(wins[q]) + 1
    BY AppendFacts DEF WindowsInv
  <1> QED BY <1>2, <1>3

LEMMA MarkedSize ==
    ASSUME WindowsInv, NEW p \in All, NEW there, NEW mark, NEW st,
           wins' = Marked(p, there, mark, st)
    PROVE  \A q \in All : Len(wins'[q]) = Len(wins[q])
  <1> DEFINE w(i) == IF i \in there THEN [wins[p][i] EXCEPT !.mark = mark, !.state = st]
                                    ELSE wins[p][i]
             told == [i \in DOMAIN wins[p] |-> w(i)]
  <1>1. wins' = [wins EXCEPT ![p] = told]
    BY Zenon DEF Marked
  <1>2. Len(told) = Len(wins[p])
    <2>1. IsList(wins[p])
      BY DEF WindowsInv
    <2> HIDE DEF w
    <2>2. told = [i \in DOMAIN wins[p] |-> told[i]]
      OBVIOUS
    <2> HIDE DEF told
    <2> QED BY <2>1, <2>2, ListMade
  <1> HIDE DEF told
  <1> QED BY <1>1, <1>2 DEF WindowsInv

LEMMA StepSizes ==
    ASSUME SidebarInv, SizesInv, [Next]_vars
    PROVE  SizesInv'
  <1> DEFINE Bound(p) == Len(wins[p]) <= MaxWindows + 1 /\ (p \notin live => Len(wins[p]) <= MaxWindows)
             Kept == cache' = cache /\ \A q \in All : Bound(q)'
  <1>1. /\ MaxWindows \in Nat /\ WindowsInv
        /\ \A q \in All : Len(wins[q]) \in Nat /\ Bound(q)
    BY ListFacts, AmpleAssumption DEF SidebarInv, WindowsInv, SizesInv
  <1>2. ASSUME wins' = wins, live' = live PROVE \A q \in All : Bound(q)'
    BY <1>1, <1>2
  <1>3. ASSUME NEW ok \in BOOLEAN, NEW reached \in BOOLEAN, Fetch(ok, reached)
        PROVE  SizesInv'
    <2>1. wins' = wins /\ live' = live /\ cache' = Fetched(ok, reached)
      BY <1>3 DEF Fetch
    <2>2. \A p \in All : p \in DOMAIN cache'.agents => Len(cache'.agents[p]) <= Names(p)
      BY <2>1, FetchedSize
    <2> QED BY <1>2, <2>1, <2>2 DEF SizesInv
  <1>4. ASSUME NEW h, Resize(h)
        PROVE  Kept
    BY <1>2, <1>4 DEF Resize
  <1>5. ASSUME NEW p \in All, NEW a, NEW st, NEW hooked, AgentMoves(p, a, st, hooked)
        PROVE  Kept
    BY <1>1, <1>5, MarkedSize DEF AgentMoves
  <1>16. ASSUME NEW p \in All, NEW i, FrontendDies(p, i)
         PROVE  Kept
    BY <1>1, <1>16, MarkedSize DEF FrontendDies
  <1>6. ASSUME NEW p, NEW n, NEW st, ServiceMoves(p, n, st)
        PROVE  Kept
    BY <1>2, <1>6 DEF ServiceMoves
  <1>7. ASSUME NEW p, NEW st, DevMoves(p, st)
        PROVE  Kept
    BY <1>2, <1>7 DEF DevMoves
  <1>8. ASSUME NEW p, NEW c, NEW st, SidecarMoves(p, c, st)
        PROVE  Kept
    BY <1>2, <1>8 DEF SidecarMoves
  <1>9. ASSUME NEW p, NEW stamp, Len(wins[p]) < MaxWindows, live' = live, cache' = cache,
               wins' = Opened(p, stamp)
        PROVE  Kept
    <2>1. \A q \in All : wins'[q] = wins[q] \/ (q = p /\ Len(wins'[q]) = Len(wins[q]) + 1)
      BY <1>1, <1>9, OpenedSize
    <2>2. ASSUME NEW q \in All PROVE Bound(q)'
      <3>1. CASE wins'[q] = wins[q]
        BY <1>1, <1>9, <3>1
      <3>2. CASE q = p /\ Len(wins'[q]) = Len(wins[q]) + 1
        <4>1. PICK n \in Nat : n = Len(wins[q]) /\ n < MaxWindows
          BY <1>1, <1>9, <3>2
        <4>2. n + 1 <= MaxWindows /\ n + 1 <= MaxWindows + 1
          BY <1>1, <4>1
        <4>3. Len(wins'[q]) = n + 1
          BY <3>2, <4>1
        <4> QED BY <4>2, <4>3
      <3> QED BY <2>1, <3>1, <3>2
    <2> QED BY <1>9, <2>2
  <1>10. ASSUME NEW p, NEW a, OpenViewer(p, a)
         PROVE  Kept
    BY <1>9, <1>10 DEF OpenViewer
  <1>11. ASSUME NEW p \in All, NEW i, CloseWindow(p, i)
         PROVE  Kept
    <2>1. /\ cache' = cache /\ live' = live /\ i \in DOMAIN wins[p]
          /\ wins' = [wins EXCEPT ![p] = RemoveAt(wins[p], i)]
      BY <1>11 DEF CloseWindow
    <2>2. Len(RemoveAt(wins[p], i)) \in Nat /\ Len(RemoveAt(wins[p], i)) <= Len(wins[p])
      <3>1. IsList(wins[p])
        BY DEF SidebarInv, WindowsInv
      <3> QED BY <2>1, <3>1, RemoveFacts, RemoveSize, ListFacts
    <2>3. \A q \in All : Len(wins'[q]) \in Nat /\ Len(wins'[q]) <= Len(wins[q])
      <3> DEFINE t == RemoveAt(wins[p], i)
      <3> HIDE DEF t
      <3>1. \A q \in All : wins'[q] = IF q = p THEN t ELSE wins[q]
        BY <1>1, <2>1 DEF WindowsInv, t
      <3> QED BY <1>1, <2>2, <3>1 DEF t
    <2> QED BY <1>1, <2>1, <2>3
  <1>12. ASSUME NEW p \in All, CloseSession(p)
         PROVE  Kept
    <2>1. /\ cache' = cache /\ live' = live \ {p} /\ wins' = [wins EXCEPT ![p] = <<>>]
      BY <1>12 DEF CloseSession
    <2>2. Len(<<>>) = 0
      BY SmallLists
    <2>3. \A q \in All : wins'[q] = IF q = p THEN <<>> ELSE wins[q]
      BY <1>1, <2>1 DEF WindowsInv
    <2>4. ASSUME NEW q \in All PROVE Bound(q)'
      BY <1>1, <2>1, <2>2, <2>3
    <2> QED BY <2>1, <2>4
  <1>13. ASSUME NEW to, Click(to)
         PROVE  Kept
    <2>1. ASSUME NEW p, NEW a, ClickAgent(p, a) PROVE Kept
      BY <1>9, <2>1 DEF ClickAgent
    <2>2. ASSUME NEW p, ClickService(p) PROVE Kept
      BY <1>9, <2>2 DEF ClickService
    <2>3. ASSUME NEW p, ClickFold(p) PROVE Kept
      BY <1>2, <2>3 DEF ClickFold
    <2>4. ASSUME NEW p, ClickCold(p) PROVE Kept
      <3>1. p \notin live /\ live' = live \cup {p} /\ cache' = cache /\ wins' = Opened(p, "agent")
        BY <2>4 DEF ClickCold
      <3>2. \A q \in All : wins'[q] = wins[q] \/ (q = p /\ Len(wins'[q]) = Len(wins[q]) + 1)
        BY <1>1, <3>1, OpenedSize
      <3>3. ASSUME NEW q \in All PROVE Bound(q)'
        <4>1. CASE wins'[q] = wins[q]
          BY <1>1, <3>1, <4>1
        <4>2. CASE q = p /\ Len(wins'[q]) = Len(wins[q]) + 1
          <5>1. PICK n \in Nat : n = Len(wins[q]) /\ n <= MaxWindows
            BY <1>1, <3>1, <4>2
          <5>2. n + 1 <= MaxWindows + 1
            BY <1>1, <5>1
          <5>3. Len(wins'[q]) = n + 1 /\ q \in live'
            BY <3>1, <4>2, <5>1
          <5> QED BY <5>2, <5>3
        <4> QED BY <3>2, <4>1, <4>2
      <3> QED BY <3>1, <3>3
    <2> QED BY <1>13, <2>1, <2>2, <2>3, <2>4 DEF Click
  <1>14. CASE UNCHANGED vars
    <2>1. wins' = wins /\ live' = live /\ cache' = cache
      BY <1>14 DEF vars
    <2>2. \A q \in All : Bound(q)'
      BY <1>2, <2>1
    <2> HIDE DEF Bound
    <2> QED BY <2>1, <2>2 DEF SizesInv, Bound
  <1>15. Kept => SizesInv'
    BY DEF SizesInv
  <1> HIDE DEF Kept
  <1> QED BY <1>3, <1>4, <1>5, <1>6, <1>7, <1>8, <1>10, <1>11, <1>12, <1>13, <1>14, <1>15, <1>16,
             ZenonT(60) DEF Next

\* Three kinds of entries are no more than the entries.
LEMMA KindsFit ==
    ASSUME NEW es, IsList(es), NEW k1, NEW k2, NEW k3
    PROVE  /\ IsList(OfKind(es, "agent", k1)) /\ IsList(OfKind(es, "svc", k2))
           /\ IsList(OfKind(es, "sidecar", k3))
           /\ Len(OfKind(es, "agent", k1)) \in Nat /\ Len(OfKind(es, "svc", k2)) \in Nat
           /\ Len(OfKind(es, "sidecar", k3)) \in Nat
           /\ Len(OfKind(es, "agent", k1)) + Len(OfKind(es, "svc", k2))
                 + Len(OfKind(es, "sidecar", k3)) <= Len(es)
  <1> DEFINE A == {e \in ToSet(es) : e.kind = "agent" /\ e.state \in k1}
             B == {e \in ToSet(es) : e.kind = "svc" /\ e.state \in k2}
             C == {e \in ToSet(es) : e.kind = "sidecar" /\ e.state \in k3}
             D == A \cup B
             E == D \cup C
  <1>1. /\ OfKind(es, "agent", k1) = Only(es, A) /\ OfKind(es, "svc", k2) = Only(es, B)
        /\ OfKind(es, "sidecar", k3) = Only(es, C)
    BY Zenon DEF OfKind
  <1>2. /\ \A x : ~(x \in A /\ x \in B) /\ (x \in D <=> x \in A \/ x \in B)
        /\ \A x : ~(x \in D /\ x \in C) /\ (x \in E <=> x \in D \/ x \in C)
    OBVIOUS
  <1> HIDE DEF A, B, C, D, E
  <1>3. Len(Only(es, A)) + Len(Only(es, B)) = Len(Only(es, D))
    BY <1>2, OnlyParts
  <1>4. Len(Only(es, D)) + Len(Only(es, C)) = Len(Only(es, E))
    BY <1>2, OnlyParts
  <1>5. PICK a, b, c, d, e, n \in Nat :
           /\ a = Len(Only(es, A)) /\ b = Len(Only(es, B)) /\ c = Len(Only(es, C))
           /\ d = Len(Only(es, D)) /\ e = Len(Only(es, E)) /\ n = Len(es) /\ e <= n
    <2>1. /\ Len(es) \in Nat
          /\ Len(Only(es, A)) \in 0 .. Len(es) /\ Len(Only(es, B)) \in 0 .. Len(es)
          /\ Len(Only(es, C)) \in 0 .. Len(es) /\ Len(Only(es, D)) \in 0 .. Len(es)
          /\ Len(Only(es, E)) \in 0 .. Len(es)
      BY ListFacts, OnlyShorter
    <2>2. \A x : x \in 0 .. Len(es) => x \in Nat /\ x <= Len(es)
      BY <2>1
    <2> QED BY <2>1, <2>2, Zenon
  <1>6. a + b = d /\ d + c = e
    BY <1>3, <1>4, <1>5, Zenon
  <1>7. (a + b) + c <= n
    BY <1>5, <1>6
  <1>8. IsList(Only(es, A)) /\ IsList(Only(es, B)) /\ IsList(Only(es, C))
    BY OnlyFacts
  <1>9. Len(Only(es, A)) + Len(Only(es, B)) + Len(Only(es, C)) <= Len(es)
    BY <1>5, <1>7, Zenon
  <1> QED BY <1>1, <1>5, <1>8, <1>9, Zenon

LEMMA AgentRowsSize ==
    ASSUME NEW s, IsList(s.wins), NEW entries, IsList(entries)
    PROVE  /\ Len(agentRows(s, entries)) \in Nat
           /\ Len(agentRows(s, entries)) <= Len(s.wins) + Len(OfKind(entries, "agent", AgentStates))
  <1> DEFINE shown  == Shown(s)
             known  == OfKind(entries, "agent", AgentStates)
             cached == Only(known, {e \in ToSet(known) : e.name \notin DrawnIn(s)})
             for(w) == WindowRow(s, w)
             of(e)  == CacheRow(s, e)
             first  == [i \in DOMAIN shown |-> for(shown[i])]
             last   == [i \in DOMAIN cached |-> of(cached[i])]
  <1>1. agentRows(s, entries) = first \o last
    BY DEF agentRows
  <1>2. IsList(known) /\ Len(known) \in Nat
    BY KindsFit
  <1>3. IsList(shown) /\ Len(shown) \in 0 .. Len(s.wins) /\ Len(s.wins) \in Nat
    BY OnlyFacts, OnlyShorter, ListFacts DEF Shown
  <1>4. IsList(cached) /\ Len(cached) \in 0 .. Len(known)
    <2> DEFINE S == {e \in ToSet(known) : e.name \notin DrawnIn(s)}
    <2> HIDE DEF S, known
    <2> QED BY <1>2, OnlyFacts, OnlyShorter
  <1> HIDE DEF shown, known, cached, for, of
  <1>5. first = [i \in DOMAIN shown |-> first[i]] /\ last = [i \in DOMAIN cached |-> last[i]]
    OBVIOUS
  <1> HIDE DEF first, last
  <1>6. /\ IsList(first) /\ Len(first) = Len(shown) /\ IsList(last) /\ Len(last) = Len(cached)
    BY <1>3, <1>4, <1>5, ListMade
  <1>7. Len(first \o last) = Len(first) + Len(last)
    BY <1>6, JoinFacts
  <1>8. PICK a, b, c, d \in Nat : a = Len(first) /\ b = Len(last) /\ c = Len(s.wins) /\ d = Len(known)
                                  /\ a <= c /\ b <= d
    BY <1>2, <1>3, <1>4, <1>6
  <1>9. a + b <= c + d /\ a + b \in Nat
    BY <1>8
  <1> QED BY <1>1, <1>7, <1>8, <1>9, Zenon DEF known

LEMMA ServiceRowsSize ==
    ASSUME NEW s, NEW entries, IsList(entries)
    PROVE  Len(serviceRows(s, entries)) = Len(OfKind(entries, "svc", AgentStates))
                                          + Len(OfKind(entries, "sidecar", SidecarStates))
  <1> DEFINE svcs == OfKind(entries, "svc", AgentStates)
             carz == OfKind(entries, "sidecar", SidecarStates)
             of(e)  == ServiceRow(s, e)
             for(e) == SidecarRow(s, e)
             first  == [i \in DOMAIN svcs |-> of(svcs[i])]
             last   == [i \in DOMAIN carz |-> for(carz[i])]
  <1>1. serviceRows(s, entries) = first \o last
    BY DEF serviceRows
  <1>2. IsList(svcs) /\ IsList(carz)
    BY KindsFit
  <1> HIDE DEF svcs, carz, for, of
  <1>3. first = [i \in DOMAIN svcs |-> first[i]] /\ last = [i \in DOMAIN carz |-> last[i]]
    OBVIOUS
  <1> HIDE DEF first, last
  <1>4. /\ IsList(first) /\ Len(first) = Len(svcs) /\ IsList(last) /\ Len(last) = Len(carz)
    BY <1>2, <1>3, ListMade
  <1>5. Len(first \o last) = Len(first) + Len(last)
    BY <1>4, JoinFacts
  <1> QED BY <1>1, <1>4, <1>5, Zenon DEF svcs, carz

\* The windows, the entries and the two headings.
LEMMA RosterFits ==
    ASSUME NEW a \in Nat, NEW u \in Nat, NEW h \in Nat, NEW w \in Nat, NEW top \in Nat,
           NEW x \in Nat, NEW y \in Nat, NEW z \in Nat, NEW n \in Nat, NEW m \in Nat, NEW all \in Nat,
           a <= w + x, u <= y + z, h <= 2, w <= top + 1, x + y + z <= m, m <= n,
           (top + 1) + n + 2 <= all
    PROVE  a + u + h \in Nat /\ a + u + h <= all
  OBVIOUS

(* A roster that is drawn in full is not longer than what is ample.        *)
Whole(b) == Len(b.agents) + Len(Unfolded(b.services, b.fold)) + Headers(b.agents, b.services)

LEMMA WholeFacts ==
    ASSUME SidebarInv, SizesInv, NEW p \in All, NEW b, b = frameBlock(Input, Session(p))
    PROVE  Whole(b) \in Nat /\ Whole(b) <= Ample
  <1> DEFINE s == Session(p)
             es == Entries(Input, s)
             l1 == Len(OfKind(es, "agent", AgentStates))
             l2 == Len(OfKind(es, "svc", AgentStates))
             l3 == Len(OfKind(es, "sidecar", SidecarStates))
  <1>1. s.p = p /\ s.wins = wins[p] /\ IsList(s.wins) /\ Len(s.wins) <= MaxWindows + 1
    BY DEF Session, SidebarInv, WindowsInv, SizesInv
  <1>2. IsList(es) /\ Len(es) <= Names(p)
    <2>1. Input.agents = cache.agents
      BY DEF Input
    <2>2. es = IF p \in DOMAIN cache.agents THEN cache.agents[p] ELSE <<>>
      BY <1>1, <2>1 DEF Entries
    <2> HIDE DEF es
    <2>3. CASE p \in DOMAIN cache.agents
      BY <2>2, <2>3 DEF SidebarInv, CacheInv, SizesInv
    <2>4. CASE p \notin DOMAIN cache.agents
      <3>1. es = <<>>
        BY <2>2, <2>4
      <3>2. Len(es) = 0 /\ Names(p) \in Nat
        BY <3>1, SmallLists, NamesFacts
      <3> QED BY <3>1, <3>2, SmallLists
    <2> QED BY <2>3, <2>4
  <1>3. /\ b.agents = agentRows(s, es) /\ b.services = serviceRows(s, es)
    BY DEF frameBlock
  <1> HIDE DEF s, es
  <1>4. l1 \in Nat /\ l2 \in Nat /\ l3 \in Nat /\ l1 + l2 + l3 <= Len(es) /\ Len(es) \in Nat
    BY <1>2, KindsFit, ListFacts
  <1>5. Len(b.agents) \in Nat /\ Len(b.agents) <= Len(s.wins) + l1
    BY <1>1, <1>2, <1>3, AgentRowsSize
  <1>6. Len(b.services) = l2 + l3
    BY <1>2, <1>3, ServiceRowsSize
  <1> HIDE DEF l1, l2, l3
  <1>7. PICK a, t, u, w, n, h \in Nat :
           /\ a = Len(b.agents) /\ t = Len(b.services) /\ u = Len(Unfolded(b.services, b.fold))
           /\ w = Len(s.wins) /\ n = Names(p) /\ h = Headers(b.agents, b.services)
           /\ t = l2 + l3 /\ u <= t /\ h <= 2 /\ w <= MaxWindows + 1
    <2>1. PICK t \in Nat : t = Len(b.services) /\ t = l2 + l3
      BY <1>4, <1>6
    <2>2. PICK u \in Nat : u = Len(Unfolded(b.services, b.fold)) /\ u <= t
      <3>1. CASE b.fold
        <4>1. Unfolded(b.services, b.fold) = <<>>
          BY <3>1 DEF Unfolded
        <4> QED BY <4>1, <2>1, SmallLists
      <3>2. CASE ~b.fold
        <4>1. Unfolded(b.services, b.fold) = b.services
          BY <3>2 DEF Unfolded
        <4> QED BY <4>1, <2>1
      <3> QED BY <3>1, <3>2
    <2>3. Headers(b.agents, b.services) \in Nat /\ Headers(b.agents, b.services) <= 2
      BY HeadersFacts
    <2>4. Len(s.wins) \in Nat /\ Names(p) \in Nat
      BY <1>1, ListFacts, NamesFacts
    <2> QED BY <1>1, <1>5, <2>1, <2>2, <2>3, <2>4
  <1>8. Whole(b) = a + u + h
    BY <1>7, Zenon DEF Whole
  <1>9. MaxWindows \in Nat /\ (MaxWindows + 1) + n + 2 <= Ample
    <2>1. PICK x, y, z \in Nat : x = Len(AgentsOf[p]) /\ y = Len(ServicesOf[p]) /\ z = Len(SidecarsOf[p])
      BY NamesFacts
    <2>2. n = x + y + z
      BY <1>7, <2>1, Zenon DEF Names
    <2>3. MaxWindows \in Nat /\ MaxWindows + 1 + x + y + z + 2 <= Ample
      BY <2>1, AmpleAssumption
    <2> QED BY <2>2, <2>3, AmpleFacts
  <1>10. PICK m \in Nat : m = Len(es)
    BY <1>4
  <1>11. m <= n /\ l1 + l2 + l3 <= m /\ a <= w + l1 /\ u <= l2 + l3
    BY <1>2, <1>4, <1>5, <1>7, <1>10, Zenon
  <1>12. h <= 2 /\ w <= MaxWindows + 1
    BY <1>7, Zenon
  <1>13. a + u + h \in Nat /\ a + u + h <= Ample
    BY <1>4, <1>9, <1>11, <1>12, AmpleFacts, RosterFits
  <1> QED BY <1>8, <1>13

-----------------------------------------------------------------------------
(* What the projects weigh.                                                *)
LEMMA SumSteps ==
    ASSUME NEW ns, Len(ns) \in Nat
    PROVE  \E sum : /\ sum[0] = 0 /\ Total(ns) = sum[Len(ns)]
                    /\ \A i \in 1 .. Len(ns) : sum[i] = sum[i - 1] + ns[i]
  <1> DEFINE n == Len(ns)
             next(c, i) == c + ns[i]
             sum[i \in 0 .. n] == IF i = 0 THEN 0 ELSE next(sum[i - 1], i)
             Runs(g, k) == g = [i \in 0 .. k |-> IF i = 0 THEN 0 ELSE next(g[i - 1], i)]
  <1>1. Total(ns) = sum[n]
    BY DEF Total
  <1>2. sum = CHOOSE g : Runs(g, n)
    OBVIOUS
  <1> HIDE DEF sum, next
  <1>3. ASSUME NEW k \in Nat, k # 0, \E g : Runs(g, k - 1)
        PROVE  \E g : Runs(g, k)
    <2>1. PICK g : Runs(g, k - 1)
      BY <1>3
    <2> DEFINE h == [i \in 0 .. k |-> IF i < k THEN g[i] ELSE next(g[k - 1], k)]
    <2>2. ASSUME NEW i \in 0 .. k
          PROVE  h[i] = IF i = 0 THEN 0 ELSE next(h[i - 1], i)
      <3>1. CASE i < k
        <4>1. i \in 0 .. k - 1 /\ h[i] = g[i] /\ (i # 0 => h[i - 1] = g[i - 1])
          BY <1>3, <3>1
        <4>2. g[i] = IF i = 0 THEN 0 ELSE next(g[i - 1], i)
          BY <2>1, <4>1
        <4> QED BY <4>1, <4>2
      <3>2. CASE i = k
        BY <1>3, <3>2
      <3> QED BY <3>1, <3>2
    <2>3. h = [i \in 0 .. k |-> h[i]]
      OBVIOUS
    <2> HIDE DEF h
    <2>4. Runs(h, k)
      BY <2>2, <2>3
    <2> QED BY <2>4
  <1>4. \A k \in Nat : \E g : Runs(g, k)
    <2>1. Runs([i \in 0 .. 0 |-> 0], 0)
      OBVIOUS
    <2> DEFINE Bad == {k \in Nat : ~\E g : Runs(g, k)}
    <2> HIDE DEF Runs
    <2> SUFFICES ASSUME Bad # {} PROVE FALSE
      OBVIOUS
    <2>2. PICK k \in Bad : \A j \in Bad : k <= j
      <3>1. Bad \in SUBSET Nat
        OBVIOUS
      <3> HIDE DEF Bad
      <3> QED BY <3>1, LeastElement
    <2>3. k # 0
      BY <2>1
    <2>4. k - 1 \in Nat /\ k - 1 \notin Bad
      BY <2>2, <2>3
    <2> QED BY <1>3, <2>3, <2>4
  <1>5. Runs(sum, n)
    <2>1. n \in Nat
      OBVIOUS
    <2> HIDE DEF Runs, n
    <2> QED BY <1>2, <1>4, <2>1, Zenon
  <1>6. \A i \in 0 .. n : sum[i] = IF i = 0 THEN 0 ELSE next(sum[i - 1], i)
    BY <1>5
  <1>7. sum[0] = 0 /\ \A i \in 1 .. n : sum[i] = next(sum[i - 1], i)
    <2>1. 0 \in 0 .. n /\ \A i \in 1 .. n : i \in 0 .. n /\ i # 0
      OBVIOUS
    <2> QED BY <1>6, <2>1, Zenon
  <1> HIDE DEF sum
  <1> QED BY <1>1, <1>7 DEF next

(* The rows that the first items may take: each project its weight, each   *)
(* cold one its line.                                                      *)
Weights(ns) == Len(ns) \in Nat /\ \A i \in 1 .. Len(ns) : ns[i] \in Nat \ {0}

Shares(ns, k, used) ==
    /\ used[0] = 0 /\ used[Len(ns) + k] = Total(ns) + k
    /\ \A i \in 0 .. Len(ns) + k : used[i] \in Nat /\ used[i] + ((Len(ns) + k) - i) <= Total(ns) + k
    /\ \A i \in 1 .. Len(ns) + k : used[i] = used[i - 1] + (IF i <= Len(ns) THEN ns[i] ELSE 1)

LEMMA Downwards ==
    ASSUME NEW n \in Nat, NEW used, used[n] \in Nat, \A i \in 0 .. n : used[i] \in Nat,
           \A i \in 1 .. n : used[i - 1] + 1 <= used[i]
    PROVE  \A i \in 0 .. n : used[i] + (n - i) <= used[n]
  <1> DEFINE Bad == {j \in 0 .. n : ~(used[n - j] + j <= used[n])}
  <1>1. Bad \in SUBSET (0 .. n) /\ 0 \notin Bad
    OBVIOUS
  <1>2. \A j \in 1 .. n : j - 1 \notin Bad => j \notin Bad
    <2> SUFFICES ASSUME NEW j \in 1 .. n, j - 1 \notin Bad
                 PROVE  used[n - j] + j <= used[n]
      OBVIOUS
    <2>1. j - 1 \in 0 .. n /\ n - (j - 1) \in 1 .. n /\ n - j \in 0 .. n
          /\ (n - (j - 1)) - 1 = n - j
      OBVIOUS
    <2>2. used[n - (j - 1)] + (j - 1) <= used[n]
      BY <2>1
    <2>3. used[n - j] + 1 <= used[n - (j - 1)]
      BY <2>1
    <2> QED BY <2>1, <2>2, <2>3
  <1>3. Bad = {}
    <2> HIDE DEF Bad
    <2> QED BY <1>1, <1>2, FirstFailure
  <1> SUFFICES ASSUME NEW i \in 0 .. n PROVE used[i] + (n - i) <= used[n]
    OBVIOUS
  <1>4. n - i \in 0 .. n /\ n - (n - i) = i
    OBVIOUS
  <1>5. n - i \notin Bad
    BY <1>3
  <1>6. used[n - (n - i)] + (n - i) <= used[n]
    BY <1>4, <1>5
  <1> QED BY <1>4, <1>6

LEMMA SharesFacts ==
    ASSUME NEW ns, Weights(ns), NEW k \in Nat
    PROVE  Total(ns) \in Nat /\ \E used : Shares(ns, k, used)
  <1> DEFINE m == Len(ns)
  <1>1. m \in Nat /\ \A i \in 1 .. m : ns[i] \in Nat \ {0}
    BY DEF Weights
  <1>2. PICK sum : /\ sum[0] = 0 /\ Total(ns) = sum[m]
                   /\ \A i \in 1 .. m : sum[i] = sum[i - 1] + ns[i]
    BY <1>1, SumSteps
  <1> HIDE DEF m
  <1>3. \A i \in 0 .. m : sum[i] \in Nat
    <2> DEFINE Bad == {i \in 0 .. m : sum[i] \notin Nat}
    <2>1. Bad \in SUBSET (0 .. m) /\ 0 \notin Bad
      BY <1>2
    <2>2. \A i \in 1 .. m : i - 1 \notin Bad => i \notin Bad
      BY <1>1, <1>2
    <2>3. Bad = {}
      <3> HIDE DEF Bad
      <3> QED BY <1>1, <2>1, <2>2, FirstFailure
    <2> QED BY <2>3
  <1>4. Total(ns) \in Nat
    BY <1>1, <1>2, <1>3
  <1> DEFINE n == m + k
             total == Total(ns)
             used == [i \in 0 .. n |-> IF i <= m THEN sum[i] ELSE total + (i - m)]
  <1>5. used[0] = 0 /\ \A i \in 0 .. n : used[i] \in Nat
    <2>1. 0 \in 0 .. n /\ 0 <= m
      BY <1>1
    <2>2. used[0] = 0
      BY <1>2, <2>1
    <2>3. ASSUME NEW i \in 0 .. n PROVE used[i] \in Nat
      <3>1. CASE i <= m
        <4>1. i \in 0 .. m
          BY <3>1
        <4> QED BY <1>3, <3>1, <4>1
      <3>2. CASE ~(i <= m)
        <4>1. used[i] = total + (i - m)
          BY <3>2
        <4>2. i - m \in Nat
          BY <1>1, <3>2
        <4> HIDE DEF used, total
        <4> QED BY <1>4, <4>1, <4>2 DEF total
      <3> QED BY <3>1, <3>2
    <2> QED BY <2>2, <2>3
  <1>6. used[n] = total + k
    <2>1. n \in 0 .. n /\ (n <= m <=> k = 0) /\ n - m = k
      BY <1>1
    <2>2. CASE k = 0
      <3>1. n = m /\ used[n] = sum[n]
        BY <1>1, <2>1, <2>2
      <3> HIDE DEF used, n
      <3> QED BY <1>2, <1>4, <2>2, <3>1
    <2>3. CASE k # 0
      <3>1. used[n] = total + (n - m)
        BY <2>1, <2>3
      <3> HIDE DEF used, n
      <3> QED BY <2>1, <3>1
    <2> QED BY <2>2, <2>3
  <1>7. ASSUME NEW i \in 1 .. n
        PROVE  used[i] = used[i - 1] + (IF i <= m THEN ns[i] ELSE 1)
    <2>1. i - 1 \in 0 .. n /\ i \in 0 .. n
      BY <1>1
    <2>2. CASE i <= m
      <3>1. i \in 1 .. m /\ i - 1 <= m
        BY <1>1, <2>2
      <3>2. used[i] = sum[i] /\ used[i - 1] = sum[i - 1]
        BY <2>1, <2>2, <3>1
      <3> QED BY <1>2, <2>2, <3>1, <3>2
    <2>3. CASE i = m + 1
      <3>1. used[i] = total + 1 /\ used[i - 1] = total
        BY <1>1, <1>2, <1>4, <2>1, <2>3
      <3> QED BY <1>1, <2>3, <3>1
    <2>4. CASE i > m + 1
      <3>1. used[i] = total + (i - m) /\ used[i - 1] = total + ((i - 1) - m)
        BY <1>1, <2>1, <2>4
      <3> QED BY <1>1, <1>4, <2>4, <3>1
    <2> QED BY <1>1, <2>2, <2>3, <2>4
  <1>8. n \in Nat
    BY <1>1
  <1> HIDE DEF used, n, total
  <1>9. \A i \in 1 .. n : used[i - 1] + 1 <= used[i]
    <2> SUFFICES ASSUME NEW i \in 1 .. n PROVE used[i - 1] + 1 <= used[i]
      OBVIOUS
    <2>1. used[i - 1] \in Nat
      BY <1>5, <1>8
    <2>2. CASE i <= m
      <3>1. ns[i] \in Nat \ {0}
        BY <1>1, <1>8, <2>2
      <3> QED BY <1>7, <2>1, <2>2, <3>1
    <2>3. CASE ~(i <= m)
      BY <1>7, <2>1, <2>3
    <2> QED BY <2>2, <2>3
  <1>10. \A i \in 0 .. n : used[i] + (n - i) <= used[n]
    BY <1>5, <1>8, <1>9, Downwards
  <1>11. Shares(ns, k, used)
    BY <1>5, <1>6, <1>7, <1>10, Zenon DEF Shares, n, m, total
  <1> QED BY <1>4, <1>11

(* The weight by which the fleet is laid out.                              *)
Weight(lay, b) == IF lay.tight THEN Squeezed(b) ELSE Natural(b)

Weighed(b) ==
    /\ BlockOf(b) /\ Whole(b) \in Nat
    /\ Natural(b) = 2 + b.meta + Whole(b)

LEMMA BlockWeighed ==
    ASSUME SidebarInv, SizesInv, NEW i \in 1 .. Len(Blocks(Input)), NEW b, b = Blocks(Input)[i]
    PROVE  Weighed(b)
  <1> DEFINE shown == Only(Projects, live)
  <1>1. PICK p \in All : b = frameBlock(Input, Session(p))
    <2>1. IsList(Projects)
      BY FleetAssumption
    <2>2. IsList(shown) /\ ToSet(shown) = All \cap live
      BY <2>1, OnlyFacts DEF All
    <2>3. DOMAIN Input.sessions = DOMAIN shown
          /\ \A j \in DOMAIN shown : Input.sessions[j] = Session(shown[j])
      BY DEF Input
    <2> HIDE DEF shown
    <2>4. i \in DOMAIN Input.sessions
      <3>1. IsList(Blocks(Input))
        BY BlocksAre
      <3>2. i \in DOMAIN Blocks(Input)
        BY <3>1, ListFacts
      <3> QED BY <3>2 DEF Blocks
    <2>5. b = frameBlock(Input, Input.sessions[i])
      BY <2>4 DEF Blocks
    <2>6. shown[i] \in All
      BY <2>2, <2>3, <2>4 DEF ToSet
    <2> QED BY <2>3, <2>4, <2>5, <2>6
  <1>2. BlockOf(b) /\ Whole(b) \in Nat /\ Whole(b) <= Ample
    BY <1>1, BlockFacts, WholeFacts
  <1> DEFINE R == rosterBlock(b.p, b.agents, b.services, Ample, b.fold)
  <1>3. RowList(b.agents) /\ RowList(b.services)
    BY <1>2 DEF BlockOf, RowsOf, RowOf, RowList
  <1>4. Ample \in Int
    BY AmpleFacts
  <1>5. RosterIs(b.p, b.agents, b.services, Ample, b.fold, R)
    BY <1>3, <1>4, RosterFacts
  <1>6. Natural(b) = 2 + b.meta + Len(R)
    BY Zenon DEF Natural
  <1> HIDE DEF R
  <1>7. Len(R) = Whole(b)
    BY <1>2, <1>5, Zenon DEF RosterIs, Whole
  <1> QED BY <1>2, <1>6, <1>7, Zenon DEF Weighed

LEMMA WeightFacts ==
    ASSUME NEW lay, NEW b, Weighed(b)
    PROVE  /\ Squeezed(b) \in Nat \ {0} /\ Natural(b) \in Nat \ {0}
           /\ Weight(lay, b) \in Nat \ {0}
  <1>1. b.meta \in Nat /\ Whole(b) \in Nat /\ Natural(b) = 2 + b.meta + Whole(b)
        /\ IsList(b.agents) /\ IsList(b.services)
    BY DEF Weighed, BlockOf, RowsOf
  <1>2. Natural(b) \in Nat \ {0}
    BY <1>1
  <1>3. signalCap(b.agents, b.services) \in Nat
    BY <1>1, CapFacts
  <1>4. Squeezed(b) \in Nat \ {0}
    <2> DEFINE cap == signalCap(b.agents, b.services)
    <2>1. 2 + b.meta + cap \in Nat \ {0}
      BY <1>1, <1>3
    <2>2. Squeezed(b) = IF b.self THEN Natural(b) ELSE 2 + b.meta + cap
      BY DEF Squeezed
    <2> HIDE DEF cap
    <2> QED BY <1>2, <2>1, <2>2, Zenon
  <1> QED BY <1>2, <1>4 DEF Weight

(* A project that has room for its weight takes no more, shows every row   *)
(* that needs eyes, and when it is the own one shows them all.             *)
LEMMA WholeFits ==
    ASSUME NEW limit \in Nat, NEW row \in Nat, NEW m \in Nat, NEW w \in Nat,
           row + (2 + m + w) <= limit
    PROVE  w <= limit - (row + 1 + m) - 1
  OBVIOUS

LEMMA Weighs ==
    ASSUME NEW lay, lay.limit \in Nat, NEW b, Weighed(b), NEW row \in Nat, NEW rows, NEW avail,
           NEW roster, BlockDrawn(lay, b, row, rows, avail, roster),
           row + Weight(lay, b) <= lay.limit
    PROVE  /\ Len(rows) \in Nat /\ Len(rows) <= Weight(lay, b)
           /\ \A r \in Roll(b) : b.self \/ ~r.dim => r \in ToSet(roster)
  <1> DEFINE room == Room(lay, b, row)
             cap  == signalCap(b.agents, b.services)
             big  == Whole(b)
  <1>1. b.meta \in Nat /\ big \in Nat /\ Natural(b) = 2 + b.meta + big
        /\ IsList(b.agents) /\ IsList(b.services)
    BY DEF Weighed, BlockOf, RowsOf
  <1>2. cap \in Nat
    BY <1>1, CapFacts
  <1>3. /\ avail \in Int /\ avail <= room
        /\ avail = room \/ (lay.tight /\ ~b.self /\ avail = cap)
        /\ lay.tight /\ ~b.self => avail <= cap
        /\ IsList(roster) /\ Len(roster) \in Nat /\ Len(roster) <= NonNeg(avail)
        /\ RosterIs(b.p, b.agents, b.services, avail, b.fold, roster)
        /\ Len(rows) = 1 + b.meta + Len(roster) + 1
    BY Zenon DEF BlockDrawn, BlockLines
  <1>4. PICK m, n \in Nat : m = b.meta /\ n = Len(roster)
    BY <1>1, <1>3
  <1>5. room = lay.limit - (row + 1 + m) - 1
    BY <1>4 DEF Room
  <1>6. Len(rows) = 1 + m + n + 1
    BY <1>3, <1>4, Zenon
  <1>7. Roll(b) = ToSet(b.agents) \cup ToSet(Unfolded(b.services, b.fold))
    <2>1. ToSet(Unfolded(b.services, b.fold)) = IF b.fold THEN {} ELSE ToSet(b.services)
      BY SmallLists DEF Unfolded
    <2> QED BY <2>1 DEF Roll
  <1>8. /\ avail >= cap => \A r \in Roll(b) : ~r.dim => r \in ToSet(roster)
        /\ big <= avail => Roll(b) \subseteq ToSet(roster) /\ Len(roster) = big
    BY <1>3, <1>7, Zenon DEF RosterIs, Whole
  <1> HIDE DEF room, cap, big
  <1>9. CASE Weight(lay, b) = 2 + m + big /\ avail = room
    <2>1. big <= room
      <3>1. row + (2 + m + big) <= lay.limit
        BY <1>9
      <3> QED BY <1>1, <1>5, <3>1, WholeFits
    <2>2. big <= avail
      BY <1>9, <2>1
    <2>3. Roll(b) \subseteq ToSet(roster) /\ n = big
      BY <1>4, <1>8, <2>2
    <2>4. 1 + m + n + 1 \in Nat /\ 1 + m + n + 1 = 2 + m + n
      OBVIOUS
    <2>5. Len(rows) = Weight(lay, b) /\ Len(rows) \in Nat
      BY <1>6, <1>9, <2>3, <2>4, Zenon
    <2>6. \A x \in Nat : x <= x
      OBVIOUS
    <2> QED BY <2>3, <2>5, <2>6, Zenon
  <1>10. CASE Weight(lay, b) = 2 + m + cap /\ ~b.self /\ lay.tight
    <2>1. cap <= room
      <3>1. row + (2 + m + cap) <= lay.limit
        BY <1>10
      <3> QED BY <1>2, <1>5, <3>1, WholeFits
    <2>2. room \in Int
      BY <1>5
    <2>3. avail = cap
      BY <1>2, <1>3, <1>10, <2>1, <2>2
    <2>4. n <= cap
      <3>1. NonNeg(cap) = cap
        BY <1>2 DEF NonNeg
      <3> QED BY <1>3, <1>4, <2>3, <3>1
    <2>5. avail >= cap
      BY <1>2, <2>3
    <2>6. 1 + m + n + 1 \in Nat /\ 1 + m + n + 1 <= 2 + m + cap
      BY <1>2, <2>4
    <2>7. Len(rows) \in Nat /\ Len(rows) <= Weight(lay, b)
      BY <1>6, <1>10, <2>6, Zenon
    <2> QED BY <1>8, <1>10, <2>5, <2>7
  <1>11. \/ Weight(lay, b) = 2 + m + big /\ avail = room
         \/ Weight(lay, b) = 2 + m + cap /\ ~b.self /\ lay.tight
    <2>1. Natural(b) = 2 + m + big
      BY <1>1, <1>4, Zenon
    <2>2. Squeezed(b) = IF b.self THEN Natural(b) ELSE 2 + m + cap
      BY <1>4, Zenon DEF Squeezed, cap
    <2> QED BY <1>3, <2>1, <2>2, Zenon DEF Weight
  <1> QED BY <1>9, <1>10, <1>11

(* A fleet that fits by its weights.                                       *)
Budget(lay, ns, used) ==
    /\ Weights(ns) /\ Len(ns) = Len(lay.blocks)
    /\ \A i \in 1 .. Len(ns) : ns[i] = Weight(lay, lay.blocks[i]) /\ Weighed(lay.blocks[i])
    /\ Shares(ns, Len(lay.cold), used)
    /\ Total(ns) \in Nat /\ Total(ns) + Len(lay.cold) <= lay.limit - 1

LEMMA BudgetFacts ==
    ASSUME SidebarInv, SizesInv, NEW lay, lay = Layout(Input),
           Fits(Input, Total([i \in DOMAIN Blocks(Input) |-> Squeezed(Blocks(Input)[i])]))
    PROVE  \E ns, used : Budget(lay, ns, used)
  <1> DEFINE bs == Blocks(Input)
             squeezed == [i \in DOMAIN bs |-> Squeezed(bs[i])]
             natural  == [i \in DOMAIN bs |-> Natural(bs[i])]
             ns == IF lay.tight THEN squeezed ELSE natural
  <1>1. /\ LaidOut(lay) /\ lay.blocks = bs /\ lay.cold = Cold(Input)
        /\ lay.limit = Limit(Input) /\ lay.limit \in Nat
    BY LayoutFacts, LayFacts DEF Layout
  <1>2. lay.tight = ~Fits(Input, Total(natural))
    BY DEF Layout
  <1>3. Fits(Input, Total(ns))
    BY <1>2
  <1>4. IsList(bs) /\ Len(bs) \in Nat /\ DOMAIN bs = 1 .. Len(bs)
    BY BlocksAre, ListFacts
  <1>5. \A i \in 1 .. Len(bs) : Weighed(bs[i])
    BY BlockWeighed
  <1>6. ns = [i \in DOMAIN bs |-> Weight(lay, bs[i])]
    BY DEF Weight
  <1> HIDE DEF ns, squeezed, natural, bs
  <1>7. /\ ns = [i \in DOMAIN bs |-> ns[i]]
        /\ \A i \in 1 .. Len(bs) : ns[i] = Weight(lay, bs[i])
    BY <1>4, <1>6
  <1>8. IsList(ns) /\ Len(ns) = Len(bs)
    BY <1>4, <1>7, ListMade
  <1>9. \A i \in 1 .. Len(bs) : ns[i] \in Nat \ {0}
    BY <1>5, <1>7, WeightFacts
  <1>10. Weights(ns)
    BY <1>4, <1>8, <1>9 DEF Weights
  <1>11. Len(lay.cold) \in Nat
    BY <1>1, LayFacts
  <1>12. PICK used : Shares(ns, Len(lay.cold), used)
    BY <1>10, <1>11, SharesFacts
  <1>13. Total(ns) \in Nat
    BY <1>10, <1>11, SharesFacts
  <1>14. Total(ns) + Len(lay.cold) <= lay.limit - 1
    BY <1>1, <1>3 DEF Fits
  <1>15. Budget(lay, ns, used)
    BY <1>1, <1>5, <1>7, <1>8, <1>10, <1>12, <1>13, <1>14, Zenon DEF Budget
  <1> QED BY <1>15

\* The next item of a fleet that fits.
Afforded(limit, total, n, i, a, b, w, row) ==
    /\ limit \in Nat /\ total \in Int /\ total <= limit - 1 /\ n \in Nat /\ i \in 1 .. n
    /\ a \in Nat /\ b \in Nat /\ w \in Nat /\ b = a + w
    /\ a + (n - (i - 1)) <= total /\ b + (n - i) <= total
    /\ row \in Nat /\ row <= 1 + a

LEMMA NextFits ==
    ASSUME NEW limit, NEW total, NEW n, NEW i, NEW a, NEW b, NEW w, NEW row,
           Afforded(limit, total, n, i, a, b, w, row)
    PROVE  /\ row + w <= limit /\ (n - i + 1 > 1 => ~(row + 1 >= limit))
           /\ \A k \in Nat : k <= w => row + k <= 1 + b
  <1>1. /\ limit \in Nat /\ total \in Int /\ total <= limit - 1 /\ n \in Nat /\ i \in 1 .. n
        /\ a \in Nat /\ b \in Nat /\ w \in Nat /\ b = a + w
        /\ a + (n - (i - 1)) <= total /\ b + (n - i) <= total
        /\ row \in Nat /\ row <= 1 + a
    BY Zenon DEF Afforded
  <1>2. row + w <= limit
    BY <1>1
  <1>3. n - i + 1 > 1 => ~(row + 1 >= limit)
    BY <1>1
  <1>4. \A k \in Nat : k <= w => row + k <= 1 + b
    BY <1>1
  <1> QED BY <1>2, <1>3, <1>4, Zenon

LEMMA AffordsStep ==
    ASSUME SidebarInv, NEW lay, lay = Layout(Input), NEW canvas, Canvases(lay, canvas),
           NEW ns, NEW used, Budget(lay, ns, used), NEW i \in 1 .. Fleet(lay),
           canvas[i - 1].hidden = 0, canvas[i - 1].row <= 1 + used[i - 1]
    PROVE  /\ canvas[i].hidden = 0 /\ canvas[i].row <= 1 + used[i]
           /\ canvas[i - 1].row < lay.limit
           /\ i <= Len(lay.blocks) => canvas[i - 1].row + Weight(lay, lay.blocks[i]) <= lay.limit
  <1> DEFINE c == canvas[i - 1]
             d == canvas[i]
             n == Fleet(lay)
             limit == lay.limit
             rows == FleetRows(lay, i, c.row)
             w == IF i <= Len(ns) THEN ns[i] ELSE 1
             k == Len(lay.cold)
  <1>1. LaidOut(lay) /\ limit \in Nat /\ n \in Nat /\ k \in Nat /\ Len(lay.blocks) \in Nat
    BY LayoutFacts, LayFacts
  <1>2. /\ Weights(ns) /\ Len(ns) = Len(lay.blocks) /\ Shares(ns, k, used)
        /\ \A j \in 1 .. Len(ns) : ns[j] = Weight(lay, lay.blocks[j]) /\ Weighed(lay.blocks[j])
        /\ Total(ns) \in Nat /\ Total(ns) + k <= limit - 1
    BY DEF Budget
  <1>3. n = Len(ns) + k
    BY <1>2, Zenon DEF Fleet
  <1>4. i \in 1 .. n /\ i - 1 \in 0 .. n /\ i \in 0 .. n
    BY <1>1
  <1>5. CanvasIs(lay, canvas, i - 1) /\ d = DrawOne(lay, c, i)
    BY <1>4 DEF Canvases
  <1>6. Filled(c, limit) /\ c.row \in Nat /\ c.row # 0 /\ c.hidden = 0
    BY <1>5 DEF CanvasIs, Filled
  <1> DEFINE total == Total(ns) + k
             before == used[i - 1]
             after == used[i]
  <1>7. /\ before \in Nat /\ after \in Nat /\ before + (n - (i - 1)) <= total
        /\ after + (n - i) <= total /\ after = before + w
    BY <1>2, <1>3, <1>4, Zenon DEF Shares
  <1>8. w \in Nat \ {0}
    <2>1. CASE i <= Len(ns)
      <3>1. i \in 1 .. Len(ns)
        BY <1>2, <1>1, <2>1
      <3> QED BY <1>2, <2>1, <3>1 DEF Weights
    <2>2. CASE ~(i <= Len(ns))
      BY <2>2
    <2> QED BY <2>1, <2>2
  <1>9. total \in Int
    BY <1>1, <1>2
  <1>10. total <= limit - 1
    BY <1>2
  <1>11. c.row <= 1 + before
    OBVIOUS
  <1> HIDE DEF total, before, after, w, c, d, rows, limit, n, k
  <1>12. /\ c.row + w <= limit /\ (n - i + 1 > 1 => ~(c.row + 1 >= limit))
         /\ \A x \in Nat : x <= w => c.row + x <= 1 + after
    <2>1. w \in Nat
      BY <1>8
    <2>2. Afforded(limit, total, n, i, before, after, w, c.row)
      BY <1>1, <1>4, <1>6, <1>7, <1>9, <1>10, <1>11, <2>1, Zenon DEF Afforded
    <2> QED BY <2>2, NextFits, Zenon
  <1>13. d = PutAll(c, rows, limit)
    BY <1>5, <1>6, <1>12 DEF DrawOne, n, limit, rows
  <1>14. IsList(rows) /\ Len(rows) \in Nat
    BY <1>1, <1>6, ItemFacts DEF rows, n
  <1>15. d.row = c.row + Len(rows) /\ d.hidden = 0
    <2>1. Grown(c, rows, limit, d)
      BY <1>1, <1>6, <1>13, <1>14, PutAllFacts
    <2> QED BY <1>6, <2>1 DEF Grown
  <1>16. i <= Len(lay.blocks) => w = Weight(lay, lay.blocks[i])
    BY <1>1, <1>2, <1>4 DEF w
  <1>17. Len(rows) <= w
    <2>1. CASE i <= Len(lay.blocks)
      <3> DEFINE b == lay.blocks[i]
      <3>1. i \in 1 .. Len(lay.blocks)
        BY <1>1, <1>4, <2>1
      <3>2. Weighed(b)
        BY <1>2, <3>1
      <3>3. BlockOf(b)
        BY <3>2 DEF Weighed
      <3>4. rows = BlockRows(lay, b, c.row)
        BY <2>1, Zenon DEF FleetRows, rows
      <3> HIDE DEF b
      <3>5. PICK avail, roster : BlockDrawn(lay, b, c.row, rows, avail, roster)
        BY <1>1, <1>6, <3>3, <3>4, BlockRowsFacts DEF limit
      <3>6. c.row + Weight(lay, b) <= lay.limit /\ lay.limit \in Nat
        BY <1>1, <1>12, <1>16, <2>1 DEF limit, b
      <3>7. Len(rows) <= Weight(lay, b)
        BY <1>6, <3>2, <3>5, <3>6, Weighs
      <3> QED BY <1>16, <2>1, <3>7 DEF b
    <2>2. CASE ~(i <= Len(lay.blocks))
      <3>1. rows = <<ColdRow(lay.cold[i - Len(lay.blocks)])>>
        BY <2>2, Zenon DEF FleetRows, rows
      <3>2. Len(rows) = 1
        BY <3>1, SmallLists
      <3> QED BY <1>8, <3>2
    <2> QED BY <2>1, <2>2
  <1>18. c.row + Len(rows) <= 1 + after
    BY <1>12, <1>14, <1>17
  <1>19. c.row < limit
    BY <1>1, <1>6, <1>8, <1>12
  <1> QED BY <1>12, <1>15, <1>16, <1>18, <1>19 DEF c, d, limit, after

LEMMA Affords ==
    ASSUME SidebarInv, NEW lay, lay = Layout(Input), NEW canvas, Canvases(lay, canvas),
           NEW ns, NEW used, Budget(lay, ns, used)
    PROVE  \A i \in 1 .. Fleet(lay) :
              /\ canvas[i].hidden = 0 /\ canvas[i - 1].row < lay.limit
              /\ i <= Len(lay.blocks) => canvas[i - 1].row + Weight(lay, lay.blocks[i]) <= lay.limit
  <1> DEFINE n == Fleet(lay)
             Bad == {i \in 0 .. n : ~(canvas[i].hidden = 0 /\ canvas[i].row <= 1 + used[i])}
  <1>1. n \in Nat
    BY LayoutFacts, LayFacts
  <1>2. Bad \in SUBSET (0 .. n) /\ 0 \notin Bad
    <2>1. canvas[0].hidden = 0 /\ canvas[0].row = 1
      BY DEF Canvases, Blank
    <2>2. used[0] = 0
      BY DEF Budget, Shares
    <2> QED BY <2>1, <2>2
  <1>3. \A i \in 1 .. n : i - 1 \notin Bad => i \notin Bad
    <2> SUFFICES ASSUME NEW i \in 1 .. n, i - 1 \notin Bad
                 PROVE  canvas[i].hidden = 0 /\ canvas[i].row <= 1 + used[i]
      OBVIOUS
    <2>1. i - 1 \in 0 .. n
      BY <1>1
    <2>2. canvas[i - 1].hidden = 0 /\ canvas[i - 1].row <= 1 + used[i - 1]
      BY <2>1
    <2> QED BY <2>2, AffordsStep
  <1>4. Bad = {}
    <2> HIDE DEF Bad, n
    <2> QED BY <1>1, <1>2, <1>3, FirstFailure
  <1> SUFFICES ASSUME NEW i \in 1 .. n
               PROVE  /\ canvas[i].hidden = 0 /\ canvas[i - 1].row < lay.limit
                      /\ i <= Len(lay.blocks) =>
                            canvas[i - 1].row + Weight(lay, lay.blocks[i]) <= lay.limit
    OBVIOUS
  <1>5. i - 1 \in 0 .. n /\ i - 1 \notin Bad
    BY <1>1, <1>4
  <1>6. canvas[i - 1].hidden = 0 /\ canvas[i - 1].row <= 1 + used[i - 1]
    BY <1>5
  <1> QED BY <1>6, AffordsStep

LEMMA SignalsFacts ==
    ASSUME SidebarInv, SizesInv
    PROVE  SignalsSurvive
  <1> DEFINE lay  == Layout(Input)
             bs   == Blocks(Input)
             rows == frame(Input)
             room == Fits(Input, Total([i \in DOMAIN bs |-> Squeezed(bs[i])]))
  <1>1. /\ LaidOut(lay) /\ lay.blocks = bs /\ lay.cold = Cold(Input)
        /\ lay.limit \in Nat /\ Fleet(lay) \in Nat /\ Len(bs) \in Nat /\ Len(lay.cold) \in Nat
    BY LayoutFacts, LayFacts
  <1>l. lay = Layout(Input)
    OBVIOUS
  <1>f. Fleet(lay) = Len(bs) + Len(lay.cold)
    BY <1>1, Zenon DEF Fleet
  <1> HIDE DEF lay, bs, rows
  <1>2. PICK canvas : Canvases(lay, canvas)
    BY <1>1, CanvasFacts
  <1>3. ASSUME room
        PROVE  \A i \in 1 .. Fleet(lay) :
                  /\ canvas[i].hidden = 0 /\ canvas[i - 1].row < lay.limit
                  /\ i <= Len(bs) => canvas[i - 1].row + Weight(lay, bs[i]) <= lay.limit
    <2>1. PICK ns, used : Budget(lay, ns, used)
      BY <1>3, <1>l, BudgetFacts DEF bs
    <2> QED BY <1>1, <1>2, <1>l, <2>1, Affords
  <1>4. ASSUME room, NEW b \in ToSet(bs)
        PROVE  /\ \E x \in ToSet(rows) : x.what.kind = "name" /\ x.what.name = b.p
               /\ \A r \in Roll(b) : b.self \/ ~r.dim => r \in DrawnOf(rows, Roll(b))
    <2>1. PICK i \in 1 .. Len(bs) : b = bs[i]
      <3>1. DOMAIN bs = 1 .. Len(bs)
        BY <1>1, ListFacts DEF LaidOut
      <3> QED BY <1>4, <3>1 DEF ToSet
    <2>2. /\ i \in 1 .. Fleet(lay) /\ BlockOf(b) /\ canvas[i - 1].row \in Nat
          /\ \E avail, roster : Shows(lay, canvas, i, b, avail, roster)
      BY <1>1, <1>2, <1>l, <2>1, BlockShown
    <2>3. PICK avail, roster : Shows(lay, canvas, i, b, avail, roster)
      BY <2>2
    <2> DEFINE row == canvas[i - 1].row
               it  == Item(lay, canvas, i)
    <2>4. BlockDrawn(lay, b, row, it, avail, roster)
      BY <2>3 DEF Shows
    <2>5. Weighed(b)
      BY <2>1, BlockWeighed DEF bs
    <2>6. canvas[i].hidden = 0 /\ row < lay.limit /\ row + Weight(lay, b) <= lay.limit
      <3>1. i <= Len(bs)
        BY <1>1
      <3> QED BY <1>3, <1>4, <2>1, <2>2, <3>1
    <2>7. \A r \in ToSet(roster) : \E x \in ToSet(rows) : x.what = r
      BY <2>3, <2>6 DEF Shows, rows
    <2>8. \E x \in ToSet(rows) : x.what = NameRow(b)
      <3>1. BlockLines(b, roster, it) /\ IsList(roster) /\ b.meta \in Nat
        BY <2>2, <2>4 DEF BlockDrawn, BlockOf
      <3>2. 1 \in 1 .. Len(it) /\ it[1] = NameRow(b)
        BY <3>1, PartFacts
      <3>3. (row + 1) - 1 < lay.limit
        BY <2>2, <2>6
      <3> QED BY <1>2, <1>l, <2>2, <2>6, <3>2, <3>3, RowsShown DEF rows
    <2>9. NameRow(b).kind = "name" /\ NameRow(b).name = b.p
      BY DEF NameRow, Label
    <2> HIDE DEF row, it
    <2>10. \A r \in Roll(b) : b.self \/ ~r.dim => r \in ToSet(roster)
      BY <1>1, <2>2, <2>4, <2>5, <2>6, Weighs DEF row
    <2> QED BY <2>7, <2>8, <2>9, <2>10 DEF DrawnOf
  <1>5. ASSUME room, NEW p \in ToSet(Cold(Input))
        PROVE  \E x \in ToSet(rows) : x.what.to = <<"cold", p>>
    <2>1. PICK j \in 1 .. Len(lay.cold) : p = lay.cold[j]
      <3>1. DOMAIN lay.cold = 1 .. Len(lay.cold)
        BY <1>1, ListFacts DEF LaidOut
      <3> QED BY <1>1, <1>5, <3>1 DEF ToSet
    <2>2. PICK m, k \in Nat : m = Len(bs) /\ k = Len(lay.cold) /\ Fleet(lay) = m + k
      BY <1>1, <1>f
    <2>3. PICK i \in 1 .. Fleet(lay) : i = m + j
      BY <2>2
    <2>4. ~(i <= m) /\ i - m = j
      BY <2>2, <2>3
    <2>5. Item(lay, canvas, i) = <<ColdRow(p)>>
      <3>1. Item(lay, canvas, i) = <<ColdRow(lay.cold[i - m])>>
        BY <1>1, <2>2, <2>4, Zenon DEF Item, FleetRows
      <3> QED BY <2>1, <2>4, <3>1
    <2>6. canvas[i].hidden = 0 /\ canvas[i - 1].row < lay.limit
      BY <1>3, <1>5
    <2>7. canvas[i - 1].row \in Nat
      <3>1. i - 1 \in 0 .. Fleet(lay)
        BY <1>1
      <3> QED BY <1>2, <3>1 DEF Canvases, CanvasIs, Filled
    <2> DEFINE it == Item(lay, canvas, i)
    <2>8. 1 \in 1 .. Len(it) /\ it[1] = ColdRow(p)
      BY <2>5, SmallLists
    <2>9. (canvas[i - 1].row + 1) - 1 < lay.limit
      BY <1>1, <2>6, <2>7
    <2>10. \E x \in ToSet(rows) : x.what = ColdRow(p)
      BY <1>2, <1>l, <2>6, <2>8, <2>9, RowsShown DEF rows
    <2>11. ColdRow(p).to = <<"cold", p>>
      BY DEF ColdRow, Label
    <2> QED BY <2>10, <2>11
  <1> QED BY <1>4, <1>5, Zenon DEF SignalsSurvive, bs, rows

LEMMA SizesInvariant == Spec => [](SidebarInv /\ SizesInv)
  <1>1. Init => SidebarInv /\ SizesInv
    BY InitInv, InitSizes
  <1>2. SidebarInv /\ SizesInv /\ [Next]_vars => (SidebarInv /\ SizesInv)'
    BY StepInv, StepSizes
  <1> QED BY <1>1, <1>2, PTL DEF Spec

(* In every state in which the fleet fits with the other projects squeezed *)
(* to their signals, every project is named, every signal has its row, and *)
(* the own project its whole roster (tmuxui/frame.go:868-889, 382-388).    *)
THEOREM SignalsSurviveTheorem == Spec => []SignalsSurvive
  <1>1. SidebarInv /\ SizesInv => SignalsSurvive
    BY SignalsFacts
  <1> QED BY <1>1, SizesInvariant, PTL
=============================================================================
