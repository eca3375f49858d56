---------------------------- MODULE FsTreeProofs ----------------------------
(***************************************************************************)
(* What holds of FsTree for any number of nodes, names, operations, starts *)
(* and failures of the file system: the tree in memory is a tree, so is    *)
(* what is on the disk; what is saved is on the disk where its path says;  *)
(* and a start shows the tree that was in view, unless a path was lost or  *)
(* a save failed.                                                          *)
(***************************************************************************)
EXTENDS FsTree, FiniteSetTheorems, WellFoundedInduction, TLAPS

-------------------------------------------------------------------------------
(* The parts of the invariant *)

Distinct(list) == \A j, k \in 1..Len(list) : list[j] = list[k] => j = k

\* Going up ends at the root: in every set there is a node whose parent is not.
Rooted(par) == \A S \in (SUBSET Ids) \ {{}} : \E i \in S : par[i] \notin S

\* The nodes in a folder, from below.
Below(par, ns, f) == {i \in ns \ {Root} : par[i] = f}

\* Ids are given out once; nothing is in a leaf.
MemoryInv ==
  /\ nodes \subseteq 0..(mNextAvailableId - 1) /\ Root \in nodes
  /\ leafs \subseteq nodes \ {Root}
  /\ name \in [Ids -> Names \cup {"none"}]
  /\ mNextAvailableId \in 1..(MaxIds + 1)
  /\ strays \subseteq Ids
UpInv ==
  /\ parent \in [Ids -> 0..MaxIds] /\ Rooted(parent)
  /\ \A i \in Ids : parent[i] < mNextAvailableId
  /\ \A i \in nodes \ {Root} : parent[i] \notin leafs
CodeInv ==
  /\ encoded \in [Ids -> Names \cup {"none"}]
  /\ \A i \in nodes \ {Root} : encoded[i] \in Names
\* Every folder lists what is in it, each node once, whether it is in view or not.
DownInv ==
  /\ children \in [0..MaxIds -> Seq(Ids)]
  /\ \A f \in 0..MaxIds :
       /\ Distinct(children[f])
       /\ ToSet(children[f]) = IF f \in nodes \ leafs THEN Below(parent, nodes, f) ELSE {}
\* A file or a directory is in a directory, and no path is both.
DiskIs(fs, ix) ==
  /\ fs \subseteq Seq(Names) /\ IsFiniteSet(fs)
  /\ DOMAIN ix \subseteq Seq(Names) /\ IsFiniteSet(DOMAIN ix) /\ <<>> \in DOMAIN ix
  /\ \A p \in DOMAIN ix : ix[p] \in Seq(Names)
  /\ fs \cap DOMAIN ix = {}
  /\ \A p \in fs \cup DOMAIN ix : p # <<>> => Front(p) \in DOMAIN ix
CountInv ==
  /\ unsaved \subseteq nodes /\ alive \in BOOLEAN
  /\ faults \in 0..MaxFaults /\ steps \in 0..MaxSteps

IInv == MemoryInv /\ UpInv /\ CodeInv /\ DownInv /\ DiskIs(files, index) /\ CountInv

-------------------------------------------------------------------------------
(* The way up: paths and chains exist, for going up ends at the root *)

\* A function over some of the nodes, and all above them, that is made going up.
Climbs(par, V, base, step, D) ==
  {f \in [D -> V] :
     /\ \A i \in D \ {Root} : par[i] \in D
     /\ \A i \in D : f[i] = IF i = Root THEN base ELSE step[<<f[par[i]], i>>]}

LEMMA Agree ==
  ASSUME NEW par \in [Ids -> 0..MaxIds], Rooted(par), NEW V, NEW base, NEW step,
         NEW D \in SUBSET (0..MaxIds), NEW E \in SUBSET (0..MaxIds),
         NEW f \in Climbs(par, V, base, step, D), NEW g \in Climbs(par, V, base, step, E),
         NEW i \in D \cap E
  PROVE  f[i] = g[i]
<1> DEFINE S == {j \in D \cap E : f[j] # g[j]}
<1>1. SUFFICES ASSUME S # {} PROVE FALSE
  OBVIOUS
<1>2. S \subseteq Ids
  <2>1. \A j \in 0..MaxIds : j # Root => j \in Ids
    BY FsTreeAssumption DEF Ids, Root
  <2>2. Root \notin S
    BY DEF Climbs
  <2>3. QED
    BY <2>1, <2>2
<1>3. PICK j \in S : par[j] \notin S
  BY <1>1, <1>2 DEF Rooted
<1>4. j # Root /\ par[j] \in D \cap E
  BY <1>3 DEF Climbs
<1>5. f[par[j]] = g[par[j]]
  BY <1>3, <1>4
<1>6. f[j] = step[<<f[par[j]], j>>] /\ g[j] = step[<<g[par[j]], j>>]
  BY <1>4 DEF Climbs
<1>7. QED
  BY <1>3, <1>5, <1>6

LEMMA Climbing ==
  ASSUME NEW par \in [Ids -> 0..MaxIds], Rooted(par), NEW V, NEW base \in V,
         NEW step \in [V \X Ids -> V]
  PROVE  Climbs(par, V, base, step, 0..MaxIds) # {}
<1> DEFINE In(D) == Climbs(par, V, base, step, D)
           Reached == {i \in 0..MaxIds : \E D \in SUBSET (0..MaxIds) : i \in D /\ In(D) # {}}
<1>0. /\ \A i \in 0..MaxIds : i # Root => i \in Ids
      /\ Root \in 0..MaxIds /\ Ids \subseteq 0..MaxIds /\ Root \notin Ids
  BY FsTreeAssumption DEF Ids, Root
<1>1. Root \in Reached
  <2> DEFINE f == [i \in {Root} |-> base]
  <2>1. f \in In({Root})
    BY DEF Climbs
  <2>2. QED
    BY <1>0, <2>1
<1>2. \A i \in Reached \ {Root} : par[i] \in Reached
  BY <1>0 DEF Climbs
<1> DEFINE D0 == Reached
           of == [i \in D0 |-> CHOOSE f : \E D \in SUBSET (0..MaxIds) : i \in D /\ f \in In(D)]
           f0 == [i \in D0 |-> of[i][i]]
<1>3. \A i \in D0 : \E D \in SUBSET (0..MaxIds) : i \in D /\ of[i] \in In(D)
  <2>1. ASSUME NEW i \in D0 PROVE \E D \in SUBSET (0..MaxIds) : i \in D /\ of[i] \in In(D)
    <3>1. \E f : \E D \in SUBSET (0..MaxIds) : i \in D /\ f \in In(D)
      OBVIOUS
    <3>2. of[i] = CHOOSE f : \E D \in SUBSET (0..MaxIds) : i \in D /\ f \in In(D)
      OBVIOUS
    <3> HIDE DEF of, In
    <3>3. QED
      BY <3>1, <3>2
  <2>2. QED
    BY <2>1
<1> HIDE DEF of
<1>4. f0 \in In(D0)
  <2>1. f0 \in [D0 -> V]
    <3>1. ASSUME NEW i \in D0 PROVE f0[i] \in V
      <4>1. PICK D \in SUBSET (0..MaxIds) : i \in D /\ of[i] \in In(D)
        BY <1>3
      <4>2. QED
        BY <4>1 DEF Climbs
    <3>2. QED
      BY <3>1
  <2>2. ASSUME NEW i \in D0
        PROVE  f0[i] = IF i = Root THEN base ELSE step[<<f0[par[i]], i>>]
    <3>1. PICK D \in SUBSET (0..MaxIds) : i \in D /\ of[i] \in In(D)
      BY <1>3
    <3>2. of[i][i] = IF i = Root THEN base ELSE step[<<of[i][par[i]], i>>]
      BY <3>1 DEF Climbs
    <3>3. ASSUME i # Root PROVE of[i][par[i]] = f0[par[i]]
      <4>1. par[i] \in D /\ par[i] \in D0
        BY <1>2, <3>1, <3>3 DEF Climbs
      <4>2. PICK E \in SUBSET (0..MaxIds) : par[i] \in E /\ of[par[i]] \in In(E)
        BY <1>3, <4>1
      <4>3. of[i][par[i]] = of[par[i]][par[i]]
        BY <3>1, <4>1, <4>2, Agree
      <4>4. QED
        BY <4>1, <4>3
    <3>4. QED
      BY <3>2, <3>3
  <2>3. QED
    BY <1>2, <2>1, <2>2 DEF Climbs
<1> HIDE DEF f0
<1>5. D0 = 0..MaxIds
  <2> DEFINE S == Ids \ D0
  <2>1. SUFFICES ASSUME S # {} PROVE FALSE
    BY <1>0, <1>1
  <2>2. PICK i \in S : par[i] \notin S
    BY <2>1 DEF Rooted
  <2>3. par[i] \in D0
    BY <1>0, <1>1, <2>2
  <2> DEFINE E == D0 \cup {i}
             g == [j \in E |-> IF j = i THEN step[<<f0[par[i]], i>>] ELSE f0[j]]
  <2>4. f0 \in [D0 -> V] /\ f0[par[i]] \in V
    BY <1>4, <2>3, SMTT(30) DEF Climbs
  <2>5. step[<<f0[par[i]], i>>] \in V
    BY <2>2, <2>4
  <2>6. g \in [E -> V]
    BY <2>4, <2>5
  <2>7. ASSUME NEW j \in E PROVE g[j] = IF j = Root THEN base ELSE step[<<g[par[j]], j>>]
    <3>1. CASE j = i
      <4>1. par[i] # i /\ i # Root /\ g[par[i]] = f0[par[i]]
        BY <1>0, <2>2, <2>3
      <4>2. QED
        BY <3>1, <4>1
    <3>2. CASE j # i
      <4>1. j \in D0 /\ g[j] = f0[j]
        BY <3>2
      <4>2. f0[j] = IF j = Root THEN base ELSE step[<<f0[par[j]], j>>]
        BY <1>4, <4>1 DEF Climbs
      <4>3. j # Root => g[par[j]] = f0[par[j]]
        BY <1>2, <2>2, <4>1
      <4>4. QED
        BY <4>1, <4>2, <4>3
    <3>3. QED
      BY <3>1, <3>2
  <2>8. \A j \in E \ {Root} : par[j] \in E
    BY <1>2, <2>3
  <2>9. g \in In(E)
    BY <2>6, <2>7, <2>8 DEF Climbs
  <2>10. E \in SUBSET (0..MaxIds) /\ i \in E
    BY <1>0, <2>2
  <2>11. i \in D0
    BY <2>9, <2>10
  <2>12. QED
    BY <2>2, <2>11
<1>6. QED
  BY <1>4, <1>5

\* getNodePath goes up: in any coding of the nodes.
LEMMA PathIs ==
  ASSUME NEW par \in [Ids -> 0..MaxIds], Rooted(par), NEW enc, NEW V,
         \A i \in Ids : enc[i] \in V
  PROVE  /\ Paths(par, enc) \in [0..MaxIds -> Seq(V)]
         /\ Paths(par, enc)[Root] = <<>>
         /\ \A i \in Ids : Paths(par, enc)[i] = Append(Paths(par, enc)[par[i]], enc[i])
<1> DEFINE step == [x \in Seq(V) \X Ids |-> Append(x[1], enc[x[2]])]
<1>0. /\ \A i \in 0..MaxIds : i # Root => i \in Ids
      /\ Root \in 0..MaxIds /\ Ids \subseteq 0..MaxIds /\ Root \notin Ids
  BY FsTreeAssumption DEF Ids, Root
<1>1. <<>> \in Seq(V) /\ step \in [Seq(V) \X Ids -> Seq(V)]
  <2>1. ASSUME NEW x \in Seq(V) \X Ids PROVE step[x] \in Seq(V)
    <3>1. x[1] \in Seq(V) /\ enc[x[2]] \in V
      OBVIOUS
    <3>2. QED
      BY <3>1
  <2>2. QED
    BY <2>1
<1>2. \A p \in Seq(V), i \in Ids : step[<<p, i>>] = Append(p, enc[i])
  OBVIOUS
<1> HIDE DEF step
<1>3. PICK f \in [0..MaxIds -> Seq(V)] :
        \A i \in 0..MaxIds : f[i] = IF i = Root THEN <<>> ELSE step[<<f[par[i]], i>>]
  <2>1. PICK f \in Climbs(par, Seq(V), <<>>, step, 0..MaxIds) : TRUE
    BY <1>1, Climbing
  <2>2. QED
    BY <2>1 DEF Climbs
<1>4. f = [i \in 0..MaxIds |-> IF i = Root THEN <<>> ELSE Append(f[par[i]], enc[i])]
  <2>1. ASSUME NEW i \in 0..MaxIds
        PROVE  f[i] = IF i = Root THEN <<>> ELSE Append(f[par[i]], enc[i])
    BY <1>0, <1>2, <1>3
  <2>2. QED
    BY <1>3, <2>1
<1> DEFINE path == Paths(par, enc)
<1>5. path = [i \in 0..MaxIds |-> IF i = Root THEN <<>> ELSE Append(path[par[i]], enc[i])]
  BY <1>4, Zenon DEF Paths
<1> HIDE DEF path
<1>6. /\ path[Root] = <<>> /\ \A i \in Ids : path[i] = Append(path[par[i]], enc[i])
  BY <1>0, <1>5
<1>7. path = f
  <2> DEFINE S == {i \in Ids : path[i] # f[i]}
  <2>1. SUFFICES ASSUME S # {} PROVE FALSE
    <3>1. SUFFICES \A i \in 0..MaxIds : path[i] = f[i]
      BY <1>3, <1>5
    <3>2. QED
      BY <1>0, <1>3, <1>6
  <2>2. PICK i \in S : par[i] \notin S
    BY <2>1 DEF Rooted
  <2>3. path[par[i]] = f[par[i]]
    BY <1>0, <1>3, <1>6, <2>2
  <2>4. path[i] = f[i]
    BY <1>0, <1>4, <1>6, <2>2, <2>3
  <2>5. QED
    BY <2>2, <2>4
<1>8. path \in [0..MaxIds -> Seq(V)]
  BY <1>3, <1>7
<1>9. QED
  BY <1>6, <1>8 DEF path

\* A node and what is above it.
LEMMA ChainIs ==
  ASSUME NEW par \in [Ids -> 0..MaxIds], Rooted(par)
  PROVE  /\ ChainIn(par, Root) = {Root}
         /\ \A i \in Ids : ChainIn(par, i) = {i} \cup ChainIn(par, par[i])
         /\ \A i \in 0..MaxIds : i \in ChainIn(par, i) /\ ChainIn(par, i) \subseteq 0..MaxIds
<1> DEFINE V == SUBSET (0..MaxIds)
           step == [x \in V \X Ids |-> {x[2]} \cup x[1]]
<1>0. /\ \A i \in 0..MaxIds : i # Root => i \in Ids
      /\ Root \in 0..MaxIds /\ Ids \subseteq 0..MaxIds /\ Root \notin Ids
  BY FsTreeAssumption DEF Ids, Root
<1>1. {Root} \in V /\ step \in [V \X Ids -> V]
  <2>1. ASSUME NEW x \in V \X Ids PROVE step[x] \in V
    <3>1. x[1] \in V /\ x[2] \in 0..MaxIds
      BY <1>0
    <3>2. QED
      BY <3>1
  <2>2. QED
    BY <1>0, <2>1
<1>2. \A c \in V, i \in Ids : step[<<c, i>>] = {i} \cup c
  OBVIOUS
<1> HIDE DEF step, V
<1>3. PICK f \in [0..MaxIds -> V] :
        \A i \in 0..MaxIds : f[i] = IF i = Root THEN {Root} ELSE step[<<f[par[i]], i>>]
  <2>1. PICK f \in Climbs(par, V, {Root}, step, 0..MaxIds) : TRUE
    BY <1>1, Climbing
  <2>2. QED
    BY <2>1 DEF Climbs
<1>4. f = [i \in 0..MaxIds |-> IF i = Root THEN {Root} ELSE {i} \cup f[par[i]]]
  <2>1. ASSUME NEW i \in 0..MaxIds
        PROVE  f[i] = IF i = Root THEN {Root} ELSE {i} \cup f[par[i]]
    BY <1>0, <1>2, <1>3
  <2>2. QED
    BY <1>3, <2>1
<1> DEFINE chain == CHOOSE g : g = [i \in 0..MaxIds |-> IF i = Root THEN {Root} ELSE {i} \cup g[par[i]]]
<1>5. chain = [i \in 0..MaxIds |-> IF i = Root THEN {Root} ELSE {i} \cup chain[par[i]]]
  BY <1>4, Zenon
<1>6. \A i : ChainIn(par, i) = chain[i]
  BY Zenon DEF ChainIn
<1> HIDE DEF chain
<1>7. chain[Root] = {Root} /\ \A i \in Ids : chain[i] = {i} \cup chain[par[i]]
  BY <1>0, <1>5
<1>8. \A i \in 0..MaxIds : i \in chain[i]
  BY <1>0, <1>7
<1>9. \A i \in 0..MaxIds : chain[i] \subseteq 0..MaxIds
  <2> DEFINE S == {i \in Ids : ~(chain[i] \subseteq 0..MaxIds)}
  <2>1. SUFFICES ASSUME S # {} PROVE FALSE
    BY <1>0, <1>7
  <2>2. PICK i \in S : par[i] \notin S
    BY <2>1 DEF Rooted
  <2>3. chain[par[i]] \subseteq 0..MaxIds
    BY <1>0, <1>7, <2>2
  <2>4. chain[i] \subseteq 0..MaxIds
    BY <1>0, <1>7, <2>2, <2>3
  <2>5. QED
    BY <2>2, <2>4
<1>10. QED
  BY <1>6, <1>7, <1>8, <1>9

-------------------------------------------------------------------------------
(* What is in view *)

ShownIn(par, ns) == {i \in ns : ChainIn(par, i) \subseteq ns}

LEMMA NodesAre ==
  /\ \A i \in 0..MaxIds : i # Root => i \in Ids
  /\ Root \in 0..MaxIds /\ Ids \subseteq 0..MaxIds /\ Root \notin Ids /\ Ids \subseteq Nat
  /\ MaxIds \in Nat /\ Root = 0
BY FsTreeAssumption DEF Ids, Root

LEMMA ShownIs ==
  ASSUME NEW par \in [Ids -> 0..MaxIds], Rooted(par), NEW ns \in SUBSET (0..MaxIds), Root \in ns
  PROVE  /\ Root \in ShownIn(par, ns) /\ ShownIn(par, ns) \subseteq ns
         /\ \A i \in ShownIn(par, ns) \ {Root} : par[i] \in ShownIn(par, ns)
         /\ \A i \in ns \ {Root} : par[i] \in ShownIn(par, ns) => i \in ShownIn(par, ns)
<1>1. /\ ChainIn(par, Root) = {Root}
      /\ \A i \in Ids : ChainIn(par, i) = {i} \cup ChainIn(par, par[i])
      /\ \A i \in 0..MaxIds : i \in ChainIn(par, i)
  BY ChainIs
<1>2. \A i \in ns \ {Root} : i \in Ids
  BY NodesAre
<1>3. \A i \in Ids : par[i] \in 0..MaxIds
  OBVIOUS
<1>4. QED
  BY <1>1, <1>2, <1>3 DEF ShownIn

\* Nodes all of whose parents are among them are in view.
LEMMA ClosedShown ==
  ASSUME NEW par \in [Ids -> 0..MaxIds], Rooted(par), NEW ns \in SUBSET (0..MaxIds), Root \in ns,
         NEW S \in SUBSET ns, \A i \in S \ {Root} : par[i] \in S
  PROVE  S \subseteq ShownIn(par, ns)
<1> DEFINE T == {i \in S \ {Root} : i \notin ShownIn(par, ns)}
<1>1. Root \in ShownIn(par, ns)
  BY ShownIs
<1>2. SUFFICES ASSUME T # {} PROVE FALSE
  BY <1>1
<1>3. T \in (SUBSET Ids) \ {{}}
  BY <1>2, NodesAre
<1>4. PICK i \in T : par[i] \notin T
  BY <1>3 DEF Rooted
<1>5. par[i] \in ShownIn(par, ns)
  BY <1>1, <1>4
<1>6. QED
  BY <1>4, <1>5, ShownIs

\* The path of a node in view is one the file system may have.
LEMMA PathOfShown ==
  ASSUME NEW par \in [Ids -> 0..MaxIds], Rooted(par), NEW ns \in SUBSET (0..MaxIds), Root \in ns,
         NEW enc \in [Ids -> Names \cup {"none"}], \A i \in ns \ {Root} : enc[i] \in Names,
         NEW i \in ShownIn(par, ns)
  PROVE  /\ Paths(par, enc)[i] \in Seq(Names)
         /\ i = Root => Paths(par, enc)[i] = <<>>
         /\ i # Root => /\ par[i] \in ShownIn(par, ns) /\ Paths(par, enc)[par[i]] \in Seq(Names)
                        /\ Paths(par, enc)[i] = Append(Paths(par, enc)[par[i]], enc[i])
                        /\ Paths(par, enc)[i] # <<>>
                        /\ Front(Paths(par, enc)[i]) = Paths(par, enc)[par[i]]
<1> DEFINE path == Paths(par, enc)
           T == {j \in ShownIn(par, ns) \ {Root} : path[j] \notin Seq(Names)}
<1>1. /\ path[Root] = <<>> /\ \A j \in Ids : path[j] = Append(path[par[j]], enc[j])
  <2>1. \A j \in Ids : enc[j] \in Names \cup {"none"}
    OBVIOUS
  <2>2. QED
    BY <2>1, PathIs
<1> HIDE DEF path
<1>2. /\ \A j \in ShownIn(par, ns) \ {Root} : /\ j \in Ids /\ par[j] \in ShownIn(par, ns)
                                              /\ enc[j] \in Names
  BY ShownIs, NodesAre
<1>3. \A j \in ShownIn(par, ns) : path[j] \in Seq(Names)
  <2>0. <<>> \in Seq(Names)
    OBVIOUS
  <2>1. SUFFICES ASSUME T # {} PROVE FALSE
    BY <1>1, <2>0
  <2>2. T \in (SUBSET Ids) \ {{}}
    BY <1>2, <2>1
  <2>3. PICK j \in T : par[j] \notin T
    BY <2>2 DEF Rooted
  <2>4. path[par[j]] \in Seq(Names)
    BY <1>1, <1>2, <2>0, <2>3
  <2>5. path[j] \in Seq(Names)
    <3>1. enc[j] \in Names /\ path[j] = Append(path[par[j]], enc[j])
      BY <1>1, <1>2, <2>3
    <3>2. QED
      BY <2>4, <3>1
  <2>6. QED
    BY <2>3, <2>5
<1>4. \A p \in Seq(Names), n \in Names : Append(p, n) # <<>> /\ Front(Append(p, n)) = p
  <2>1. SUFFICES ASSUME NEW p \in Seq(Names), NEW n \in Names
                 PROVE  Append(p, n) # <<>> /\ Front(Append(p, n)) = p
    OBVIOUS
  <2>2. QED
    BY DEF Front
<1>5. QED
  <2>1. ASSUME i # Root
        PROVE  /\ par[i] \in ShownIn(par, ns) /\ path[par[i]] \in Seq(Names) /\ enc[i] \in Names
               /\ path[i] = Append(path[par[i]], enc[i])
    BY <1>1, <1>2, <1>3, <2>1
  <2>2. QED
    BY <1>1, <1>3, <1>4, <2>1 DEF path

-------------------------------------------------------------------------------
(* Lists of children *)

LEMMA RemoveAtIs ==
  ASSUME NEW T, NEW s \in Seq(T), NEW k \in 1..Len(s)
  PROVE  /\ RemoveAt(s, k) \in Seq(T) /\ Len(RemoveAt(s, k)) = Len(s) - 1
         /\ \A i \in 1..(Len(s) - 1) : RemoveAt(s, k)[i] = IF i < k THEN s[i] ELSE s[i + 1]
<1>1. Len(s) \in Nat /\ k \in Nat
  OBVIOUS
<1> DEFINE low == SubSeq(s, 1, k - 1)
           high == SubSeq(s, k + 1, Len(s))
<1>2. low \in Seq(T) /\ Len(low) = k - 1 /\ \A i \in 1..(k - 1) : low[i] = s[i]
  BY <1>1
<1>3. high \in Seq(T) /\ Len(high) = Len(s) - k /\ \A i \in 1..(Len(s) - k) : high[i] = s[k + i]
  BY <1>1
<1>4. RemoveAt(s, k) = low \o high
  BY DEF RemoveAt
<1> HIDE DEF low, high
<1>5. low \o high \in Seq(T) /\ Len(low \o high) = Len(s) - 1
  <2>0. low \in Seq(T) /\ high \in Seq(T)
    BY <1>2, <1>3
  <2>1. low \o high \in Seq(T) /\ Len(low \o high) = Len(low) + Len(high)
    BY <2>0
  <2>2. (k - 1) + (Len(s) - k) = Len(s) - 1
    BY <1>1
  <2>3. QED
    BY <1>2, <1>3, <2>1, <2>2
<1>6. ASSUME NEW i \in 1..(Len(s) - 1) PROVE (low \o high)[i] = IF i < k THEN s[i] ELSE s[i + 1]
  <2>1. CASE i < k
    BY <1>1, <1>2, <1>3, <2>1
  <2>2. CASE ~(i < k)
    <3>1. i - (k - 1) \in 1..(Len(s) - k) /\ k + (i - (k - 1)) = i + 1
      BY <1>1, <2>2
    <3>2. (low \o high)[i] = high[i - (k - 1)]
      BY <1>1, <1>2, <1>3, <2>2
    <3>3. QED
      BY <1>3, <2>2, <3>1, <3>2
  <2>3. QED
    BY <2>1, <2>2
<1>7. QED
  BY <1>4, <1>5, <1>6

LEMMA RemoveFirstIs ==
  ASSUME NEW T, NEW s \in Seq(T), Distinct(s), NEW e
  PROVE  /\ RemoveFirst(s, e) \in Seq(T) /\ Distinct(RemoveFirst(s, e))
         /\ ToSet(RemoveFirst(s, e)) = ToSet(s) \ {e}
         /\ e \in ToSet(s) => Len(RemoveFirst(s, e)) = Len(s) - 1
<1>1. Len(s) \in Nat /\ DOMAIN s = 1..Len(s)
  OBVIOUS
<1>2. CASE e \notin ToSet(s)
  <2>1. RemoveFirst(s, e) = s
    BY <1>1, <1>2 DEF RemoveFirst, ToSet
  <2>2. QED
    BY <1>2, <2>1
<1>3. CASE e \in ToSet(s)
  <2>1. PICK k \in 1..Len(s) : s[k] = e
    BY <1>1, <1>3 DEF ToSet
  <2>2. {i \in 1..Len(s) : s[i] = e} = {k}
    BY <2>1 DEF Distinct
  <2>3. Min({k}) = k
    BY <2>1 DEF Min
  <2>4. SelectInSeq(s, LAMBDA v : v = e) = k
    BY <2>2, <2>3 DEF SelectInSeq
  <2>5. RemoveFirst(s, e) = RemoveAt(s, k)
    BY <2>1, <2>4 DEF RemoveFirst
  <2> DEFINE r == RemoveAt(s, k)
  <2>6. /\ r \in Seq(T) /\ Len(r) = Len(s) - 1
        /\ \A i \in 1..(Len(s) - 1) : r[i] = IF i < k THEN s[i] ELSE s[i + 1]
    BY RemoveAtIs
  <2> HIDE DEF r
  <2>7. Distinct(r)
    <3>1. SUFFICES ASSUME NEW i \in 1..(Len(s) - 1), NEW j \in 1..(Len(s) - 1), r[i] = r[j]
                   PROVE  i = j
      BY <2>6 DEF Distinct
    <3> DEFINE at(n) == IF n < k THEN n ELSE n + 1
    <3>2. at(i) \in 1..Len(s) /\ at(j) \in 1..Len(s) /\ r[i] = s[at(i)] /\ r[j] = s[at(j)]
      BY <1>1, <2>6
    <3>3. at(i) = at(j)
      BY <3>1, <3>2 DEF Distinct
    <3>4. QED
      BY <1>1, <3>3
  <2>8. ToSet(r) = ToSet(s) \ {e}
    <3>1. DOMAIN r = 1..(Len(s) - 1)
      BY <2>6
    <3>2. ASSUME NEW i \in 1..(Len(s) - 1) PROVE r[i] \in ToSet(s) \ {e}
      <4> DEFINE at == IF i < k THEN i ELSE i + 1
      <4>1. at \in 1..Len(s) /\ at # k /\ r[i] = s[at]
        BY <1>1, <2>6
      <4>2. s[at] # e
        BY <2>1, <4>1 DEF Distinct
      <4>3. QED
        BY <1>1, <4>1, <4>2 DEF ToSet
    <3>3. ASSUME NEW i \in 1..Len(s), s[i] # e PROVE s[i] \in ToSet(r)
      <4> DEFINE at == IF i < k THEN i ELSE i - 1
      <4>1. i # k
        BY <2>1, <3>3
      <4>2. at \in 1..(Len(s) - 1) /\ (at < k <=> i < k) /\ (~(i < k) => at + 1 = i)
        BY <1>1, <4>1
      <4>3. r[at] = s[i]
        BY <2>6, <4>2
      <4>4. QED
        BY <3>1, <4>2, <4>3 DEF ToSet
    <3>4. QED
      BY <1>1, <3>1, <3>2, <3>3 DEF ToSet
  <2>9. QED
    BY <1>3, <2>5, <2>6, <2>7, <2>8 DEF r
<1>4. QED
  BY <1>2, <1>3

LEMMA InsertAtIs ==
  ASSUME NEW T, NEW s \in Seq(T), Distinct(s), NEW e \in T, e \notin ToSet(s),
         NEW k \in 1..(Len(s) + 1)
  PROVE  /\ InsertAt(s, k, e) \in Seq(T) /\ Distinct(InsertAt(s, k, e))
         /\ ToSet(InsertAt(s, k, e)) = ToSet(s) \cup {e}
<1>1. Len(s) \in Nat /\ k \in Nat /\ DOMAIN s = 1..Len(s)
  OBVIOUS
<1> DEFINE low == SubSeq(s, 1, k - 1)
           high == SubSeq(s, k, Len(s))
           r == low \o <<e>> \o high
<1>2. low \in Seq(T) /\ Len(low) = k - 1 /\ \A i \in 1..(k - 1) : low[i] = s[i]
  BY <1>1
<1>3. /\ high \in Seq(T) /\ Len(high) = Len(s) - k + 1
      /\ \A i \in 1..(Len(s) - k + 1) : high[i] = s[k + i - 1]
  BY <1>1
<1>4. InsertAt(s, k, e) = r
  BY DEF InsertAt
<1> HIDE DEF low, high
<1>5. low \o <<e>> \in Seq(T) /\ Len(low \o <<e>>) = k /\ (low \o <<e>>)[k] = e
      /\ \A i \in 1..(k - 1) : (low \o <<e>>)[i] = s[i]
  BY <1>1, <1>2
<1>6. r \in Seq(T) /\ Len(r) = Len(s) + 1
  BY <1>1, <1>3, <1>5
<1>7. /\ \A i \in 1..(k - 1) : r[i] = s[i]
      /\ r[k] = e
      /\ \A i \in (k + 1)..(Len(s) + 1) : r[i] = s[i - 1]
  <2>1. \A i \in 1..k : r[i] = (low \o <<e>>)[i]
    BY <1>1, <1>3, <1>5
  <2>2. ASSUME NEW i \in (k + 1)..(Len(s) + 1) PROVE r[i] = s[i - 1]
    <3>1. i - k \in 1..(Len(s) - k + 1) /\ k + (i - k) - 1 = i - 1
      BY <1>1
    <3>2. r[i] = high[i - k]
      BY <1>1, <1>3, <1>5
    <3>3. QED
      BY <1>3, <3>1, <3>2
  <2>3. ASSUME NEW i \in 1..(k - 1) PROVE r[i] = s[i]
    BY <1>1, <1>5, <2>1
  <2>4. r[k] = e
    BY <1>1, <1>5, <2>1
  <2> HIDE DEF r
  <2>5. QED
    BY <2>2, <2>3, <2>4
<1> HIDE DEF r
<1> DEFINE from(i) == IF i < k THEN i ELSE i - 1
<1>8. \A i \in 1..(Len(s) + 1) : i # k => from(i) \in 1..Len(s) /\ r[i] = s[from(i)]
  BY <1>1, <1>7
<1>9. Distinct(r)
  <2>1. SUFFICES ASSUME NEW i \in 1..(Len(s) + 1), NEW j \in 1..(Len(s) + 1), r[i] = r[j]
                 PROVE  i = j
    BY <1>6 DEF Distinct
  <2>2. \A n \in 1..(Len(s) + 1) : n # k => r[n] # e
    BY <1>1, <1>8 DEF ToSet
  <2>3. CASE i # k /\ j # k
    <3>1. from(i) = from(j)
      BY <1>8, <2>1, <2>3 DEF Distinct
    <3>2. QED
      BY <1>1, <2>3, <3>1
  <2>4. QED
    BY <1>7, <2>1, <2>2, <2>3
<1>10. ToSet(r) = ToSet(s) \cup {e}
  <2>1. DOMAIN r = 1..(Len(s) + 1)
    BY <1>6
  <2>2. ASSUME NEW i \in 1..Len(s) PROVE s[i] \in ToSet(r)
    <3> DEFINE at == IF i < k THEN i ELSE i + 1
    <3>1. at \in 1..(Len(s) + 1) /\ at # k /\ from(at) = i
      BY <1>1
    <3>2. QED
      BY <1>8, <2>1, <3>1 DEF ToSet
  <2>3. e \in ToSet(r)
    BY <1>1, <1>7, <2>1 DEF ToSet
  <2>4. \A i \in 1..(Len(s) + 1) : r[i] \in ToSet(s) \cup {e}
    BY <1>1, <1>7, <1>8 DEF ToSet
  <2>5. QED
    BY <1>1, <2>1, <2>2, <2>3, <2>4 DEF ToSet
<1>11. QED
  BY <1>4, <1>6, <1>9, <1>10

-------------------------------------------------------------------------------
(* The disk: whatever is there is in a directory that is there *)

LEMMA LeastOf ==
  ASSUME NEW S, S \subseteq Nat, S # {}
  PROVE  \E i \in S : \A j \in S : i <= j
<1>1. PICK x \in S : \A y \in S : ~(<<y, x>> \in OpToRel(<, Nat))
  BY NatLessThanWellFounded, WFMin, Zenon
<1>2. \A y \in S : x <= y
  <2>1. TAKE y \in S
  <2>2. ~(y < x)
    BY <1>1 DEF OpToRel
  <2>3. QED
    BY <2>2
<1>3. QED
  BY <1>2

LEMMA ImageIsFinite ==
  ASSUME NEW S, IsFiniteSet(S), NEW f, DOMAIN f = S, f = [x \in S |-> f[x]]
  PROVE  IsFiniteSet({f[x] : x \in S})
<1>1. f \in Surjection(S, {f[x] : x \in S})
  BY DEF Surjection
<1>2. QED
  BY <1>1, FS_Surjection

LEMMA PrefixIs ==
  ASSUME NEW T, NEW s \in Seq(T), NEW t \in Seq(T)
  PROVE  IsPrefix(s, t) <=> Len(s) <= Len(t) /\ \A i \in 1..Len(s) : s[i] = t[i]
<1>1. Len(s) \in Nat /\ Len(t) \in Nat
  OBVIOUS
<1>2. SUFFICES ASSUME Len(s) <= Len(t)
               PROVE  SubSeq(s, 1, Len(s)) = SubSeq(t, 1, Len(s)) <=>
                        \A i \in 1..Len(s) : s[i] = t[i]
  BY DEF IsPrefix
<1> DEFINE a == SubSeq(s, 1, Len(s))
           b == SubSeq(t, 1, Len(s))
<1>3. a \in Seq(T) /\ Len(a) = Len(s) /\ \A i \in 1..Len(s) : a[i] = s[i]
  BY <1>1
<1>4. b \in Seq(T) /\ Len(b) = Len(s) /\ \A i \in 1..Len(s) : b[i] = t[i]
  BY <1>1, <1>2
<1> HIDE DEF a, b
<1>5. (\A i \in 1..Len(s) : a[i] = b[i]) => a = b
  BY <1>3, <1>4, SMTT(30)
<1>6. QED
  BY <1>3, <1>4, <1>5 DEF a, b

LEMMA FrontIs ==
  ASSUME NEW T, NEW p \in Seq(T), p # <<>>
  PROVE  /\ Front(p) \in Seq(T) /\ Len(p) \in Nat \ {0} /\ Len(Front(p)) = Len(p) - 1
         /\ \A i \in 1..(Len(p) - 1) : Front(p)[i] = p[i]
         /\ Last(p) \in T
<1>1. Len(p) \in Nat /\ Len(p) # 0
  OBVIOUS
<1>2. Last(p) \in T
  BY <1>1 DEF Last
<1>3. Len(p) - 1 \in 0..Len(p)
  BY <1>1
<1>4. Front(p) \in Seq(T) /\ Len(Front(p)) = Len(p) - 1
  BY <1>1, <1>3, SMTT(30) DEF Front
<1>5. \A i \in 1..(Len(p) - 1) : Front(p)[i] = p[i]
  BY <1>1, <1>3 DEF Front
<1>6. QED
  BY <1>1, <1>2, <1>4, <1>5

LEMMA SameSeq ==
  ASSUME NEW T, NEW s \in Seq(T), NEW t \in Seq(T), Len(s) = Len(t),
         \A i \in 1..Len(s) : s[i] = t[i]
  PROVE  s = t
OBVIOUS

\* What a path goes through are directories.
LEMMA AboveIsDirectory ==
  ASSUME NEW fs, NEW ix, DiskIs(fs, ix), NEW p \in fs \cup DOMAIN ix,
         NEW q \in Seq(Names), IsPrefix(q, p), q # p
  PROVE  q \in DOMAIN ix
<1>0. p \in Seq(Names)
  BY DEF DiskIs
<1>1. Len(p) \in Nat /\ Len(q) \in Nat /\ Len(q) <= Len(p) /\ \A i \in 1..Len(q) : q[i] = p[i]
  BY <1>0, PrefixIs
<1>2. Len(q) # Len(p)
  BY <1>0, <1>1, SameSeq
<1> DEFINE cut(m) == SubSeq(p, 1, Len(p) - m)
           S == {m \in 1..Len(p) : cut(m) \notin DOMAIN ix}
<1>3. \A m \in 0..Len(p) : /\ cut(m) \in Seq(Names) /\ Len(cut(m)) = Len(p) - m
                           /\ \A i \in 1..(Len(p) - m) : cut(m)[i] = p[i]
  BY <1>0, <1>1
<1> HIDE DEF cut
<1>4. S = {}
  <2>1. SUFFICES ASSUME S # {} PROVE FALSE
    OBVIOUS
  <2>2. S \subseteq Nat
    BY <1>1
  <2>3. PICK m \in S : \A j \in S : m <= j
    BY <2>1, <2>2, LeastOf
  <2>4. m \in 1..Len(p) /\ m - 1 \in 0..Len(p) /\ m - 1 \notin S
    BY <1>1, <2>2, <2>3
  <2>5. cut(m - 1) \in fs \cup DOMAIN ix
    <3>1. CASE m = 1
      <4>1. cut(0) = p
        BY <1>0, <1>1, <1>3, SameSeq
      <4>2. QED
        BY <3>1, <4>1
    <3>2. CASE m # 1
      BY <1>1, <2>4, <3>2
    <3>3. QED
      BY <3>1, <3>2
  <2>6. /\ cut(m - 1) \in Seq(Names) /\ Len(cut(m - 1)) = Len(p) - (m - 1)
        /\ \A i \in 1..(Len(p) - (m - 1)) : cut(m - 1)[i] = p[i]
    BY <1>3, <2>4
  <2>7. Len(p) - (m - 1) # 0
    BY <1>1, <2>4
  <2>8. cut(m - 1) # <<>>
    BY <2>6, <2>7
  <2>9. Front(cut(m - 1)) \in DOMAIN ix
    BY <2>5, <2>8 DEF DiskIs
  <2>10. Front(cut(m - 1)) = cut(m)
    <3>1. /\ Front(cut(m - 1)) \in Seq(Names)
          /\ Len(Front(cut(m - 1))) = Len(cut(m - 1)) - 1
          /\ \A i \in 1..(Len(cut(m - 1)) - 1) : Front(cut(m - 1))[i] = cut(m - 1)[i]
      BY <2>6, <2>8, FrontIs
    <3>2. /\ cut(m) \in Seq(Names) /\ Len(cut(m)) = Len(p) - m
          /\ \A i \in 1..(Len(p) - m) : cut(m)[i] = p[i]
      BY <1>3, <2>4
    <3>3. Len(Front(cut(m - 1))) = Len(cut(m))
      BY <1>1, <2>4, <2>6, <3>1, <3>2
    <3>4. \A i \in 1..Len(cut(m)) : Front(cut(m - 1))[i] = cut(m)[i]
      BY <1>1, <2>4, <2>6, <3>1, <3>2
    <3>5. QED
      BY <3>1, <3>2, <3>3, <3>4, SameSeq
  <2>11. QED
    BY <2>3, <2>9, <2>10
<1>5. Len(p) - Len(q) \in 1..Len(p) /\ Len(p) - (Len(p) - Len(q)) = Len(q)
  BY <1>1, <1>2
<1>6. cut(Len(p) - Len(q)) = q
  <2>1. /\ cut(Len(p) - Len(q)) \in Seq(Names) /\ Len(cut(Len(p) - Len(q))) = Len(q)
        /\ \A i \in 1..Len(q) : cut(Len(p) - Len(q))[i] = p[i]
    BY <1>1, <1>3, <1>5
  <2>2. QED
    BY <1>1, <2>1, SameSeq
<1>7. QED
  BY <1>4, <1>5, <1>6

-------------------------------------------------------------------------------
(* Renaming on the disk *)

LEMMA MovedIs ==
  ASSUME NEW from \in Seq(Names), NEW to \in Seq(Names), NEW p \in Seq(Names)
  PROVE  /\ Moved(from, to, p) \in Seq(Names)
         /\ ~IsPrefix(from, p) => Moved(from, to, p) = p
         /\ IsPrefix(from, p) =>
              /\ Len(Moved(from, to, p)) = Len(to) + (Len(p) - Len(from))
              /\ \A i \in 1..Len(to) : Moved(from, to, p)[i] = to[i]
              /\ \A i \in 1..(Len(p) - Len(from)) :
                   Moved(from, to, p)[Len(to) + i] = p[Len(from) + i]
<1>1. Len(from) \in Nat /\ Len(to) \in Nat /\ Len(p) \in Nat
  OBVIOUS
<1>2. CASE IsPrefix(from, p)
  <2> DEFINE rest == SubSeq(p, Len(from) + 1, Len(p))
  <2>1. Len(from) <= Len(p)
    BY <1>2 DEF IsPrefix
  <2>2. /\ rest \in Seq(Names) /\ Len(rest) = Len(p) - Len(from)
        /\ \A i \in 1..(Len(p) - Len(from)) : rest[i] = p[Len(from) + i]
    BY <1>1, <2>1
  <2>3. Moved(from, to, p) = to \o rest
    BY <1>2 DEF Moved
  <2> HIDE DEF rest
  <2>4. /\ to \o rest \in Seq(Names) /\ Len(to \o rest) = Len(to) + Len(rest)
        /\ \A i \in 1..Len(to) : (to \o rest)[i] = to[i]
    <3>1. rest \in Seq(Names)
      BY <2>2
    <3>2. QED
      BY <3>1
  <2>5. ASSUME NEW i \in 1..(Len(p) - Len(from))
        PROVE  (to \o rest)[Len(to) + i] = p[Len(from) + i]
    <3>1. (to \o rest)[Len(to) + i] = rest[i]
      BY <1>1, <2>1, <2>2
    <3>2. QED
      BY <2>2, <3>1
  <2>6. QED
    BY <1>2, <2>2, <2>3, <2>4, <2>5
<1>3. CASE ~IsPrefix(from, p)
  BY <1>3 DEF Moved
<1>4. QED
  BY <1>2, <1>3

\* Two paths that are moved do not meet.
LEMMA MovedApart ==
  ASSUME NEW from \in Seq(Names), NEW to \in Seq(Names), NEW p \in Seq(Names), NEW q \in Seq(Names),
         IsPrefix(from, p), IsPrefix(from, q), Moved(from, to, p) = Moved(from, to, q)
  PROVE  p = q
<1>1. Len(from) \in Nat /\ Len(to) \in Nat /\ Len(p) \in Nat /\ Len(q) \in Nat
  OBVIOUS
<1>2. /\ Len(from) <= Len(p) /\ \A i \in 1..Len(from) : from[i] = p[i]
      /\ Len(from) <= Len(q) /\ \A i \in 1..Len(from) : from[i] = q[i]
  BY PrefixIs
<1>3. Len(p) = Len(q)
  <2>1. /\ Len(Moved(from, to, p)) = Len(to) + (Len(p) - Len(from))
        /\ Len(Moved(from, to, q)) = Len(to) + (Len(q) - Len(from))
    BY MovedIs
  <2>2. Len(to) + (Len(p) - Len(from)) = Len(to) + (Len(q) - Len(from))
    BY <2>1
  <2>3. QED
    BY <1>1, <2>2
<1>4. \A i \in 1..(Len(p) - Len(from)) : p[Len(from) + i] = q[Len(from) + i]
  <2>1. \A i \in 1..(Len(p) - Len(from)) : Moved(from, to, p)[Len(to) + i] = p[Len(from) + i]
    BY MovedIs
  <2>2. \A i \in 1..(Len(q) - Len(from)) : Moved(from, to, q)[Len(to) + i] = q[Len(from) + i]
    BY MovedIs
  <2>3. QED
    BY <1>3, <2>1, <2>2
<1>5. ASSUME NEW i \in 1..Len(p) PROVE p[i] = q[i]
  <2>1. CASE i <= Len(from)
    BY <1>1, <1>2, <2>1
  <2>2. CASE ~(i <= Len(from))
    <3>1. i - Len(from) \in 1..(Len(p) - Len(from)) /\ Len(from) + (i - Len(from)) = i
      BY <1>1, <1>2, <2>2
    <3>2. QED
      BY <1>4, <3>1
  <2>3. QED
    BY <2>1, <2>2
<1>6. QED
  BY <1>3, <1>5, SameSeq

\* A path that is not moved and meets one that is goes through the target.
LEMMA MovedOver ==
  ASSUME NEW from \in Seq(Names), NEW to \in Seq(Names), NEW p \in Seq(Names), IsPrefix(from, p)
  PROVE  IsPrefix(to, Moved(from, to, p))
<1>1. Len(from) \in Nat /\ Len(to) \in Nat /\ Len(p) \in Nat /\ Len(from) <= Len(p)
  BY DEF IsPrefix
<1>2. /\ Moved(from, to, p) \in Seq(Names)
      /\ Len(Moved(from, to, p)) = Len(to) + (Len(p) - Len(from))
      /\ \A i \in 1..Len(to) : Moved(from, to, p)[i] = to[i]
  BY MovedIs
<1>3. Len(to) <= Len(Moved(from, to, p))
  BY <1>1, <1>2
<1>4. \A i \in 1..Len(to) : to[i] = Moved(from, to, p)[i]
  BY <1>2
<1>5. QED
  BY <1>2, <1>3, <1>4, PrefixIs

\* Directories move with what is in them.
LEMMA MovedFront ==
  ASSUME NEW from \in Seq(Names), NEW to \in Seq(Names), NEW p \in Seq(Names), p # <<>>,
         p # from, from # <<>>, to # <<>>
  PROVE  /\ Moved(from, to, p) # <<>>
         /\ Front(Moved(from, to, p)) = Moved(from, to, Front(p))
<1> DEFINE m == Moved(from, to, p)
           f == Front(p)
<1>1. /\ Len(from) \in Nat \ {0} /\ Len(to) \in Nat \ {0} /\ Len(p) \in Nat \ {0}
  OBVIOUS
<1>2. f \in Seq(Names) /\ Len(f) = Len(p) - 1 /\ \A i \in 1..(Len(p) - 1) : f[i] = p[i]
  BY FrontIs
<1> HIDE DEF f
<1>3. IsPrefix(from, f) <=> IsPrefix(from, p)
  <2>1. IsPrefix(from, p) => Len(from) # Len(p)
    BY PrefixIs, SameSeq
  <2>2. IsPrefix(from, p) <=> Len(from) <= Len(p) /\ \A i \in 1..Len(from) : from[i] = p[i]
    BY PrefixIs
  <2>3. IsPrefix(from, f) <=> Len(from) <= Len(f) /\ \A i \in 1..Len(from) : from[i] = f[i]
    BY <1>2, PrefixIs
  <2>4. Len(from) <= Len(f) <=> Len(from) <= Len(p) /\ Len(from) # Len(p)
    BY <1>1, <1>2
  <2>5. Len(from) <= Len(f) => \A i \in 1..Len(from) : f[i] = p[i]
    BY <1>1, <1>2
  <2>6. QED
    BY <2>1, <2>2, <2>3, <2>4, <2>5
<1>4. CASE ~IsPrefix(from, p)
  <2>1. m = p /\ Moved(from, to, f) = f
    BY <1>2, <1>3, <1>4, MovedIs
  <2>2. QED
    BY <2>1 DEF f
<1>5. CASE IsPrefix(from, p)
  <2> DEFINE n == Moved(from, to, f)
  <2>1. Len(from) <= Len(p) - 1
    BY <1>2, <1>3, <1>5 DEF IsPrefix
  <2>2. /\ m \in Seq(Names) /\ Len(m) = Len(to) + (Len(p) - Len(from))
        /\ \A i \in 1..Len(to) : m[i] = to[i]
        /\ \A i \in 1..(Len(p) - Len(from)) : m[Len(to) + i] = p[Len(from) + i]
    BY <1>5, MovedIs
  <2>3. /\ n \in Seq(Names) /\ Len(n) = Len(to) + (Len(f) - Len(from))
        /\ \A i \in 1..Len(to) : n[i] = to[i]
        /\ \A i \in 1..(Len(f) - Len(from)) : n[Len(to) + i] = f[Len(from) + i]
    BY <1>2, <1>3, <1>5, MovedIs
  <2> HIDE DEF m, n
  <2>4. Len(m) \in Nat \ {0} /\ Len(n) = Len(m) - 1
    BY <1>1, <1>2, <2>1, <2>2, <2>3
  <2>5. m # <<>>
    BY <2>2, <2>4
  <2>6. /\ Front(m) \in Seq(Names) /\ Len(Front(m)) = Len(m) - 1
        /\ \A i \in 1..(Len(m) - 1) : Front(m)[i] = m[i]
    BY <2>2, <2>5, FrontIs
  <2>7. ASSUME NEW i \in 1..Len(n) PROVE n[i] = m[i]
    <3>1. CASE i <= Len(to)
      BY <1>1, <2>2, <2>3, <3>1
    <3>2. CASE ~(i <= Len(to))
      <4> DEFINE k == i - Len(to)
      <4>1. /\ k \in 1..(Len(f) - Len(from)) /\ k \in 1..(Len(p) - Len(from)) /\ Len(to) + k = i
            /\ Len(from) + k \in 1..(Len(p) - 1)
        BY <1>1, <1>2, <2>1, <2>3, <3>2
      <4> HIDE DEF k
      <4>2. n[i] = f[Len(from) + k] /\ m[i] = p[Len(from) + k]
        BY <2>2, <2>3, <4>1
      <4>3. QED
        BY <1>2, <4>1, <4>2
    <3>3. QED
      BY <3>1, <3>2
  <2>8. \A i \in 1..Len(n) : Front(m)[i] = n[i]
    BY <2>4, <2>6, <2>7
  <2>9. Front(m) = n
    BY <2>3, <2>4, <2>6, <2>8, SameSeq
  <2>10. QED
    BY <2>5, <2>9 DEF m, n, f
<1>6. QED
  BY <1>4, <1>5

\* Two paths that are on the disk and meet when one is moved are both files.
LEMMA MovedMeet ==
  ASSUME DiskIs(files, index), NEW from \in Seq(Names), NEW to \in Seq(Names),
         Renames(from, to), NEW p \in files \cup DOMAIN index, NEW q \in files \cup DOMAIN index,
         Moved(from, to, p) = Moved(from, to, q), p # q
  PROVE  p \in files /\ q \in files
<1> DEFINE m(r) == Moved(from, to, r)
           D == DOMAIN index
<1>0. files \subseteq Seq(Names) /\ D \subseteq Seq(Names) /\ files \cap D = {}
  BY DEF DiskIs
<1>1. /\ from \in files \cup D
      /\ to \in files \cup D => from = to \/ {from, to} \subseteq files
  BY DEF Renames, Exists
<1>2. \A r \in files \cup D : r \in Seq(Names) /\ m(r) \in Seq(Names)
  BY <1>0, MovedIs
<1> HIDE DEF m
<1>3. ~(IsPrefix(from, p) /\ IsPrefix(from, q)) /\ (IsPrefix(from, p) \/ IsPrefix(from, q))
  BY <1>2, MovedApart, MovedIs DEF m
\* One of them is moved onto the other, which then goes through the target.
<1>4. ASSUME NEW a \in files \cup D, NEW b \in files \cup D, m(a) = m(b), a # b,
             IsPrefix(from, a), ~IsPrefix(from, b)
      PROVE  a \in files /\ b \in files
  <2>1. IsPrefix(to, b)
    <3>1. a \in Seq(Names) /\ b \in Seq(Names)
      BY <1>2, <1>4
    <3>2. Moved(from, to, b) = b
      BY <1>4, <3>1, MovedIs
    <3>3. IsPrefix(to, Moved(from, to, a))
      BY <1>4, <3>1, MovedOver
    <3>4. QED
      BY <1>4, <3>2, <3>3 DEF m
  <2>2. to \in files \cup D
    BY <1>2, <2>1, AboveIsDirectory
  <2>3. {from, to} \subseteq files
    <3>1. from # to
      BY <1>4, <2>1
    <3>2. QED
      BY <1>1, <2>2, <3>1
  <2>4. a \in files
    <3>1. a # from => from \in D
      BY <1>4, AboveIsDirectory
    <3>2. QED
      BY <1>0, <2>3, <3>1
  <2>5. b \in files
    <3>1. b # to => to \in D
      BY <2>1, AboveIsDirectory
    <3>2. QED
      BY <1>0, <2>3, <3>1
  <2>6. QED
    BY <2>4, <2>5
<1>5. m(p) = m(q)
  BY DEF m
<1>6. QED
  BY <1>3, <1>4, <1>5

\* What fs::rename does keeps a directory tree a directory tree.
LEMMA RenamedDisk ==
  ASSUME DiskIs(files, index), NEW from \in Seq(Names), NEW to \in Seq(Names),
         from # <<>>, to # <<>>, Renames(from, to)
  PROVE  DiskIs(MovedFiles(from, to), MovedIndex(from, to))
<1> DEFINE m(p) == Moved(from, to, p)
           D == DOMAIN index
           fs == MovedFiles(from, to)
           ix == MovedIndex(from, to)
<1>0. /\ files \subseteq Seq(Names) /\ IsFiniteSet(files) /\ D \subseteq Seq(Names)
      /\ IsFiniteSet(D) /\ <<>> \in D /\ \A p \in D : index[p] \in Seq(Names)
      /\ files \cap D = {} /\ \A p \in files \cup D : p # <<>> => Front(p) \in D
  BY DEF DiskIs
<1>1. /\ from \in files \cup D /\ ~IsPrefix(from, Front(to)) /\ Front(to) \in D
      /\ to \in files \cup D => from = to \/ {from, to} \subseteq files
  BY DEF Renames, Exists
<1>2. \A p \in files \cup D : p \in Seq(Names) /\ m(p) \in Seq(Names)
  BY <1>0, MovedIs
<1>3. fs = {m(p) : p \in files} /\ DOMAIN ix = {m(p) : p \in D}
  BY DEF MovedFiles, MovedIndex
<1>4. IsFiniteSet(fs) /\ IsFiniteSet(DOMAIN ix)
  <2> DEFINE f == [p \in files |-> m(p)]
             g == [p \in D |-> m(p)]
  <2>1. IsFiniteSet({f[p] : p \in files})
    BY <1>0, ImageIsFinite
  <2>2. IsFiniteSet({g[p] : p \in D})
    BY <1>0, ImageIsFinite
  <2>3. {f[p] : p \in files} = {m(p) : p \in files} /\ {g[p] : p \in D} = {m(p) : p \in D}
    OBVIOUS
  <2>4. QED
    BY <1>3, <2>1, <2>2, <2>3
<1>5. \A q \in DOMAIN ix : ix[q] \in Seq(Names)
  <2>1. SUFFICES ASSUME NEW q \in DOMAIN ix PROVE ix[q] \in Seq(Names)
    OBVIOUS
  <2>2. ix[q] = index[CHOOSE p \in D : m(p) = q]
    BY <1>3, <2>1 DEF MovedIndex
  <2>3. \E p \in D : m(p) = q
    BY <1>3, <2>1
  <2>4. (CHOOSE p \in D : m(p) = q) \in D
    BY <2>3
  <2>5. QED
    BY <1>0, <2>2, <2>4
<1>6. m(<<>>) = <<>>
  <2>1. Len(from) # 0 /\ Len(from) \in Nat /\ <<>> \in Seq(Names)
    OBVIOUS
  <2>2. ~IsPrefix(from, <<>>)
    BY <2>1 DEF IsPrefix
  <2>3. QED
    BY <2>1, <2>2, MovedIs
<1> HIDE DEF m, fs, ix
<1>7. ASSUME NEW p \in files \cup D, NEW q \in files \cup D, m(p) = m(q), p # q
      PROVE  p \in files /\ q \in files
  BY <1>7, MovedMeet DEF m
<1>8. fs \cap DOMAIN ix = {}
  <2>1. SUFFICES ASSUME NEW p \in files, NEW q \in D, m(p) = m(q) PROVE FALSE
    BY <1>3
  <2>2. p # q
    BY <1>0, <2>1
  <2>3. QED
    BY <1>0, <1>7, <2>1, <2>2
<1>9. ASSUME NEW p \in files \cup D, m(p) # <<>> PROVE Front(m(p)) \in DOMAIN ix
  <2>1. p # <<>>
    BY <1>6, <1>9
  <2>2. CASE p = from
    <3>1. Len(from) \in Nat /\ SubSeq(from, Len(from) + 1, Len(from)) = <<>> /\ IsPrefix(from, from)
      BY DEF IsPrefix
    <3>2. m(from) = to \o <<>>
      BY <3>1 DEF m, Moved
    <3>3. m(from) = to
      BY <3>2
    <3>4. m(Front(to)) = Front(to)
      BY <1>1, <1>2, MovedIs DEF m
    <3>5. QED
      BY <1>1, <1>3, <2>2, <3>3, <3>4
  <2>3. CASE p # from
    <3>1. Front(m(p)) = m(Front(p))
      BY <1>2, <2>1, <2>3, MovedFront DEF m
    <3>2. Front(p) \in D
      BY <1>0, <2>1
    <3>3. QED
      BY <1>3, <3>1, <3>2
  <2>4. QED
    BY <2>2, <2>3
<1>10. <<>> \in DOMAIN ix
  BY <1>0, <1>3, <1>6
<1>11. fs \subseteq Seq(Names) /\ DOMAIN ix \subseteq Seq(Names)
  BY <1>2, <1>3
<1>12. \A p \in fs \cup DOMAIN ix : p # <<>> => Front(p) \in DOMAIN ix
  BY <1>3, <1>9
<1>13. QED
  BY <1>4, <1>5, <1>8, <1>10, <1>11, <1>12 DEF DiskIs, fs, ix

\* So does removing a file or directory, and all that is in it.
LEMMA RemovedDisk ==
  ASSUME DiskIs(files, index), NEW gone \in Seq(Names), gone # <<>>, NEW fs, NEW ix,
         fs = {p \in files : ~IsPrefix(gone, p)},
         ix = [p \in {q \in DOMAIN index : ~IsPrefix(gone, q)} |-> index[p]]
  PROVE  DiskIs(fs, ix)
<1>0. /\ files \subseteq Seq(Names) /\ IsFiniteSet(files) /\ DOMAIN index \subseteq Seq(Names)
      /\ IsFiniteSet(DOMAIN index) /\ <<>> \in DOMAIN index
      /\ \A p \in DOMAIN index : index[p] \in Seq(Names)
      /\ files \cap DOMAIN index = {}
      /\ \A p \in files \cup DOMAIN index : p # <<>> => Front(p) \in DOMAIN index
  BY DEF DiskIs
<1>1. DOMAIN ix = {q \in DOMAIN index : ~IsPrefix(gone, q)}
  OBVIOUS
<1>2. IsFiniteSet(fs) /\ IsFiniteSet(DOMAIN ix)
  <2>1. fs \subseteq files /\ DOMAIN ix \subseteq DOMAIN index
    BY <1>1
  <2>2. QED
    BY <1>0, <2>1, FS_Subset
<1>3. <<>> \in DOMAIN ix
  <2>1. Len(gone) # 0 /\ Len(gone) \in Nat
    OBVIOUS
  <2>2. ~IsPrefix(gone, <<>>)
    BY <2>1 DEF IsPrefix
  <2>3. QED
    BY <1>0, <1>1, <2>2
<1>4. ASSUME NEW p \in fs \cup DOMAIN ix, p # <<>> PROVE Front(p) \in DOMAIN ix
  <2>1. p \in files \cup DOMAIN index /\ p \in Seq(Names) /\ ~IsPrefix(gone, p)
    BY <1>0, <1>1
  <2>2. Front(p) \in DOMAIN index /\ Front(p) \in Seq(Names)
    BY <1>0, <1>4, <2>1
  <2>3. ~IsPrefix(gone, Front(p))
    <3>1. /\ Len(p) \in Nat \ {0} /\ Len(Front(p)) = Len(p) - 1
          /\ \A i \in 1..(Len(p) - 1) : Front(p)[i] = p[i]
      BY <1>4, <2>1, FrontIs
    <3>2. IsPrefix(gone, Front(p)) <=> /\ Len(gone) <= Len(Front(p))
                                       /\ \A i \in 1..Len(gone) : gone[i] = Front(p)[i]
      BY <2>2, PrefixIs
    <3>3. IsPrefix(gone, p) <=> Len(gone) <= Len(p) /\ \A i \in 1..Len(gone) : gone[i] = p[i]
      BY <2>1, PrefixIs
    <3>4. Len(gone) \in Nat
      OBVIOUS
    <3>5. QED
      BY <2>1, <3>1, <3>2, <3>3, <3>4
  <2>4. QED
    BY <1>1, <2>2, <2>3
<1>5. \A p \in DOMAIN ix : ix[p] \in Seq(Names)
  BY <1>0, <1>1
<1>6. fs \subseteq Seq(Names) /\ DOMAIN ix \subseteq Seq(Names) /\ fs \cap DOMAIN ix = {}
  BY <1>0, <1>1
<1>7. QED
  BY <1>2, <1>3, <1>4, <1>5, <1>6 DEF DiskIs

-------------------------------------------------------------------------------
(* Saving *)

LEMMA SaveKeeps ==
  ASSUME nodes' \subseteq 0..MaxIds, Root \in nodes', leafs' \subseteq nodes' \ {Root},
         parent' \in [Ids -> 0..MaxIds], Rooted(parent'), CodeInv', DownInv',
         NEW fs, NEW ix, DiskIs(fs, ix), NEW marked \in SUBSET ShownIn(parent', nodes'),
         alive \in BOOLEAN, faults \in 0..MaxFaults, save(marked, fs, ix)
  PROVE  /\ DiskIs(files', index') /\ unsaved' \subseteq nodes'
         /\ alive' \in BOOLEAN /\ faults' \in 0..MaxFaults
<1>0. PICK todo \in {(unsaved \cup marked) \cap nodes'}, path \in {Paths(parent', encoded')} :
        Saves(todo, path, marked, fs, ix)
  BY DEF save
<1> DEFINE shown == ShownIn(parent', nodes')
           Closed(S) ==
             marked \subseteq S /\ \A i \in todo, j \in S :
               (j # Root /\ i = parent'[j]) \/ (i # Root /\ j = parent'[i]) => i \in S
           leafsIn(s) == s \cap leafs'
           folders(s) == s \ leafs'
           calledBack(s) == {i \in folders(s) : \E j \in s \ {Root} : parent'[j] = i}
           blocked(s) == {i \in folders(s) \ calledBack(s) : path[i] \in fs}
           made(s) == {path[i] : i \in folders(s) \ blocked(s)}
           directories(s) == DOMAIN ix \cup made(s)
           freed(s) == fs \ {path[i] : i \in folders(s)}
           throws(s) == \E p \in made(s) : p \notin DOMAIN ix /\ Front(p) \notin directories(s)
           Ends(s) ==
             /\ IF throws(s) THEN UNCHANGED faults ELSE calledBack(s) # {} /\ Fault
             /\ alive' = FALSE
             /\ files' = freed(s) /\ index' = ix
             /\ unsaved' = todo
           still(s, failed) == failed \cup blocked(s) \cup
             {i \in leafsIn(s) : Front(path[i]) \notin directories(s) \/ path[i] \in directories(s)}
           Written(s, failed, p) == {i \in folders(s) \ still(s, failed) : path[i] = p}
           Writes(s, failed) ==
             /\ IF failed = {} THEN UNCHANGED faults ELSE Fault
             /\ files' = freed(s) \cup {path[i] : i \in leafsIn(s) \ still(s, failed)}
             /\ index' = [p \in directories(s) |->
                  IF Written(s, failed, p) # {}
                  THEN indexFileWrite(CHOOSE i \in Written(s, failed, p) : TRUE)
                  ELSE IF p \in DOMAIN ix THEN ix[p] ELSE <<>>]
             /\ unsaved' = todo \ (s \ still(s, failed))
<1>1. PICK s \in SUBSET todo :
        /\ Closed(s) /\ \A S \in SUBSET s : Closed(S) => S = s
        /\ \/ Ends(s)
           \/ /\ ~throws(s) /\ \E failed \in SUBSET (s \ calledBack(s)) : Writes(s, failed)
              /\ UNCHANGED alive
  BY <1>0, Zenon DEF Saves
<1> HIDE DEF shown, Closed, Ends, Writes, leafsIn, folders, blocked, made, directories, freed,
             calledBack, throws, still, Written
<1>a. todo = (unsaved \cup marked) \cap nodes' /\ path = Paths(parent', encoded')
  OBVIOUS
<1>2. /\ s \subseteq nodes' /\ todo \subseteq nodes' /\ Root \in 0..MaxIds
      /\ nodes' \in SUBSET (0..MaxIds)
  BY <1>1, <1>a, NodesAre
<1>3. /\ shown \subseteq nodes' /\ \A i \in shown \ {Root} : parent'[i] \in shown
      /\ \A i \in nodes' \ {Root} : parent'[i] \in shown => i \in shown
  BY <1>2, ShownIs DEF shown
<1>4. s \subseteq shown
  <2>1. Closed(s \cap shown)
    <3>1. marked \subseteq s /\ \A i \in todo, j \in s :
            (j # Root /\ i = parent'[j]) \/ (i # Root /\ j = parent'[i]) => i \in s
      BY <1>1 DEF Closed
    <3>a. marked \subseteq shown
      BY DEF shown
    <3>2. ASSUME NEW i \in todo, NEW j \in s \cap shown,
                 (j # Root /\ i = parent'[j]) \/ (i # Root /\ j = parent'[i])
          PROVE  i \in s \cap shown
      BY <1>2, <1>3, <3>1, <3>2
    <3>3. QED
      BY <3>1, <3>a, <3>2 DEF Closed
  <2>2. s \cap shown = s
    BY <1>1, <2>1
  <2>3. QED
    BY <2>2
<1>5. \A i \in s : path[i] \in Seq(Names) /\ (i # Root => path[i] # <<>>)
  <2>1. encoded' \in [Ids -> Names \cup {"none"}] /\ \A i \in nodes' \ {Root} : encoded'[i] \in Names
    BY DEF CodeInv
  <2>2. \A i \in shown : path[i] \in Seq(Names) /\ (i # Root => path[i] # <<>>)
    BY <1>2, <1>a, <2>1, PathOfShown DEF shown
  <2>3. QED
    BY <1>4, <2>2
<1>6. /\ fs \subseteq Seq(Names) /\ IsFiniteSet(fs) /\ DOMAIN ix \subseteq Seq(Names)
      /\ IsFiniteSet(DOMAIN ix) /\ <<>> \in DOMAIN ix
      /\ \A p \in DOMAIN ix : ix[p] \in Seq(Names)
      /\ fs \cap DOMAIN ix = {} /\ \A p \in fs \cup DOMAIN ix : p # <<>> => Front(p) \in DOMAIN ix
  BY DEF DiskIs
<1>7. /\ leafsIn(s) \subseteq s \ {Root} /\ folders(s) \subseteq s
      /\ freed(s) \subseteq fs /\ IsFiniteSet(freed(s))
  <2>1. freed(s) \subseteq fs
    BY DEF freed
  <2>2. QED
    BY <1>6, <2>1, FS_Subset DEF leafsIn, folders
<1>8. \A S \in SUBSET s : IsFiniteSet({path[i] : i \in S})
  <2>1. SUFFICES ASSUME NEW S \in SUBSET s PROVE IsFiniteSet({path[i] : i \in S})
    OBVIOUS
  <2>2. IsFiniteSet(0..MaxIds)
    BY NodesAre, FS_Interval
  <2>3. IsFiniteSet(S)
    BY <1>2, <2>2, FS_Subset
  <2> DEFINE f == [i \in S |-> path[i]]
  <2>a. DOMAIN f = S /\ f = [i \in S |-> f[i]] /\ {f[i] : i \in S} = {path[i] : i \in S}
    OBVIOUS
  <2> HIDE DEF f
  <2>4. IsFiniteSet({f[i] : i \in S})
    BY <2>3, <2>a, ImageIsFinite
  <2>5. {f[i] : i \in S} = {path[i] : i \in S}
    BY <2>a
  <2>6. QED
    BY <2>4, <2>5
<1>9. Fault => faults' \in 0..MaxFaults
  BY FsTreeAssumption DEF Fault
<1>10. CASE Ends(s)
  <2>1. files' = freed(s) /\ index' = ix /\ unsaved' = todo /\ alive' = FALSE
        /\ (faults' = faults \/ Fault)
    BY <1>10 DEF Ends
  <2>2. DiskIs(freed(s), ix)
    BY <1>6, <1>7 DEF DiskIs
  <2>3. QED
    BY <1>2, <1>9, <2>1, <2>2
<1>11. CASE ~throws(s) /\ alive' = alive /\ \E failed \in SUBSET (s \ calledBack(s)) : Writes(s, failed)
  <2>1. PICK failed \in SUBSET s : Writes(s, failed)
    BY <1>11
  <2> DEFINE dirs == directories(s)
             new == {path[i] : i \in leafsIn(s) \ still(s, failed)}
  <2>2. /\ files' = freed(s) \cup new /\ unsaved' = todo \ (s \ still(s, failed))
        /\ index' = [p \in dirs |->
             IF Written(s, failed, p) # {}
             THEN indexFileWrite(CHOOSE i \in Written(s, failed, p) : TRUE)
             ELSE IF p \in DOMAIN ix THEN ix[p] ELSE <<>>]
        /\ (faults' = faults \/ Fault)
    BY <2>1 DEF Writes
  <2>3. /\ dirs = DOMAIN ix \cup made(s)
        /\ made(s) = {path[i] : i \in folders(s) \ blocked(s)}
    BY DEF directories, made
  <2>4. IsFiniteSet(dirs) /\ dirs \subseteq Seq(Names)
    <3>1. folders(s) \ blocked(s) \in SUBSET s
      BY <1>7
    <3>2. IsFiniteSet(made(s)) /\ made(s) \subseteq Seq(Names)
      BY <1>5, <1>8, <2>3, <3>1
    <3>3. QED
      <4>1. IsFiniteSet(DOMAIN ix \cup made(s))
        BY <1>6, <3>2, FS_Union
      <4>2. QED
        BY <1>6, <2>3, <3>2, <4>1
  <2>5. IsFiniteSet(new) /\ new \subseteq Seq(Names)
    <3>1. leafsIn(s) \ still(s, failed) \in SUBSET s
      BY <1>7
    <3>2. QED
      BY <1>5, <1>8, <3>1
  <2>6. \A p \in dirs : p # <<>> => Front(p) \in dirs
    <3>1. \A p \in made(s) : p \notin DOMAIN ix => Front(p) \in directories(s)
      BY <1>11 DEF throws
    <3>2. QED
      BY <1>6, <2>3, <3>1
  <2>7. \A p \in new : p \notin dirs /\ Front(p) \in dirs
    BY DEF still
  <2>8. freed(s) \cap dirs = {}
    <3>1. \A i \in folders(s) : path[i] \notin freed(s)
      BY DEF freed
    <3>2. QED
      BY <1>6, <1>7, <2>3, <3>1
  <2>9. ASSUME NEW p \in dirs PROVE index'[p] \in Seq(Names)
    <3>1. CASE Written(s, failed, p) = {}
      BY <1>6, <2>2, <3>1
    <3>2. CASE Written(s, failed, p) # {}
      <4>1. PICK i \in Written(s, failed, p) : index'[p] = indexFileWrite(i)
        BY <2>2, <3>2
      <4>2. i \in nodes' \ leafs' /\ i \in 0..MaxIds
        BY <1>2, <4>1 DEF Written, folders
      <4> DEFINE list == children'[i]
      <4>3. list \in Seq(Ids) /\ ToSet(list) = Below(parent', nodes', i)
        BY <4>2 DEF DownInv
      <4>4. Len(list) \in Nat /\ \A k \in 1..Len(list) : list[k] \in nodes' \ {Root}
        BY <4>3 DEF ToSet, Below
      <4>5. \A k \in 1..Len(list) : encoded'[list[k]] \in Names
        BY <4>4 DEF CodeInv
      <4>6. indexFileWrite(i) = [k \in 1..Len(list) |-> encoded'[list[k]]]
        BY DEF indexFileWrite
      <4> HIDE DEF list
      <4>7. indexFileWrite(i) \in [1..Len(list) -> Names]
        BY <4>5, <4>6
      <4>8. QED
        BY <4>1, <4>4, <4>7
    <3>3. QED
      BY <3>1, <3>2
  <2>10. DOMAIN index' = dirs
    BY <2>2
  <2> HIDE DEF dirs, new
  <2>11. IsFiniteSet(files')
    BY <1>7, <2>2, <2>5, FS_Union
  <2>12. files' \subseteq Seq(Names) /\ <<>> \in dirs /\ files' \cap dirs = {}
    BY <1>6, <1>7, <2>2, <2>3, <2>5, <2>7, <2>8
  <2>13. \A p \in files' \cup dirs : p # <<>> => Front(p) \in dirs
    BY <1>6, <1>7, <2>2, <2>3, <2>6, <2>7
  <2>14. DiskIs(files', index')
    BY <2>4, <2>9, <2>10, <2>11, <2>12, <2>13 DEF DiskIs
  <2>15. QED
    BY <1>2, <1>9, <1>11, <2>2, <2>14
<1>12. QED
  BY <1>1, <1>10, <1>11

-------------------------------------------------------------------------------
(* The operations *)

LEMMA NodesInBounds ==
  ASSUME MemoryInv, UpInv
  PROVE  /\ nodes \in SUBSET (0..MaxIds) /\ Root \in nodes /\ leafs \subseteq nodes \ {Root}
         /\ mNextAvailableId \in Nat /\ \A i \in nodes : i < mNextAvailableId
         /\ Shown = ShownIn(parent, nodes) /\ Root \in Shown /\ Shown \subseteq nodes
         /\ \A i \in Shown \ {Root} : i \in Ids /\ parent[i] \in Shown /\ parent[i] \in Folders
         /\ \A i \in nodes \ {Root} : parent[i] \in Shown => i \in Shown
<1>1. mNextAvailableId \in Nat /\ mNextAvailableId - 1 <= MaxIds /\ MaxIds \in Nat
  BY NodesAre DEF MemoryInv
<1>2. /\ nodes \in SUBSET (0..MaxIds) /\ Root \in nodes /\ leafs \subseteq nodes \ {Root}
      /\ \A i \in nodes : i < mNextAvailableId
  BY <1>1 DEF MemoryInv
<1>3. Shown = ShownIn(parent, nodes)
  BY DEF Shown, Chain, ShownIn
<1>4. parent \in [Ids -> 0..MaxIds] /\ Rooted(parent) /\ \A i \in nodes \ {Root} : parent[i] \notin leafs
  BY DEF UpInv
<1>5. /\ Root \in Shown /\ Shown \subseteq nodes
      /\ \A i \in Shown \ {Root} : parent[i] \in Shown
      /\ \A i \in nodes \ {Root} : parent[i] \in Shown => i \in Shown
  BY <1>2, <1>3, <1>4, ShownIs
<1>6. \A i \in Shown \ {Root} : i \in Ids /\ parent[i] \in Folders
  BY <1>2, <1>4, <1>5, NodesAre DEF Folders
<1>7. QED
  BY <1>1, <1>2, <1>3, <1>5, <1>6

LEMMA NodesInBoundsNext ==
  ASSUME MemoryInv', UpInv'
  PROVE  /\ nodes' \in SUBSET (0..MaxIds) /\ Root \in nodes' /\ leafs' \subseteq nodes' \ {Root}
<1>1. /\ nodes' \subseteq 0..(mNextAvailableId' - 1) /\ Root \in nodes'
      /\ leafs' \subseteq nodes' \ {Root} /\ mNextAvailableId' \in 1..(MaxIds + 1)
  BY DEF MemoryInv
<1>2. \A m \in 1..(MaxIds + 1) : 0..(m - 1) \subseteq 0..MaxIds
  BY FsTreeAssumption
<1>3. QED
  BY <1>1, <1>2

\* An operation that leaves memory and disk in order, and ends by saving.
LEMMA Saved ==
  ASSUME CountInv, MemoryInv', UpInv', CodeInv', DownInv', NEW fs, NEW ix, DiskIs(fs, ix),
         NEW marked \in SUBSET ShownIn(parent', nodes'), save(marked, fs, ix),
         steps' \in 0..MaxSteps
  PROVE  IInv'
<1>1. nodes' \subseteq 0..MaxIds /\ Root \in nodes' /\ leafs' \subseteq nodes' \ {Root}
  BY NodesInBoundsNext
<1>2. parent' \in [Ids -> 0..MaxIds] /\ Rooted(parent')
  BY DEF UpInv
<1>3. alive \in BOOLEAN /\ faults \in 0..MaxFaults
  BY DEF CountInv
<1>4. /\ DiskIs(files', index') /\ unsaved' \subseteq nodes'
      /\ alive' \in BOOLEAN /\ faults' \in 0..MaxFaults
  BY <1>1, <1>2, <1>3, SaveKeeps
<1>5. CountInv' /\ DiskIs(files, index)'
  <2>1. CountInv'
    BY <1>4 DEF CountInv
  <2>2. DiskIs(files, index)'
    BY <1>4 DEF DiskIs
  <2>3. QED
    BY <2>1, <2>2
<1>6. QED
  BY <1>5 DEF IInv

LEMMA StrayingIs ==
  ASSUME NEW par \in [Ids -> 0..MaxIds], Rooted(par), NEW ns \in SUBSET (0..MaxIds), NEW enc,
         NEW S, Root \notin S
  PROVE  Straying(S, ns, par, enc) \subseteq Ids
<1> DEFINE sharing == {i \in ns \ {Root} : \E j \in ns \ {Root, i} : par[i] = par[j] /\ enc[i] = enc[j]}
<1>1. ChainIn(par, Root) = {Root} /\ Root \notin S \cup sharing
  BY ChainIs
<1>2. Straying(S, ns, par, enc) = {i \in ns : ChainIn(par, i) \cap (S \cup sharing) # {}}
  BY DEF Straying
<1> HIDE DEF sharing
<1>3. Root \notin Straying(S, ns, par, enc) /\ Straying(S, ns, par, enc) \subseteq ns
  BY <1>1, <1>2
<1>4. QED
  BY <1>3, NodesAre

\* What the user sees has a path that may be on the disk.
LEMMA NodePath ==
  ASSUME MemoryInv, UpInv, CodeInv, NEW id \in Shown \ {Root}
  PROVE  /\ id \in Ids /\ parent[id] \in Folders
         /\ getNodePath(id) \in Seq(Names) /\ getNodePath(id) # <<>>
         /\ Front(getNodePath(id)) = getNodePath(parent[id])
         /\ getNodePath(parent[id]) \in Seq(Names)
<1>1. /\ parent \in [Ids -> 0..MaxIds] /\ Rooted(parent)
      /\ encoded \in [Ids -> Names \cup {"none"}] /\ \A i \in nodes \ {Root} : encoded[i] \in Names
  BY DEF UpInv, CodeInv
<1>2. /\ nodes \in SUBSET (0..MaxIds) /\ Root \in nodes /\ id \in ShownIn(parent, nodes)
      /\ id \in Ids /\ parent[id] \in Folders
  BY NodesInBounds
<1>3. /\ Paths(parent, encoded)[id] \in Seq(Names)
      /\ Paths(parent, encoded)[parent[id]] \in Seq(Names) /\ Paths(parent, encoded)[id] # <<>>
      /\ Front(Paths(parent, encoded)[id]) = Paths(parent, encoded)[parent[id]]
  BY <1>1, <1>2, PathOfShown
<1>4. QED
  BY <1>2, <1>3 DEF getNodePath

LEMMA FolderPath ==
  ASSUME MemoryInv, UpInv, CodeInv, NEW id \in Shown
  PROVE  getNodePath(id) \in Seq(Names)
<1>1. /\ parent \in [Ids -> 0..MaxIds] /\ Rooted(parent)
      /\ encoded \in [Ids -> Names \cup {"none"}] /\ \A i \in nodes \ {Root} : encoded[i] \in Names
  BY DEF UpInv, CodeInv
<1>2. /\ nodes \in SUBSET (0..MaxIds) /\ Root \in nodes /\ id \in ShownIn(parent, nodes)
  BY NodesInBounds
<1>3. QED
  BY <1>1, <1>2, PathOfShown DEF getNodePath

LEMMA AppendIs ==
  ASSUME NEW T, NEW s \in Seq(T), Distinct(s), NEW e \in T, e \notin ToSet(s)
  PROVE  /\ Append(s, e) \in Seq(T) /\ Distinct(Append(s, e))
         /\ ToSet(Append(s, e)) = ToSet(s) \cup {e}
<1>1. Len(s) \in Nat /\ DOMAIN s = 1..Len(s)
  OBVIOUS
<1> DEFINE r == Append(s, e)
<1>2. /\ r \in Seq(T) /\ Len(r) = Len(s) + 1 /\ DOMAIN r = 1..(Len(s) + 1)
      /\ r[Len(s) + 1] = e
  BY <1>1
<1>3. \A i \in 1..Len(s) : r[i] = s[i] /\ s[i] # e
  BY <1>1 DEF ToSet
<1> HIDE DEF r
<1>4. Distinct(r)
  <2>1. SUFFICES ASSUME NEW i \in 1..(Len(s) + 1), NEW j \in 1..(Len(s) + 1), r[i] = r[j]
                 PROVE  i = j
    BY <1>2 DEF Distinct
  <2>2. CASE i \in 1..Len(s) /\ j \in 1..Len(s)
    BY <1>3, <2>1, <2>2 DEF Distinct
  <2>3. QED
    BY <1>1, <1>2, <1>3, <2>1, <2>2
<1>5. ToSet(r) = ToSet(s) \cup {e}
  <2>1. \A i \in 1..(Len(s) + 1) : i \in 1..Len(s) \/ i = Len(s) + 1
    BY <1>1
  <2>2. \A i \in 1..Len(s) : i \in 1..(Len(s) + 1)
    BY <1>1
  <2>3. Len(s) + 1 \in 1..(Len(s) + 1)
    BY <1>1
  <2>4. QED
    BY <1>1, <1>2, <1>3, <2>1, <2>2, <2>3 DEF ToSet
<1>6. QED
  BY <1>2, <1>4, <1>5 DEF r

\* The list of children of one folder changes.
LEMMA InsertKeeps ==
  ASSUME IInv, NEW folder \in Folders, NEW n \in Names, NEW isLeaf \in BOOLEAN,
         insert(folder, n, isLeaf), steps' \in 0..MaxSteps
  PROVE  IInv'
<1> DEFINE id == mNextAvailableId
<1>0. MemoryInv /\ UpInv /\ CodeInv /\ DownInv /\ DiskIs(files, index) /\ CountInv
  BY DEF IInv
<1>1. /\ id \in Ids /\ mNextAvailableId' = mNextAvailableId + 1
      /\ nodes' = nodes \cup {id}
      /\ leafs' = IF isLeaf THEN leafs \cup {id} ELSE leafs
      /\ parent' = [parent EXCEPT ![id] = folder]
      /\ name' = [name EXCEPT ![id] = n]
      /\ encoded' = [encoded EXCEPT ![id] = n]
      /\ children' = [children EXCEPT ![folder] = Append(@, id)]
      /\ strays' = strays \cup Straying({}, nodes', parent', encoded')
      /\ save({folder, id}, files, index)
  BY DEF insert, Add, getNextId
<1>2. /\ nodes \in SUBSET (0..MaxIds) /\ Root \in nodes /\ leafs \subseteq nodes \ {Root}
      /\ id \in Nat /\ \A i \in nodes : i < id
      /\ Shown = ShownIn(parent, nodes) /\ Root \in Shown /\ Shown \subseteq nodes
      /\ \A i \in Shown \ {Root} : i \in Ids /\ parent[i] \in Shown
  BY <1>0, NodesInBounds
<1>3. folder \in Shown /\ folder \in nodes \ leafs /\ folder \in 0..MaxIds /\ folder < id
      /\ folder # id /\ id \notin nodes /\ id \in 0..MaxIds /\ id # Root
  BY <1>1, <1>2, NodesAre DEF Folders
<1>4. /\ parent \in [Ids -> 0..MaxIds] /\ Rooted(parent)
      /\ \A i \in Ids : parent[i] < id /\ parent[i] # id
      /\ \A i \in nodes \ {Root} : parent[i] \notin leafs
  <2>1. parent \in [Ids -> 0..MaxIds] /\ \A i \in Ids : parent[i] < id /\ parent[i] \in Nat
    BY <1>0, NodesAre DEF UpInv
  <2>2. QED
    BY <1>0, <1>2, <2>1 DEF UpInv
<1>5. parent' \in [Ids -> 0..MaxIds] /\ parent'[id] = folder
      /\ \A i \in Ids : i # id => parent'[i] = parent[i]
  BY <1>1, <1>3, <1>4
<1>6. Rooted(parent')
  <2>1. SUFFICES ASSUME NEW S \in (SUBSET Ids) \ {{}} PROVE \E i \in S : parent'[i] \notin S
    BY DEF Rooted
  <2>2. CASE S = {id}
    BY <1>3, <1>5, <2>2
  <2>3. CASE S # {id}
    <3>1. S \ {id} \in (SUBSET Ids) \ {{}}
      BY <2>3
    <3>2. PICK i \in S \ {id} : parent[i] \notin S \ {id}
      BY <1>4, <3>1 DEF Rooted
    <3>3. QED
      BY <1>4, <1>5, <3>2
  <2>4. QED
    BY <2>2, <2>3
<1>7. MemoryInv'
  <2>1. /\ nodes' \subseteq 0..(mNextAvailableId' - 1) /\ Root \in nodes'
        /\ leafs' \subseteq nodes' \ {Root}
    BY <1>1, <1>2, <1>3
  <2>2. name' \in [Ids -> Names \cup {"none"}]
    BY <1>0, <1>1 DEF MemoryInv
  <2>3. mNextAvailableId' \in 1..(MaxIds + 1)
    BY <1>1, NodesAre DEF Ids
  <2>4. strays' \subseteq Ids
    <3>1. nodes' \in SUBSET (0..MaxIds)
      BY <1>1, <1>2, <1>3
    <3>2. Straying({}, nodes', parent', encoded') \subseteq Ids
      BY <1>5, <1>6, <3>1, StrayingIs
    <3>3. QED
      BY <1>0, <1>1, <3>2 DEF MemoryInv
  <2>5. QED
    BY <2>1, <2>2, <2>3, <2>4 DEF MemoryInv
<1>8. UpInv'
  <2>1. \A i \in Ids : parent'[i] < mNextAvailableId'
    BY <1>1, <1>2, <1>3, <1>4, <1>5, NodesAre
  <2>2. ASSUME NEW i \in nodes' \ {Root} PROVE parent'[i] \notin leafs'
    <3>1. i = id \/ (i \in nodes \ {Root} /\ i \in Ids /\ i # id)
      BY <1>1, <1>2, <1>3, NodesAre
    <3>2. QED
      BY <1>1, <1>3, <1>4, <1>5, <3>1
  <2>3. QED
    BY <1>5, <1>6, <2>1, <2>2 DEF UpInv
<1>9. CodeInv'
  <2>1. encoded \in [Ids -> Names \cup {"none"}] /\ \A i \in nodes \ {Root} : encoded[i] \in Names
    BY <1>0 DEF CodeInv
  <2>2. encoded' \in [Ids -> Names \cup {"none"}]
    BY <1>1, <2>1
  <2>3. ASSUME NEW i \in nodes' \ {Root} PROVE encoded'[i] \in Names
    <3>1. i = id \/ (i \in nodes \ {Root} /\ i \in Ids /\ i # id)
      BY <1>1, <1>2, <1>3, NodesAre
    <3>2. QED
      BY <1>1, <2>1, <3>1
  <2>4. QED
    BY <2>2, <2>3 DEF CodeInv
<1>10. DownInv'
  <2>1. /\ children \in [0..MaxIds -> Seq(Ids)]
        /\ \A f \in 0..MaxIds :
             /\ Distinct(children[f])
             /\ ToSet(children[f]) = IF f \in nodes \ leafs THEN Below(parent, nodes, f) ELSE {}
    BY <1>0 DEF DownInv
  <2>2. id \notin ToSet(children[folder]) /\ ToSet(children[folder]) = Below(parent, nodes, folder)
    BY <1>3, <2>1 DEF Below
  <2>3. /\ Append(children[folder], id) \in Seq(Ids) /\ Distinct(Append(children[folder], id))
        /\ ToSet(Append(children[folder], id)) = ToSet(children[folder]) \cup {id}
    <3>1. children[folder] \in Seq(Ids) /\ Distinct(children[folder])
      BY <1>3, <2>1
    <3>2. QED
      BY <1>1, <2>2, <3>1, AppendIs
  <2>4. /\ children'[folder] = Append(children[folder], id)
        /\ \A f \in 0..MaxIds : f # folder => children'[f] = children[f]
        /\ children' \in [0..MaxIds -> Seq(Ids)]
    BY <1>1, <1>3, <2>1, <2>3
  <2>5. \A i \in nodes \ {Root} : i \in Ids /\ i # id
    BY <1>2, <1>3, NodesAre
  <2>6. \A f \in 0..MaxIds : f # folder => Below(parent', nodes', f) = Below(parent, nodes, f)
    BY <1>1, <1>5, <2>5 DEF Below
  <2>7. Below(parent', nodes', folder) = Below(parent, nodes, folder) \cup {id}
    BY <1>1, <1>3, <1>5, <2>5 DEF Below
  <2>8. Below(parent, nodes, id) = {}
    BY <1>4, <2>5 DEF Below
  <2>9. ASSUME NEW f \in 0..MaxIds
        PROVE  /\ Distinct(children'[f])
               /\ ToSet(children'[f]) = IF f \in nodes' \ leafs' THEN Below(parent', nodes', f) ELSE {}
    <3>1. CASE f = folder
      <4>1. f \in nodes' \ leafs'
        BY <1>1, <1>3, <3>1
      <4>2. QED
        BY <2>2, <2>3, <2>4, <2>7, <3>1, <4>1
    <3>2. CASE f = id
      <4>1. children'[f] = children[f] /\ ToSet(children[f]) = {} /\ Below(parent', nodes', f) = {}
        BY <1>3, <2>1, <2>4, <2>6, <2>8, <3>2
      <4>2. QED
        BY <2>1, <4>1
    <3>3. CASE f # folder /\ f # id
      <4>1. f \in nodes' \ leafs' <=> f \in nodes \ leafs
        BY <1>1, <3>3
      <4>2. QED
        BY <2>1, <2>4, <2>6, <3>3, <4>1
    <3>4. QED
      BY <3>1, <3>2, <3>3
  <2>10. QED
    BY <2>4, <2>9 DEF DownInv
<1>11. {folder, id} \subseteq ShownIn(parent', nodes')
  <2> DEFINE S == Shown \cup {id}
  <2>1. nodes' \in SUBSET (0..MaxIds) /\ Root \in nodes' /\ S \in SUBSET nodes'
    BY <1>1, <1>2, <1>3
  <2>2. \A i \in S \ {Root} : parent'[i] \in S
    <3>1. \A i \in Shown : i # id
      BY <1>2, <1>3
    <3>2. QED
      BY <1>2, <1>3, <1>5, <3>1
  <2>3. S \subseteq ShownIn(parent', nodes')
    BY <1>5, <1>6, <2>1, <2>2, ClosedShown
  <2>4. QED
    BY <1>3, <2>3
<1>12. QED
  BY <1>0, <1>1, <1>7, <1>8, <1>9, <1>10, <1>11, Saved

LEMMA ReplaceKeeps ==
  ASSUME IInv, NEW id \in Ids, leafReplace(id), steps' \in 0..MaxSteps
  PROVE  IInv'
<1>0. MemoryInv /\ UpInv /\ CodeInv /\ DownInv /\ DiskIs(files, index) /\ CountInv
  BY DEF IInv
<1>1. /\ id \in Shown
      /\ nodes' = nodes /\ leafs' = leafs /\ parent' = parent /\ name' = name /\ encoded' = encoded
      /\ children' = children /\ mNextAvailableId' = mNextAvailableId /\ strays' = strays
      /\ save({id}, files, index)
  BY DEF leafReplace, memory
<1>2. MemoryInv'
  BY <1>0, <1>1 DEF MemoryInv
<1>3. UpInv'
  BY <1>0, <1>1 DEF UpInv
<1>4. CodeInv' /\ DownInv'
  BY <1>0, <1>1 DEF CodeInv, DownInv
<1>5. {id} \subseteq ShownIn(parent', nodes')
  BY <1>0, <1>1, NodesInBounds
<1>6. QED
  BY <1>0, <1>1, <1>2, <1>3, <1>4, <1>5, Saved

\* A node is given another code.
LEMMA RecodeKeeps ==
  ASSUME IInv, NEW id \in Shown \ {Root}, NEW n \in Names, NEW S, Root \notin S,
         nodes' = nodes, leafs' = leafs, parent' = parent, children' = children,
         mNextAvailableId' = mNextAvailableId,
         name' = name \/ name' = [name EXCEPT ![id] = n],
         encoded' = [encoded EXCEPT ![id] = n],
         strays' = strays \cup Straying(S, nodes, parent, encoded')
  PROVE  MemoryInv' /\ UpInv' /\ CodeInv' /\ DownInv'
<1>0. MemoryInv /\ UpInv /\ CodeInv /\ DownInv
  BY DEF IInv
<1>1. id \in Ids
  BY <1>0, NodesInBounds
<1>2. name' \in [Ids -> Names \cup {"none"}]
  <2>1. name \in [Ids -> Names \cup {"none"}]
    BY <1>0 DEF MemoryInv
  <2>2. QED
    BY <1>1, <2>1
<1>3. strays' \subseteq Ids
  <2>1. nodes \in SUBSET (0..MaxIds) /\ parent \in [Ids -> 0..MaxIds] /\ Rooted(parent)
    BY <1>0, NodesInBounds DEF UpInv
  <2>2. Straying(S, nodes, parent, encoded') \subseteq Ids
    BY <2>1, StrayingIs
  <2>3. QED
    BY <1>0, <2>2 DEF MemoryInv
<1>4. MemoryInv'
  <2>1. /\ nodes' \subseteq 0..(mNextAvailableId' - 1) /\ Root \in nodes'
        /\ leafs' \subseteq nodes' \ {Root} /\ mNextAvailableId' \in 1..(MaxIds + 1)
    BY <1>0 DEF MemoryInv
  <2>2. QED
    BY <1>2, <1>3, <2>1 DEF MemoryInv
<1>5. UpInv'
  BY <1>0 DEF UpInv
<1>6. CodeInv'
  <2>1. encoded \in [Ids -> Names \cup {"none"}] /\ \A i \in nodes \ {Root} : encoded[i] \in Names
    BY <1>0 DEF CodeInv
  <2>2. encoded' \in [Ids -> Names \cup {"none"}]
    BY <1>1, <2>1
  <2>3. ASSUME NEW i \in nodes' \ {Root} PROVE encoded'[i] \in Names
    <3>1. i \in Ids /\ encoded[i] \in Names
      BY <1>0, <2>1, NodesInBounds, NodesAre
    <3>2. QED
      BY <1>1, <2>1, <3>1
  <2>4. QED
    BY <2>2, <2>3 DEF CodeInv
<1>7. DownInv'
  BY <1>0 DEF DownInv
<1>8. QED
  BY <1>4, <1>5, <1>6, <1>7

LEMMA RenameKeeps ==
  ASSUME IInv, NEW id \in Ids, NEW n \in Names, rename(id, n), steps' \in 0..MaxSteps
  PROVE  IInv'
<1> DEFINE from == getNodePath(id)
           to == Append(Front(from), n)
<1>0. MemoryInv /\ UpInv /\ CodeInv /\ DownInv /\ DiskIs(files, index) /\ CountInv
  BY DEF IInv
<1>1. /\ id \in Shown \ {Root} /\ Renames(from, to)
      /\ name' = [name EXCEPT ![id] = n] /\ encoded' = [encoded EXCEPT ![id] = n]
      /\ strays' = strays \cup Straying({}, nodes, parent, encoded')
      /\ nodes' = nodes /\ leafs' = leafs /\ parent' = parent /\ children' = children
      /\ mNextAvailableId' = mNextAvailableId
      /\ save({id, parent[id]}, MovedFiles(from, to), MovedIndex(from, to))
  BY DEF rename, SetValue
<1>2. MemoryInv' /\ UpInv' /\ CodeInv' /\ DownInv'
  BY <1>1, RecodeKeeps
<1>3. from \in Seq(Names) /\ from # <<>> /\ to \in Seq(Names) /\ to # <<>>
  <2>1. from \in Seq(Names) /\ from # <<>>
    BY <1>0, <1>1, NodePath
  <2> HIDE DEF from
  <2>2. Front(from) \in Seq(Names)
    BY <2>1, FrontIs
  <2>3. QED
    BY <2>1, <2>2
<1> HIDE DEF from, to
<1>4. DiskIs(MovedFiles(from, to), MovedIndex(from, to))
  BY <1>0, <1>1, <1>3, RenamedDisk
<1>5. {id, parent[id]} \subseteq ShownIn(parent', nodes')
  BY <1>0, <1>1, NodesInBounds
<1>6. QED
  BY <1>0, <1>1, <1>2, <1>4, <1>5, Saved

LEMMA RenameFailsKeeps ==
  ASSUME IInv, NEW id \in Ids, NEW n \in Names, renameFails(id, n), steps' \in 0..MaxSteps
  PROVE  IInv'
<1>0. MemoryInv /\ UpInv /\ CodeInv /\ DownInv /\ DiskIs(files, index) /\ CountInv
  BY DEF IInv
<1>1. /\ id \in Shown \ {Root} /\ encoded' = [encoded EXCEPT ![id] = n]
      /\ strays' = strays \cup Straying({id}, nodes, parent, encoded')
      /\ nodes' = nodes /\ leafs' = leafs /\ parent' = parent /\ children' = children
      /\ mNextAvailableId' = mNextAvailableId /\ name' = name
      /\ unsaved' = unsaved /\ alive' = alive /\ files' = files /\ index' = index
      /\ Fault \/ faults' = faults
  BY DEF renameFails, SetValue, disk
<1>2. MemoryInv' /\ UpInv' /\ CodeInv' /\ DownInv'
  <2>1. Root \notin {id}
    BY <1>1
  <2>2. QED
    BY <1>1, <2>1, RecodeKeeps
<1>3. CountInv'
  <2>1. faults' \in 0..MaxFaults
    BY <1>0, <1>1, FsTreeAssumption DEF Fault, CountInv
  <2>2. QED
    BY <1>0, <1>1, <2>1 DEF CountInv
<1>4. DiskIs(files, index)'
  BY <1>0, <1>1 DEF DiskIs
<1>5. QED
  BY <1>2, <1>3, <1>4 DEF IInv

LEMMA RemoveKeeps ==
  ASSUME IInv, NEW id \in Ids, remove(id), steps' \in 0..MaxSteps
  PROVE  IInv'
<1> DEFINE gone == getNodePath(id)
           up == parent[id]
<1>0. MemoryInv /\ UpInv /\ CodeInv /\ DownInv /\ DiskIs(files, index) /\ CountInv
  BY DEF IInv
<1>1. /\ id \in Shown \ {Root}
      /\ files' = {p \in files : ~IsPrefix(gone, p)}
      /\ index' = [p \in {q \in DOMAIN index : ~IsPrefix(gone, q)} |-> index[p]]
      /\ nodes' = nodes \ {id} /\ leafs' = leafs \ {id} /\ unsaved' = unsaved \ {id}
      /\ children' = [Unlisted(id) EXCEPT ![id] = <<>>]
      /\ parent' = [parent EXCEPT ![id] = Root]
      /\ name' = [name EXCEPT ![id] = "none"]
      /\ encoded' = [encoded EXCEPT ![id] = "none"]
      /\ mNextAvailableId' = mNextAvailableId /\ alive' = alive /\ faults' = faults
      /\ strays' = strays
  BY DEF remove
<1>2. gone \in Seq(Names) /\ gone # <<>> /\ up \in Folders
  BY <1>0, <1>1, NodePath
<1> HIDE DEF gone
<1>3. DiskIs(files, index)'
  <2>1. DiskIs(files', index')
    BY <1>0, <1>1, <1>2, RemovedDisk
  <2>2. QED
    BY <2>1 DEF DiskIs
<1>4. CountInv'
  BY <1>0, <1>1 DEF CountInv
<1>5. /\ nodes \in SUBSET (0..MaxIds) /\ Root \in nodes /\ leafs \subseteq nodes \ {Root}
      /\ id \in nodes /\ id # Root /\ up \in nodes \ leafs /\ up \in 0..MaxIds /\ id \in 0..MaxIds
      /\ \A i \in nodes \ {Root} : i \in Ids
  BY <1>0, <1>1, <1>2, NodesInBounds, NodesAre DEF Folders
<1>6. /\ parent \in [Ids -> 0..MaxIds] /\ Rooted(parent)
      /\ \A i \in Ids : parent[i] < mNextAvailableId
      /\ \A i \in nodes \ {Root} : parent[i] \notin leafs
  BY <1>0 DEF UpInv
<1>7. /\ parent' \in [Ids -> 0..MaxIds] /\ parent'[id] = Root
      /\ \A i \in Ids : i # id => parent'[i] = parent[i]
  BY <1>1, <1>6, NodesAre
<1>8. MemoryInv'
  <2>1. /\ nodes' \subseteq 0..(mNextAvailableId' - 1) /\ mNextAvailableId' \in 1..(MaxIds + 1)
        /\ Root \in nodes' /\ leafs' \subseteq nodes' \ {Root} /\ strays' \subseteq Ids
    BY <1>0, <1>1 DEF MemoryInv
  <2>2. name' \in [Ids -> Names \cup {"none"}]
    BY <1>0, <1>1 DEF MemoryInv
  <2>3. QED
    BY <2>1, <2>2 DEF MemoryInv
<1>9. UpInv'
  <2>1. Rooted(parent')
    <3>1. SUFFICES ASSUME NEW S \in (SUBSET Ids) \ {{}} PROVE \E i \in S : parent'[i] \notin S
      BY DEF Rooted
    <3>2. PICK i \in S : parent[i] \notin S
      BY <1>6 DEF Rooted
    <3>3. QED
      BY <1>7, <3>2, NodesAre
  <2>2. \A i \in Ids : parent'[i] < mNextAvailableId'
    <3>1. Root < mNextAvailableId
      BY <1>0, NodesAre DEF MemoryInv
    <3>2. QED
      BY <1>1, <1>6, <1>7, <3>1
  <2>3. \A i \in nodes' \ {Root} : parent'[i] \notin leafs'
    BY <1>1, <1>5, <1>6, <1>7
  <2>4. QED
    BY <1>7, <2>1, <2>2, <2>3 DEF UpInv
<1>10. CodeInv'
  <2>1. encoded \in [Ids -> Names \cup {"none"}] /\ \A i \in nodes \ {Root} : encoded[i] \in Names
    BY <1>0 DEF CodeInv
  <2>2. encoded' \in [Ids -> Names \cup {"none"}]
    BY <1>1, <2>1
  <2>3. \A i \in nodes' \ {Root} : encoded'[i] \in Names
    BY <1>1, <1>5, <2>1
  <2>4. QED
    BY <2>2, <2>3 DEF CodeInv
<1>11. DownInv'
  <2>1. /\ children \in [0..MaxIds -> Seq(Ids)]
        /\ \A f \in 0..MaxIds :
             /\ Distinct(children[f])
             /\ ToSet(children[f]) = IF f \in nodes \ leafs THEN Below(parent, nodes, f) ELSE {}
    BY <1>0 DEF DownInv
  <2> DEFINE others == RemoveFirst(children[up], id)
  <2>2. /\ others \in Seq(Ids) /\ Distinct(others)
        /\ ToSet(others) = Below(parent, nodes, up) \ {id}
    <3>1. children[up] \in Seq(Ids) /\ Distinct(children[up])
          /\ ToSet(children[up]) = Below(parent, nodes, up)
      BY <1>5, <2>1
    <3>2. QED
      BY <3>1, RemoveFirstIs
  <2>3. Unlisted(id) = [children EXCEPT ![up] = others]
    BY DEF Unlisted
  <2> HIDE DEF others
  <2>4. up # id
    <3>1. {id} \in (SUBSET Ids) \ {{}}
      OBVIOUS
    <3>2. QED
      BY <1>6, <3>1 DEF Rooted
  <2>5. /\ children' \in [0..MaxIds -> Seq(Ids)] /\ children'[id] = <<>> /\ children'[up] = others
        /\ \A f \in 0..MaxIds : f # id /\ f # up => children'[f] = children[f]
    <3>1. Unlisted(id) \in [0..MaxIds -> Seq(Ids)] /\ <<>> \in Seq(Ids)
      BY <1>5, <2>1, <2>2, <2>3
    <3>2. /\ Unlisted(id)[up] = others
          /\ \A f \in 0..MaxIds : f # up => Unlisted(id)[f] = children[f]
      BY <1>5, <2>1, <2>3
    <3> HIDE DEF up
    <3>3. QED
      BY <1>1, <1>5, <2>4, <3>1, <3>2
  <2>6. \A f \in 0..MaxIds : Below(parent', nodes', f) = Below(parent, nodes, f) \ {id}
    BY <1>1, <1>5, <1>7 DEF Below
  <2>7. \A f \in 0..MaxIds : f # up => id \notin Below(parent, nodes, f)
    BY DEF Below
  <2>8. Distinct(<<>>) /\ ToSet(<<>>) = {}
    BY DEF Distinct, ToSet
  <2>9. ASSUME NEW f \in 0..MaxIds
        PROVE  /\ Distinct(children'[f])
               /\ ToSet(children'[f]) = IF f \in nodes' \ leafs' THEN Below(parent', nodes', f) ELSE {}
    <3>1. CASE f = id
      BY <1>1, <2>5, <2>8, <3>1
    <3>2. CASE f = up
      <4>1. f \in nodes' \ leafs'
        BY <1>1, <1>5, <2>4, <3>2
      <4>2. QED
        BY <2>2, <2>5, <2>6, <3>2, <4>1
    <3>3. CASE f # id /\ f # up
      <4>1. f \in nodes' \ leafs' <=> f \in nodes \ leafs
        BY <1>1, <3>3
      <4>2. Below(parent', nodes', f) = Below(parent, nodes, f)
        BY <2>6, <2>7, <3>3
      <4>3. QED
        BY <2>1, <2>5, <3>3, <4>1, <4>2
    <3>4. QED
      BY <3>1, <3>2, <3>3
  <2>10. QED
    BY <2>5, <2>9 DEF DownInv
<1>12. QED
  BY <1>3, <1>4, <1>8, <1>9, <1>10, <1>11 DEF IInv

LEMMA MoveUnderSameParentKeeps ==
  ASSUME IInv, NEW id \in Ids, NEW folder, NEW at \in 0..Len(children[folder]),
         moveUnderSameParent(id, folder, at), steps' \in 0..MaxSteps
  PROVE  IInv'
<1> DEFINE list == children[folder]
           others == RemoveFirst(list, id)
           behind == \E k \in 1..at : list[k] = id
           place == IF behind THEN at ELSE at + 1
<1>0. MemoryInv /\ UpInv /\ CodeInv /\ DownInv /\ DiskIs(files, index) /\ CountInv
  BY DEF IInv
<1>1. /\ id \in Shown \ {Root} /\ folder \in Folders /\ parent[id] = folder
      /\ children' = [children EXCEPT ![folder] = InsertAt(others, place, id)]
      /\ nodes' = nodes /\ leafs' = leafs /\ parent' = parent /\ name' = name /\ encoded' = encoded
      /\ mNextAvailableId' = mNextAvailableId /\ strays' = strays
      /\ save({id, folder}, files, index)
  BY Zenon DEF moveUnderSameParent, Movable
<1>2. /\ folder \in Shown /\ folder \in nodes \ leafs /\ folder \in 0..MaxIds /\ id \in nodes \ {Root}
  BY <1>0, <1>1, NodesInBounds DEF Folders
<1>3. /\ children \in [0..MaxIds -> Seq(Ids)]
      /\ \A f \in 0..MaxIds :
           /\ Distinct(children[f])
           /\ ToSet(children[f]) = IF f \in nodes \ leafs THEN Below(parent, nodes, f) ELSE {}
  BY <1>0 DEF DownInv
<1>4. list \in Seq(Ids) /\ Distinct(list) /\ id \in ToSet(list)
  BY <1>1, <1>2, <1>3 DEF Below
<1>5. /\ others \in Seq(Ids) /\ Distinct(others) /\ ToSet(others) = ToSet(list) \ {id}
      /\ Len(others) = Len(list) - 1
  BY <1>4, RemoveFirstIs
<1>6. place \in 1..(Len(others) + 1)
  <2>1. Len(list) \in Nat /\ DOMAIN list = 1..Len(list) /\ at \in 0..Len(list)
    BY <1>4
  <2>2. PICK k \in 1..Len(list) : list[k] = id
    BY <1>4, <2>1 DEF ToSet
  <2>3. CASE behind
    <3>1. at # 0
      BY <2>1, <2>3
    <3>2. QED
      BY <1>5, <2>1, <2>3, <3>1
  <2>4. CASE ~behind
    <3>1. at # Len(list)
      BY <2>1, <2>2, <2>4
    <3>2. QED
      BY <1>5, <2>1, <2>4, <3>1
  <2>5. QED
    BY <2>3, <2>4
<1> HIDE DEF others, place
<1>7. /\ InsertAt(others, place, id) \in Seq(Ids) /\ Distinct(InsertAt(others, place, id))
      /\ ToSet(InsertAt(others, place, id)) = ToSet(list)
  <2>1. /\ InsertAt(others, place, id) \in Seq(Ids) /\ Distinct(InsertAt(others, place, id))
        /\ ToSet(InsertAt(others, place, id)) = ToSet(others) \cup {id}
    BY <1>5, <1>6, InsertAtIs
  <2>2. QED
    BY <1>4, <1>5, <2>1
<1>8. DownInv'
  BY <1>1, <1>2, <1>3, <1>7 DEF DownInv
<1>9. MemoryInv'
  BY <1>0, <1>1 DEF MemoryInv
<1>10. UpInv'
  BY <1>0, <1>1 DEF UpInv
<1>11. CodeInv'
  BY <1>0, <1>1 DEF CodeInv
<1>12. {id, folder} \subseteq ShownIn(parent', nodes')
  BY <1>0, <1>1, <1>2, NodesInBounds
<1>13. QED
  BY <1>0, <1>1, <1>8, <1>9, <1>10, <1>11, <1>12, Saved

LEMMA MoveUnderNewParentKeeps ==
  ASSUME IInv, NEW id \in Ids, NEW folder, NEW at \in 0..Len(children[folder]),
         moveUnderNewParent(id, folder, at), steps' \in 0..MaxSteps
  PROVE  IInv'
<1> DEFINE from == getNodePath(id)
           to == Append(getNodePath(folder), encoded[id])
           up == parent[id]
           list == InsertAt(children[folder], at + 1, id)
           others == RemoveFirst(children[up], id)
<1>0. MemoryInv /\ UpInv /\ CodeInv /\ DownInv /\ DiskIs(files, index) /\ CountInv
  BY DEF IInv
<1>1. /\ id \in Shown \ {Root} /\ folder \in Folders /\ up # folder /\ id \notin Chain(folder)
      /\ Renames(from, to)
      /\ children' = [Unlisted(id) EXCEPT ![folder] = InsertAt(@, at + 1, id)]
      /\ parent' = [parent EXCEPT ![id] = folder]
      /\ strays' = strays \cup Straying({}, nodes, parent', encoded)
      /\ nodes' = nodes /\ leafs' = leafs /\ name' = name /\ encoded' = encoded
      /\ mNextAvailableId' = mNextAvailableId
      /\ save({up, id, folder}, MovedFiles(from, to), MovedIndex(from, to))
  BY Zenon DEF moveUnderNewParent, Movable
<1>2. /\ nodes \in SUBSET (0..MaxIds) /\ Root \in nodes /\ leafs \subseteq nodes \ {Root}
      /\ folder \in Shown /\ folder \in nodes \ leafs /\ folder \in 0..MaxIds
      /\ up \in Shown /\ up \in nodes \ leafs /\ up \in 0..MaxIds
      /\ id \in nodes \ {Root} /\ folder < mNextAvailableId
      /\ \A i \in nodes \ {Root} : i \in Ids
      /\ Shown \subseteq nodes /\ \A i \in Shown \ {Root} : i \in Ids /\ parent[i] \in Shown
  BY <1>0, <1>1, NodesInBounds, NodesAre DEF Folders
<1>3. /\ parent \in [Ids -> 0..MaxIds] /\ Rooted(parent)
      /\ \A i \in Ids : parent[i] < mNextAvailableId
      /\ \A i \in nodes \ {Root} : parent[i] \notin leafs
  BY <1>0 DEF UpInv
<1>4. /\ parent' \in [Ids -> 0..MaxIds] /\ parent'[id] = folder
      /\ \A i \in Ids : i # id => parent'[i] = parent[i]
  BY <1>1, <1>2, <1>3
<1>5. Rooted(parent')
  <2>1. /\ \A i \in Ids : Chain(i) = {i} \cup Chain(parent[i])
        /\ \A i \in 0..MaxIds : i \in Chain(i)
    BY <1>3, ChainIs DEF Chain
  <2>2. SUFFICES ASSUME NEW S \in (SUBSET Ids) \ {{}} PROVE \E i \in S : parent'[i] \notin S
    BY DEF Rooted
  <2> DEFINE T == {j \in S : id \notin Chain(j)}
  <2>3. CASE T # {}
    <3>1. T \in (SUBSET Ids) \ {{}}
      BY <2>3
    <3>2. PICK i \in T : parent[i] \notin T
      BY <1>3, <3>1 DEF Rooted
    <3>3. i \in Ids /\ id \notin Chain(parent[i]) /\ i # id
      BY <2>1, <3>2, NodesAre
    <3>4. QED
      BY <1>4, <3>2, <3>3
  <2>4. CASE T = {}
    <3>1. folder \notin S
      BY <1>1, <2>4
    <3>2. CASE id \in S
      BY <1>4, <3>1, <3>2
    <3>3. CASE id \notin S
      <4>1. PICK i \in S : parent[i] \notin S
        BY <1>3 DEF Rooted
      <4>2. QED
        BY <1>4, <3>3, <4>1
    <3>4. QED
      BY <3>2, <3>3
  <2>5. QED
    BY <2>3, <2>4
<1>6. MemoryInv'
  <2>1. Straying({}, nodes, parent', encoded) \subseteq Ids
    BY <1>2, <1>4, <1>5, StrayingIs
  <2>2. strays' \subseteq Ids
    BY <1>0, <1>1, <2>1 DEF MemoryInv
  <2>3. QED
    BY <1>0, <1>1, <2>2 DEF MemoryInv
<1>7. UpInv'
  <2>1. \A i \in Ids : parent'[i] < mNextAvailableId'
    BY <1>1, <1>2, <1>3, <1>4
  <2>2. \A i \in nodes' \ {Root} : parent'[i] \notin leafs'
    BY <1>1, <1>2, <1>3, <1>4
  <2>3. QED
    BY <1>4, <1>5, <2>1, <2>2 DEF UpInv
<1>8. CodeInv'
  BY <1>0, <1>1 DEF CodeInv
<1>9. /\ children \in [0..MaxIds -> Seq(Ids)]
      /\ \A f \in 0..MaxIds :
           /\ Distinct(children[f])
           /\ ToSet(children[f]) = IF f \in nodes \ leafs THEN Below(parent, nodes, f) ELSE {}
  BY <1>0 DEF DownInv
<1>10. /\ others \in Seq(Ids) /\ Distinct(others)
       /\ ToSet(others) = Below(parent, nodes, up) \ {id}
  <2>1. children[up] \in Seq(Ids) /\ Distinct(children[up])
        /\ ToSet(children[up]) = Below(parent, nodes, up)
    BY <1>2, <1>9
  <2>2. QED
    BY <2>1, RemoveFirstIs
<1>11. /\ list \in Seq(Ids) /\ Distinct(list)
       /\ ToSet(list) = Below(parent, nodes, folder) \cup {id}
  <2> DEFINE was == children[folder]
  <2>1. was \in Seq(Ids) /\ Distinct(was) /\ ToSet(was) = Below(parent, nodes, folder)
    BY <1>2, <1>9
  <2>2. id \notin ToSet(was)
    BY <1>1, <2>1 DEF Below
  <2>3. at + 1 \in 1..(Len(was) + 1)
    BY <2>1
  <2> HIDE DEF was
  <2>4. /\ InsertAt(was, at + 1, id) \in Seq(Ids) /\ Distinct(InsertAt(was, at + 1, id))
        /\ ToSet(InsertAt(was, at + 1, id)) = ToSet(was) \cup {id}
    BY <2>1, <2>2, <2>3, InsertAtIs
  <2>5. QED
    BY <2>1, <2>4 DEF was
<1>12. DownInv'
  <2>1. Unlisted(id) = [children EXCEPT ![up] = others]
    BY DEF Unlisted
  <2>2. /\ Unlisted(id) \in [0..MaxIds -> Seq(Ids)] /\ Unlisted(id)[up] = others
        /\ \A f \in 0..MaxIds : f # up => Unlisted(id)[f] = children[f]
    <3> HIDE DEF others
    <3>1. QED
      BY <1>2, <1>9, <1>10, <2>1
  <2>3. children' = [Unlisted(id) EXCEPT ![folder] = list]
    BY <1>1, <1>2, <2>2
  <2> HIDE DEF list, others, up
  <2>4. /\ children' \in [0..MaxIds -> Seq(Ids)] /\ children'[folder] = list /\ children'[up] = others
        /\ \A f \in 0..MaxIds : f # folder /\ f # up => children'[f] = children[f]
    BY <1>1, <1>2, <1>11, <2>2, <2>3
  <2>5. Below(parent', nodes', folder) = Below(parent, nodes, folder) \cup {id}
    BY <1>1, <1>2, <1>4 DEF Below
  <2>6. Below(parent', nodes', up) = Below(parent, nodes, up) \ {id}
    BY <1>1, <1>2, <1>4 DEF Below
  <2>7. \A f \in 0..MaxIds : f # folder /\ f # up => Below(parent', nodes', f) = Below(parent, nodes, f)
    BY <1>1, <1>2, <1>4 DEF Below, up
  <2>8. ASSUME NEW f \in 0..MaxIds
        PROVE  /\ Distinct(children'[f])
               /\ ToSet(children'[f]) = IF f \in nodes' \ leafs' THEN Below(parent', nodes', f) ELSE {}
    <3>1. CASE f = folder
      BY <1>1, <1>2, <1>11, <2>4, <2>5, <3>1
    <3>2. CASE f = up
      BY <1>1, <1>2, <1>10, <2>4, <2>6, <3>2
    <3>3. CASE f # folder /\ f # up
      BY <1>1, <1>9, <2>4, <2>7, <3>3
    <3>4. QED
      BY <3>1, <3>2, <3>3
  <2>9. QED
    BY <2>4, <2>8 DEF DownInv
<1>13. from \in Seq(Names) /\ from # <<>> /\ to \in Seq(Names) /\ to # <<>>
  <2>1. from \in Seq(Names) /\ from # <<>>
    BY <1>0, <1>1, NodePath
  <2>2. getNodePath(folder) \in Seq(Names)
    BY <1>0, <1>2, FolderPath
  <2>3. encoded[id] \in Names
    BY <1>0, <1>2 DEF CodeInv
  <2> HIDE DEF from
  <2>4. QED
    BY <2>1, <2>2, <2>3
<1>14. DiskIs(MovedFiles(from, to), MovedIndex(from, to))
  <2> HIDE DEF from, to
  <2>1. QED
    BY <1>0, <1>1, <1>13, RenamedDisk
<1>15. {up, id, folder} \subseteq ShownIn(parent', nodes')
  <2>1. \A i \in Shown \ {Root} : parent'[i] \in Shown
    BY <1>2, <1>4
  <2>2. nodes' \in SUBSET (0..MaxIds) /\ Root \in nodes' /\ Shown \in SUBSET nodes'
    BY <1>1, <1>2
  <2>3. Shown \subseteq ShownIn(parent', nodes')
    BY <1>4, <1>5, <2>1, <2>2, ClosedShown
  <2>4. QED
    BY <1>1, <1>2, <2>3
<1> HIDE DEF from, to, up
<1>16. QED
  BY <1>0, <1>1, <1>6, <1>7, <1>8, <1>12, <1>14, <1>15, Saved

LEMMA DropKeeps ==
  ASSUME IInv, NEW id \in Ids, onMessagesDrop(id), steps' \in 0..MaxSteps
  PROVE  IInv'
<1>1. ASSUME NEW folder, NEW at, at \in 0..Len(children[folder]), moveInsideAtIndex(id, folder, at)
      PROVE  IInv'
  <2>1. CASE moveUnderSameParent(id, folder, at)
    BY <1>1, <2>1, MoveUnderSameParentKeeps
  <2>2. CASE moveUnderNewParent(id, folder, at)
    BY <1>1, <2>2, MoveUnderNewParentKeeps
  <2>3. QED
    BY <1>1, <2>1, <2>2 DEF moveInsideAtIndex
<1>2. /\ children \in [0..MaxIds -> Seq(Ids)]
      /\ \A f \in nodes \ leafs : f \in 0..MaxIds => ToSet(children[f]) = Below(parent, nodes, f)
      /\ MemoryInv /\ UpInv
  BY DEF IInv, DownInv
<1>3. ASSUME NEW s \in Shown \ {Root}
      PROVE  LET list == children[parent[s]]
             IN  Place(s) \in 0..Len(list) /\ Place(s) + 1 \in 0..Len(list)
  <2> DEFINE list == children[parent[s]]
  <2>1. s \in nodes \ {Root} /\ parent[s] \in nodes \ leafs /\ parent[s] \in 0..MaxIds
    BY <1>2, NodesInBounds DEF Folders
  <2>2. list \in Seq(Ids) /\ ToSet(list) = Below(parent, nodes, parent[s])
    BY <1>2, <2>1
  <2>3. s \in ToSet(list) /\ Len(list) \in Nat /\ DOMAIN list = 1..Len(list)
    BY <2>1, <2>2 DEF Below
  <2>4. \E k \in 1..Len(list) : list[k] = s
    BY <2>3 DEF ToSet
  <2> DEFINE k == CHOOSE k \in 1..Len(list) : list[k] = s
  <2>5. k \in 1..Len(list) /\ Place(s) = k - 1
    BY <2>4 DEF Place
  <2> HIDE DEF k
  <2>6. QED
    BY <2>3, <2>5
<1>4. ASSUME NEW folder \in Folders, moveInsideAtIndex(id, folder, 0) PROVE IInv'
  <2>1. folder \in 0..MaxIds
    BY <1>2, NodesInBounds DEF Folders
  <2>2. 0 \in 0..Len(children[folder])
    BY <1>2, <2>1
  <2>3. QED
    BY <1>1, <1>4, <2>2
<1>5. ASSUME NEW leaf \in Shown \cap leafs, moveAfter(id, leaf) PROVE IInv'
  <2>1. leaf \in Shown \ {Root}
    BY <1>2, NodesInBounds
  <2>2. QED
    BY <1>1, <1>3, <1>5, <2>1 DEF moveAfter
<1>6. ASSUME NEW sibling \in Shown \ {Root}, moveBefore(id, sibling) PROVE IInv'
  BY <1>1, <1>3, <1>6 DEF moveBefore
<1>7. ASSUME moveInsideAtIndex(id, Root, Len(children[Root])) PROVE IInv'
  <2>1. Len(children[Root]) \in 0..Len(children[Root])
    BY <1>2, NodesAre
  <2>2. QED
    BY <1>1, <1>7, <2>1
<1>8. QED
  BY <1>4, <1>5, <1>6, <1>7 DEF onMessagesDrop

-------------------------------------------------------------------------------
(* Starting on a directory *)

LEMMA CountTo ==
  ASSUME NEW n \in Nat
  PROVE  IsFiniteSet(1..n) /\ Cardinality(1..n) = n
<1>1. 1 \in Int /\ n \in Int
  OBVIOUS
<1>2. Cardinality(1..n) = IF 1 > n THEN 0 ELSE n - 1 + 1
  BY <1>1, FS_Interval
<1>3. QED
  BY <1>1, <1>2, FS_Interval

LEMMA EntriesAre ==
  ASSUME DiskIs(files, index)
  PROVE  /\ IsFiniteSet(Entries) /\ Cardinality(Entries) \in Nat
         /\ \A p \in Entries :
              /\ p \in files \cup DOMAIN index /\ p \in Seq(Names) /\ p # <<>>
              /\ Len(p) \in Nat \ {0} /\ Front(p) \in DOMAIN index
              /\ Len(p) > 1 => Front(p) \in Entries /\ Len(Front(p)) < Len(p)
              /\ ~(Len(p) > 1) => Front(p) = <<>>
              /\ Real(p) \in Names
<1>0. /\ files \subseteq Seq(Names) /\ IsFiniteSet(files) /\ DOMAIN index \subseteq Seq(Names)
      /\ IsFiniteSet(DOMAIN index) /\ <<>> \in DOMAIN index /\ files \cap DOMAIN index = {}
      /\ \A p \in files \cup DOMAIN index : p # <<>> => Front(p) \in DOMAIN index
  BY DEF DiskIs
<1>1. IsFiniteSet(Entries)
  <2>1. IsFiniteSet(files \cup DOMAIN index)
    BY <1>0, FS_Union
  <2>2. Entries \subseteq files \cup DOMAIN index
    BY DEF Entries
  <2>3. QED
    BY <2>1, <2>2, FS_Subset
<1>2. SUFFICES ASSUME NEW p \in Entries
               PROVE  /\ p \in files \cup DOMAIN index /\ p \in Seq(Names) /\ p # <<>>
                      /\ Len(p) \in Nat \ {0} /\ Front(p) \in DOMAIN index
                      /\ Len(p) > 1 => Front(p) \in Entries /\ Len(Front(p)) < Len(p)
                      /\ ~(Len(p) > 1) => Front(p) = <<>>
                      /\ Real(p) \in Names
  BY <1>1, FS_CardinalityType
<1>3. /\ p \in files \cup DOMAIN index /\ p \in Seq(Names) /\ p # <<>>
      /\ \A k \in 1..Len(p) : Stem[p[k]] # ".index"
  BY <1>0 DEF Entries
<1>4. /\ Front(p) \in Seq(Names) /\ Len(p) \in Nat \ {0} /\ Len(Front(p)) = Len(p) - 1
      /\ \A i \in 1..(Len(p) - 1) : Front(p)[i] = p[i]
      /\ Last(p) \in Names
  BY <1>3, FrontIs
<1>5. Front(p) \in DOMAIN index
  BY <1>0, <1>3
<1>6. ASSUME Len(p) > 1 PROVE Front(p) \in Entries
  <2>1. Front(p) # <<>>
    BY <1>4, <1>6
  <2>2. \A k \in 1..Len(Front(p)) : Stem[Front(p)[k]] # ".index"
    BY <1>3, <1>4
  <2>3. QED
    BY <1>5, <2>1, <2>2 DEF Entries
<1>7. ASSUME ~(Len(p) > 1) PROVE Front(p) = <<>>
  <2>1. Len(Front(p)) = 0
    BY <1>4, <1>7
  <2>2. QED
    BY <1>4, <2>1
<1>8. Real(p) \in Names
  <2>1. Last(p) = p[Len(p)] /\ Len(p) \in 1..Len(p)
    BY <1>4 DEF Last
  <2>2. Stem[Last(p)] # ".index" /\ Stem[Last(p)] \in Names \cup {".index"}
    BY <1>3, <1>4, <2>1, FsTreeAssumption
  <2>3. QED
    BY <1>4, <2>2 DEF Real
<1>9. QED
  BY <1>3, <1>4, <1>5, <1>6, <1>7, <1>8

\* The first so many entries, parents first.
Begins(entry, n) ==
  /\ entry \in [1..n -> Entries]
  /\ \A i \in 1..n :
       /\ \A j \in 1..(i - 1) : entry[j] # entry[i]
       /\ Len(entry[i]) > 1 => \E j \in 1..(i - 1) : entry[j] = Front(entry[i])

LEMMA BeginsApart ==
  ASSUME NEW entry, NEW n \in Nat, Begins(entry, n), NEW i \in 1..n, NEW j \in 1..n,
         entry[i] = entry[j]
  PROVE  i = j
<1>1. CASE i < j
  BY <1>1 DEF Begins
<1>2. CASE j < i
  BY <1>2 DEF Begins
<1>3. QED
  BY <1>1, <1>2

LEMMA ListedIs ==
  ASSUME DiskIs(files, index)
  PROVE  Begins(Listed, Cardinality(Entries))
<1> DEFINE n == Cardinality(Entries)
           S == {k \in 0..n : ~\E entry : Begins(entry, k)}
<1>0. n \in Nat /\ IsFiniteSet(Entries)
  BY EntriesAre
<1> HIDE DEF n
<1>1. S = {}
  <2>1. SUFFICES ASSUME S # {} PROVE FALSE
    OBVIOUS
  <2>a. S \subseteq Nat
    BY <1>0
  <2>2. PICK k \in S : \A j \in S : k <= j
    <3> HIDE DEF S
    <3>1. QED
      BY <2>1, <2>a, LeastOf
  <2>3. k # 0
    <3>1. Begins([i \in 1..0 |-> <<>>], 0)
      BY DEF Begins
    <3>2. QED
      BY <2>2, <3>1
  <2>4. k \in 1..n /\ k - 1 \in 0..n /\ k - 1 \notin S
    BY <1>0, <2>2, <2>3
  <2>5. PICK e : Begins(e, k - 1)
    BY <2>4
  <2>6. e \in [1..(k - 1) -> Entries]
    BY <2>5 DEF Begins
  <2>7. \E p \in Entries : \A i \in 1..(k - 1) : e[i] # p
    <3>1. SUFFICES ASSUME \A p \in Entries : \E i \in 1..(k - 1) : e[i] = p PROVE FALSE
      OBVIOUS
    <3>2. k - 1 \in Nat
      BY <1>0, <2>4
    <3>3. IsFiniteSet(1..(k - 1)) /\ Cardinality(1..(k - 1)) = k - 1
      BY <3>2, CountTo
    <3>4. e \in Surjection(1..(k - 1), Entries)
      BY <2>6, <3>1 DEF Surjection
    <3>5. n <= k - 1
      BY <3>3, <3>4, FS_Surjection DEF n
    <3>6. QED
      BY <1>0, <2>4, <3>5
  <2> DEFINE U == {p \in Entries : \A i \in 1..(k - 1) : e[i] # p}
             lens == {Len(p) : p \in U}
  <2>8. lens # {} /\ lens \subseteq Nat
    BY <2>7, EntriesAre
  <2>9. PICK p \in U : \A q \in U : Len(p) <= Len(q)
    <3>1. PICK l \in lens : \A m \in lens : l <= m
      BY <2>8, LeastOf
    <3>2. QED
      BY <3>1
  <2> DEFINE f == [i \in 1..k |-> IF i = k THEN p ELSE e[i]]
  <2>10. /\ k \in Nat /\ f \in [1..k -> Entries] /\ f[k] = p
         /\ \A i \in 1..(k - 1) : i \in 1..k /\ f[i] = e[i] /\ i # k
    BY <1>0, <2>4, <2>6, <2>9
  <2>11. Len(p) > 1 => \E j \in 1..(k - 1) : e[j] = Front(p)
    <3>1. SUFFICES ASSUME Len(p) > 1 PROVE Front(p) \notin U
      BY EntriesAre
    <3>2. Len(Front(p)) < Len(p) /\ Len(p) \in Nat /\ Front(p) \in Entries
      BY <3>1, EntriesAre
    <3>3. Len(Front(p)) \in Nat
      BY <3>2, EntriesAre
    <3>4. QED
      BY <2>9, <3>2, <3>3
  <2> HIDE DEF f
  <2>12. Begins(f, k)
    <3>1. SUFFICES ASSUME NEW i \in 1..k
                   PROVE  /\ \A j \in 1..(i - 1) : f[j] # f[i]
                          /\ Len(f[i]) > 1 => \E j \in 1..(i - 1) : f[j] = Front(f[i])
      BY <2>10 DEF Begins
    <3>2. CASE i = k
      BY <2>9, <2>10, <2>11, <3>2
    <3>3. CASE i # k
      <4>1. i \in 1..(k - 1) /\ \A j \in 1..(i - 1) : j \in 1..(k - 1)
        BY <2>10, <3>3
      <4>2. QED
        BY <2>5, <2>10, <4>1 DEF Begins
    <3>4. QED
      BY <3>2, <3>3
  <2>13. QED
    BY <2>2, <2>12
<1>2. PICK e : Begins(e, n)
  BY <1>0, <1>1
<1> DEFINE W == {e2 \in [1..n -> Entries] : Begins(e2, n)}
<1>3. Listed = CHOOSE entry \in [1..n -> Entries] :
                 \A i \in 1..n :
                   /\ \A j \in 1..(i - 1) : entry[j] # entry[i]
                   /\ Len(entry[i]) > 1 => \E j \in 1..(i - 1) : entry[j] = Front(entry[i])
  BY Zenon DEF Listed, n
<1>4. \E entry \in [1..n -> Entries] :
         \A i \in 1..n :
           /\ \A j \in 1..(i - 1) : entry[j] # entry[i]
           /\ Len(entry[i]) > 1 => \E j \in 1..(i - 1) : entry[j] = Front(entry[i])
  BY <1>2, Zenon DEF Begins
<1>5. Begins(Listed, n)
  BY <1>3, <1>4, Zenon DEF Begins
<1>6. QED
  BY <1>5 DEF n

LEMMA RankIs ==
  ASSUME NEW order \in Seq(Names), NEW n
  PROVE  Rank(order, n) \in Nat /\ (n \in ToSet(order) => order[Rank(order, n)] = n)
<1>1. Len(order) \in Nat /\ DOMAIN order = 1..Len(order)
  OBVIOUS
<1>2. CASE n \in ToSet(order)
  <2> DEFINE S == {k \in 1..Len(order) : order[k] = n}
             First(k) == order[k] = n /\ \A j \in 1..(k - 1) : order[j] # n
  <2>1. S # {} /\ S \subseteq Nat
    BY <1>1, <1>2 DEF ToSet
  <2>2. PICK k \in S : \A j \in S : k <= j
    BY <2>1, LeastOf
  <2>3. k \in 1..Len(order) /\ First(k)
    BY <1>1, <2>2
  <2>4. Rank(order, n) = CHOOSE m \in 1..Len(order) : First(m)
    BY <1>2 DEF Rank
  <2> HIDE DEF First
  <2>5. Rank(order, n) \in 1..Len(order) /\ First(Rank(order, n))
    BY <2>3, <2>4
  <2>6. QED
    BY <1>1, <2>5 DEF First
<1>3. CASE n \notin ToSet(order)
  BY <1>1, <1>3 DEF Rank
<1>4. QED
  BY <1>2, <1>3

\* There is one order by rank, and then by place.
Comes(rank, i, j) == rank[i] < rank[j] \/ (rank[i] = rank[j] /\ i < j)
Sorts(list, rank, S) ==
  /\ list \in [1..Cardinality(S) -> S]
  /\ \A j, k \in DOMAIN list : j < k => Comes(rank, list[j], list[k])

LEMMA SortedList ==
  ASSUME NEW n \in Nat, NEW rank \in [1..n -> Nat], NEW S \in SUBSET (1..n)
  PROVE  \E list : Sorts(list, rank, S)
<1> DEFINE Bad == {m \in 0..n : \E R \in SUBSET (1..n) : Cardinality(R) = m /\ ~\E list : Sorts(list, rank, R)}
<1>1. \A R \in SUBSET (1..n) : IsFiniteSet(R) /\ Cardinality(R) \in 0..n
  <2>1. IsFiniteSet(1..n) /\ Cardinality(1..n) = n
    BY CountTo
  <2>2. SUFFICES ASSUME NEW R \in SUBSET (1..n)
                 PROVE  IsFiniteSet(R) /\ Cardinality(R) \in 0..n
    OBVIOUS
  <2> DEFINE N == 1..n
  <2>a. IsFiniteSet(N) /\ R \in SUBSET N
    BY <2>1
  <2> HIDE DEF N
  <2>b. IsFiniteSet(R) /\ Cardinality(R) <= Cardinality(N)
    BY <2>a, FS_Subset
  <2>3. IsFiniteSet(R) /\ Cardinality(R) <= n
    BY <2>1, <2>b DEF N
  <2>4. Cardinality(R) \in Nat
    BY <2>3, FS_CardinalityType
  <2>5. QED
    BY <2>3, <2>4
<1>2. SUFFICES ASSUME Bad # {} PROVE FALSE
  BY <1>1
<1>3. PICK m \in Bad : \A k \in Bad : m <= k
  <2>1. Bad \subseteq Nat
    OBVIOUS
  <2> HIDE DEF Bad
  <2>2. QED
    BY <1>2, <2>1, LeastOf
<1>4. PICK R \in SUBSET (1..n) : Cardinality(R) = m /\ ~\E list : Sorts(list, rank, R)
  BY <1>3
<1>5. R # {}
  <2>1. Sorts([i \in 1..0 |-> 0], rank, {})
    BY FS_EmptySet DEF Sorts
  <2>2. QED
    BY <1>4, <2>1
<1>6. PICK x \in R : \A y \in R \ {x} : Comes(rank, x, y)
  <2> DEFINE ranks == {rank[y] : y \in R}
  <2>1. ranks # {} /\ ranks \subseteq Nat
    BY <1>5
  <2>2. PICK r \in ranks : \A q \in ranks : r <= q
    BY <2>1, LeastOf
  <2> DEFINE Q == {y \in R : rank[y] = r}
  <2>3. Q # {} /\ Q \subseteq Nat
    <3>1. \E y \in R : rank[y] = r
      BY <2>2
    <3>2. R \subseteq Nat
      OBVIOUS
    <3>3. QED
      BY <3>1, <3>2
  <2>4. PICK x \in Q : \A y \in Q : x <= y
    <3> HIDE DEF Q
    <3>1. QED
      BY <2>3, LeastOf
  <2>5. ASSUME NEW y \in R \ {x} PROVE Comes(rank, x, y)
    <3>1. rank[x] \in Nat /\ rank[y] \in Nat /\ rank[x] <= rank[y] /\ x \in Nat /\ y \in Nat
      BY <2>2, <2>4
    <3>2. rank[x] = rank[y] => x <= y
      BY <2>4
    <3>3. QED
      BY <3>1, <3>2, <2>5 DEF Comes
  <2>6. QED
    BY <2>4, <2>5
<1>7. m \in Nat \ {0} /\ Cardinality(R \ {x}) = m - 1
  <2>1. Cardinality(R \ {x}) = Cardinality(R) - 1
    BY <1>1, FS_RemoveElement
  <2>2. m # 0
    BY <1>1, <1>4, <1>5, FS_EmptySet
  <2>3. QED
    BY <1>3, <1>4, <2>1, <2>2
<1>8. PICK l : Sorts(l, rank, R \ {x})
  <2>1. m - 1 \in 0..n /\ m - 1 \notin Bad
    BY <1>3, <1>7
  <2>2. R \ {x} \in SUBSET (1..n)
    OBVIOUS
  <2>3. QED
    BY <1>7, <2>1, <2>2
<1>9. l \in [1..(m - 1) -> R \ {x}] /\ \A j, k \in 1..(m - 1) : j < k => Comes(rank, l[j], l[k])
  BY <1>7, <1>8 DEF Sorts
<1> DEFINE list == [k \in 1..m |-> IF k = 1 THEN x ELSE l[k - 1]]
<1>10. /\ list \in [1..m -> R]
       /\ \A k \in 1..m : k # 1 => k - 1 \in 1..(m - 1) /\ list[k] = l[k - 1]
       /\ list[1] = x
  <2>1. \A k \in 1..m : k # 1 => k - 1 \in 1..(m - 1)
    BY <1>7
  <2>2. QED
    BY <1>7, <1>9, <2>1
<1> HIDE DEF list
<1>11. ASSUME NEW j \in 1..m, NEW k \in 1..m, j < k PROVE Comes(rank, list[j], list[k])
  <2>1. k # 1 /\ k - 1 \in 1..(m - 1) /\ list[k] = l[k - 1] /\ l[k - 1] \in R \ {x}
    BY <1>9, <1>10, <1>11
  <2>2. CASE j = 1
    BY <1>6, <1>10, <2>1, <2>2
  <2>3. CASE j # 1
    BY <1>9, <1>10, <1>11, <2>1, <2>3
  <2>4. QED
    BY <2>2, <2>3
<1>12. DOMAIN list = 1..m
  BY <1>10
<1>13. Sorts(list, rank, R)
  BY <1>4, <1>10, <1>11, <1>12 DEF Sorts
<1>14. QED
  BY <1>4, <1>13

\* A sorted list has everything once.
LEMMA SortedIs ==
  ASSUME NEW n \in Nat, NEW rank \in [1..n -> Nat], NEW S \in SUBSET (1..n),
         NEW list, Sorts(list, rank, S)
  PROVE  list \in Seq(S) /\ Distinct(list) /\ ToSet(list) = S
<1> DEFINE m == Cardinality(S)
<1>1. IsFiniteSet(S) /\ m \in Nat
  <2>1. IsFiniteSet(1..n)
    BY CountTo
  <2>2. QED
    BY <2>1, FS_Subset, FS_CardinalityType
<1>2. list \in [1..m -> S] /\ \A j, k \in 1..m : j < k => Comes(rank, list[j], list[k])
  BY DEF Sorts
<1>3. IsFiniteSet(1..m) /\ Cardinality(1..m) = m
  BY <1>1, CountTo
<1>4. ASSUME NEW j \in 1..m, NEW k \in 1..m, list[j] = list[k] PROVE j = k
  <2>1. list[j] \in 1..n /\ rank[list[j]] \in Nat
    BY <1>2
  <2>2. ~Comes(rank, list[j], list[j])
    BY <2>1 DEF Comes
  <2>3. ~(j < k) /\ ~(k < j)
    BY <1>2, <1>4, <2>2
  <2>4. j \in Nat /\ k \in Nat
    OBVIOUS
  <2>5. QED
    BY <2>3, <2>4
<1>5. list \in Injection(1..m, S)
  BY <1>2, <1>4 DEF Injection, IsInjective
<1>6. list \in Surjection(1..m, S)
  BY <1>1, <1>3, <1>5, FS_Injection
<1> HIDE DEF m
<1>7. list \in Seq(S) /\ Len(list) = m /\ DOMAIN list = 1..m
  BY <1>1, <1>2
<1>8. ToSet(list) = S
  BY <1>2, <1>6, <1>7 DEF ToSet, Surjection
<1>9. QED
  BY <1>4, <1>7, <1>8 DEF Distinct

\* What load() does, over the entries in the order they are listed.
Count == Cardinality(Entries)
At(i) == IF i = Root THEN <<>> ELSE Listed[i]
Ranks == [i \in 1..Count |-> Rank(index[Front(Listed[i])], Real(Listed[i]))]
Under(par, f) == {i \in 1..Count : par[i] = f}

LEMMA LoadIs ==
  ASSUME DiskIs(files, index), load
  PROVE  /\ Count \in Nat /\ Count <= MaxIds /\ mNextAvailableId' = Count + 1
         /\ unsaved' = {} /\ alive' = TRUE /\ files' = files /\ faults' = faults
         /\ nodes' = 0..Count /\ leafs' = {i \in 1..Count : Listed[i] \in files}
         /\ name' = [i \in Ids |-> IF i <= Count THEN Real(Listed[i]) ELSE "none"]
         /\ encoded' = name'
         /\ \A i \in 1..Count : Listed[i] \in Entries
         /\ DOMAIN parent' = Ids /\ parent' = [i \in Ids |-> parent'[i]]
         /\ \A i \in 1..Count : parent'[i] \in 0..(i - 1) /\ At(parent'[i]) = Front(Listed[i])
         /\ \A i \in Ids : i \notin 1..Count => parent'[i] = Root
         /\ Ranks \in [1..Count -> Nat]
         /\ DOMAIN children' = 0..MaxIds /\ children' = [f \in 0..MaxIds |-> children'[f]]
         /\ \A f \in 0..MaxIds : Sorts(children'[f], Ranks, Under(parent', f))
         /\ index' = [p \in DOMAIN index |->
              IF index[p] = <<>> /\ \E f \in 0..Count : At(f) = p
              THEN indexFileWrite(CHOOSE f \in 0..Count : At(f) = p)
              ELSE index[p]]
         /\ strays' = Straying({i \in 1..Count : Real(Listed[i]) # Last(Listed[i]) \/
                                  Real(Listed[i]) \notin ToSet(index'[Front(Listed[i])])},
                               nodes', parent', encoded')
<1> DEFINE n == Cardinality(Entries)
           entry == Listed
           directory == [i \in 0..n |-> IF i = Root THEN <<>> ELSE entry[i]]
           up(i) == CHOOSE f \in 0..n : directory[f] = Front(entry[i])
           rank == [i \in 1..n |-> Rank(index[Front(entry[i])], Real(entry[i]))]
           under(f) == {i \in 1..n : parent'[i] = f}
           sorted(f) == CHOOSE list \in [1..Cardinality(under(f)) -> under(f)] :
                          \A j, k \in DOMAIN list : j < k => Comes(rank, list[j], list[k])
           written(p) == LET f == CHOOSE f \in 0..n : directory[f] = p IN
                           [k \in 1..Len(children'[f]) |-> name'[children'[f][k]]]
           whole == {i \in 1..n : Real(entry[i]) # Last(entry[i]) \/
                                   Real(entry[i]) \notin ToSet(index'[Front(entry[i])])}
<1>1. /\ n <= MaxIds /\ mNextAvailableId' = n + 1 /\ unsaved' = {} /\ alive' = TRUE
      /\ files' = files /\ faults' = faults
      /\ nodes' = 0..n /\ leafs' = {i \in 1..n : entry[i] \in files}
      /\ parent' = [i \in Ids |-> IF i <= n THEN up(i) ELSE Root]
      /\ name' = [i \in Ids |-> IF i <= n THEN Real(entry[i]) ELSE "none"]
      /\ encoded' = name'
      /\ children' = [f \in 0..MaxIds |-> sorted(f)]
      /\ index' = [p \in DOMAIN index |->
           IF index[p] = <<>> /\ \E f \in 0..n : directory[f] = p THEN written(p) ELSE index[p]]
      /\ strays' = Straying(whole, nodes', parent', encoded')
  BY Zenon DEF load, Comes
<1>2. /\ n \in Nat
      /\ \A p \in Entries :
           /\ p \in Seq(Names) /\ p # <<>> /\ Len(p) \in Nat \ {0} /\ Front(p) \in DOMAIN index
           /\ Len(p) > 1 => Front(p) \in Entries /\ Len(Front(p)) < Len(p)
           /\ ~(Len(p) > 1) => Front(p) = <<>>
           /\ Real(p) \in Names
  BY EntriesAre
<1>3. Begins(entry, n)
  BY ListedIs
<1>4. n = Count /\ entry = Listed /\ whole = {i \in 1..Count : Real(Listed[i]) # Last(Listed[i]) \/
                                  Real(Listed[i]) \notin ToSet(index'[Front(Listed[i])])}
  BY DEF Count
<1> HIDE DEF n, entry, sorted, written, whole
<1>5. 1..n = {i \in Ids : i <= n} /\ 1..n \subseteq Ids /\ MaxIds \in Nat
  <2>1. n \in Nat /\ n <= MaxIds /\ MaxIds \in Nat
    BY <1>1, <1>2, FsTreeAssumption
  <2>2. QED
    BY <2>1 DEF Ids
<1>6. \A i \in 1..n : entry[i] \in Entries
  BY <1>3 DEF Begins
<1>7. directory[Root] = <<>> /\ \A i \in 1..n : directory[i] = entry[i] /\ i # Root
  BY <1>2, NodesAre
<1>8. \A i \in 0..n : directory[i] = At(i)
  BY <1>4 DEF At
<1>9. \A i \in 1..n : up(i) \in 0..(i - 1) /\ directory[up(i)] = Front(entry[i])
  <2>1. SUFFICES ASSUME NEW i \in 1..n
                 PROVE  up(i) \in 0..(i - 1) /\ directory[up(i)] = Front(entry[i])
    OBVIOUS
  <2> DEFINE p == entry[i]
  <2>2. /\ p \in Entries /\ p # <<>> /\ Len(p) > 1 => Front(p) \in Entries
        /\ ~(Len(p) > 1) => Front(p) = <<>>
    BY <1>2, <1>6
  <2>3. \E f \in 0..n : directory[f] = Front(p)
    <3>1. CASE Len(p) > 1
      <4>1. PICK j \in 1..(i - 1) : entry[j] = Front(p)
        BY <1>3, <3>1 DEF Begins
      <4>2. j \in 1..n /\ j \in 0..n
        BY <1>2
      <4>3. QED
        BY <1>7, <4>1, <4>2
    <3>2. CASE ~(Len(p) > 1)
      <4>1. Root \in 0..n
        BY <1>2, NodesAre
      <4>2. QED
        BY <1>7, <2>2, <3>2, <4>1
    <3>3. QED
      BY <3>1, <3>2
  <2> HIDE DEF directory
  <2>4. up(i) \in 0..n /\ directory[up(i)] = Front(p)
    BY <2>3
  <2> DEFINE f == up(i)
  <2> HIDE DEF f
  <2>5. f \in 0..n /\ directory[f] = Front(p)
    BY <2>4 DEF f
  <2>6. f <= i - 1
    <3>1. CASE f = Root
      BY <3>1, NodesAre
    <3>2. CASE f # Root
      <4>1. f \in 1..n /\ entry[f] = Front(p)
        BY <1>2, <1>7, <2>5, <3>2, NodesAre
      <4>2. Len(p) > 1
        BY <1>2, <1>6, <2>2, <4>1
      <4>3. PICK j \in 1..(i - 1) : entry[j] = Front(p)
        BY <1>3, <4>2 DEF Begins
      <4>4. j \in 1..n
        BY <1>2
      <4>5. f = j
        BY <1>2, <1>3, <4>1, <4>3, <4>4, BeginsApart
      <4>6. QED
        BY <4>3, <4>5
    <3>3. QED
      BY <3>1, <3>2
  <2>7. QED
    BY <1>2, <2>4, <2>5, <2>6 DEF f
<1>10. /\ \A i \in 1..n : At(up(i)) = Front(entry[i])
       /\ index' = [p \in DOMAIN index |->
            IF index[p] = <<>> /\ \E f \in 0..Count : At(f) = p
            THEN indexFileWrite(CHOOSE f \in 0..Count : At(f) = p) ELSE index[p]]
  <2>1. ASSUME NEW i \in 1..n PROVE At(up(i)) = Front(entry[i])
    <3>1. up(i) \in 0..n
      BY <1>2, <1>9
    <3> DEFINE f == up(i)
    <3>2. f \in 0..n /\ directory[f] = Front(entry[i])
      BY <1>9, <3>1
    <3> HIDE DEF f
    <3>3. At(f) = Front(entry[i])
      BY <1>8, <3>2
    <3>4. QED
      BY <3>3 DEF f
  <2> HIDE DEF directory, up
  <2>2. \A p : (\E f \in 0..n : directory[f] = p) <=> (\E f \in 0..Count : At(f) = p)
    BY <1>4, <1>8
  <2>3. \A p : (CHOOSE f \in 0..n : directory[f] = p) = (CHOOSE f \in 0..Count : At(f) = p)
    <3>1. ASSUME NEW p PROVE (CHOOSE f \in 0..n : directory[f] = p) = (CHOOSE f \in 0..Count : At(f) = p)
      <4>1. \A f \in 0..n : directory[f] = p <=> At(f) = p
        BY <1>8
      <4>2. QED
        BY <1>4, <4>1
    <3>2. QED
      BY <3>1
  <2>4. \A p : written(p) = indexFileWrite(CHOOSE f \in 0..Count : At(f) = p)
    <3>1. SUFFICES ASSUME NEW p
                   PROVE  written(p) = indexFileWrite(CHOOSE f \in 0..Count : At(f) = p)
      OBVIOUS
    <3> DEFINE g == CHOOSE f \in 0..n : directory[f] = p
    <3>2. written(p) = [k \in 1..Len(children'[g]) |-> name'[children'[g][k]]]
      BY DEF written
    <3>3. g = CHOOSE f \in 0..Count : At(f) = p
      BY <2>3
    <3> HIDE DEF g
    <3>4. indexFileWrite(g) = [k \in 1..Len(children'[g]) |-> encoded'[children'[g][k]]]
      BY DEF indexFileWrite
    <3>5. written(p) = indexFileWrite(g)
      BY <1>1, <3>2, <3>4
    <3>6. QED
      BY <3>3, <3>5
  <2>5. QED
    BY <1>1, <2>1, <2>2, <2>4
<1> HIDE DEF up
<1>11. /\ \A i \in 1..n : parent'[i] = up(i)
       /\ \A i \in Ids : i \notin 1..n => parent'[i] = Root
       /\ DOMAIN parent' = Ids /\ parent' = [i \in Ids |-> parent'[i]]
  BY <1>1, <1>5
<1>12. rank \in [1..n -> Nat] /\ rank = Ranks
  <2>1. ASSUME NEW i \in 1..n PROVE Rank(index[Front(entry[i])], Real(entry[i])) \in Nat
    <3>1. index[Front(entry[i])] \in Seq(Names)
      BY <1>2, <1>6 DEF DiskIs
    <3>2. QED
      BY <3>1, RankIs
  <2>2. rank = Ranks
    BY <1>4 DEF Ranks
  <2>3. QED
    BY <2>1, <2>2
<1> HIDE DEF rank
<1>13. \A f \in 0..MaxIds : Sorts(children'[f], Ranks, Under(parent', f))
  <2>1. SUFFICES ASSUME NEW f \in 0..MaxIds PROVE Sorts(children'[f], rank, Under(parent', f))
    BY <1>12
  <2> DEFINE S == under(f)
  <2>2. S \in SUBSET (1..n) /\ S = Under(parent', f)
    BY <1>4 DEF Under
  <2>3. children'[f] = CHOOSE list \in [1..Cardinality(S) -> S] :
             \A j, k \in DOMAIN list : j < k => Comes(rank, list[j], list[k])
    BY <1>1 DEF sorted
  <2> HIDE DEF S
  <2>4. \E list : Sorts(list, rank, S)
    BY <1>2, <1>12, <2>2, SortedList
  <2>5. \E list \in [1..Cardinality(S) -> S] :
             \A j, k \in DOMAIN list : j < k => Comes(rank, list[j], list[k])
    BY <2>4, Zenon DEF Sorts
  <2>6. Sorts(children'[f], rank, S)
    BY <2>3, <2>5, Zenon DEF Sorts
  <2>7. QED
    BY <2>2, <2>6
<1>14. DOMAIN children' = 0..MaxIds /\ children' = [f \in 0..MaxIds |-> children'[f]]
  BY <1>1
<1> HIDE DEF directory, under
<1>15. \A i \in 1..Count : parent'[i] \in 0..(i - 1) /\ At(parent'[i]) = Front(Listed[i])
  BY <1>4, <1>9, <1>10, <1>11
<1>16. \A i \in 1..Count : Listed[i] \in Entries
  BY <1>4, <1>6
<1>17. strays' = Straying({i \in 1..Count : Real(Listed[i]) # Last(Listed[i]) \/
                             Real(Listed[i]) \notin ToSet(index'[Front(Listed[i])])},
                          nodes', parent', encoded')
  BY <1>1, <1>4
<1>18. QED
  BY <1>1, <1>2, <1>4, <1>10, <1>11, <1>12, <1>13, <1>14, <1>15, <1>16, <1>17

LEMMA LoadKeeps ==
  ASSUME IInv, load, steps' \in 0..MaxSteps
  PROVE  IInv'
<1> DEFINE n == Count
           under(f) == Under(parent', f)
<1>0. DiskIs(files, index) /\ CountInv
  BY DEF IInv
<1>1. /\ n \in Nat /\ n <= MaxIds /\ mNextAvailableId' = n + 1 /\ unsaved' = {} /\ alive' = TRUE
      /\ files' = files /\ faults' = faults
      /\ nodes' = 0..n /\ leafs' = {i \in 1..n : Listed[i] \in files}
      /\ name' = [i \in Ids |-> IF i <= n THEN Real(Listed[i]) ELSE "none"]
      /\ encoded' = name'
      /\ \A i \in 1..n : Listed[i] \in Entries
      /\ DOMAIN parent' = Ids /\ parent' = [i \in Ids |-> parent'[i]]
      /\ \A i \in 1..n : parent'[i] \in 0..(i - 1) /\ At(parent'[i]) = Front(Listed[i])
      /\ \A i \in Ids : i \notin 1..n => parent'[i] = Root
      /\ DOMAIN children' = 0..MaxIds /\ children' = [f \in 0..MaxIds |-> children'[f]]
  BY <1>0, LoadIs
<1>2. /\ Ranks \in [1..n -> Nat]
      /\ \A f \in 0..MaxIds : Sorts(children'[f], Ranks, under(f))
      /\ index' = [p \in DOMAIN index |->
           IF index[p] = <<>> /\ \E f \in 0..n : At(f) = p
           THEN indexFileWrite(CHOOSE f \in 0..n : At(f) = p)
           ELSE index[p]]
      /\ strays' = Straying({i \in 1..n : Real(Listed[i]) # Last(Listed[i]) \/
                               Real(Listed[i]) \notin ToSet(index'[Front(Listed[i])])},
                            nodes', parent', encoded')
  BY <1>0, LoadIs
<1>3. \A i \in 1..n : Real(Listed[i]) \in Names /\ Front(Listed[i]) \in DOMAIN index
  BY <1>0, <1>1, EntriesAre
<1>4. /\ 1..n \subseteq Ids /\ 0..n \subseteq 0..MaxIds /\ 1..n = {i \in Ids : i <= n}
      /\ MaxIds \in Nat /\ n \in Nat /\ n <= MaxIds
  <2>1. n \in Nat /\ n <= MaxIds /\ MaxIds \in Nat
    BY <1>1, FsTreeAssumption
  <2>2. QED
    BY <2>1 DEF Ids
<1>5. n = Count
  OBVIOUS
<1> HIDE DEF n
<1>6. parent' \in [Ids -> 0..MaxIds] /\ \A i \in Ids : parent'[i] < i /\ parent'[i] <= n
  <2>1. ASSUME NEW i \in Ids PROVE parent'[i] \in 0..MaxIds /\ parent'[i] < i /\ parent'[i] <= n
    <3>1. CASE i \in 1..n
      <4>1. parent'[i] \in 0..(i - 1)
        BY <1>1, <3>1
      <4>2. QED
        BY <1>4, <3>1, <4>1
    <3>2. CASE i \notin 1..n
      <4>1. parent'[i] = 0 /\ 0 < i
        BY <1>1, <3>2, NodesAre DEF Ids
      <4>2. QED
        BY <1>4, <4>1
    <3>3. QED
      BY <3>1, <3>2
  <2>2. DOMAIN parent' = Ids /\ parent' = [i \in Ids |-> parent'[i]]
    BY <1>1
  <2>3. QED
    BY <2>1, <2>2
<1>7. Rooted(parent')
  <2>1. SUFFICES ASSUME NEW S \in (SUBSET Ids) \ {{}} PROVE \E i \in S : parent'[i] \notin S
    BY DEF Rooted
  <2>2. S \subseteq Nat /\ S # {}
    BY <2>1, NodesAre
  <2>3. PICK i \in S : \A j \in S : i <= j
    BY <2>2, LeastOf
  <2>4. parent'[i] < i /\ parent'[i] \in Nat /\ i \in Nat
    BY <1>4, <1>6, <2>2
  <2>5. QED
    BY <2>3, <2>4
<1>8. /\ nodes' \ {Root} = 1..n /\ nodes' \in SUBSET (0..MaxIds) /\ Root \in nodes'
      /\ leafs' \subseteq 1..n /\ Root \notin 1..n
  BY <1>1, <1>4, NodesAre
<1>9. \A i \in 1..n : name'[i] = Real(Listed[i]) /\ name'[i] \in Names
  BY <1>1, <1>3, <1>4
<1>10. MemoryInv'
  <2>1. nodes' \subseteq 0..(mNextAvailableId' - 1) /\ mNextAvailableId' \in 1..(MaxIds + 1)
    BY <1>1, <1>4
  <2>2. ASSUME NEW i \in Ids PROVE name'[i] \in Names \cup {"none"}
    <3>1. i <= n => i \in 1..n
      BY <1>4
    <3>2. CASE i <= n
      BY <1>9, <3>1, <3>2
    <3>3. CASE ~(i <= n)
      BY <1>1, <3>3
    <3>4. QED
      BY <3>2, <3>3
  <2>3. DOMAIN name' = Ids /\ name' = [i \in Ids |-> name'[i]]
    BY <1>1
  <2>4. name' \in [Ids -> Names \cup {"none"}]
    BY <2>2, <2>3
  <2>5. strays' \subseteq Ids
    <3> DEFINE S == {i \in 1..n : Real(Listed[i]) # Last(Listed[i]) \/
                                   Real(Listed[i]) \notin ToSet(index'[Front(Listed[i])])}
    <3>1. Root \notin S /\ strays' = Straying(S, nodes', parent', encoded')
      BY <1>2, <1>5, <1>8
    <3> HIDE DEF S
    <3>2. Straying(S, nodes', parent', encoded') \subseteq Ids
      BY <1>6, <1>7, <1>8, <3>1, StrayingIs
    <3>3. QED
      BY <3>1, <3>2
  <2>6. QED
    BY <1>8, <2>1, <2>4, <2>5 DEF MemoryInv
<1>11. UpInv'
  <2>1. \A i \in Ids : parent'[i] < mNextAvailableId'
    <3>1. \A i \in Ids : parent'[i] \in Nat /\ parent'[i] <= n
      BY <1>4, <1>6
    <3>2. QED
      BY <1>1, <1>4, <3>1
  <2>2. ASSUME NEW i \in nodes' \ {Root} PROVE parent'[i] \notin leafs'
    <3>1. i \in 1..n /\ At(parent'[i]) = Front(Listed[i])
      BY <1>1, <1>8, <2>2
    <3>2. Front(Listed[i]) \in DOMAIN index /\ files \cap DOMAIN index = {}
      BY <1>0, <1>3, <3>1 DEF DiskIs
    <3>3. \A f \in leafs' : At(f) = Listed[f] /\ Listed[f] \in files
      BY <1>1, <1>8 DEF At
    <3>4. QED
      BY <3>1, <3>2, <3>3
  <2>3. QED
    BY <1>6, <1>7, <2>1, <2>2 DEF UpInv
<1>12. CodeInv'
  <2>1. name' \in [Ids -> Names \cup {"none"}]
    BY <1>10 DEF MemoryInv
  <2>2. QED
    BY <1>1, <1>8, <1>9, <2>1 DEF CodeInv
<1>13. \A f \in 0..MaxIds : under(f) \in SUBSET (1..n)
  BY <1>5 DEF Under
<1>14. \A f \in 0..MaxIds : /\ children'[f] \in Seq(under(f)) /\ Distinct(children'[f])
                            /\ ToSet(children'[f]) = under(f)
  <2>1. SUFFICES ASSUME NEW f \in 0..MaxIds
                 PROVE  /\ children'[f] \in Seq(under(f)) /\ Distinct(children'[f])
                        /\ ToSet(children'[f]) = under(f)
    OBVIOUS
  <2>2. under(f) \in SUBSET (1..n) /\ Sorts(children'[f], Ranks, under(f))
    BY <1>2, <1>13
  <2> HIDE DEF under
  <2>3. Ranks \in [1..n -> Nat]
    BY <1>2, <1>5
  <2>4. QED
    BY <1>4, <2>2, <2>3, SortedIs
<1>15. \A f \in 0..MaxIds : /\ children'[f] \in Seq(Ids) /\ Len(children'[f]) \in Nat
                            /\ \A k \in 1..Len(children'[f]) : children'[f][k] \in 1..n
  <2>1. SUFFICES ASSUME NEW f \in 0..MaxIds
                 PROVE  /\ children'[f] \in Seq(Ids) /\ Len(children'[f]) \in Nat
                        /\ \A k \in 1..Len(children'[f]) : children'[f][k] \in 1..n
    OBVIOUS
  <2> DEFINE list == children'[f]
             S == under(f)
  <2>2. list \in Seq(S) /\ S \subseteq 1..n
    BY <1>13, <1>14
  <2> HIDE DEF list, S
  <2>3. Len(list) \in Nat /\ list \in [1..Len(list) -> S]
    BY <2>2
  <2>4. \A k \in 1..Len(list) : list[k] \in 1..n
    BY <2>2, <2>3
  <2>5. list \in [1..Len(list) -> Ids]
    BY <1>4, <2>3, <2>4
  <2>6. list \in Seq(Ids)
    BY <2>3, <2>5
  <2>7. QED
    BY <2>3, <2>4, <2>6 DEF list
<1>16. DownInv'
  <2>1. children' \in [0..MaxIds -> Seq(Ids)]
    BY <1>1, <1>15, Zenon
  <2>2. \A f \in 0..MaxIds : under(f) = Below(parent', nodes', f)
    BY <1>5, <1>8 DEF Below, Under
  <2>3. ASSUME NEW f \in 0..MaxIds, f \notin nodes' \ leafs' PROVE under(f) = {}
    <3>1. \A i \in 1..n : parent'[i] \in nodes'
      BY <1>1, <1>4, <1>6
    <3>2. \A i \in 1..n : parent'[i] \notin leafs'
      BY <1>8, <1>11 DEF UpInv
    <3>3. QED
      BY <1>5, <2>3, <3>1, <3>2 DEF Under
  <2> HIDE DEF under
  <2>4. ASSUME NEW f \in 0..MaxIds
        PROVE  /\ Distinct(children'[f])
               /\ ToSet(children'[f]) = IF f \in nodes' \ leafs' THEN Below(parent', nodes', f) ELSE {}
    BY <1>14, <2>2, <2>3
  <2>5. QED
    BY <2>1, <2>4 DEF DownInv
<1>17. DiskIs(files, index)'
  <2>1. /\ files \subseteq Seq(Names) /\ IsFiniteSet(files) /\ DOMAIN index \subseteq Seq(Names)
        /\ IsFiniteSet(DOMAIN index) /\ <<>> \in DOMAIN index
        /\ \A p \in DOMAIN index : index[p] \in Seq(Names)
        /\ files \cap DOMAIN index = {}
        /\ \A p \in files \cup DOMAIN index : p # <<>> => Front(p) \in DOMAIN index
    BY <1>0 DEF DiskIs
  <2>2. ASSUME NEW f \in 0..n PROVE indexFileWrite(f) \in Seq(Names)
    <3> DEFINE list == children'[f]
    <3>1. indexFileWrite(f) = [k \in 1..Len(list) |-> name'[list[k]]]
      BY <1>1 DEF indexFileWrite
    <3>2. Len(list) \in Nat /\ \A k \in 1..Len(list) : list[k] \in 1..n
      BY <1>4, <1>15
    <3> HIDE DEF list
    <3>3. indexFileWrite(f) \in [1..Len(list) -> Names]
      BY <1>9, <3>1, <3>2
    <3>4. QED
      BY <3>2, <3>3
  <2>3. DOMAIN index' = DOMAIN index
    BY <1>2
  <2>4. ASSUME NEW p \in DOMAIN index PROVE index'[p] \in Seq(Names)
    <3>1. CASE ~(index[p] = <<>> /\ \E f \in 0..n : At(f) = p)
      BY <1>2, <1>5, <2>1, <3>1
    <3>2. CASE index[p] = <<>> /\ \E f \in 0..n : At(f) = p
      <4> DEFINE f == CHOOSE f \in 0..n : At(f) = p
      <4>1. f \in 0..n
        BY <3>2
      <4>2. index'[p] = indexFileWrite(f)
        BY <1>2, <1>5, <3>2
      <4> HIDE DEF f
      <4>3. QED
        BY <2>2, <4>1, <4>2
    <3>3. QED
      BY <3>1, <3>2
  <2>5. QED
    BY <1>1, <2>1, <2>3, <2>4 DEF DiskIs
<1>18. CountInv'
  BY <1>0, <1>1 DEF CountInv
<1>19. QED
  BY <1>10, <1>11, <1>12, <1>16, <1>17, <1>18 DEF IInv

LEMMA Start == Init => IInv
<1> SUFFICES ASSUME Init PROVE IInv
  OBVIOUS
<1>1. MaxIds \in Nat /\ MaxSteps \in Nat /\ MaxFaults \in Nat /\ Root = 0 /\ Root \in 0..MaxIds
  BY FsTreeAssumption, NodesAre
<1>2. MemoryInv
  BY <1>1 DEF MemoryInv, Init
<1>3. UpInv
  <2>1. parent \in [Ids -> 0..MaxIds] /\ \A i \in Ids : parent[i] = Root
    BY <1>1 DEF Init
  <2>2. Rooted(parent)
    BY <2>1, NodesAre DEF Rooted
  <2>3. QED
    BY <1>1, <2>1, <2>2 DEF UpInv, Init
<1>4. CodeInv
  BY DEF CodeInv, Init
<1>5. DownInv
  <2>1. <<>> \in Seq(Ids) /\ Distinct(<<>>) /\ ToSet(<<>>) = {}
    BY DEF Distinct, ToSet
  <2>2. \A f : Below(parent, nodes, f) = {}
    BY DEF Below, Init
  <2>3. /\ children \in [0..MaxIds -> Seq(Ids)]
        /\ \A f \in 0..MaxIds : children[f] = <<>>
    BY <2>1 DEF Init
  <2>4. QED
    BY <2>1, <2>2, <2>3 DEF DownInv
<1>6. DiskIs(files, index)
  <2>1. files = {} /\ DOMAIN index = {<<>>} /\ index[<<>>] = <<>> /\ <<>> \in Seq(Names)
    BY DEF Init
  <2>2. IsFiniteSet(files) /\ IsFiniteSet(DOMAIN index)
    BY <2>1, FS_EmptySet, FS_Singleton
  <2>3. QED
    BY <2>1, <2>2 DEF DiskIs
<1>7. CountInv
  BY <1>1 DEF CountInv, Init
<1>8. QED
  BY <1>2, <1>3, <1>4, <1>5, <1>6, <1>7 DEF IInv

LEMMA Stays == IInv /\ [Next]_vars => IInv'
<1> SUFFICES ASSUME IInv, [Next]_vars PROVE IInv'
  OBVIOUS
<1>1. CASE UNCHANGED vars
  <2>1. /\ nodes' = nodes /\ leafs' = leafs /\ parent' = parent /\ name' = name /\ encoded' = encoded
        /\ children' = children /\ mNextAvailableId' = mNextAvailableId /\ strays' = strays
        /\ unsaved' = unsaved /\ alive' = alive /\ faults' = faults /\ steps' = steps
        /\ files' = files /\ index' = index
    BY <1>1 DEF vars, memory, disk
  <2>2. MemoryInv'
    BY <2>1 DEF IInv, MemoryInv
  <2>3. UpInv'
    BY <2>1 DEF IInv, UpInv
  <2>4. CodeInv' /\ DownInv' /\ CountInv'
    BY <2>1 DEF IInv, CodeInv, DownInv, CountInv
  <2>5. DiskIs(files, index)'
    BY <2>1 DEF IInv, DiskIs
  <2>6. QED
    BY <2>2, <2>3, <2>4, <2>5 DEF IInv
<1>2. CASE Next
  <2>1. steps' \in 0..MaxSteps
    BY <1>2, FsTreeAssumption DEF Next, IInv, CountInv
  <2>2. ASSUME NEW f \in 0..MaxIds, createFolder(f) PROVE IInv'
    <3>1. f \in Folders /\ \E n \in Names : insert(f, n, FALSE)
      BY <2>2 DEF createFolder
    <3>2. QED
      BY <2>1, <3>1, InsertKeeps
  <2>3. ASSUME NEW f \in 0..MaxIds, createMessage(f) PROVE IInv'
    <3>1. f \in Folders /\ \E n \in Names : insert(f, n, TRUE)
      BY <2>3 DEF createMessage
    <3>2. QED
      BY <2>1, <3>1, InsertKeeps
  <2>4. ASSUME NEW id \in Ids, remove(id) PROVE IInv'
    BY <2>1, <2>4, RemoveKeeps
  <2>5. ASSUME NEW id \in Ids, leafReplace(id) PROVE IInv'
    BY <2>1, <2>5, ReplaceKeeps
  <2>6. ASSUME NEW id \in Ids, NEW n \in Names, rename(id, n) PROVE IInv'
    BY <2>1, <2>6, RenameKeeps
  <2>7. ASSUME NEW id \in Ids, NEW n \in Names, renameFails(id, n) PROVE IInv'
    BY <2>1, <2>7, RenameFailsKeeps
  <2>8. ASSUME NEW id \in Ids, onMessagesDrop(id) PROVE IInv'
    BY <2>1, <2>8, DropKeeps
  <2>9. ASSUME load PROVE IInv'
    BY <2>1, <2>9, LoadKeeps
  <2>10. QED
    BY <1>2, <2>2, <2>3, <2>4, <2>5, <2>6, <2>7, <2>8, <2>9 DEF Next
<1>3. QED
  BY <1>1, <1>2
-------------------------------------------------------------------------------
(* Two nodes at one path *)

IsTree(par, enc, ns) ==
  /\ par \in [Ids -> 0..MaxIds] /\ Rooted(par)
  /\ ns \in SUBSET (0..MaxIds) /\ Root \in ns
  /\ enc \in [Ids -> Names \cup {"none"}] /\ \A i \in ns \ {Root} : enc[i] \in Names

LEMMA PrefixLess ==
  ASSUME NEW q \in Seq(Names), NEW p \in Seq(Names)
  PROVE  /\ IsPrefix(p, p) /\ Len(q) \in Nat /\ Len(p) \in Nat
         /\ IsPrefix(q, p) => Len(q) <= Len(p) /\ (Len(q) = Len(p) => q = p)
<1>1. Len(p) \in Nat /\ Len(q) \in Nat
  OBVIOUS
<1>2. IsPrefix(p, p)
  BY <1>1, PrefixIs
<1>3. IsPrefix(q, p) => Len(q) <= Len(p) /\ \A i \in 1..Len(q) : q[i] = p[i]
  BY PrefixIs
<1>4. QED
  BY <1>1, <1>2, <1>3, SameSeq

LEMMA PrefixAppend ==
  ASSUME NEW q \in Seq(Names), NEW p \in Seq(Names), NEW e \in Names
  PROVE  IsPrefix(q, Append(p, e)) <=> q = Append(p, e) \/ IsPrefix(q, p)
<1> DEFINE r == Append(p, e)
<1>1. /\ r \in Seq(Names) /\ Len(r) = Len(p) + 1 /\ Len(p) \in Nat /\ Len(q) \in Nat
      /\ \A i \in 1..Len(p) : r[i] = p[i]
  OBVIOUS
<1> HIDE DEF r
<1>2. IsPrefix(r, r)
  BY <1>1, PrefixLess
<1>3. IsPrefix(q, p) <=> Len(q) <= Len(p) /\ \A i \in 1..Len(q) : q[i] = p[i]
  BY PrefixIs
<1>4. IsPrefix(q, r) <=> Len(q) <= Len(r) /\ \A i \in 1..Len(q) : q[i] = r[i]
  BY <1>1, PrefixIs
<1>5. IsPrefix(q, p) => IsPrefix(q, r)
  BY <1>1, <1>3, <1>4
<1>6. IsPrefix(q, r) /\ Len(q) <= Len(p) => IsPrefix(q, p)
  BY <1>1, <1>3, <1>4
<1>7. IsPrefix(q, r) /\ ~(Len(q) <= Len(p)) => q = r
  BY <1>1, <1>4, PrefixLess
<1>8. QED
  BY <1>2, <1>5, <1>6, <1>7 DEF r

LEMMA FrontOfAppend ==
  ASSUME NEW p \in Seq(Names), NEW e \in Names
  PROVE  Front(Append(p, e)) = p /\ Last(Append(p, e)) = e /\ Append(p, e) # <<>>
BY DEF Front, Last

LEMMA FrontAndLast ==
  ASSUME NEW p \in Seq(Names), p # <<>>
  PROVE  Append(Front(p), Last(p)) = p
<1> DEFINE f == Front(p)
           q == Append(f, Last(p))
<1>1. Len(p) \in Nat \ {0} /\ Last(p) = p[Len(p)] /\ Last(p) \in Names
  BY DEF Last
<1>2. f \in Seq(Names) /\ Len(f) = Len(p) - 1 /\ \A i \in 1..(Len(p) - 1) : f[i] = p[i]
  BY <1>1, FrontIs
<1> HIDE DEF f
<1>3. /\ q \in Seq(Names) /\ Len(q) = Len(f) + 1 /\ q[Len(f) + 1] = Last(p)
      /\ \A i \in 1..Len(f) : q[i] = f[i]
  BY <1>1, <1>2
<1> HIDE DEF q
<1>4. Len(q) = Len(p) /\ \A i \in 1..Len(q) : q[i] = p[i]
  BY <1>1, <1>2, <1>3
<1>5. q = p
  BY <1>3, <1>4, SameSeq
<1>6. QED
  BY <1>5 DEF q, f

\* What holds of the root, and of a node in view once it holds of its parent,
\* holds of all in view.
LEMMA Downwards ==
  ASSUME NEW par \in [Ids -> 0..MaxIds], Rooted(par), NEW ns \in SUBSET (0..MaxIds), Root \in ns,
         NEW S, Root \in S, \A i \in ShownIn(par, ns) \ {Root} : par[i] \in S => i \in S
  PROVE  ShownIn(par, ns) \subseteq S
<1> DEFINE T == ShownIn(par, ns) \ S
<1>1. ShownIn(par, ns) \subseteq ns /\ \A i \in ShownIn(par, ns) \ {Root} : par[i] \in ShownIn(par, ns)
  BY ShownIs
<1>2. SUFFICES ASSUME T # {} PROVE FALSE
  OBVIOUS
<1>3. T \in (SUBSET Ids) \ {{}}
  BY <1>1, <1>2, NodesAre
<1>4. PICK i \in T : par[i] \notin T
  BY <1>3 DEF Rooted
<1>5. QED
  BY <1>1, <1>4

LEMMA ChainUp ==
  ASSUME NEW par \in [Ids -> 0..MaxIds], Rooted(par),
         NEW i \in 0..MaxIds, NEW a \in ChainIn(par, i)
  PROVE  ChainIn(par, a) \subseteq ChainIn(par, i)
<1> DEFINE S == {k \in Ids : \E b \in ChainIn(par, k) : ~(ChainIn(par, b) \subseteq ChainIn(par, k))}
<1>1. /\ ChainIn(par, Root) = {Root}
      /\ \A k \in Ids : ChainIn(par, k) = {k} \cup ChainIn(par, par[k])
  BY ChainIs
<1>2. S = {}
  <2>1. SUFFICES ASSUME S # {} PROVE FALSE
    OBVIOUS
  <2>2. S \in (SUBSET Ids) \ {{}}
    BY <2>1
  <2>3. PICK k \in S : par[k] \notin S
    BY <2>2 DEF Rooted
  <2>4. par[k] = Root \/ par[k] \in Ids
    BY <2>3, NodesAre
  <2>5. \A b \in ChainIn(par, par[k]) : ChainIn(par, b) \subseteq ChainIn(par, par[k])
    BY <1>1, <2>3, <2>4
  <2>6. \A b \in ChainIn(par, k) : ChainIn(par, b) \subseteq ChainIn(par, k)
    BY <1>1, <2>3, <2>5
  <2>7. QED
    BY <2>3, <2>6
<1>3. i = Root \/ i \in Ids
  BY NodesAre
<1>4. QED
  BY <1>1, <1>2, <1>3

\* What PathOfShown says, of all nodes in view.
LEMMA TreePaths ==
  ASSUME NEW par, NEW enc, NEW ns, IsTree(par, enc, ns)
  PROVE  /\ Root \in ShownIn(par, ns) /\ ShownIn(par, ns) \subseteq ns
         /\ Paths(par, enc)[Root] = <<>> /\ ChainIn(par, Root) = {Root}
         /\ \A i \in ShownIn(par, ns) :
              Paths(par, enc)[i] \in Seq(Names) /\ i \in ChainIn(par, i) /\ i \in 0..MaxIds
         /\ \A i \in ShownIn(par, ns) \ {Root} :
              /\ i \in Ids /\ par[i] \in ShownIn(par, ns) /\ enc[i] \in Names
              /\ Paths(par, enc)[i] = Append(Paths(par, enc)[par[i]], enc[i])
              /\ ChainIn(par, i) = {i} \cup ChainIn(par, par[i])
<1>1. /\ par \in [Ids -> 0..MaxIds] /\ Rooted(par) /\ ns \in SUBSET (0..MaxIds) /\ Root \in ns
      /\ enc \in [Ids -> Names \cup {"none"}] /\ \A i \in ns \ {Root} : enc[i] \in Names
  BY DEF IsTree
<1>2. /\ Root \in ShownIn(par, ns) /\ ShownIn(par, ns) \subseteq ns
      /\ \A i \in ShownIn(par, ns) \ {Root} : par[i] \in ShownIn(par, ns)
  BY <1>1, ShownIs
<1>3. \A i \in ShownIn(par, ns) :
        /\ Paths(par, enc)[i] \in Seq(Names)
        /\ i = Root => Paths(par, enc)[i] = <<>>
        /\ i # Root => Paths(par, enc)[i] = Append(Paths(par, enc)[par[i]], enc[i])
  BY <1>1, PathOfShown
<1>4. /\ ChainIn(par, Root) = {Root}
      /\ \A i \in Ids : ChainIn(par, i) = {i} \cup ChainIn(par, par[i])
      /\ \A i \in 0..MaxIds : i \in ChainIn(par, i)
  BY <1>1, ChainIs
<1>5. \A i \in ShownIn(par, ns) : i \in 0..MaxIds /\ (i # Root => i \in Ids)
  BY <1>1, <1>2, NodesAre
<1>6. \A i \in ShownIn(par, ns) \ {Root} : enc[i] \in Names
  BY <1>1, <1>2
<1>7. QED
  BY <1>2, <1>3, <1>4, <1>5, <1>6

\* The path of a node goes through the paths of those above it.
LEMMA AbovePrefix ==
  ASSUME NEW par, NEW enc, NEW ns, IsTree(par, enc, ns),
         NEW i \in ShownIn(par, ns), NEW a \in ChainIn(par, i)
  PROVE  /\ a \in ShownIn(par, ns) /\ IsPrefix(Paths(par, enc)[a], Paths(par, enc)[i])
         /\ Len(Paths(par, enc)[a]) = Len(Paths(par, enc)[i]) => a = i
<1> DEFINE path == Paths(par, enc)
           shown == ShownIn(par, ns)
           Good(k, b) == b \in shown /\ IsPrefix(path[b], path[k]) /\ (Len(path[b]) = Len(path[k]) => b = k)
           S == {k \in shown : \A b \in ChainIn(par, k) : Good(k, b)}
<1>1. /\ Root \in shown /\ path[Root] = <<>> /\ ChainIn(par, Root) = {Root}
      /\ \A k \in shown : path[k] \in Seq(Names)
      /\ \A k \in shown \ {Root} :
           /\ par[k] \in shown /\ enc[k] \in Names /\ path[k] = Append(path[par[k]], enc[k])
           /\ ChainIn(par, k) = {k} \cup ChainIn(par, par[k])
  BY TreePaths
<1>2. par \in [Ids -> 0..MaxIds] /\ Rooted(par) /\ ns \in SUBSET (0..MaxIds) /\ Root \in ns
  BY DEF IsTree
<1> HIDE DEF path
<1>3. \A k \in shown : Good(k, k)
  BY <1>1, PrefixLess
<1>4. Root \in S
  BY <1>1, <1>3
<1>5. ASSUME NEW k \in shown \ {Root}, par[k] \in S PROVE k \in S
  <2>1. SUFFICES ASSUME NEW b \in ChainIn(par, par[k]) PROVE Good(k, b)
    BY <1>1, <1>3
  <2>2. Good(par[k], b)
    BY <1>5
  <2>3. /\ path[b] \in Seq(Names) /\ path[par[k]] \in Seq(Names) /\ enc[k] \in Names
        /\ path[k] = Append(path[par[k]], enc[k])
    BY <1>1, <2>2
  <2>4. IsPrefix(path[b], path[k])
    BY <2>2, <2>3, PrefixAppend
  <2>5. Len(path[b]) <= Len(path[par[k]]) /\ Len(path[b]) \in Nat /\ Len(path[par[k]]) \in Nat
    BY <2>2, <2>3, PrefixLess
  <2>6. Len(path[k]) = Len(path[par[k]]) + 1
    BY <2>3
  <2>7. Len(path[b]) # Len(path[k])
    BY <2>5, <2>6
  <2>8. QED
    BY <2>2, <2>4, <2>7
<1>6. shown \subseteq S
  <2> HIDE DEF S
  <2>1. QED
    BY <1>2, <1>4, <1>5, Downwards
<1>7. QED
  BY <1>6 DEF path

\* Nodes above which siblings share a path.
LEMMA SharingIs ==
  ASSUME NEW par, NEW enc, NEW ns, NEW S, NEW i \in ns, NEW a \in ChainIn(par, i),
         a \in ns \ {Root}, NEW b \in ns \ {Root, a}, par[a] = par[b], enc[a] = enc[b]
  PROVE  i \in Straying(S, ns, par, enc)
BY DEF Straying

LEMMA StrayingGrows ==
  ASSUME NEW par, NEW enc, NEW ns, NEW S
  PROVE  /\ Straying({}, ns, par, enc) \subseteq Straying(S, ns, par, enc)
         /\ \A i \in ns : ChainIn(par, i) \cap S # {} => i \in Straying(S, ns, par, enc)
BY DEF Straying

\* Unless siblings share a path above it, a node is at or below nothing but
\* what is above it.
LEMMA PathsApart ==
  ASSUME NEW par, NEW enc, NEW ns, IsTree(par, enc, ns),
         NEW i \in ShownIn(par, ns) \ Straying({}, ns, par, enc), NEW j \in ShownIn(par, ns),
         IsPrefix(Paths(par, enc)[j], Paths(par, enc)[i])
  PROVE  j \in ChainIn(par, i)
<1> DEFINE path == Paths(par, enc)
           shown == ShownIn(par, ns)
           lost == Straying({}, ns, par, enc)
           S == {k \in shown : k \in lost \/
                   \A l \in shown : IsPrefix(path[l], path[k]) => l \in ChainIn(par, k)}
<1>1. /\ Root \in shown /\ shown \subseteq ns /\ path[Root] = <<>>
      /\ \A k \in shown : path[k] \in Seq(Names) /\ k \in ChainIn(par, k)
      /\ \A k \in shown \ {Root} :
           /\ k \in Ids /\ par[k] \in shown /\ enc[k] \in Names
           /\ path[k] = Append(path[par[k]], enc[k])
           /\ ChainIn(par, k) = {k} \cup ChainIn(par, par[k])
  BY TreePaths
<1>2. par \in [Ids -> 0..MaxIds] /\ Rooted(par) /\ ns \in SUBSET (0..MaxIds) /\ Root \in ns
  BY DEF IsTree
<1> HIDE DEF path, shown, lost
<1>3. \A k \in shown \ {Root} : path[k] # <<>>
  <2>1. \A k \in shown \ {Root} : Append(path[par[k]], enc[k]) # <<>>
    BY <1>1
  <2>2. QED
    BY <1>1, <2>1
<1>4. \A k \in shown \ {Root} : k \notin lost => par[k] \notin lost
  BY <1>1 DEF lost, Straying
<1>5. Root \in S
  <2>1. ASSUME NEW l \in shown, IsPrefix(path[l], path[Root]) PROVE l = Root
    <3>1. path[l] \in Seq(Names) /\ path[Root] \in Seq(Names) /\ path[Root] = <<>>
      BY <1>1
    <3>2. Len(path[l]) <= Len(path[Root]) /\ (Len(path[l]) = Len(path[Root]) => path[l] = path[Root])
          /\ Len(path[l]) \in Nat
      BY <2>1, <3>1, PrefixLess
    <3>3. Len(path[Root]) = 0
      BY <3>1
    <3>4. path[l] = <<>>
      BY <3>1, <3>2, <3>3
    <3>5. QED
      BY <1>3, <3>4
  <2>2. QED
    BY <1>1, <2>1
<1>6. ASSUME NEW k \in shown \ {Root}, par[k] \in S PROVE k \in S
  <2>1. SUFFICES ASSUME k \notin lost, NEW l \in shown, IsPrefix(path[l], path[k])
                 PROVE  l \in ChainIn(par, k)
    OBVIOUS
  <2>2. \A m \in shown : IsPrefix(path[m], path[par[k]]) => m \in ChainIn(par, par[k])
    BY <1>4, <1>6, <2>1
  <2>3. /\ path[l] \in Seq(Names) /\ path[par[k]] \in Seq(Names) /\ enc[k] \in Names
        /\ path[k] = Append(path[par[k]], enc[k])
    BY <1>1
  <2>4. path[l] = path[k] \/ IsPrefix(path[l], path[par[k]])
    BY <2>1, <2>3, PrefixAppend
  <2>5. CASE IsPrefix(path[l], path[par[k]])
    BY <1>1, <2>2, <2>5
  <2>6. CASE path[l] = path[k]
    <3>1. l # Root
      BY <1>1, <1>3, <2>6
    <3>2. /\ l \in shown \ {Root} /\ par[l] \in shown /\ path[par[l]] \in Seq(Names)
          /\ enc[l] \in Names /\ path[l] = Append(path[par[l]], enc[l])
      BY <1>1, <3>1
    <3>3. path[par[l]] = path[par[k]] /\ enc[l] = enc[k]
      <4>1. Front(path[l]) = path[par[l]] /\ Last(path[l]) = enc[l]
        BY <3>2, FrontOfAppend
      <4>2. Front(path[k]) = path[par[k]] /\ Last(path[k]) = enc[k]
        BY <2>3, FrontOfAppend
      <4>3. QED
        BY <2>6, <4>1, <4>2
    <3>4. IsPrefix(path[par[l]], path[par[k]])
      BY <2>3, <3>3, PrefixLess
    <3>5. par[l] \in ChainIn(par, par[k])
      BY <2>2, <3>2, <3>4
    <3>6. par[l] = par[k]
      <4>1. par[k] \in ShownIn(par, ns)
        BY <1>1 DEF shown
      <4>2. Len(path[par[l]]) = Len(path[par[k]])
        BY <3>3
      <4>3. QED
        BY <3>5, <4>1, <4>2, AbovePrefix DEF path
    <3>7. ASSUME l # k PROVE FALSE
      <4>1. k \in ns /\ k \in ChainIn(par, k) /\ k \in ns \ {Root} /\ l \in ns \ {Root, k}
        BY <1>1, <3>2, <3>7
      <4>2. k \in Straying({}, ns, par, enc)
        BY <3>3, <3>6, <4>1, SharingIs
      <4>3. QED
        BY <2>1, <4>2 DEF lost
    <3>8. QED
      BY <1>1, <3>7
  <2>7. QED
    BY <2>4, <2>5, <2>6
<1>7. shown \subseteq S
  <2> HIDE DEF S
  <2>1. QED
    BY <1>2, <1>5, <1>6, Downwards DEF shown
<1>8. QED
  BY <1>7 DEF path, shown, lost

LEMMA PathsDiffer ==
  ASSUME NEW par, NEW enc, NEW ns, IsTree(par, enc, ns),
         NEW i \in ShownIn(par, ns) \ Straying({}, ns, par, enc), NEW j \in ShownIn(par, ns),
         Paths(par, enc)[j] = Paths(par, enc)[i]
  PROVE  j = i
<1>1. Paths(par, enc)[i] \in Seq(Names)
  BY TreePaths
<1>2. IsPrefix(Paths(par, enc)[j], Paths(par, enc)[i])
  BY <1>1, PrefixLess
<1>3. j \in ChainIn(par, i)
  BY <1>2, PathsApart
<1>4. QED
  BY <1>3, AbovePrefix

-------------------------------------------------------------------------------
(* Paths when a node moves *)

\* Directories keep their index files as they move.
LEMMA MovedIndexIs ==
  ASSUME DiskIs(files, index), NEW from \in Seq(Names), NEW to \in Seq(Names), Renames(from, to),
         NEW p \in DOMAIN index
  PROVE  /\ Moved(from, to, p) \in DOMAIN MovedIndex(from, to)
         /\ MovedIndex(from, to)[Moved(from, to, p)] = index[p]
<1> DEFINE r == CHOOSE q \in DOMAIN index : Moved(from, to, q) = Moved(from, to, p)
<1>1. /\ Moved(from, to, p) \in DOMAIN MovedIndex(from, to)
      /\ MovedIndex(from, to)[Moved(from, to, p)] = index[r]
  BY DEF MovedIndex
<1>2. r \in DOMAIN index /\ Moved(from, to, r) = Moved(from, to, p)
  OBVIOUS
<1> HIDE DEF r
<1>3. p \notin files
  BY DEF DiskIs
<1>4. r = p
  BY <1>2, <1>3, MovedMeet
<1>5. QED
  BY <1>1, <1>4

LEMMA Places ==
  ASSUME NEW a \in Nat, NEW b \in Nat, NEW c \in Nat, NEW k \in Nat, a <= c, NEW i, b + k = i
  PROVE  /\ a + k = c + 1 => i = (b + (c - a)) + 1
         /\ k \in 1..((c + 1) - a) /\ a + k # c + 1 =>
              k \in 1..(c - a) /\ a + k \in 1..c /\ i \in 1..(b + (c - a))
OBVIOUS

LEMMA MovedAppend ==
  ASSUME NEW from \in Seq(Names), NEW to \in Seq(Names), NEW p \in Seq(Names), NEW e \in Names,
         IsPrefix(from, p)
  PROVE  Moved(from, to, Append(p, e)) = Append(Moved(from, to, p), e)
<1> DEFINE q == Append(p, e)
           m == Moved(from, to, p)
           n == Moved(from, to, q)
           a == Append(m, e)
<1>1. /\ q \in Seq(Names) /\ Len(q) = Len(p) + 1 /\ q[Len(p) + 1] = e
      /\ \A i \in 1..Len(p) : q[i] = p[i]
  OBVIOUS
<1>2. IsPrefix(from, q)
  BY PrefixAppend
<1>3. Len(from) \in Nat /\ Len(to) \in Nat /\ Len(p) \in Nat /\ Len(from) <= Len(p)
  BY PrefixLess
<1>4. /\ m \in Seq(Names) /\ Len(m) = Len(to) + (Len(p) - Len(from))
      /\ \A i \in 1..Len(to) : m[i] = to[i]
      /\ \A i \in 1..(Len(p) - Len(from)) : m[Len(to) + i] = p[Len(from) + i]
  BY MovedIs
<1> HIDE DEF q
<1>5. /\ n \in Seq(Names) /\ Len(n) = Len(to) + (Len(q) - Len(from))
      /\ \A i \in 1..Len(to) : n[i] = to[i]
      /\ \A i \in 1..(Len(q) - Len(from)) : n[Len(to) + i] = q[Len(from) + i]
  BY <1>1, <1>2, MovedIs, ZenonT(30)
<1> HIDE DEF m, n
<1>6. /\ a \in Seq(Names) /\ Len(a) = Len(m) + 1 /\ a[Len(m) + 1] = e
      /\ \A i \in 1..Len(m) : a[i] = m[i]
  BY <1>4
<1> HIDE DEF a
<1>7. Len(n) = Len(a) /\ Len(n) \in Nat /\ Len(m) \in Nat /\ Len(n) = Len(m) + 1
  BY <1>1, <1>3, <1>4, <1>5, <1>6
<1>a. Len(m) = Len(to) + (Len(p) - Len(from)) /\ Len(q) = Len(p) + 1
  BY <1>1, <1>4
<1>8. ASSUME NEW i \in 1..Len(n) PROVE n[i] = a[i]
  <2>1. CASE i <= Len(to)
    <3>1. i \in 1..Len(to) /\ i \in 1..Len(m)
      BY <1>3, <1>4, <2>1
    <3>2. QED
      BY <1>4, <1>5, <1>6, <3>1
  <2>2. CASE ~(i <= Len(to))
    <3> DEFINE k == i - Len(to)
    <3>1. k \in 1..(Len(q) - Len(from)) /\ Len(to) + k = i /\ k \in Nat
      BY <1>3, <1>5, <2>2
    <3>2. Len(from) + k \in 1..(Len(p) + 1)
      BY <1>1, <1>3, <3>1
    <3> HIDE DEF k
    <3>3. n[i] = q[Len(from) + k]
      BY <1>5, <3>1
    <3>4. CASE Len(from) + k = Len(p) + 1
      <4>1. i = Len(m) + 1
        BY <1>3, <1>a, <3>1, <3>4, Places, SMTT(30)
      <4>2. QED
        BY <1>1, <1>6, <3>3, <3>4, <4>1
    <3>5. CASE Len(from) + k # Len(p) + 1
      <4>1. k \in 1..(Len(p) - Len(from)) /\ Len(from) + k \in 1..Len(p) /\ i \in 1..Len(m)
        BY <1>3, <1>a, <3>1, <3>5, Places
      <4>2. m[Len(to) + k] = p[Len(from) + k] /\ q[Len(from) + k] = p[Len(from) + k]
        BY <1>1, <1>4, <4>1
      <4>3. QED
        BY <1>6, <3>1, <3>3, <4>1, <4>2
    <3>6. QED
      BY <3>4, <3>5
  <2>3. QED
    BY <2>1, <2>2
<1>9. n = a
  BY <1>5, <1>6, <1>7, <1>8, SameSeq
<1>10. QED
  BY <1>9 DEF q, m, n, a

\* A node has the path it had if all above it are where they were.
LEMMA SamePath ==
  ASSUME NEW par, NEW enc, NEW ns, IsTree(par, enc, ns), NEW par2, NEW enc2, NEW ns2,
         IsTree(par2, enc2, ns2), NEW i \in 0..MaxIds,
         \A a \in ChainIn(par, i) \ {Root} : par2[a] = par[a] /\ enc2[a] = enc[a]
  PROVE  ChainIn(par2, i) = ChainIn(par, i) /\ Paths(par2, enc2)[i] = Paths(par, enc)[i]
<1>0. /\ par \in [Ids -> 0..MaxIds] /\ Rooted(par) /\ par2 \in [Ids -> 0..MaxIds] /\ Rooted(par2)
      /\ \A k \in Ids : enc[k] \in Names \cup {"none"}
      /\ \A k \in Ids : enc2[k] \in Names \cup {"none"}
  BY DEF IsTree
<1> DEFINE path == Paths(par, enc)
           path2 == Paths(par2, enc2)
           Lasts(k) == \A a \in ChainIn(par, k) \ {Root} : par2[a] = par[a] /\ enc2[a] = enc[a]
           Same(k) == ChainIn(par2, k) = ChainIn(par, k) /\ path2[k] = path[k]
           S == {k \in Ids : Lasts(k) /\ ~Same(k)}
<1>1. /\ path[Root] = <<>> /\ \A k \in Ids : path[k] = Append(path[par[k]], enc[k])
      /\ path2[Root] = <<>> /\ \A k \in Ids : path2[k] = Append(path2[par2[k]], enc2[k])
  BY <1>0, PathIs
<1>2. /\ ChainIn(par, Root) = {Root}
      /\ \A k \in Ids : ChainIn(par, k) = {k} \cup ChainIn(par, par[k])
      /\ ChainIn(par2, Root) = {Root}
      /\ \A k \in Ids : ChainIn(par2, k) = {k} \cup ChainIn(par2, par2[k])
  BY <1>0, ChainIs
<1> HIDE DEF path, path2
<1>3. Same(Root)
  BY <1>1, <1>2
<1>4. S = {}
  <2>1. SUFFICES ASSUME S # {} PROVE FALSE
    OBVIOUS
  <2>2. S \in (SUBSET Ids) \ {{}}
    BY <2>1
  <2>3. PICK k \in S : par[k] \notin S
    BY <1>0, <2>2 DEF Rooted
  <2>4. par[k] = Root \/ par[k] \in Ids
    BY <1>0, <2>3, NodesAre
  <2>5. Lasts(par[k])
    BY <1>2, <2>3
  <2>6. Same(par[k])
    BY <1>3, <2>3, <2>4, <2>5
  <2>7. par2[k] = par[k] /\ enc2[k] = enc[k]
    BY <1>2, <2>3, NodesAre
  <2>8. Same(k)
    <3>1. ChainIn(par2, k) = ChainIn(par, k)
      <4>1. /\ ChainIn(par, k) = {k} \cup ChainIn(par, par[k])
            /\ ChainIn(par2, k) = {k} \cup ChainIn(par2, par2[k])
        BY <1>2, <2>3
      <4>2. ChainIn(par2, par[k]) = ChainIn(par, par[k])
        BY <2>6
      <4>3. QED
        BY <2>7, <4>1, <4>2
    <3>2. path2[k] = path[k]
      <4>1. path[k] = Append(path[par[k]], enc[k]) /\ path2[k] = Append(path2[par[k]], enc[k])
        BY <1>1, <2>3, <2>7
      <4>2. QED
        BY <2>6, <4>1
    <3>3. QED
      BY <3>1, <3>2
  <2>9. QED
    BY <2>3, <2>8
<1>5. QED
  BY <1>3, <1>4, NodesAre DEF path, path2

\* One node gets another parent or another code: those below move with it.
LEMMA PathMoves ==
  ASSUME NEW par, NEW enc, NEW par2, NEW enc2, NEW ns, IsTree(par, enc, ns), IsTree(par2, enc2, ns),
         NEW id \in ShownIn(par, ns) \ {Root}, id \in ShownIn(par2, ns),
         \A k \in Ids \ {id} : par2[k] = par[k] /\ enc2[k] = enc[k],
         NEW i \in ShownIn(par, ns), id \in ChainIn(par, i)
  PROVE  Paths(par2, enc2)[i] = Moved(Paths(par, enc)[id], Paths(par2, enc2)[id], Paths(par, enc)[i])
<1> DEFINE path == Paths(par, enc)
           path2 == Paths(par2, enc2)
           from == path[id]
           to == path2[id]
           S == {k \in ShownIn(par, ns) : id \in ChainIn(par, k) => path2[k] = Moved(from, to, path[k])}
<1>1. /\ Root \in ShownIn(par, ns) /\ ChainIn(par, Root) = {Root}
      /\ \A k \in ShownIn(par, ns) : path[k] \in Seq(Names) /\ k \in 0..MaxIds
      /\ \A k \in ShownIn(par, ns) \ {Root} :
           /\ k \in Ids /\ par[k] \in ShownIn(par, ns) /\ enc[k] \in Names
           /\ path[k] = Append(path[par[k]], enc[k])
           /\ ChainIn(par, k) = {k} \cup ChainIn(par, par[k])
  BY TreePaths
<1>2. from \in Seq(Names) /\ to \in Seq(Names)
  BY TreePaths
<1>3. \A k \in Ids : path2[k] = Append(path2[par2[k]], enc2[k])
  <2>1. par2 \in [Ids -> 0..MaxIds] /\ Rooted(par2) /\ enc2 \in [Ids -> Names \cup {"none"}]
    BY DEF IsTree
  <2>2. \A k \in Ids : enc2[k] \in Names \cup {"none"}
    BY <2>1
  <2>3. QED
    BY <2>1, <2>2, PathIs
<1>4. par \in [Ids -> 0..MaxIds] /\ Rooted(par) /\ ns \in SUBSET (0..MaxIds) /\ Root \in ns
  BY DEF IsTree
<1>5. \A k \in ShownIn(par, ns) : id \in ChainIn(par, k) => IsPrefix(from, path[k])
  BY AbovePrefix
<1>6. Moved(from, to, from) = to
  <2>1. IsPrefix(from, from)
    BY <1>2, PrefixLess
  <2>2. /\ Moved(from, to, from) \in Seq(Names)
        /\ Len(Moved(from, to, from)) = Len(to) + (Len(from) - Len(from))
        /\ \A k \in 1..Len(to) : Moved(from, to, from)[k] = to[k]
    BY <1>2, <2>1, MovedIs
  <2>3. Len(from) \in Nat /\ Len(to) \in Nat
    BY <1>2
  <2>4. Len(Moved(from, to, from)) = Len(to)
    BY <2>2, <2>3
  <2>5. QED
    BY <1>2, <2>2, <2>4, SameSeq
<1> HIDE DEF path, path2, from, to
<1>7. Root \in S
  BY <1>1
<1>8. ASSUME NEW k \in ShownIn(par, ns) \ {Root}, par[k] \in S PROVE k \in S
  <2>1. CASE k = id
    BY <1>6, <2>1 DEF from, to
  <2>2. CASE k # id
    <3>1. SUFFICES ASSUME id \in ChainIn(par, k) PROVE path2[k] = Moved(from, to, path[k])
      OBVIOUS
    <3>2. id \in ChainIn(par, par[k])
      BY <1>1, <2>2, <3>1
    <3>3. path2[par[k]] = Moved(from, to, path[par[k]])
      BY <1>8, <3>2
    <3>4. path2[k] = Append(path2[par[k]], enc[k])
      BY <1>1, <1>3, <2>2
    <3>5. /\ path[par[k]] \in Seq(Names) /\ enc[k] \in Names /\ IsPrefix(from, path[par[k]])
          /\ path[k] = Append(path[par[k]], enc[k])
      BY <1>1, <1>5, <3>2
    <3>6. Moved(from, to, Append(path[par[k]], enc[k])) = Append(Moved(from, to, path[par[k]]), enc[k])
      BY <1>2, <3>5, MovedAppend
    <3>7. QED
      BY <3>3, <3>4, <3>5, <3>6
  <2>3. QED
    BY <2>1, <2>2
<1>9. ShownIn(par, ns) \subseteq S
  <2> HIDE DEF S
  <2>1. QED
    BY <1>4, <1>7, <1>8, Downwards
<1>10. QED
  BY <1>9 DEF path, path2, from, to

-------------------------------------------------------------------------------
(* What a saved node is on the disk *)

OrderedBy(list, enc, sound, order) ==
  \A j, k \in 1..Len(list) : j < k /\ {list[j], list[k]} \subseteq sound =>
    Rank(order, enc[list[j]]) < Rank(order, enc[list[k]])
OnDisk(p, isLeaf, list, enc, sound, fs, ix) ==
  IF isLeaf THEN p \in fs ELSE p \in DOMAIN ix /\ OrderedBy(list, enc, sound, ix[p])

Kept(par, enc, ns, lfs, kids, lost, unsafe, fs, ix) ==
  \A i \in (ShownIn(par, ns) \ lost) \ unsafe :
    OnDisk(Paths(par, enc)[i], i \in lfs, kids[i], enc, ShownIn(par, ns) \ lost, fs, ix)

SavedInv == alive => Kept(parent, encoded, nodes, leafs, children, strays, unsaved, files, index)
SharingInv == Straying({}, nodes, parent, encoded) \subseteq strays

\* What is on the disk in a folder in view is in view, unless load() skips it.
ShownPaths(par, enc, ns) == {Paths(par, enc)[i] : i \in ShownIn(par, ns)}
InView(D, V) == \A p \in D \ {<<>>} : Front(p) \in V => p \in V \/ Stem[Last(p)] = ".index"
ViewInv == alive /\ strays = {} => InView(files \cup DOMAIN index, ShownPaths(parent, encoded, nodes))

\* A name an index file has once.
Only(order, n, k) == /\ k \in 1..Len(order) /\ order[k] = n
                     /\ \A j \in 1..Len(order) : order[j] = n => j = k

LEMMA RankOf ==
  ASSUME NEW order \in Seq(Names), NEW n, NEW k, Only(order, n, k)
  PROVE  Rank(order, n) = k
<1>1. n \in ToSet(order) /\ k \in 1..Len(order)
  BY DEF ToSet, Only
<1> DEFINE First(m) == order[m] = n /\ \A j \in 1..(m - 1) : order[j] # n
<1>2. Rank(order, n) = CHOOSE m \in 1..Len(order) : First(m)
  BY <1>1 DEF Rank
<1>3. First(k)
  BY DEF Only
<1>4. \A m \in 1..Len(order) : First(m) => m = k
  BY DEF Only
<1> HIDE DEF First
<1>5. QED
  BY <1>1, <1>2, <1>3, <1>4

\* An index file just written is in the order of the children.
LEMMA WrittenOrder ==
  ASSUME NEW par, NEW enc, NEW ns, IsTree(par, enc, ns), NEW list \in Seq(Ids), Distinct(list),
         NEW f, ToSet(list) = Below(par, ns, f),
         NEW sound, sound \cap Straying({}, ns, par, enc) = {},
         NEW order, order = [k \in 1..Len(list) |-> enc[list[k]]]
  PROVE  OrderedBy(list, enc, sound, order)
<1>1. /\ Len(list) \in Nat /\ \A k \in 1..Len(list) : list[k] \in ns \ {Root} /\ par[list[k]] = f
  BY DEF ToSet, Below
<1>2. \A k \in 1..Len(list) : enc[list[k]] \in Names /\ list[k] \in ChainIn(par, list[k])
  <2>1. \A i \in ns \ {Root} : enc[i] \in Names
    BY DEF IsTree
  <2>2. \A i \in ns : i \in ChainIn(par, i)
    BY ChainIs DEF IsTree
  <2>3. QED
    BY <1>1, <2>1, <2>2
<1>3. order \in Seq(Names) /\ Len(order) = Len(list) /\ \A k \in 1..Len(list) : order[k] = enc[list[k]]
  BY <1>1, <1>2
<1>4. ASSUME NEW k \in 1..Len(list), list[k] \in sound PROVE Rank(order, enc[list[k]]) = k
  <2>1. ASSUME NEW j \in 1..Len(list), order[j] = enc[list[k]] PROVE j = k
    <3>1. SUFFICES ASSUME list[j] # list[k] PROVE FALSE
      BY DEF Distinct
    <3>2. /\ list[k] \in ns /\ list[k] \in ns \ {Root} /\ list[k] \in ChainIn(par, list[k])
          /\ list[j] \in ns \ {Root, list[k]}
      BY <1>1, <1>2, <3>1
    <3>3. par[list[k]] = par[list[j]] /\ enc[list[k]] = enc[list[j]]
      BY <1>1, <1>3, <2>1
    <3>4. list[k] \in Straying({}, ns, par, enc)
      BY <3>2, <3>3, SharingIs
    <3>5. QED
      BY <1>4, <3>4
  <2>2. order \in Seq(Names) /\ Only(order, enc[list[k]], k)
    BY <1>3, <2>1 DEF Only
  <2>3. QED
    BY <2>2, RankOf
<1>5. SUFFICES ASSUME NEW j \in 1..Len(list), NEW k \in 1..Len(list), j < k,
                      {list[j], list[k]} \subseteq sound
               PROVE  Rank(order, enc[list[j]]) < Rank(order, enc[list[k]])
  BY DEF OrderedBy
<1>6. QED
  BY <1>4, <1>5

LEMMA OrderStays ==
  ASSUME NEW list, NEW enc, NEW enc2, NEW sound, NEW sound2, NEW order,
         OrderedBy(list, enc, sound, order),
         \A k \in 1..Len(list) : list[k] \in sound2 => list[k] \in sound /\ enc2[list[k]] = enc[list[k]]
  PROVE  OrderedBy(list, enc2, sound2, order)
BY DEF OrderedBy

\* Saving keeps what was on the disk where it is, and adds what it saves.
LEMMA SaveIsKept ==
  ASSUME nodes' \subseteq 0..MaxIds, Root \in nodes', leafs' \subseteq nodes' \ {Root},
         parent' \in [Ids -> 0..MaxIds], Rooted(parent'), CodeInv', DownInv', SharingInv',
         NEW fs, NEW ix, NEW marked \in SUBSET ShownIn(parent', nodes'), save(marked, fs, ix),
         Kept(parent', encoded', nodes', leafs', children', strays', unsaved \cup marked, fs, ix)
  PROVE  /\ SavedInv'
         /\ alive' => files' \cup DOMAIN index' \subseteq
                         fs \cup DOMAIN ix \cup ShownPaths(parent', encoded', nodes')
<1> DEFINE shown == ShownIn(parent', nodes')
           all == fs \cup DOMAIN ix \cup ShownPaths(parent', encoded', nodes')
<1> SUFFICES ASSUME alive'
             PROVE  /\ Kept(parent', encoded', nodes', leafs', children', strays', unsaved', files', index')
                    /\ files' \cup DOMAIN index' \subseteq all
  BY DEF SavedInv
<1>0. PICK todo \in {(unsaved \cup marked) \cap nodes'}, path \in {Paths(parent', encoded')} :
        Saves(todo, path, marked, fs, ix)
  BY DEF save
<1> DEFINE Closed(S) ==
             marked \subseteq S /\ \A i \in todo, j \in S :
               (j # Root /\ i = parent'[j]) \/ (i # Root /\ j = parent'[i]) => i \in S
           leafsIn(s) == s \cap leafs'
           folders(s) == s \ leafs'
           calledBack(s) == {i \in folders(s) : \E j \in s \ {Root} : parent'[j] = i}
           blocked(s) == {i \in folders(s) \ calledBack(s) : path[i] \in fs}
           made(s) == {path[i] : i \in folders(s) \ blocked(s)}
           directories(s) == DOMAIN ix \cup made(s)
           freed(s) == fs \ {path[i] : i \in folders(s)}
           throws(s) == \E p \in made(s) : p \notin DOMAIN ix /\ Front(p) \notin directories(s)
           Ends(s) ==
             /\ IF throws(s) THEN UNCHANGED faults ELSE calledBack(s) # {} /\ Fault
             /\ alive' = FALSE
             /\ files' = freed(s) /\ index' = ix
             /\ unsaved' = todo
           still(s, failed) == failed \cup blocked(s) \cup
             {i \in leafsIn(s) : Front(path[i]) \notin directories(s) \/ path[i] \in directories(s)}
           Written(s, failed, p) == {i \in folders(s) \ still(s, failed) : path[i] = p}
           Writes(s, failed) ==
             /\ IF failed = {} THEN UNCHANGED faults ELSE Fault
             /\ files' = freed(s) \cup {path[i] : i \in leafsIn(s) \ still(s, failed)}
             /\ index' = [p \in directories(s) |->
                  IF Written(s, failed, p) # {}
                  THEN indexFileWrite(CHOOSE i \in Written(s, failed, p) : TRUE)
                  ELSE IF p \in DOMAIN ix THEN ix[p] ELSE <<>>]
             /\ unsaved' = todo \ (s \ still(s, failed))
<1>1. PICK s \in SUBSET todo :
        /\ Closed(s) /\ \A S \in SUBSET s : Closed(S) => S = s
        /\ \/ Ends(s)
           \/ /\ ~throws(s) /\ \E failed \in SUBSET (s \ calledBack(s)) : Writes(s, failed)
              /\ UNCHANGED alive
  BY <1>0, Zenon DEF Saves
<1> HIDE DEF all, shown, Closed, Ends, Writes, leafsIn, folders, blocked, made, directories, freed,
             calledBack, throws, still, Written
<1>2. todo = (unsaved \cup marked) \cap nodes' /\ path = Paths(parent', encoded')
  OBVIOUS
<1>3. s \subseteq nodes' /\ Root \in 0..MaxIds /\ nodes' \in SUBSET (0..MaxIds)
  BY <1>1, <1>2, NodesAre
<1>4. /\ shown \subseteq nodes' /\ \A i \in shown \ {Root} : parent'[i] \in shown
      /\ \A i \in nodes' \ {Root} : parent'[i] \in shown => i \in shown
  BY <1>3, ShownIs DEF shown
<1>5. s \subseteq shown
  <2>1. Closed(s \cap shown)
    <3>1. marked \subseteq s /\ \A i \in todo, j \in s :
            (j # Root /\ i = parent'[j]) \/ (i # Root /\ j = parent'[i]) => i \in s
      BY <1>1 DEF Closed
    <3>2. marked \subseteq shown /\ todo \subseteq nodes'
      BY <1>2 DEF shown
    <3>3. ASSUME NEW i \in todo, NEW j \in s \cap shown,
                 (j # Root /\ i = parent'[j]) \/ (i # Root /\ j = parent'[i])
          PROVE  i \in s \cap shown
      BY <1>3, <1>4, <3>1, <3>2, <3>3
    <3>4. QED
      BY <3>1, <3>2, <3>3 DEF Closed
  <2>2. s \cap shown = s
    BY <1>1, <2>1
  <2>3. QED
    BY <2>2
<1>6. PICK failed \in SUBSET s : Writes(s, failed)
  BY <1>1 DEF Ends
<1> DEFINE dirs == directories(s)
           done == s \ still(s, failed)
<1>7. /\ files' = freed(s) \cup {path[i] : i \in leafsIn(s) \ still(s, failed)}
      /\ unsaved' = todo \ done
      /\ index' = [p \in dirs |->
           IF Written(s, failed, p) # {}
           THEN indexFileWrite(CHOOSE i \in Written(s, failed, p) : TRUE)
           ELSE IF p \in DOMAIN ix THEN ix[p] ELSE <<>>]
  BY <1>6 DEF Writes
<1>8. /\ dirs = DOMAIN ix \cup made(s)
      /\ made(s) = {path[i] : i \in folders(s) \ blocked(s)}
      /\ freed(s) = fs \ {path[i] : i \in folders(s)}
      /\ blocked(s) \subseteq still(s, failed) /\ blocked(s) \subseteq s
      /\ leafsIn(s) = s \cap leafs' /\ folders(s) = s \ leafs'
  BY DEF directories, made, freed, still, blocked, leafsIn, folders
<1>9. \A p : Written(s, failed, p) = {i \in folders(s) \ still(s, failed) : path[i] = p}
  BY DEF Written
<1> HIDE DEF dirs
<1>10. IsTree(parent', encoded', nodes')
  BY <1>3 DEF IsTree, CodeInv
<1> DEFINE sound == shown \ strays'
\* Nobody in view is at the path of a node that kept its own.
<1>11. ASSUME NEW i \in sound, NEW j \in shown, path[j] = path[i] PROVE j = i
  <2>1. i \in ShownIn(parent', nodes') \ Straying({}, nodes', parent', encoded')
    BY DEF SharingInv, shown
  <2>2. j \in ShownIn(parent', nodes') /\ Paths(parent', encoded')[j] = Paths(parent', encoded')[i]
    BY <1>2, <1>11 DEF shown
  <2>3. QED
    BY <1>10, <2>1, <2>2, PathsDiffer
<1>12. sound \cap Straying({}, nodes', parent', encoded') = {}
  BY DEF SharingInv
<1>13. files' \cup DOMAIN index' \subseteq all
  BY <1>2, <1>5, <1>7, <1>8 DEF ShownPaths, shown, all
<1>14. SUFFICES ASSUME NEW i \in sound \ unsaved'
                PROVE  OnDisk(path[i], i \in leafs', children'[i], encoded', sound, files', index')
  BY <1>2, <1>13 DEF Kept, shown
<1>15. i \in nodes' /\ i \in 0..MaxIds
  BY <1>3, <1>4
<1>16. CASE i \notin todo
  <2>1. OnDisk(path[i], i \in leafs', children'[i], encoded', sound, fs, ix)
    <3>1. i \notin unsaved \cup marked
      BY <1>2, <1>15, <1>16
    <3>2. QED
      BY <1>2, <3>1 DEF Kept, shown
  <2>2. \A j \in s : path[j] # path[i]
    BY <1>1, <1>5, <1>11, <1>16
  <2>3. CASE i \in leafs'
    <3>1. path[i] \in fs
      BY <2>1, <2>3 DEF OnDisk
    <3>2. path[i] \in files'
      BY <1>7, <1>8, <2>2, <3>1
    <3>3. QED
      BY <2>3, <3>2 DEF OnDisk
  <2>4. CASE i \notin leafs'
    <3>1. path[i] \in DOMAIN ix /\ OrderedBy(children'[i], encoded', sound, ix[path[i]])
      BY <2>1, <2>4 DEF OnDisk
    <3>2. Written(s, failed, path[i]) = {}
      BY <1>8, <1>9, <2>2
    <3>3. path[i] \in DOMAIN index' /\ index'[path[i]] = ix[path[i]]
      BY <1>7, <1>8, <3>1, <3>2
    <3>4. QED
      BY <2>4, <3>1, <3>3 DEF OnDisk
  <2>5. QED
    BY <2>3, <2>4
<1>17. CASE i \in todo
  <2>1. i \in s /\ i \notin still(s, failed)
    BY <1>7, <1>17
  <2>2. CASE i \in leafs'
    <3>1. path[i] \in files'
      BY <1>7, <1>8, <2>1, <2>2
    <3>2. QED
      BY <2>2, <3>1 DEF OnDisk
  <2>3. CASE i \notin leafs'
    <3>1. path[i] \in dirs
      BY <1>8, <2>1, <2>3
    <3>2. Written(s, failed, path[i]) = {i}
      <4>1. i \in Written(s, failed, path[i])
        BY <1>8, <1>9, <2>1, <2>3
      <4>2. \A j \in Written(s, failed, path[i]) : j = i
        BY <1>5, <1>8, <1>9, <1>11
      <4>3. QED
        BY <4>1, <4>2
    <3>3. path[i] \in DOMAIN index' /\ index'[path[i]] = indexFileWrite(i)
      BY <1>7, <3>1, <3>2
    <3> DEFINE list == children'[i]
               order == indexFileWrite(i)
    <3>4. list \in Seq(Ids) /\ Distinct(list) /\ ToSet(list) = Below(parent', nodes', i)
      BY <1>15, <2>3 DEF DownInv
    <3>5. order = [k \in 1..Len(list) |-> encoded'[list[k]]]
      BY DEF indexFileWrite
    <3> HIDE DEF list, order, sound
    <3>6. OrderedBy(list, encoded', sound, order)
      BY <1>10, <1>12, <3>4, <3>5, WrittenOrder
    <3>7. QED
      BY <2>3, <3>3, <3>6 DEF OnDisk, list, order
  <2>4. QED
    BY <2>2, <2>3
<1>18. QED
  BY <1>16, <1>17


-------------------------------------------------------------------------------
(* What is saved stays on the disk *)

LEMMA TreeNow ==
  ASSUME IInv
  PROVE  /\ IsTree(parent, encoded, nodes) /\ Shown = ShownIn(parent, nodes)
         /\ parent \in [Ids -> 0..MaxIds] /\ Rooted(parent)
         /\ nodes \in SUBSET (0..MaxIds) /\ Root \in nodes
         /\ \A i \in Ids : encoded[i] \in Names \cup {"none"}
<1>1. MemoryInv /\ UpInv /\ CodeInv
  BY DEF IInv
<1>2. nodes \in SUBSET (0..MaxIds) /\ Root \in nodes /\ Shown = ShownIn(parent, nodes)
  BY <1>1, NodesInBounds
<1>3. parent \in [Ids -> 0..MaxIds] /\ Rooted(parent)
  BY <1>1 DEF UpInv
<1>4. encoded \in [Ids -> Names \cup {"none"}] /\ \A i \in nodes \ {Root} : encoded[i] \in Names
  BY <1>1 DEF CodeInv
<1>5. QED
  BY <1>2, <1>3, <1>4 DEF IsTree

LEMMA TreeNext ==
  ASSUME IInv'
  PROVE  /\ IsTree(parent', encoded', nodes')
         /\ parent' \in [Ids -> 0..MaxIds] /\ Rooted(parent')
         /\ nodes' \in SUBSET (0..MaxIds) /\ Root \in nodes'
         /\ \A i \in Ids : encoded'[i] \in Names \cup {"none"}
<1>1. MemoryInv' /\ UpInv' /\ CodeInv'
  BY DEF IInv
<1>2. nodes' \in SUBSET (0..MaxIds) /\ Root \in nodes'
  BY <1>1, NodesInBoundsNext
<1>3. parent' \in [Ids -> 0..MaxIds] /\ Rooted(parent')
  BY <1>1 DEF UpInv
<1>4. encoded' \in [Ids -> Names \cup {"none"}] /\ \A i \in nodes' \ {Root} : encoded'[i] \in Names
  BY <1>1 DEF CodeInv
<1>5. QED
  BY <1>2, <1>3, <1>4 DEF IsTree

LEMMA SavedAfter ==
  ASSUME IInv', SharingInv', NEW fs, NEW ix,
         NEW marked \in SUBSET ShownIn(parent', nodes'), save(marked, fs, ix),
         Kept(parent', encoded', nodes', leafs', children', strays', unsaved \cup marked, fs, ix),
         strays' = {} => InView(fs \cup DOMAIN ix, ShownPaths(parent', encoded', nodes'))
  PROVE  SavedInv' /\ ViewInv'
<1>1. MemoryInv' /\ UpInv' /\ CodeInv' /\ DownInv'
  BY DEF IInv
<1>2. nodes' \subseteq 0..MaxIds /\ Root \in nodes' /\ leafs' \subseteq nodes' \ {Root}
  BY <1>1, NodesInBoundsNext
<1>3. parent' \in [Ids -> 0..MaxIds] /\ Rooted(parent')
  BY <1>1 DEF UpInv
<1> DEFINE V == ShownPaths(parent', encoded', nodes')
<1>4. SavedInv' /\ (alive' => files' \cup DOMAIN index' \subseteq fs \cup DOMAIN ix \cup V)
  BY <1>1, <1>2, <1>3, SaveIsKept
<1>5. alive' /\ strays' = {} => InView(files' \cup DOMAIN index', V)
  BY <1>4 DEF InView
<1>6. QED
  BY <1>4, <1>5 DEF ViewInv

LEMMA SavedNode ==
  ASSUME SavedInv, alive, NEW i \in (ShownIn(parent, nodes) \ strays) \ unsaved
  PROVE  OnDisk(Paths(parent, encoded)[i], i \in leafs, children[i], encoded,
                ShownIn(parent, nodes) \ strays, files, index)
BY DEF SavedInv, Kept

\* What was on the disk is there after a rename, where it was moved to.
LEMMA MovedOnDisk ==
  ASSUME DiskIs(files, index), NEW from \in Seq(Names), NEW to \in Seq(Names), Renames(from, to),
         NEW p, NEW isLeaf, NEW list, NEW enc, NEW enc2, NEW sound, NEW sound2,
         OnDisk(p, isLeaf, list, enc, sound, files, index),
         ~isLeaf => \A k \in 1..Len(list) : list[k] \in sound2 =>
                      list[k] \in sound /\ enc2[list[k]] = enc[list[k]]
  PROVE  OnDisk(Moved(from, to, p), isLeaf, list, enc2, sound2, MovedFiles(from, to), MovedIndex(from, to))
<1>1. CASE isLeaf
  <2>1. p \in files
    BY <1>1 DEF OnDisk
  <2>2. Moved(from, to, p) \in MovedFiles(from, to)
    BY <2>1 DEF MovedFiles
  <2>3. QED
    BY <1>1, <2>2 DEF OnDisk
<1>2. CASE ~isLeaf
  <2>1. p \in DOMAIN index /\ OrderedBy(list, enc, sound, index[p])
    BY <1>2 DEF OnDisk
  <2>2. /\ Moved(from, to, p) \in DOMAIN MovedIndex(from, to)
        /\ MovedIndex(from, to)[Moved(from, to, p)] = index[p]
    BY <2>1, MovedIndexIs
  <2>3. OrderedBy(list, enc2, sound2, index[p])
    BY <1>2, <2>1, OrderStays
  <2>4. QED
    BY <1>2, <2>2, <2>3 DEF OnDisk
<1>3. QED
  BY <1>1, <1>2

\* Siblings that share a path are known, whatever has been added to the known.
LEMMA SharingStays ==
  ASSUME NEW S, Straying(S, nodes', parent', encoded') \subseteq strays'
  PROVE  SharingInv'
BY StrayingGrows DEF SharingInv

LEMMA ReplaceSaves ==
  ASSUME IInv, IInv', SharingInv, SavedInv, ViewInv, NEW id \in Ids, leafReplace(id)
  PROVE  SharingInv' /\ SavedInv' /\ ViewInv'
<1>1. /\ id \in Shown /\ alive
      /\ nodes' = nodes /\ leafs' = leafs /\ parent' = parent /\ encoded' = encoded
      /\ children' = children /\ strays' = strays
      /\ save({id}, files, index)
  BY DEF leafReplace, memory
<1>2. SharingInv'
  BY <1>1 DEF SharingInv
<1>3. {id} \in SUBSET ShownIn(parent', nodes')
  BY <1>1, TreeNow
<1>4. Kept(parent', encoded', nodes', leafs', children', strays', unsaved \cup {id}, files, index)
  BY <1>1 DEF SavedInv, Kept
<1>5. strays' = {} => InView(files \cup DOMAIN index, ShownPaths(parent', encoded', nodes'))
  BY <1>1 DEF ViewInv
<1>6. QED
  BY <1>1, <1>2, <1>3, <1>4, <1>5, SavedAfter

LEMMA SameParentSaves ==
  ASSUME IInv, IInv', SharingInv, SavedInv, ViewInv, NEW id \in Ids, NEW folder, NEW at,
         moveUnderSameParent(id, folder, at)
  PROVE  SharingInv' /\ SavedInv' /\ ViewInv'
<1> DEFINE list == InsertAt(RemoveFirst(children[folder], id),
                            IF \E k \in 1..at : children[folder][k] = id THEN at ELSE at + 1, id)
<1>1. /\ id \in Shown /\ folder \in Shown /\ alive
      /\ nodes' = nodes /\ leafs' = leafs /\ parent' = parent /\ encoded' = encoded
      /\ children' = [children EXCEPT ![folder] = list] /\ strays' = strays
      /\ save({id, folder}, files, index)
  BY Zenon DEF moveUnderSameParent, Movable, Folders
<1> HIDE DEF list
<1>2. SharingInv'
  BY <1>1 DEF SharingInv
<1>3. {id, folder} \in SUBSET ShownIn(parent', nodes')
  BY <1>1, TreeNow
<1>4. Kept(parent', encoded', nodes', leafs', children', strays', unsaved \cup {id, folder}, files, index)
  <2>1. SUFFICES ASSUME NEW i \in (ShownIn(parent, nodes) \ strays) \ (unsaved \cup {id, folder})
                 PROVE  OnDisk(Paths(parent, encoded)[i], i \in leafs, children'[i], encoded,
                               ShownIn(parent, nodes) \ strays, files, index)
    BY <1>1 DEF Kept
  <2>2. i \in 0..MaxIds /\ children \in [0..MaxIds -> Seq(Ids)]
    BY TreeNow, TreePaths DEF IInv, DownInv
  <2>3. children'[i] = children[i]
    BY <1>1, <2>2
  <2>4. QED
    BY <1>1, <2>3, SavedNode
<1>5. strays' = {} => InView(files \cup DOMAIN index, ShownPaths(parent', encoded', nodes'))
  BY <1>1 DEF ViewInv
<1>6. QED
  BY <1>1, <1>2, <1>3, <1>4, <1>5, SavedAfter

\* One node gets another parent or another code: everything is where a rename
\* of its path moves it, unless it shared its own.
LEMMA PathAfter ==
  ASSUME NEW par, NEW enc, NEW par2, NEW enc2, NEW ns, IsTree(par, enc, ns), IsTree(par2, enc2, ns),
         NEW id \in ShownIn(par, ns) \ {Root}, id \in ShownIn(par2, ns),
         \A k \in Ids \ {id} : par2[k] = par[k] /\ enc2[k] = enc[k],
         NEW i \in ShownIn(par, ns) \ Straying({}, ns, par, enc)
  PROVE  Paths(par2, enc2)[i] = Moved(Paths(par, enc)[id], Paths(par2, enc2)[id], Paths(par, enc)[i])
<1>1. CASE id \in ChainIn(par, i)
  BY <1>1, PathMoves
<1>2. CASE id \notin ChainIn(par, i)
  <2>1. par \in [Ids -> 0..MaxIds] /\ Rooted(par)
    BY DEF IsTree
  <2>2. /\ Paths(par, enc)[i] \in Seq(Names) /\ Paths(par, enc)[id] \in Seq(Names)
        /\ Paths(par2, enc2)[id] \in Seq(Names) /\ i \in 0..MaxIds
    BY TreePaths
  <2>3. \A a \in ChainIn(par, i) \ {Root} : a \in Ids \ {id}
    <3>1. ChainIn(par, i) \subseteq 0..MaxIds
      BY <2>1, <2>2, ChainIs
    <3>2. QED
      BY <1>2, <3>1, NodesAre
  <2>4. \A a \in ChainIn(par, i) \ {Root} : par2[a] = par[a] /\ enc2[a] = enc[a]
    BY <2>3
  <2>5. Paths(par2, enc2)[i] = Paths(par, enc)[i]
    BY <2>2, <2>4, SamePath
  <2>6. ~IsPrefix(Paths(par, enc)[id], Paths(par, enc)[i])
    BY <1>2, PathsApart
  <2>7. QED
    BY <2>2, <2>5, <2>6, MovedIs
<1>3. QED
  BY <1>1, <1>2

\* The children of a folder.
LEMMA ChildrenAre ==
  ASSUME DownInv, MemoryInv, UpInv, NEW i \in Shown, i \notin leafs
  PROVE  /\ children[i] \in Seq(Ids) /\ Distinct(children[i]) /\ i \in 0..MaxIds
         /\ \A k \in 1..Len(children[i]) :
              children[i][k] \in nodes \ {Root} /\ parent[children[i][k]] = i
<1>1. i \in nodes \ leafs /\ i \in 0..MaxIds
  BY NodesInBounds
<1>2. children[i] \in Seq(Ids) /\ Distinct(children[i]) /\ ToSet(children[i]) = Below(parent, nodes, i)
  BY <1>1 DEF DownInv
<1>3. \A k \in 1..Len(children[i]) : children[i][k] \in ToSet(children[i])
  BY <1>2 DEF ToSet
<1>4. QED
  BY <1>1, <1>2, <1>3 DEF Below

LEMMA NotBelowItself ==
  ASSUME NEW par, NEW enc, NEW ns, IsTree(par, enc, ns), NEW id \in ShownIn(par, ns) \ {Root}
  PROVE  par[id] # id /\ id \notin ChainIn(par, par[id])
<1>1. /\ par \in [Ids -> 0..MaxIds] /\ Rooted(par) /\ id \in Ids
      /\ par[id] \in ShownIn(par, ns) /\ ChainIn(par, id) = {id} \cup ChainIn(par, par[id])
  BY TreePaths, ZenonT(30) DEF IsTree
<1>2. par[id] \in ChainIn(par, par[id])
  BY <1>1, TreePaths
<1>3. par[id] # id
  <2>1. {id} \in (SUBSET Ids) \ {{}}
    BY <1>1
  <2>2. QED
    BY <1>1, <2>1 DEF Rooted
<1>4. ASSUME id \in ChainIn(par, par[id]) PROVE FALSE
  <2> DEFINE p == Paths(par, enc)[par[id]]
             q == Paths(par, enc)[id]
  <2>1. IsPrefix(q, p) /\ (Len(q) = Len(p) => id = par[id])
    BY <1>1, <1>4, AbovePrefix
  <2>2. IsPrefix(p, q)
    BY <1>1, <1>2, AbovePrefix
  <2>3. p \in Seq(Names) /\ q \in Seq(Names)
    BY <1>1, TreePaths
  <2> HIDE DEF p, q
  <2>4. Len(q) <= Len(p) /\ Len(p) <= Len(q) /\ Len(p) \in Nat /\ Len(q) \in Nat
    BY <2>1, <2>2, <2>3, PrefixLess
  <2>5. QED
    BY <1>3, <2>1, <2>4
<1>5. QED
  BY <1>3, <1>4

\* Where the node itself then is.
LEMMA PathThere ==
  ASSUME NEW par, NEW enc, NEW par2, NEW enc2, NEW ns, IsTree(par, enc, ns), IsTree(par2, enc2, ns),
         NEW id \in ShownIn(par, ns) \ {Root}, id \in ShownIn(par2, ns),
         \A k \in Ids \ {id} : par2[k] = par[k] /\ enc2[k] = enc[k],
         id \notin ChainIn(par, par2[id])
  PROVE  Paths(par2, enc2)[id] = Append(Paths(par, enc)[par2[id]], enc2[id])
<1>1. par2[id] \in ShownIn(par2, ns) /\ Paths(par2, enc2)[id] = Append(Paths(par2, enc2)[par2[id]], enc2[id])
  BY TreePaths
<1>2. par2[id] \in 0..MaxIds /\ par \in [Ids -> 0..MaxIds] /\ Rooted(par)
  <2>1. ns \in SUBSET (0..MaxIds) /\ par \in [Ids -> 0..MaxIds] /\ Rooted(par)
    BY DEF IsTree
  <2>2. ShownIn(par2, ns) \subseteq ns
    BY TreePaths
  <2>3. QED
    BY <1>1, <2>1, <2>2
<1>3. ChainIn(par, par2[id]) \subseteq 0..MaxIds
  BY <1>2, ChainIs
<1>4. \A a \in ChainIn(par, par2[id]) \ {Root} : a \in Ids \ {id}
  BY <1>3, NodesAre
<1>5. \A a \in ChainIn(par, par2[id]) \ {Root} : par2[a] = par[a] /\ enc2[a] = enc[a]
  BY <1>4
<1> DEFINE f == par2[id]
<1>6. Paths(par2, enc2)[f] = Paths(par, enc)[f]
  BY <1>2, <1>5, SamePath
<1>7. QED
  BY <1>1, <1>6

\* The directory tree is renamed as the tree in memory is changed.
LEMMA RelocatedKept ==
  ASSUME IInv, SharingInv, SavedInv, alive, NEW par2, NEW enc2, IsTree(par2, enc2, nodes),
         ShownIn(par2, nodes) = ShownIn(parent, nodes), NEW id \in ShownIn(parent, nodes) \ {Root},
         \A k \in Ids \ {id} : par2[k] = parent[k] /\ enc2[k] = encoded[k],
         NEW from, from = Paths(parent, encoded)[id], NEW to, to = Paths(par2, enc2)[id],
         Renames(from, to), NEW lost, strays \subseteq lost,
         NEW marked, parent[id] \in marked,
         NEW kids, \A f \in 0..MaxIds : f \notin marked => kids[f] = children[f]
  PROVE  Kept(par2, enc2, nodes, leafs, kids, lost, unsaved \cup marked,
              MovedFiles(from, to), MovedIndex(from, to))
<1>0. MemoryInv /\ UpInv /\ DownInv /\ DiskIs(files, index)
  BY DEF IInv
<1>1. /\ IsTree(parent, encoded, nodes) /\ Shown = ShownIn(parent, nodes)
      /\ from \in Seq(Names) /\ to \in Seq(Names)
  <2>1. IsTree(parent, encoded, nodes) /\ Shown = ShownIn(parent, nodes)
    BY TreeNow
  <2>2. Paths(parent, encoded)[id] \in Seq(Names) /\ Paths(par2, enc2)[id] \in Seq(Names)
    BY <2>1, TreePaths
  <2>3. QED
    BY <2>1, <2>2
<1>2. SUFFICES ASSUME NEW i \in (ShownIn(parent, nodes) \ lost) \ (unsaved \cup marked)
               PROVE  OnDisk(Paths(par2, enc2)[i], i \in leafs, kids[i], enc2,
                             ShownIn(parent, nodes) \ lost, MovedFiles(from, to), MovedIndex(from, to))
  BY DEF Kept
<1> DEFINE sound == ShownIn(parent, nodes) \ strays
           sound2 == ShownIn(parent, nodes) \ lost
           p == Paths(parent, encoded)[i]
           isLeaf == i \in leafs
           list == children[i]
<1>3. sound2 \subseteq sound /\ i \in sound /\ i \notin unsaved
  OBVIOUS
<1>4. OnDisk(p, isLeaf, list, encoded, sound, files, index)
  BY <1>3, SavedNode
<1>5. Paths(par2, enc2)[i] = Moved(from, to, p)
  <2>1. i \in ShownIn(parent, nodes) \ Straying({}, nodes, parent, encoded)
    BY DEF SharingInv
  <2>2. id \in ShownIn(par2, nodes)
    OBVIOUS
  <2>3. QED
    BY <1>1, <2>1, <2>2, PathAfter
<1>6. ASSUME ~isLeaf, NEW k \in 1..Len(list) PROVE enc2[list[k]] = encoded[list[k]]
  <2>1. list[k] \in nodes \ {Root} /\ parent[list[k]] = i
    BY <1>0, <1>1, <1>6, ChildrenAre
  <2>2. list[k] \in Ids \ {id}
    BY <2>1, TreeNow, NodesAre
  <2>3. QED
    BY <2>2
<1>7. kids[i] = list
  BY <1>1, TreePaths
<1> HIDE DEF p, isLeaf, list, sound, sound2
<1>8. ~isLeaf => \A k \in 1..Len(list) :
        list[k] \in sound2 => list[k] \in sound /\ enc2[list[k]] = encoded[list[k]]
  BY <1>3, <1>6
<1>9. OnDisk(Moved(from, to, p), isLeaf, list, enc2, sound2, MovedFiles(from, to), MovedIndex(from, to))
  BY <1>0, <1>1, <1>4, <1>8, MovedOnDisk
<1>10. QED
  BY <1>5, <1>7, <1>9 DEF isLeaf, sound2

\* As long as no path is lost, moving moves what is in view and no more.
LEMMA RelocatedView ==
  ASSUME IInv, ViewInv, alive, strays = {}, NEW par2, NEW enc2, IsTree(par2, enc2, nodes),
         Straying({}, nodes, parent, encoded) = {}, Straying({}, nodes, par2, enc2) = {},
         ShownIn(par2, nodes) = ShownIn(parent, nodes), NEW id \in ShownIn(parent, nodes) \ {Root},
         \A k \in Ids \ {id} : par2[k] = parent[k] /\ enc2[k] = encoded[k],
         NEW from, from = Paths(parent, encoded)[id], NEW to, to = Paths(par2, enc2)[id],
         Renames(from, to)
  PROVE  InView(MovedFiles(from, to) \cup DOMAIN MovedIndex(from, to), ShownPaths(par2, enc2, nodes))
<1> DEFINE now == ShownIn(parent, nodes)
           D == files \cup DOMAIN index
           path == Paths(parent, encoded)
           path2 == Paths(par2, enc2)
           m(p) == Moved(from, to, p)
<1>1. IsTree(parent, encoded, nodes) /\ DiskIs(files, index)
  BY TreeNow DEF IInv
<1>2. /\ D \subseteq Seq(Names) /\ files \cap DOMAIN index = {} /\ <<>> \in D
      /\ \A p \in D \ {<<>>} : Front(p) \in DOMAIN index /\ Front(p) \in Seq(Names)
  BY <1>1 DEF DiskIs
<1>3. /\ from \in Seq(Names) /\ from # <<>> /\ to \in Seq(Names) /\ to # <<>> /\ id \in now
      /\ \A k \in now : path[k] \in Seq(Names) /\ k \in 0..MaxIds
  <2>1. /\ \A k \in now : path[k] \in Seq(Names) /\ k \in 0..MaxIds
        /\ path[id] = Append(path[parent[id]], encoded[id]) /\ encoded[id] \in Names
        /\ parent[id] \in now
    BY <1>1, TreePaths
  <2>2. /\ path2[id] = Append(path2[par2[id]], enc2[id]) /\ enc2[id] \in Names
        /\ path2[par2[id]] \in Seq(Names)
    BY TreePaths
  <2>3. from # <<>> /\ to # <<>>
    BY <2>1, <2>2, FrontOfAppend
  <2>4. to \in Seq(Names)
    BY <2>2
  <2>5. QED
    BY <2>1, <2>3, <2>4
<1>4. \A k \in now : path2[k] = m(path[k])
  BY <1>1, PathAfter
<1>5. /\ MovedFiles(from, to) \cup DOMAIN MovedIndex(from, to) = {m(p) : p \in D}
      /\ ShownPaths(parent, encoded, nodes) = {path[k] : k \in now}
      /\ ShownPaths(par2, enc2, nodes) = {path2[k] : k \in now}
  BY DEF MovedFiles, MovedIndex, ShownPaths
<1>6. Renames(from, to) /\ (Exists(to) => from = to \/ {from, to} \subseteq files)
  BY DEF Renames
<1>7. InView(D, {path[k] : k \in now})
  BY <1>5 DEF ViewInv
<1> HIDE DEF path, path2, m, D, now
<1>8. ASSUME NEW p \in D, m(p) # <<>>, NEW k \in now, Front(m(p)) = path2[k]
      PROVE  (\E j \in now : m(p) = path2[j]) \/ Stem[Last(m(p))] = ".index"
  <2>1. CASE p = from
    BY <1>3, <1>4, <2>1 DEF path
  <2>2. CASE p # from
    <3> DEFINE q == Front(p)
    <3>1. p # <<>> /\ p \in Seq(Names)
      <4>1. Len(from) # 0 /\ Len(from) \in Nat /\ <<>> \in Seq(Names)
        BY <1>3
      <4>2. ~IsPrefix(from, <<>>)
        BY <4>1 DEF IsPrefix
      <4>3. m(<<>>) = <<>>
        BY <1>3, <4>1, <4>2, MovedIs DEF m
      <4>4. QED
        BY <1>2, <1>8, <4>3
    <3>2. q \in DOMAIN index /\ q \in Seq(Names)
      BY <1>2, <3>1
    <3>3. m(q) = m(path[k]) /\ path[k] \in Seq(Names)
      <4>1. Front(m(p)) = m(Front(p))
        BY <1>3, <2>2, <3>1, MovedFront DEF m
      <4>2. QED
        BY <1>3, <1>4, <1>8, <4>1
    <3>4. Append(q, Last(p)) = p /\ Last(p) \in Names
      BY <3>1, FrontIs, FrontAndLast
    <3> HIDE DEF q
    \* What is in a folder was in it before.
    <3>5. q = path[k]
      <4>1. CASE IsPrefix(from, q) /\ IsPrefix(from, path[k])
        BY <1>3, <3>2, <3>3, <4>1, MovedApart DEF m
      <4>2. CASE ~IsPrefix(from, q) /\ ~IsPrefix(from, path[k])
        <5>1. m(q) = q
          BY <1>3, <3>2, <4>2, MovedIs DEF m
        <5>2. m(path[k]) = path[k]
          BY <1>3, <3>3, <4>2, MovedIs, ZenonT(30) DEF m
        <5>3. QED
          BY <3>3, <5>1, <5>2
      <4>3. CASE IsPrefix(from, q) /\ ~IsPrefix(from, path[k])
        <5>1. IsPrefix(to, m(q)) /\ m(path[k]) = path[k]
          BY <1>3, <3>2, <3>3, <4>3, MovedOver, MovedIs DEF m
        <5>2. IsPrefix(path2[id], path2[k])
          BY <1>4, <3>3, <5>1 DEF path2
        <5>3. id \in ChainIn(par2, k)
          BY <1>3, <5>2, PathsApart DEF path2, now
        <5>4. id \in ChainIn(parent, k)
          <6>1. SUFFICES ASSUME id \notin ChainIn(parent, k) PROVE FALSE
            OBVIOUS
          <6>2. k \in 0..MaxIds /\ ChainIn(parent, k) \subseteq 0..MaxIds
            BY <1>1, <1>3, ChainIs DEF IsTree
          <6>3. \A a \in ChainIn(parent, k) \ {Root} : a \in Ids \ {id}
            BY <6>1, <6>2, NodesAre
          <6>4. \A a \in ChainIn(parent, k) \ {Root} : par2[a] = parent[a] /\ enc2[a] = encoded[a]
            BY <6>3
          <6>5. ChainIn(par2, k) = ChainIn(parent, k)
            BY <1>1, <6>2, <6>4, SamePath
          <6>6. QED
            BY <5>3, <6>1, <6>5
        <5>5. IsPrefix(path[id], path[k])
          BY <1>1, <5>4, AbovePrefix DEF path, now
        <5>6. QED
          BY <4>3, <5>5 DEF path
      <4>4. CASE ~IsPrefix(from, q) /\ IsPrefix(from, path[k])
        <5>1. IsPrefix(to, m(path[k])) /\ m(q) = q
          BY <1>3, <3>2, <3>3, <4>4, MovedOver, MovedIs DEF m
        <5>2. IsPrefix(to, q)
          BY <3>3, <5>1
        <5>3. to \in DOMAIN index
          BY <1>1, <1>3, <3>2, <5>2, AboveIsDirectory
        <5>4. from = to
          BY <1>2, <1>6, <5>3 DEF Exists
        <5>5. QED
          BY <4>4, <5>2, <5>4
      <4>5. QED
        BY <4>1, <4>2, <4>3, <4>4
    <3>6. CASE \E j \in now : p = path[j]
      BY <1>4, <3>6
    <3>7. CASE Stem[Last(p)] = ".index"
      <4>1. CASE ~IsPrefix(from, p)
        <5>1. m(p) = p
          BY <1>3, <3>1, <4>1, MovedIs DEF m
        <5>2. QED
          BY <3>7, <5>1
      <4>2. CASE IsPrefix(from, p)
        <5> DEFINE e == Last(p)
        <5>1. Append(q, e) = p /\ e \in Names
          BY <3>4
        <5> HIDE DEF e
        <5>2. IsPrefix(from, Append(q, e)) /\ from # Append(q, e)
          BY <2>2, <4>2, <5>1
        <5>3. IsPrefix(from, q)
          BY <1>3, <3>2, <5>1, <5>2, PrefixAppend
        <5>4. m(Append(q, e)) = Append(m(q), e)
          <6>1. from \in Seq(Names) /\ to \in Seq(Names) /\ q \in Seq(Names) /\ e \in Names
            BY <1>3, <3>2, <5>1
          <6>2. Moved(from, to, Append(q, e)) = Append(Moved(from, to, q), e)
            BY <5>3, <6>1, MovedAppend
          <6>3. QED
            BY <6>2 DEF m
        <5>5. m(q) \in Seq(Names)
          BY <1>3, <3>2, MovedIs DEF m
        <5>6. Last(m(p)) = e
          BY <5>1, <5>4, <5>5, FrontOfAppend
        <5>7. QED
          BY <3>7, <5>6 DEF e
      <4>3. QED
        BY <4>1, <4>2
    <3>8. (\E j \in now : p = path[j]) \/ Stem[Last(p)] = ".index"
      BY <1>7, <1>8, <3>1, <3>5 DEF InView, q
    <3>9. QED
      BY <3>6, <3>7, <3>8
  <2>3. QED
    BY <2>1, <2>2
<1>9. QED
  BY <1>5, <1>8 DEF InView

LEMMA RenameSaves ==
  ASSUME IInv, IInv', SharingInv, SavedInv, ViewInv, NEW id \in Ids, NEW n \in Names, rename(id, n)
  PROVE  SharingInv' /\ SavedInv' /\ ViewInv'
<1> DEFINE from == getNodePath(id)
           to == Append(Front(from), n)
           up == parent[id]
<1>1. /\ id \in Shown \ {Root} /\ alive /\ Renames(from, to)
      /\ encoded' = [encoded EXCEPT ![id] = n]
      /\ strays' = strays \cup Straying({}, nodes, parent, encoded')
      /\ nodes' = nodes /\ leafs' = leafs /\ parent' = parent /\ children' = children
      /\ save({id, up}, MovedFiles(from, to), MovedIndex(from, to))
  BY DEF rename, SetValue
<1>2. SharingInv'
  <2>1. Straying({}, nodes', parent', encoded') \subseteq strays'
    BY <1>1
  <2>2. QED
    BY <2>1, SharingStays
<1>3. /\ IsTree(parent, encoded, nodes) /\ IsTree(parent, encoded', nodes)
      /\ id \in ShownIn(parent, nodes) \ {Root}
  BY <1>1, TreeNow, TreeNext
<1>4. up \in ShownIn(parent, nodes)
  BY <1>3, TreePaths
<1>5. encoded'[id] = n /\ \A k \in Ids \ {id} : parent[k] = parent[k] /\ encoded'[k] = encoded[k]
  <2>1. encoded \in [Ids -> Names \cup {"none"}]
    BY DEF IInv, CodeInv
  <2>2. QED
    BY <1>1, <2>1
<1>6. from = Paths(parent, encoded)[id] /\ to = Paths(parent, encoded')[id]
  <2>0. from = Paths(parent, encoded)[id]
    BY DEF getNodePath
  <2>1. /\ Paths(parent, encoded)[id] = Append(Paths(parent, encoded)[up], encoded[id])
        /\ encoded[id] \in Names /\ Paths(parent, encoded)[up] \in Seq(Names)
    BY <1>3, <1>4, TreePaths
  <2>2. Front(Paths(parent, encoded)[id]) = Paths(parent, encoded)[up]
    BY <2>1, FrontOfAppend
  <2>3. id \notin ChainIn(parent, up)
    BY <1>3, NotBelowItself
  <2>4. Paths(parent, encoded')[id] = Append(Paths(parent, encoded)[up], n)
    BY <1>3, <1>5, <2>3, PathThere
  <2>5. QED
    BY <2>0, <2>2, <2>4
<1> HIDE DEF from, to, up
<1>7. Kept(parent', encoded', nodes', leafs', children', strays', unsaved \cup {id, up},
           MovedFiles(from, to), MovedIndex(from, to))
  <2>1. parent[id] \in {id, up} /\ strays \subseteq strays'
    BY <1>1 DEF up
  <2>2. Kept(parent, encoded', nodes, leafs, children, strays', unsaved \cup {id, up},
             MovedFiles(from, to), MovedIndex(from, to))
    BY <1>1, <1>3, <1>5, <1>6, <2>1, RelocatedKept
  <2>3. QED
    BY <1>1, <2>2
<1>8. {id, up} \in SUBSET ShownIn(parent', nodes')
  BY <1>1, <1>3, <1>4
<1>9. strays' = {} => InView(MovedFiles(from, to) \cup DOMAIN MovedIndex(from, to),
                             ShownPaths(parent', encoded', nodes'))
  <2>1. SUFFICES ASSUME strays' = {}
                 PROVE  InView(MovedFiles(from, to) \cup DOMAIN MovedIndex(from, to),
                               ShownPaths(parent, encoded', nodes))
    BY <1>1
  <2>2. /\ strays = {} /\ Straying({}, nodes, parent, encoded') = {}
        /\ Straying({}, nodes, parent, encoded) = {}
    BY <1>1, <2>1 DEF SharingInv
  <2>3. QED
    BY <1>1, <1>3, <1>5, <1>6, <2>2, RelocatedView
<1>10. QED
  BY <1>1, <1>2, <1>7, <1>8, <1>9, SavedAfter

LEMMA StillOnDisk ==
  ASSUME NEW p, NEW isLeaf, NEW list, NEW enc, NEW enc2, NEW sound, NEW sound2, NEW fs, NEW ix,
         OnDisk(p, isLeaf, list, enc, sound, fs, ix),
         ~isLeaf => \A k \in 1..Len(list) : list[k] \in sound2 =>
                      list[k] \in sound /\ enc2[list[k]] = enc[list[k]]
  PROVE  OnDisk(p, isLeaf, list, enc2, sound2, fs, ix)
BY OrderStays DEF OnDisk

LEMMA RenameFailsSaves ==
  ASSUME IInv, IInv', SharingInv, SavedInv, ViewInv, NEW id \in Ids, NEW n \in Names, renameFails(id, n)
  PROVE  SharingInv' /\ SavedInv' /\ ViewInv'
<1>0. MemoryInv /\ UpInv /\ DownInv
  BY DEF IInv
<1>1. /\ id \in Shown \ {Root} /\ alive
      /\ encoded' = [encoded EXCEPT ![id] = n]
      /\ strays' = strays \cup Straying({id}, nodes, parent, encoded')
      /\ nodes' = nodes /\ leafs' = leafs /\ parent' = parent /\ children' = children
      /\ unsaved' = unsaved /\ files' = files /\ index' = index
  BY DEF renameFails, SetValue, disk
<1>2. SharingInv'
  <2>1. Straying({id}, nodes', parent', encoded') \subseteq strays'
    BY <1>1
  <2>2. QED
    BY <2>1, SharingStays
<1>3. /\ IsTree(parent, encoded, nodes) /\ IsTree(parent, encoded', nodes)
      /\ Shown = ShownIn(parent, nodes) /\ id \in ShownIn(parent, nodes) \ {Root}
  BY <1>1, TreeNow, TreeNext
<1>4. \A k \in Ids \ {id} : encoded'[k] = encoded[k]
  <2>1. encoded \in [Ids -> Names \cup {"none"}]
    BY DEF IInv, CodeInv
  <2>2. QED
    BY <1>1, <2>1
<1> DEFINE shown == ShownIn(parent, nodes)
           sound == shown \ strays
           sound2 == shown \ strays'
\* All that is at or below the node has lost its path.
<1>5. \A i \in sound2 : id \notin ChainIn(parent, i) /\ i \in sound
  <2>1. \A i \in nodes : ChainIn(parent, i) \cap {id} # {} => i \in Straying({id}, nodes, parent, encoded')
    BY StrayingGrows
  <2>2. shown \subseteq nodes
    BY <1>3, TreePaths
  <2>3. QED
    BY <1>1, <2>1, <2>2
<1>6. strays' # {}
  <2>1. id \in nodes /\ id \in ChainIn(parent, id)
    BY <1>3, TreePaths
  <2>2. QED
    BY <1>1, <2>1, StrayingGrows
<1>7. SUFFICES ASSUME NEW i \in sound2 \ unsaved
               PROVE  OnDisk(Paths(parent, encoded')[i], i \in leafs, children[i], encoded', sound2, files, index)
  BY <1>1, <1>2, <1>6 DEF SavedInv, ViewInv, Kept
<1>8. Paths(parent, encoded')[i] = Paths(parent, encoded)[i]
  <2>1. i \in 0..MaxIds /\ parent \in [Ids -> 0..MaxIds] /\ Rooted(parent)
    BY <1>3, TreePaths, TreeNow
  <2>2. ChainIn(parent, i) \subseteq 0..MaxIds
    BY <2>1, ChainIs
  <2>3. \A a \in ChainIn(parent, i) \ {Root} : a \in Ids \ {id}
    BY <1>5, <2>2, NodesAre
  <2>4. \A a \in ChainIn(parent, i) \ {Root} : parent[a] = parent[a] /\ encoded'[a] = encoded[a]
    BY <1>4, <2>3
  <2>5. QED
    BY <1>3, <2>1, <2>4, SamePath
<1> DEFINE p == Paths(parent, encoded)[i]
           isLeaf == i \in leafs
           list == children[i]
<1>9. OnDisk(p, isLeaf, list, encoded, sound, files, index)
  BY <1>1, <1>5, SavedNode
<1>10. ASSUME ~isLeaf, NEW k \in 1..Len(list), list[k] \in sound2
      PROVE  list[k] \in sound /\ encoded'[list[k]] = encoded[list[k]]
  <2>1. list[k] \in nodes \ {Root}
    BY <1>0, <1>3, <1>10, ChildrenAre
  <2>2. list[k] \in Ids /\ list[k] \in ChainIn(parent, list[k])
    BY <2>1, <1>3, <1>10, TreeNow, TreePaths, NodesAre
  <2>3. list[k] # id
    BY <1>5, <1>10, <2>2
  <2>4. QED
    BY <1>4, <1>5, <1>10, <2>2, <2>3
<1> HIDE DEF p, isLeaf, list, sound, sound2
<1>11. OnDisk(p, isLeaf, list, encoded', sound2, files, index)
  BY <1>9, <1>10, StillOnDisk
<1>12. QED
  BY <1>8, <1>11 DEF p, isLeaf, list

LEMMA NewParentSaves ==
  ASSUME IInv, IInv', SharingInv, SavedInv, ViewInv, NEW id \in Ids, NEW folder, NEW at,
         moveUnderNewParent(id, folder, at)
  PROVE  SharingInv' /\ SavedInv' /\ ViewInv'
<1> DEFINE from == getNodePath(id)
           to == Append(getNodePath(folder), encoded[id])
           up == parent[id]
<1>0. children \in [0..MaxIds -> Seq(Ids)]
  BY DEF IInv, DownInv
<1>1. /\ id \in Shown \ {Root} /\ folder \in Folders /\ alive /\ up # folder /\ id \notin Chain(folder)
      /\ Renames(from, to)
      /\ children' = [Unlisted(id) EXCEPT ![folder] = InsertAt(@, at + 1, id)]
      /\ parent' = [parent EXCEPT ![id] = folder]
      /\ strays' = strays \cup Straying({}, nodes, parent', encoded)
      /\ nodes' = nodes /\ leafs' = leafs /\ encoded' = encoded
      /\ save({up, id, folder}, MovedFiles(from, to), MovedIndex(from, to))
  BY Zenon DEF moveUnderNewParent, Movable
<1>2. SharingInv'
  <2>1. Straying({}, nodes', parent', encoded') \subseteq strays'
    BY <1>1
  <2>2. QED
    BY <2>1, SharingStays
<1>3. /\ IsTree(parent, encoded, nodes) /\ IsTree(parent', encoded, nodes)
      /\ id \in ShownIn(parent, nodes) \ {Root} /\ folder \in ShownIn(parent, nodes)
      /\ parent \in [Ids -> 0..MaxIds] /\ Rooted(parent)
      /\ parent' \in [Ids -> 0..MaxIds] /\ Rooted(parent')
      /\ nodes \in SUBSET (0..MaxIds) /\ Root \in nodes
  BY <1>1, TreeNow, TreeNext DEF Folders
<1>4. up \in ShownIn(parent, nodes) /\ up \in 0..MaxIds /\ folder \in 0..MaxIds
  BY <1>3, TreePaths
<1>5. parent'[id] = folder /\ \A k \in Ids \ {id} : parent'[k] = parent[k] /\ encoded[k] = encoded[k]
  BY <1>1, <1>3
\* The same nodes are in view.
<1>6. ShownIn(parent', nodes) = ShownIn(parent, nodes)
  <2>1. ShownIn(parent, nodes) \subseteq ShownIn(parent', nodes)
    <3> DEFINE S == ShownIn(parent, nodes)
    <3>1. S \in SUBSET nodes /\ \A i \in S \ {Root} : i \in Ids /\ parent[i] \in S
      BY <1>3, TreePaths
    <3>2. \A i \in S \ {Root} : parent'[i] \in S
      BY <1>3, <1>5, <3>1
    <3> HIDE DEF S
    <3>3. S \subseteq ShownIn(parent', nodes)
      BY <1>3, <3>1, <3>2, ClosedShown
    <3>4. QED
      BY <3>3 DEF S
  <2>2. ShownIn(parent', nodes) \subseteq ShownIn(parent, nodes)
    <3> DEFINE S == ShownIn(parent', nodes) \cup ShownIn(parent, nodes)
    <3>1. S \in SUBSET nodes
      BY <1>3, TreePaths
    <3>2. \A i \in S \ {Root} : parent[i] \in S
      <4>1. \A i \in ShownIn(parent, nodes) \ {Root} : parent[i] \in ShownIn(parent, nodes)
        BY <1>3, TreePaths
      <4>2. \A i \in ShownIn(parent', nodes) \ {Root} : i \in Ids /\ parent'[i] \in ShownIn(parent', nodes)
        BY <1>3, TreePaths
      <4>3. ASSUME NEW i \in ShownIn(parent', nodes) \ {Root} PROVE parent[i] \in S
        BY <1>3, <1>5, <4>1, <4>2
      <4>4. QED
        BY <4>1, <4>3
    <3> HIDE DEF S
    <3>3. S \subseteq ShownIn(parent, nodes)
      BY <1>3, <3>1, <3>2, ClosedShown
    <3>4. QED
      BY <3>3 DEF S
  <2>3. QED
    BY <2>1, <2>2
<1>7. from = Paths(parent, encoded)[id] /\ to = Paths(parent', encoded)[id]
  <2>1. from = Paths(parent, encoded)[id] /\ to = Append(Paths(parent, encoded)[folder], encoded[id])
    BY DEF getNodePath
  <2>2. id \notin ChainIn(parent, parent'[id])
    BY <1>1, <1>5 DEF Chain
  <2>3. id \in ShownIn(parent', nodes)
    BY <1>3, <1>6
  <2>4. Paths(parent', encoded)[id] = Append(Paths(parent, encoded)[parent'[id]], encoded[id])
    BY <1>3, <1>5, <2>2, <2>3, PathThere
  <2>5. QED
    BY <1>5, <2>1, <2>4
<1> HIDE DEF from, to, up
<1>8. \A f \in 0..MaxIds : f \notin {up, id, folder} => children'[f] = children[f]
  BY <1>0, <1>1, <1>4 DEF Unlisted, up
<1>9. Kept(parent', encoded', nodes', leafs', children', strays', unsaved \cup {up, id, folder},
           MovedFiles(from, to), MovedIndex(from, to))
  <2>1. parent[id] \in {up, id, folder} /\ strays \subseteq strays'
    BY <1>1 DEF up
  <2>2. Kept(parent', encoded, nodes, leafs, children', strays', unsaved \cup {up, id, folder},
             MovedFiles(from, to), MovedIndex(from, to))
    BY <1>1, <1>3, <1>5, <1>6, <1>7, <1>8, <2>1, RelocatedKept
  <2>3. QED
    BY <1>1, <2>2
<1>10. {up, id, folder} \in SUBSET ShownIn(parent', nodes')
  BY <1>1, <1>3, <1>4, <1>6
<1>11. strays' = {} => InView(MovedFiles(from, to) \cup DOMAIN MovedIndex(from, to),
                              ShownPaths(parent', encoded', nodes'))
  <2>1. SUFFICES ASSUME strays' = {}
                 PROVE  InView(MovedFiles(from, to) \cup DOMAIN MovedIndex(from, to),
                               ShownPaths(parent', encoded, nodes))
    BY <1>1
  <2>2. /\ strays = {} /\ Straying({}, nodes, parent', encoded) = {}
        /\ Straying({}, nodes, parent, encoded) = {}
    BY <1>1, <2>1 DEF SharingInv
  <2>3. QED
    BY <1>1, <1>3, <1>5, <1>6, <1>7, <2>2, RelocatedView
<1>12. QED
  BY <1>1, <1>2, <1>9, <1>10, <1>11, SavedAfter

LEMMA InsertSaves ==
  ASSUME IInv, IInv', SharingInv, SavedInv, ViewInv, alive, NEW folder \in Folders, NEW n \in Names,
         NEW isLeaf \in BOOLEAN, insert(folder, n, isLeaf), Stem[n] # ".index"
  PROVE  SharingInv' /\ SavedInv' /\ ViewInv'
<1> DEFINE id == mNextAvailableId
<1>0. MemoryInv /\ UpInv /\ DownInv
  BY DEF IInv
<1>1. /\ id \in Ids /\ nodes' = nodes \cup {id}
      /\ leafs' = IF isLeaf THEN leafs \cup {id} ELSE leafs
      /\ parent' = [parent EXCEPT ![id] = folder]
      /\ encoded' = [encoded EXCEPT ![id] = n]
      /\ children' = [children EXCEPT ![folder] = Append(@, id)]
      /\ strays' = strays \cup Straying({}, nodes', parent', encoded')
      /\ save({folder, id}, files, index)
  BY DEF insert, Add
<1>2. SharingInv'
  <2>1. Straying({}, nodes', parent', encoded') \subseteq strays'
    BY <1>1
  <2>2. QED
    BY <2>1, SharingStays
<1>3. /\ IsTree(parent, encoded, nodes) /\ IsTree(parent', encoded', nodes')
      /\ Shown = ShownIn(parent, nodes)
      /\ parent \in [Ids -> 0..MaxIds] /\ Rooted(parent)
      /\ parent' \in [Ids -> 0..MaxIds] /\ Rooted(parent')
      /\ nodes' \in SUBSET (0..MaxIds) /\ Root \in nodes'
      /\ nodes \in SUBSET (0..MaxIds) /\ Root \in nodes
  BY TreeNow, TreeNext
<1>4. id \notin nodes /\ folder \in Shown /\ folder \in 0..MaxIds /\ folder \in nodes
  <2>1. \A i \in nodes : i \in Nat /\ i < id
    BY <1>0, NodesInBounds
  <2>2. folder \in Shown /\ Shown \subseteq nodes
    BY <1>0, NodesInBounds DEF Folders
  <2>3. id \notin nodes
    BY <2>1
  <2>4. folder \in nodes /\ folder \in 0..MaxIds
    BY <1>3, <2>2
  <2>5. QED
    BY <2>2, <2>3, <2>4
<1>5. /\ encoded'[id] = n /\ parent'[id] = folder
      /\ \A k \in Ids \ {id} : parent'[k] = parent[k] /\ encoded'[k] = encoded[k] /\ parent'[k] # id
  <2>1. encoded \in [Ids -> Names \cup {"none"}]
    BY DEF IInv, CodeInv
  <2>2. \A k \in Ids : parent[k] \in Nat /\ parent[k] < id
    BY <1>0, <1>3, NodesAre DEF UpInv
  <2>3. \A k \in Ids : parent[k] # id
    BY <2>2
  <2>4. QED
    BY <1>1, <1>3, <2>1, <2>3
<1> HIDE DEF id
<1> DEFINE now == ShownIn(parent, nodes)
           next == ShownIn(parent', nodes')
           S == {id} \cup {i \in now : id \notin ChainIn(parent', i)}
\* Nothing is below the new node.
<1>6. next \subseteq S
  <2>1. Root \in S
    <3>1. ChainIn(parent', Root) = {Root} /\ Root \in now /\ Root # id
      BY <1>1, <1>3, TreePaths, NodesAre
    <3>2. QED
      BY <3>1
  <2>2. ASSUME NEW i \in next \ {Root}, parent'[i] \in S PROVE i \in S
    <3>1. SUFFICES ASSUME i # id PROVE i \in S
      OBVIOUS
    <3>2. /\ i \in nodes \ {Root} /\ i \in Ids \ {id}
          /\ ChainIn(parent', i) = {i} \cup ChainIn(parent', parent'[i])
      <4>1. /\ i \in nodes' /\ i \in Ids
            /\ ChainIn(parent', i) = {i} \cup ChainIn(parent', parent'[i])
        BY <1>3, <2>2, TreePaths
      <4>2. QED
        BY <1>1, <2>2, <3>1, <4>1
    <3>3. parent'[i] = parent[i] /\ parent[i] \in now /\ id \notin ChainIn(parent', parent'[i])
      BY <1>5, <2>2, <3>2
    <3>4. i \in now
      BY <1>3, <3>2, <3>3, ShownIs
    <3>5. QED
      BY <3>1, <3>2, <3>3, <3>4
  <2> HIDE DEF S, now
  <2>3. QED
    BY <1>3, <2>1, <2>2, Downwards
<1>7. ASSUME NEW i \in next \ {id}
      PROVE  i \in now /\ i \in 0..MaxIds /\ Paths(parent', encoded')[i] = Paths(parent, encoded)[i]
  <2>1. i \in now /\ id \notin ChainIn(parent', i) /\ i \in 0..MaxIds
    BY <1>3, <1>6, TreePaths
  <2>2. ChainIn(parent', i) \subseteq 0..MaxIds
    BY <1>3, <2>1, ChainIs
  <2>3. \A a \in ChainIn(parent', i) \ {Root} : a \in Ids \ {id}
    BY <2>1, <2>2, NodesAre
  <2>4. \A a \in ChainIn(parent', i) \ {Root} : parent[a] = parent'[a] /\ encoded[a] = encoded'[a]
    BY <1>5, <2>3
  <2>5. Paths(parent, encoded)[i] = Paths(parent', encoded')[i]
    BY <1>3, <2>1, <2>4, SamePath
  <2>6. QED
    BY <2>1, <2>5
<1>8. Kept(parent', encoded', nodes', leafs', children', strays', unsaved \cup {folder, id}, files, index)
  <2>1. SUFFICES ASSUME NEW i \in (next \ strays') \ (unsaved \cup {folder, id})
                 PROVE  OnDisk(Paths(parent', encoded')[i], i \in leafs', children'[i], encoded',
                               next \ strays', files, index)
    BY DEF Kept
  <2> DEFINE p == Paths(parent, encoded)[i]
             leaf == i \in leafs
             list == children[i]
             sound == now \ strays
             sound2 == next \ strays'
  <2>2. i \in now /\ i \in 0..MaxIds /\ Paths(parent', encoded')[i] = p /\ i \notin strays /\ i \notin unsaved
    BY <1>1, <1>7
  <2>3. OnDisk(p, leaf, list, encoded, sound, files, index)
    BY <2>2, SavedNode
  <2>4. children'[i] = list /\ (i \in leafs' <=> leaf)
    <3>1. children \in [0..MaxIds -> Seq(Ids)]
      BY <1>0 DEF DownInv
    <3>2. QED
      BY <1>1, <1>4, <2>2, <3>1
  <2>5. ASSUME ~leaf, NEW k \in 1..Len(list), list[k] \in sound2
        PROVE  list[k] \in sound /\ encoded'[list[k]] = encoded[list[k]]
    <3>1. list[k] \in nodes \ {Root}
      BY <1>0, <1>3, <2>2, <2>5, ChildrenAre
    <3>2. list[k] \in Ids \ {id}
      BY <1>3, <1>4, <3>1, NodesAre
    <3>3. list[k] \in now
      BY <1>7, <2>5, <3>2
    <3>4. QED
      BY <1>1, <1>5, <2>5, <3>2, <3>3
  <2> HIDE DEF p, leaf, list, sound, sound2
  <2>6. OnDisk(p, leaf, list, encoded', sound2, files, index)
    BY <2>3, <2>5, StillOnDisk
  <2>7. (i \in leafs') = leaf
    BY <2>4 DEF leaf
  <2>8. QED
    BY <2>2, <2>4, <2>6, <2>7 DEF sound2
<1>9. {folder, id} \in SUBSET ShownIn(parent', nodes') /\ now \subseteq next
  <2> DEFINE T == now \cup {id}
  <2>1. T \in SUBSET nodes'
    BY <1>1, <1>3, TreePaths
  <2>2. \A i \in now \ {Root} : i \in Ids \ {id} /\ parent[i] \in now
    <3>1. \A i \in now \ {Root} : i \in Ids /\ parent[i] \in now /\ i \in nodes
      BY <1>3, TreePaths
    <3>2. QED
      BY <1>4, <3>1
  <2>3. \A i \in T \ {Root} : parent'[i] \in T
    BY <1>3, <1>4, <1>5, <2>2
  <2>4. folder \in T /\ id \in T
    BY <1>3, <1>4
  <2> HIDE DEF T
  <2>5. T \subseteq ShownIn(parent', nodes')
    BY <1>3, <2>1, <2>3, ClosedShown
  <2>6. now \subseteq T
    BY DEF T
  <2>7. QED
    BY <2>4, <2>5, <2>6
<1>10. save({folder, id}, files, index)
  BY <1>1
\* Nothing is on the disk at the path of the new node, or siblings share it.
<1>11. strays' = {} => InView(files \cup DOMAIN index, ShownPaths(parent', encoded', nodes'))
  <2> DEFINE D == files \cup DOMAIN index
             path == Paths(parent, encoded)
             path2 == Paths(parent', encoded')
  <2>0. strays' = {} => strays = {} /\ Straying({}, nodes', parent', encoded') = {}
    BY <1>1
  <2>1. SUFFICES ASSUME strays' = {}, NEW p \in D \ {<<>>}, NEW k \in next, Front(p) = path2[k]
                 PROVE  (\E j \in next : p = path2[j]) \/ Stem[Last(p)] = ".index"
    BY DEF InView, ShownPaths
  <2>2. /\ p \in Seq(Names) /\ Front(p) \in DOMAIN index /\ DOMAIN index \subseteq Seq(Names)
        /\ \A q \in D \ {<<>>} : (\E j \in now : Front(q) = path[j]) =>
                                   (\E j \in now : q = path[j]) \/ Stem[Last(q)] = ".index"
    <3>1. InView(D, ShownPaths(parent, encoded, nodes))
      BY <2>0, <2>1 DEF ViewInv
    <3>2. \A q \in D \ {<<>>} : (\E j \in now : Front(q) = path[j]) =>
                                 (\E j \in now : q = path[j]) \/ Stem[Last(q)] = ".index"
      BY <3>1 DEF InView, ShownPaths
    <3>3. DiskIs(files, index)
      BY DEF IInv
    <3>4. QED
      BY <2>1, <3>2, <3>3 DEF DiskIs
  <2>3. id \notin now /\ now \subseteq next /\ folder \in now
    <3>1. now \subseteq nodes
      BY <1>3, TreePaths
    <3>2. QED
      BY <1>3, <1>4, <1>9, <3>1
  <2>4. \A j \in now : path2[j] = path[j]
    BY <1>7, <2>3
  <2> HIDE DEF path, path2, D, now, next
  <2>5. ASSUME NEW q \in D \ {<<>>}, \E j \in now : Front(q) = path[j]
        PROVE  (\E j \in next : q = path2[j]) \/ Stem[Last(q)] = ".index"
    BY <2>2, <2>3, <2>4, <2>5
  <2>6. CASE k # id
    <3>1. k \in now
      BY <1>7, <2>6 DEF next, now
    <3>2. QED
      BY <2>1, <2>4, <2>5, <3>1
  <2>7. CASE k = id
    <3> DEFINE q == Front(p)
    <3>1. q = Append(path[folder], n) /\ path[folder] \in Seq(Names)
      <4>1. path2[id] = Append(path2[parent'[id]], encoded'[id])
        <5>1. id \in ShownIn(parent', nodes') \ {Root}
          BY <1>1, <1>9, NodesAre
        <5>2. QED
          BY <1>3, <5>1, TreePaths DEF path2
      <4>2. path[folder] \in Seq(Names)
        BY <1>3, <2>3, TreePaths DEF path, now
      <4>3. QED
        BY <1>5, <2>1, <2>3, <2>4, <2>7, <4>1, <4>2
    <3>2. Front(q) = path[folder] /\ Last(q) = n /\ q # <<>>
      BY <3>1, FrontOfAppend
    <3>3. q \in D \ {<<>>}
      BY <2>2, <3>2 DEF D
    <3> HIDE DEF q
    <3>4. PICK j \in now : q = path[j]
      BY <2>2, <2>3, <3>2, <3>3
    <3>5. path2[j] = path2[id] /\ j \in next /\ id \in next
      BY <2>1, <2>3, <2>4, <2>7, <3>4 DEF q
    <3>6. j = id
      BY <1>3, <2>0, <2>1, <3>5, PathsDiffer DEF path2, next
    <3>7. QED
      BY <2>3, <3>4, <3>6
  <2>8. QED
    BY <2>6, <2>7
<1>12. QED
  BY <1>2, <1>8, <1>9, <1>10, <1>11, SavedAfter

\* Taking a child off the list leaves the others in their order.
LEMMA OrderWithout ==
  ASSUME NEW list \in Seq(Ids), Distinct(list), NEW e, NEW enc, NEW sound, NEW order,
         OrderedBy(list, enc, sound, order)
  PROVE  OrderedBy(RemoveFirst(list, e), enc, sound, order)
<1>1. Len(list) \in Nat /\ DOMAIN list = 1..Len(list)
  OBVIOUS
<1>2. CASE e \notin ToSet(list)
  <2>1. RemoveFirst(list, e) = list
    BY <1>1, <1>2 DEF RemoveFirst, ToSet
  <2>2. QED
    BY <2>1
<1>3. CASE e \in ToSet(list)
  <2>1. PICK k \in 1..Len(list) : list[k] = e
    BY <1>1, <1>3 DEF ToSet
  <2>2. {i \in 1..Len(list) : list[i] = e} = {k}
    BY <2>1 DEF Distinct
  <2>3. Min({k}) = k
    BY <2>1 DEF Min
  <2>4. SelectInSeq(list, LAMBDA v : v = e) = k
    BY <2>2, <2>3 DEF SelectInSeq
  <2> DEFINE r == RemoveFirst(list, e)
  <2>5. r = RemoveAt(list, k)
    BY <2>1, <2>4 DEF RemoveFirst
  <2>6. /\ Len(r) = Len(list) - 1
        /\ \A i \in 1..(Len(list) - 1) : r[i] = IF i < k THEN list[i] ELSE list[i + 1]
    BY <2>5, RemoveAtIs
  <2> HIDE DEF r
  <2> DEFINE at(i) == IF i < k THEN i ELSE i + 1
  <2>7. \A i \in 1..Len(r) : at(i) \in 1..Len(list) /\ r[i] = list[at(i)]
    BY <1>1, <2>6
  <2>8. \A i, j \in 1..Len(r) : i < j => at(i) < at(j)
    BY <1>1, <2>6
  <2> HIDE DEF at
  <2>9. QED
    BY <2>7, <2>8, SMTT(30) DEF OrderedBy, r
<1>4. QED
  BY <1>2, <1>3

\* A node that is put below the root has less above it.
LEMMA ChainShrinks ==
  ASSUME NEW par, NEW enc, NEW ns, IsTree(par, enc, ns),
         NEW par2, NEW enc2, NEW ns2, IsTree(par2, enc2, ns2), NEW id \in Ids,
         par2[id] = Root, \A k \in Ids \ {id} : par2[k] = par[k], NEW i \in 0..MaxIds
  PROVE  ChainIn(par2, i) \subseteq ChainIn(par, i)
<1>1. /\ par \in [Ids -> 0..MaxIds] /\ Rooted(par) /\ par2 \in [Ids -> 0..MaxIds] /\ Rooted(par2)
  BY DEF IsTree
<1>2. /\ ChainIn(par, Root) = {Root}
      /\ \A k \in Ids : ChainIn(par, k) = {k} \cup ChainIn(par, par[k])
      /\ ChainIn(par2, Root) = {Root}
      /\ \A k \in Ids : ChainIn(par2, k) = {k} \cup ChainIn(par2, par2[k])
  BY <1>1, ChainIs
<1> DEFINE Less(k) == Root \in ChainIn(par, k) /\ ChainIn(par2, k) \subseteq ChainIn(par, k)
           S == {k \in Ids : ~Less(k)}
<1>3. S = {}
  <2>1. SUFFICES ASSUME S # {} PROVE FALSE
    OBVIOUS
  <2>2. S \in (SUBSET Ids) \ {{}}
    BY <2>1
  <2>3. PICK k \in S : par[k] \notin S
    BY <1>1, <2>2 DEF Rooted
  <2>4. par[k] = Root \/ par[k] \in Ids
    BY <1>1, <2>3, NodesAre
  <2>5. Less(par[k])
    BY <1>2, <2>3, <2>4
  <2>6. /\ ChainIn(par, k) = {k} \cup ChainIn(par, par[k])
        /\ ChainIn(par2, k) = {k} \cup ChainIn(par2, par2[k])
    BY <1>2, <2>3
  <2>7. CASE k = id
    BY <1>2, <2>3, <2>5, <2>6, <2>7
  <2>8. CASE k # id
    <3>1. par2[k] = par[k]
      BY <2>3, <2>8
    <3>2. QED
      BY <2>3, <2>5, <2>6, <3>1
  <2>9. QED
    BY <2>7, <2>8
<1>4. i = Root \/ i \in Ids
  BY NodesAre
<1>5. QED
  BY <1>2, <1>3, <1>4

LEMMA RemoveSaves ==
  ASSUME IInv, IInv', SharingInv, SavedInv, ViewInv, NEW id \in Ids, remove(id)
  PROVE  SharingInv' /\ SavedInv' /\ ViewInv'
<1> DEFINE gone == getNodePath(id)
           up == parent[id]
<1>0. MemoryInv /\ UpInv /\ DownInv
  BY DEF IInv
<1>1. /\ id \in Shown \ {Root} /\ alive
      /\ files' = {p \in files : ~IsPrefix(gone, p)}
      /\ index' = [p \in {q \in DOMAIN index : ~IsPrefix(gone, q)} |-> index[p]]
      /\ nodes' = nodes \ {id} /\ leafs' = leafs \ {id} /\ unsaved' = unsaved \ {id}
      /\ children' = [Unlisted(id) EXCEPT ![id] = <<>>]
      /\ parent' = [parent EXCEPT ![id] = Root]
      /\ encoded' = [encoded EXCEPT ![id] = "none"]
      /\ strays' = strays
  BY DEF remove
<1>2. /\ IsTree(parent, encoded, nodes) /\ IsTree(parent', encoded', nodes')
      /\ Shown = ShownIn(parent, nodes)
      /\ parent \in [Ids -> 0..MaxIds] /\ Rooted(parent)
      /\ parent' \in [Ids -> 0..MaxIds] /\ Rooted(parent')
      /\ nodes' \in SUBSET (0..MaxIds) /\ Root \in nodes'
      /\ nodes \in SUBSET (0..MaxIds) /\ Root \in nodes
  BY TreeNow, TreeNext
<1>3. /\ parent'[id] = Root
      /\ \A k \in Ids \ {id} : parent'[k] = parent[k] /\ encoded'[k] = encoded[k]
  <2>1. encoded \in [Ids -> Names \cup {"none"}]
    BY DEF IInv, CodeInv
  <2>2. QED
    BY <1>1, <1>2, <2>1, NodesAre
<1> DEFINE now == ShownIn(parent, nodes)
           next == ShownIn(parent', nodes')
           sound == now \ strays
           sound2 == next \ strays
<1>4. id \in now /\ gone = Paths(parent, encoded)[id]
  BY <1>1, <1>2 DEF getNodePath
<1>5. SharingInv'
  <2>1. SUFFICES ASSUME NEW j \in Straying({}, nodes', parent', encoded')
                 PROVE  j \in Straying({}, nodes, parent, encoded)
    BY <1>1 DEF SharingInv
  <2>2. PICK a \in nodes' \ {Root} :
          /\ j \in nodes' /\ a \in ChainIn(parent', j)
          /\ \E b \in nodes' \ {Root, a} : parent'[a] = parent'[b] /\ encoded'[a] = encoded'[b]
    BY <2>1 DEF Straying
  <2>3. PICK b \in nodes' \ {Root, a} : parent'[a] = parent'[b] /\ encoded'[a] = encoded'[b]
    BY <2>2
  <2>4. /\ a \in nodes \ {Root} /\ b \in nodes \ {Root, a} /\ j \in nodes /\ j \in 0..MaxIds
        /\ a # id /\ b # id
    BY <1>1, <1>2, <2>2, <2>3
  <2>5. a \in Ids \ {id} /\ b \in Ids \ {id}
    BY <1>2, <2>4, NodesAre
  <2>6. parent[a] = parent[b] /\ encoded[a] = encoded[b]
    BY <1>3, <2>3, <2>5
  <2>7. ChainIn(parent', j) \subseteq ChainIn(parent, j)
    BY <1>2, <1>3, <2>4, ChainShrinks
  <2>8. QED
    BY <2>2, <2>4, <2>6, <2>7, SharingIs
\* What is in view was, with the same path, and was not below what is removed.
<1>6. ASSUME NEW i \in next
      PROVE  /\ i \in now /\ i # id /\ i \in 0..MaxIds /\ id \notin ChainIn(parent, i)
             /\ Paths(parent', encoded')[i] = Paths(parent, encoded)[i]
  <2>1. ChainIn(parent', i) \subseteq nodes' /\ i \in 0..MaxIds /\ i \in nodes'
    BY <1>2, TreePaths DEF ShownIn
  <2>2. \A a \in ChainIn(parent', i) \ {Root} : a \in Ids \ {id}
    BY <1>1, <1>2, <2>1, NodesAre
  <2>3. \A a \in ChainIn(parent', i) \ {Root} : parent[a] = parent'[a] /\ encoded[a] = encoded'[a]
    BY <1>3, <2>2
  <2>4. /\ ChainIn(parent, i) = ChainIn(parent', i)
        /\ Paths(parent, encoded)[i] = Paths(parent', encoded')[i]
    BY <1>2, <2>1, <2>3, SamePath
  <2>5. id \notin nodes' /\ nodes' \subseteq nodes
    BY <1>1
  <2>6. i \in now
    BY <2>1, <2>4, <2>5 DEF ShownIn
  <2>7. QED
    BY <2>1, <2>4, <2>5, <2>6
\* What is still on the disk was not below it, and is in view as before.
<1>7. ViewInv'
  <2> DEFINE D == files \cup DOMAIN index
             path == Paths(parent, encoded)
             path2 == Paths(parent', encoded')
  <2>1. SUFFICES ASSUME strays = {}, NEW p \in (files' \cup DOMAIN index') \ {<<>>},
                        NEW k \in next, Front(p) = path2[k]
                 PROVE  (\E j \in next : p = path2[j]) \/ Stem[Last(p)] = ".index"
    BY <1>1 DEF ViewInv, InView, ShownPaths
  <2>2. p \in D \ {<<>>} /\ ~IsPrefix(gone, p)
    BY <1>1, <2>1
  <2>3. (\E j \in now : p = path[j]) \/ Stem[Last(p)] = ".index"
    <3>1. InView(D, ShownPaths(parent, encoded, nodes))
      BY <1>1, <2>1 DEF ViewInv
    <3>2. \A q \in D \ {<<>>} : (\E j \in now : Front(q) = path[j]) =>
                                 (\E j \in now : q = path[j]) \/ Stem[Last(q)] = ".index"
      BY <3>1 DEF InView, ShownPaths
    <3>3. k \in now /\ Front(p) = path[k]
      BY <1>6, <2>1
    <3> HIDE DEF D, now, path
    <3>4. QED
      BY <2>2, <3>2, <3>3
  <2>4. ASSUME NEW j \in now, p = path[j] PROVE j \in next /\ p = path2[j]
    <3>1. j \in 0..MaxIds /\ ChainIn(parent, j) \subseteq nodes /\ j \in nodes /\ j \in ChainIn(parent, j)
      BY <1>2, TreePaths DEF ShownIn
    <3>2. id \notin ChainIn(parent, j)
      BY <1>2, <1>4, <2>2, <2>4, AbovePrefix
    <3>3. \A a \in ChainIn(parent, j) \ {Root} : a \in Ids \ {id}
      BY <1>2, <3>1, <3>2, NodesAre
    <3>4. \A a \in ChainIn(parent, j) \ {Root} : parent'[a] = parent[a] /\ encoded'[a] = encoded[a]
      BY <1>3, <3>3
    <3>5. ChainIn(parent', j) = ChainIn(parent, j) /\ path2[j] = path[j]
      BY <1>2, <3>1, <3>4, SamePath
    <3>6. ChainIn(parent', j) \subseteq nodes' /\ j \in nodes'
      BY <1>1, <3>1, <3>2, <3>5
    <3>7. QED
      BY <2>4, <3>5, <3>6 DEF ShownIn
  <2> HIDE DEF D, now, next, path, path2
  <2>5. QED
    BY <2>3, <2>4
<1>8. SUFFICES ASSUME NEW i \in sound2 \ unsaved'
               PROVE  OnDisk(Paths(parent', encoded')[i], i \in leafs', children'[i], encoded', sound2, files', index')
  BY <1>1, <1>5, <1>7 DEF SavedInv, Kept
<1> DEFINE p == Paths(parent, encoded)[i]
           isLeaf == i \in leafs
           list == children[i]
<1>9. /\ i \in now /\ i # id /\ i \in 0..MaxIds /\ id \notin ChainIn(parent, i)
      /\ Paths(parent', encoded')[i] = p /\ i \notin strays
  BY <1>6
<1>10. OnDisk(p, isLeaf, list, encoded, sound, files, index)
  <2>1. i \notin unsaved
    BY <1>1, <1>9
  <2>2. QED
    BY <1>1, <1>9, <2>1, SavedNode
<1>11. ~IsPrefix(gone, p)
  <2>1. i \in ShownIn(parent, nodes) \ Straying({}, nodes, parent, encoded)
    BY <1>9 DEF SharingInv
  <2>2. QED
    BY <1>2, <1>4, <1>9, <2>1, PathsApart
<1>12. (i \in leafs') = isLeaf
  BY <1>1, <1>9
<1>13. CASE isLeaf
  <2>1. p \in files'
    BY <1>1, <1>10, <1>11, <1>13 DEF OnDisk
  <2>2. QED
    BY <1>9, <1>12, <1>13, <2>1 DEF OnDisk
<1>14. CASE ~isLeaf
  <2>1. p \in DOMAIN index /\ OrderedBy(list, encoded, sound, index[p])
    BY <1>10, <1>14 DEF OnDisk
  <2>2. p \in DOMAIN index' /\ index'[p] = index[p]
    BY <1>1, <1>11, <2>1
  <2>3. /\ list \in Seq(Ids) /\ Distinct(list)
        /\ \A k \in 1..Len(list) : list[k] \in nodes \ {Root}
    BY <1>0, <1>2, <1>9, <1>14, ChildrenAre
  <2> DEFINE list2 == children'[i]
  <2>4. OrderedBy(list2, encoded, sound, index[p]) /\ \A k \in 1..Len(list2) : list2[k] \in Ids
    <3>1. children \in [0..MaxIds -> Seq(Ids)] /\ up \in 0..MaxIds
      BY <1>0, <1>2, <1>4 DEF DownInv
    <3>2. list2 = IF i = up THEN RemoveFirst(list, id) ELSE list
      BY <1>1, <1>9, <3>1 DEF Unlisted
    <3> HIDE DEF list, list2, sound, p
    <3>3. OrderedBy(RemoveFirst(list, id), encoded, sound, index[p])
      BY <2>1, <2>3, OrderWithout
    <3>4. RemoveFirst(list, id) \in Seq(Ids)
      BY <2>3, RemoveFirstIs
    <3>5. list2 \in Seq(Ids)
      BY <2>3, <3>2, <3>4
    <3>6. \A k \in 1..Len(list2) : list2[k] \in Ids
      BY <3>5
    <3>7. QED
      BY <2>1, <3>2, <3>3, <3>6
  <2>5. \A k \in 1..Len(list2) : list2[k] \in sound2 =>
          list2[k] \in sound /\ encoded'[list2[k]] = encoded[list2[k]]
    <3>1. ASSUME NEW k \in 1..Len(list2), list2[k] \in sound2
          PROVE  list2[k] \in sound /\ encoded'[list2[k]] = encoded[list2[k]]
      <4> DEFINE j == list2[k]
      <4>1. j \in Ids /\ j \in next /\ j \notin strays
        BY <2>4, <3>1
      <4> HIDE DEF j, now, next
      <4>2. j \in now /\ j # id
        BY <1>6, <4>1
      <4>3. j \in sound /\ encoded'[j] = encoded[j]
        BY <1>3, <4>1, <4>2
      <4>4. QED
        BY <4>3 DEF j
    <3>2. QED
      BY <3>1
  <2> HIDE DEF list, list2, sound, sound2, p
  <2>6. OrderedBy(list2, encoded', sound2, index[p])
    BY <2>4, <2>5, OrderStays
  <2>7. QED
    BY <1>9, <1>12, <1>14, <2>2, <2>6 DEF OnDisk, list2
<1>15. QED
  BY <1>13, <1>14

\* Every entry is listed.
LEMMA ListedAll ==
  ASSUME DiskIs(files, index), NEW p \in Entries
  PROVE  \E i \in 1..Count : Listed[i] = p
<1>1. Begins(Listed, Count) /\ IsFiniteSet(Entries) /\ Count \in Nat /\ Count = Cardinality(Entries)
  BY ListedIs, EntriesAre DEF Count
<1> HIDE DEF Count
<1>2. \A i, j \in 1..Count : Listed[i] = Listed[j] => i = j
  BY <1>1, BeginsApart
<1>3. Listed \in Injection(1..Count, Entries)
  BY <1>1, <1>2 DEF Begins, Injection, IsInjective
<1>4. IsFiniteSet(1..Count) /\ Cardinality(1..Count) = Cardinality(Entries)
  BY <1>1, CountTo
<1>5. Listed \in Surjection(1..Count, Entries)
  BY <1>1, <1>3, <1>4, FS_Injection
<1>6. QED
  BY <1>5 DEF Surjection

\* What is in an entry or in the root is an entry, unless it is skipped.
LEMMA EntryOrSkipped ==
  ASSUME DiskIs(files, index), NEW p \in (files \cup DOMAIN index) \ {<<>>},
         Front(p) \in Entries \cup {<<>>}
  PROVE  p \in Entries \/ Stem[Last(p)] = ".index"
<1>1. p \in Seq(Names) /\ p # <<>> /\ p \in files \cup (DOMAIN index \ {<<>>})
  BY DEF DiskIs
<1>2. /\ Len(p) \in Nat \ {0} /\ Len(Front(p)) = Len(p) - 1
      /\ \A i \in 1..(Len(p) - 1) : Front(p)[i] = p[i]
  BY <1>1, FrontIs
<1>3. \A i \in 1..(Len(p) - 1) : Stem[p[i]] # ".index"
  <2>1. CASE Front(p) = <<>>
    <3>1. Len(Front(p)) = 0
      BY <2>1
    <3>2. Len(p) = 1
      BY <1>2, <3>1
    <3>3. 1..(Len(p) - 1) = {}
      BY <3>2
    <3>4. QED
      BY <3>3
  <2>2. CASE Front(p) \in Entries
    <3>1. \A i \in 1..Len(Front(p)) : Stem[Front(p)[i]] # ".index"
      BY <2>2 DEF Entries
    <3>2. QED
      BY <1>2, <3>1
  <2>3. QED
    BY <2>1, <2>2
<1>4. Last(p) = p[Len(p)] /\ \A i \in 1..Len(p) : i = Len(p) \/ i \in 1..(Len(p) - 1)
  BY <1>2 DEF Last
<1>5. SUFFICES ASSUME Stem[Last(p)] # ".index" PROVE \A i \in 1..Len(p) : Stem[p[i]] # ".index"
  BY <1>1 DEF Entries
<1>6. QED
  BY <1>3, <1>4, <1>5

\* All entries are in view, each at its path if load() takes its name as it is.
LEMMA LoadShows ==
  ASSUME IInv, IInv', load
  PROVE  /\ ShownIn(parent', nodes') = 0..Count
         /\ (\A i \in 1..Count : Real(Listed[i]) = Last(Listed[i])) =>
              \A i \in 0..Count : Paths(parent', encoded')[i] = At(i)
<1>0. DiskIs(files, index)
  BY DEF IInv
<1>1. /\ Count \in Nat /\ Count <= MaxIds /\ nodes' = 0..Count
      /\ \A i \in 1..Count : Listed[i] \in Entries
      /\ \A i \in 1..Count : parent'[i] \in 0..(i - 1) /\ At(parent'[i]) = Front(Listed[i])
      /\ encoded' = [i \in Ids |-> IF i <= Count THEN Real(Listed[i]) ELSE "none"]
  BY <1>0, LoadIs
<1>2. /\ IsTree(parent', encoded', nodes')
      /\ parent' \in [Ids -> 0..MaxIds] /\ Rooted(parent')
      /\ nodes' \in SUBSET (0..MaxIds) /\ Root \in nodes'
  BY TreeNext
<1>3. \A i \in 0..Count : i # Root => i \in 1..Count /\ i \in Ids /\ i <= Count
  BY <1>1, NodesAre DEF Ids
<1> HIDE DEF Count
<1>4. ShownIn(parent', nodes') = 0..Count
  <2>1. \A i \in 1..Count : parent'[i] \in 0..Count
    BY <1>1
  <2>2. \A i \in nodes' \ {Root} : parent'[i] \in nodes'
    BY <1>1, <1>3, <2>1
  <2>3. nodes' \subseteq ShownIn(parent', nodes')
    BY <1>2, <2>2, ClosedShown
  <2>4. QED
    BY <1>1, <1>2, <2>3, TreePaths
<1>5. ASSUME \A i \in 1..Count : Real(Listed[i]) = Last(Listed[i])
      PROVE  \A i \in 0..Count : Paths(parent', encoded')[i] = At(i)
  <2> DEFINE path == Paths(parent', encoded')
             S == {i \in 0..Count : path[i] = At(i)}
  <2>1. Root \in S
    <3>1. path[Root] = <<>> /\ Root \in 0..Count
      BY <1>1, <1>2, TreePaths
    <3>2. QED
      BY <3>1 DEF At
  <2>2. ASSUME NEW i \in (0..Count) \ {Root}, parent'[i] \in S PROVE i \in S
    <3>1. i \in 1..Count /\ i \in Ids /\ i <= Count /\ i # Root
      BY <1>3, <2>2
    <3>2. path[parent'[i]] = Front(Listed[i]) /\ encoded'[i] = Last(Listed[i])
      BY <1>1, <1>5, <2>2, <3>1
    <3>3. path[i] = Append(path[parent'[i]], encoded'[i])
      <4>1. i \in ShownIn(parent', nodes') \ {Root}
        BY <1>4, <2>2
      <4>2. QED
        BY <1>2, <4>1, TreePaths
    <3>4. Listed[i] \in Seq(Names) /\ Listed[i] # <<>>
      BY <1>0, <1>1, <3>1, EntriesAre
    <3>5. path[i] = Listed[i]
      BY <3>2, <3>3, <3>4, FrontAndLast
    <3>6. QED
      BY <2>2, <3>1, <3>5 DEF At
  <2> HIDE DEF S
  <2>3. ShownIn(parent', nodes') \subseteq S
    BY <1>2, <1>4, <2>1, <2>2, Downwards
  <2>4. QED
    BY <1>4, <2>3 DEF S
<1>6. QED
  BY <1>4, <1>5

LEMMA LoadSaves ==
  ASSUME IInv, IInv', load
  PROVE  SharingInv' /\ SavedInv' /\ ViewInv'
<1> DEFINE whole == {i \in 1..Count : Real(Listed[i]) # Last(Listed[i]) \/
                       Real(Listed[i]) \notin ToSet(index'[Front(Listed[i])])}
           next == ShownIn(parent', nodes')
           sound == next \ strays'
           path == Paths(parent', encoded')
<1>0. DiskIs(files, index)
  BY DEF IInv
<1>1. /\ Count \in Nat /\ Count <= MaxIds /\ unsaved' = {} /\ files' = files
      /\ nodes' = 0..Count /\ leafs' = {i \in 1..Count : Listed[i] \in files}
      /\ \A i \in 1..Count : Listed[i] \in Entries
      /\ \A i \in 1..Count : At(parent'[i]) = Front(Listed[i])
      /\ Ranks \in [1..Count -> Nat]
      /\ \A f \in 0..MaxIds : Sorts(children'[f], Ranks, Under(parent', f))
      /\ index' = [p \in DOMAIN index |->
           IF index[p] = <<>> /\ \E f \in 0..Count : At(f) = p
           THEN indexFileWrite(CHOOSE f \in 0..Count : At(f) = p)
           ELSE index[p]]
      /\ strays' = Straying(whole, nodes', parent', encoded')
  BY <1>0, LoadIs
<1>2. \A i \in 1..Count : encoded'[i] = Real(Listed[i]) /\ i \in Ids /\ i # Root
  <2>1. /\ encoded' = [i \in Ids |-> IF i <= Count THEN Real(Listed[i]) ELSE "none"]
    BY <1>0, LoadIs
  <2>2. \A i \in 1..Count : i \in Ids /\ i <= Count
    BY <1>1, NodesAre DEF Ids
  <2>3. QED
    BY <2>1, <2>2, NodesAre
<1>3. \A i \in 1..Count :
        /\ Listed[i] \in Seq(Names) /\ Listed[i] # <<>> /\ Listed[i] \in files \cup DOMAIN index
        /\ Front(Listed[i]) \in DOMAIN index
  BY <1>0, <1>1, EntriesAre
<1>4. Begins(Listed, Count)
  BY <1>0, ListedIs DEF Count
<1>5. SharingInv'
  <2>1. Straying(whole, nodes', parent', encoded') \subseteq strays'
    BY <1>1
  <2> HIDE DEF whole
  <2>2. QED
    BY <2>1, SharingStays
<1>6. /\ IsTree(parent', encoded', nodes')
      /\ parent' \in [Ids -> 0..MaxIds] /\ Rooted(parent')
      /\ nodes' \in SUBSET (0..MaxIds) /\ Root \in nodes'
  BY TreeNext
<1>7. /\ Root \in next /\ path[Root] = <<>> /\ ChainIn(parent', Root) = {Root}
      /\ \A i \in next : i \in nodes' /\ i \in ChainIn(parent', i)
      /\ \A i \in next \ {Root} :
           /\ parent'[i] \in next /\ path[i] = Append(path[parent'[i]], encoded'[i])
           /\ ChainIn(parent', i) = {i} \cup ChainIn(parent', parent'[i])
  BY <1>6, TreePaths
<1>8. \A i \in next : i = Root \/ i \in 1..Count
  <2>1. \A i \in 0..Count : i = Root \/ i \in 1..Count
    BY <1>1, NodesAre
  <2>2. QED
    BY <1>1, <1>7, <2>1
\* Those above a node that kept its path kept theirs.
<1>9. /\ \A i \in sound \ {Root} : parent'[i] \in sound
      /\ \A i \in sound \ {Root} : i \notin whole
  <2>1. \A i \in nodes' : ChainIn(parent', i) \cap whole # {} => i \in strays'
    BY <1>1, StrayingGrows
  <2>2. ASSUME NEW i \in sound \ {Root} PROVE i \notin whole
    BY <1>7, <2>1, <2>2
  <2> HIDE DEF whole
  <2>3. ASSUME NEW i \in sound \ {Root} PROVE parent'[i] \in sound
    <3>1. /\ i \in nodes' /\ parent'[i] \in next
          /\ ChainIn(parent', parent'[i]) \subseteq ChainIn(parent', i)
      BY <1>7, <2>3
    <3>2. parent'[i] \in strays' => i \in strays'
      BY <1>1, <3>1 DEF Straying
    <3>3. QED
      BY <2>3, <3>1, <3>2
  <2>4. QED
    BY <2>2, <2>3
<1>10. \A i \in sound \ {Root} : Real(Listed[i]) = Last(Listed[i]) /\ i \in 1..Count /\
                                 Real(Listed[i]) \in ToSet(index'[Front(Listed[i])])
  BY <1>8, <1>9
<1> HIDE DEF whole, path, next
\* Their paths are those of the entries they have been loaded from.
<1>11. \A i \in sound : path[i] = At(i)
  <2> DEFINE S == {i \in next : i \in sound => path[i] = At(i)}
  <2>1. Root \in S
    BY <1>7 DEF At
  <2>2. ASSUME NEW i \in next \ {Root}, parent'[i] \in S PROVE i \in S
    <3>1. SUFFICES ASSUME i \in sound PROVE path[i] = At(i)
      BY <2>2
    <3>2. path[parent'[i]] = At(parent'[i]) /\ i \in 1..Count /\ Real(Listed[i]) = Last(Listed[i])
      BY <1>9, <1>10, <2>2, <3>1
    <3>3. path[i] = Append(Front(Listed[i]), Last(Listed[i]))
      BY <1>1, <1>2, <1>7, <2>2, <3>2
    <3>4. path[i] = Listed[i]
      BY <1>3, <3>2, <3>3, FrontAndLast
    <3>5. QED
      BY <2>2, <3>4 DEF At
  <2> HIDE DEF S
  <2>3. next \subseteq S
    BY <1>6, <2>1, <2>2, Downwards DEF next
  <2>4. QED
    BY <2>3 DEF S
<1>12. \A i \in 1..Count : At(i) = Listed[i] /\ At(i) # <<>>
  BY <1>2, <1>3 DEF At
<1>13. ViewInv'
  <2>1. SUFFICES ASSUME strays' = {}, NEW p \in (files \cup DOMAIN index) \ {<<>>},
                        NEW k \in next, Front(p) = path[k]
                 PROVE  (\E j \in next : p = path[j]) \/ Stem[Last(p)] = ".index"
    <3>1. files' \cup DOMAIN index' = files \cup DOMAIN index
      BY <1>1
    <3>2. QED
      BY <3>1 DEF ViewInv, InView, ShownPaths, next, path
  <2>2. next = 0..Count /\ \A i \in 0..Count : path[i] = At(i)
    <3>1. next = 0..Count
      BY LoadShows DEF next
    <3>2. \A i \in 1..Count : i \in sound \ {Root}
      BY <1>1, <1>2, <2>1, <3>1
    <3>3. QED
      BY <1>10, <3>1, <3>2, LoadShows DEF path
  <2>3. Front(p) \in Entries \cup {<<>>}
    <3>1. Front(p) = At(k) /\ (k = Root \/ k \in 1..Count)
      BY <1>8, <2>1, <2>2
    <3>2. QED
      BY <1>1, <3>1 DEF At
  <2>4. CASE p \in Entries
    <3>1. PICK i \in 1..Count : Listed[i] = p
      BY <1>0, <2>4, ListedAll
    <3>2. i \in 0..Count /\ At(i) = p
      BY <1>1, <1>12, <3>1
    <3>3. QED
      BY <2>2, <3>2
  <2>5. QED
    BY <1>0, <2>1, <2>3, <2>4, EntryOrSkipped
<1>14. SUFFICES ASSUME NEW i \in sound
                PROVE  OnDisk(path[i], i \in leafs', children'[i], encoded', sound, files', index')
  BY <1>1, <1>5, <1>13 DEF SavedInv, Kept, path, next
<1> DEFINE list == children'[i]
           order == index'[At(i)]
<1>15. CASE i \in leafs'
  <2>1. At(i) \in files'
    BY <1>1, <1>12, <1>15
  <2>2. QED
    BY <1>11, <1>15, <2>1 DEF OnDisk
<1>16. CASE i \notin leafs'
  <2>1. At(i) \in DOMAIN index /\ DOMAIN index' = DOMAIN index
    <3>1. CASE i = Root
      BY <1>0, <1>1, <3>1 DEF At, DiskIs
    <3>2. CASE i # Root
      <4>1. i \in 1..Count
        BY <1>8, <3>2
      <4>2. Listed[i] \in DOMAIN index
        BY <1>1, <1>3, <1>16, <4>1
      <4>3. QED
        BY <1>1, <1>12, <4>1, <4>2
    <3>3. QED
      BY <3>1, <3>2
  <2>2. i \in 0..MaxIds /\ i \in nodes' /\ i \in 0..Count
    BY <1>1, <1>6, <1>7
  <2>3. list \in Seq(Ids) /\ Distinct(list) /\ ToSet(list) = Below(parent', nodes', i)
    BY <1>16, <2>2 DEF IInv, DownInv
  <2>4. sound \cap Straying({}, nodes', parent', encoded') = {}
    BY <1>5 DEF SharingInv
  <2> DEFINE refilled == index[At(i)] = <<>> /\ \E f \in 0..Count : At(f) = At(i)
  <2>5. CASE refilled
    <3>1. order = indexFileWrite(CHOOSE f \in 0..Count : At(f) = At(i))
      BY <1>1, <2>1, <2>5
    <3>2. \A f \in 0..Count : At(f) = At(i) => f = i
      <4>1. ASSUME NEW f \in 0..Count, At(f) = At(i) PROVE f = i
        <5>1. (f = Root \/ f \in 1..Count) /\ (i = Root \/ i \in 1..Count)
          BY <1>1, <2>2, NodesAre
        <5>2. CASE f \in 1..Count /\ i \in 1..Count
          BY <1>1, <1>4, <1>12, <4>1, <5>2, BeginsApart
        <5>3. CASE f = Root \/ i = Root
          BY <1>12, <4>1, <5>1, <5>3 DEF At
        <5>4. QED
          BY <5>1, <5>2, <5>3
      <4>2. QED
        BY <4>1
    <3>3. (CHOOSE f \in 0..Count : At(f) = At(i)) = i
      BY <2>2, <3>2
    <3>4. order = indexFileWrite(i)
      BY <3>1, <3>3
    <3>5. order = [k \in 1..Len(list) |-> encoded'[list[k]]]
      BY <3>4 DEF indexFileWrite
    <3> HIDE DEF list, order, sound
    <3>6. OrderedBy(list, encoded', sound, order)
      BY <1>6, <2>3, <2>4, <3>5, WrittenOrder
    <3>7. QED
      BY <1>11, <1>16, <2>1, <3>6 DEF OnDisk, list, order
  <2>6. CASE ~refilled
    <3>1. order = index[At(i)] /\ order \in Seq(Names)
      BY <1>0, <1>1, <2>1, <2>6 DEF DiskIs
    <3> HIDE DEF order
    <3>2. /\ Len(list) \in Nat /\ DOMAIN list = 1..Len(list)
          /\ \A k \in 1..Len(list) : list[k] \in Under(parent', i)
          /\ \A j, k \in 1..Len(list) : j < k => Comes(Ranks, list[j], list[k])
      <4>1. DOMAIN list = 1..Len(list) /\ Len(list) \in Nat
        BY <2>3
      <4>2. Sorts(list, Ranks, Under(parent', i))
        BY <1>1, <2>2
      <4> HIDE DEF list
      <4>3. QED
        BY <4>1, <4>2 DEF Sorts
    \* Where the index file puts a node that kept its path.
    <3>3. ASSUME NEW k \in 1..Len(list), list[k] \in sound
          PROVE  /\ list[k] \in 1..Count /\ list[k] # Root
                 /\ parent'[list[k]] = i /\ Ranks[list[k]] = Rank(order, encoded'[list[k]])
                 /\ encoded'[list[k]] \in ToSet(order)
      <4> DEFINE c == list[k]
      <4>1. c \in 1..Count /\ parent'[c] = i /\ c # Root
        BY <1>2, <3>2 DEF Under
      <4>2. c \in sound \ {Root}
        BY <3>3, <4>1
      <4> HIDE DEF c, list
      <4>3. Front(Listed[c]) = At(i) /\ encoded'[c] = Real(Listed[c])
        BY <1>1, <1>2, <4>1
      <4>4. encoded'[c] \in ToSet(order)
        BY <1>10, <4>2, <4>3 DEF order
      <4>5. Ranks[c] = Rank(index[Front(Listed[c])], Real(Listed[c]))
        BY <4>1 DEF Ranks
      <4>6. Ranks[c] = Rank(order, encoded'[c])
        BY <3>1, <4>3, <4>5
      <4>7. QED
        BY <4>1, <4>4, <4>6 DEF c
    <3>4. ASSUME NEW j \in 1..Len(list), NEW k \in 1..Len(list), j < k, list[j] \in sound, list[k] \in sound
          PROVE  Rank(order, encoded'[list[j]]) < Rank(order, encoded'[list[k]])
      <4> DEFINE a == list[j]
                 b == list[k]
      <4>1. /\ a \in 1..Count /\ a # Root /\ parent'[a] = i /\ Ranks[a] = Rank(order, encoded'[a])
            /\ encoded'[a] \in ToSet(order)
        BY <3>3, <3>4
      <4>2. /\ b \in 1..Count /\ b # Root /\ parent'[b] = i /\ Ranks[b] = Rank(order, encoded'[b])
            /\ encoded'[b] \in ToSet(order)
        BY <3>3, <3>4
      <4>3. Comes(Ranks, a, b) /\ a \in sound /\ b \in sound
        BY <3>2, <3>4
      <4> HIDE DEF a, b, list
      <4>4. ASSUME Ranks[a] = Ranks[b], a # b PROVE FALSE
        <5>1. encoded'[a] = encoded'[b]
          <6>1. order[Rank(order, encoded'[a])] = encoded'[a] /\ order[Rank(order, encoded'[b])] = encoded'[b]
            BY <3>1, <4>1, <4>2, RankIs
          <6>2. QED
            BY <4>1, <4>2, <4>4, <6>1
        <5>2. a \in nodes' \ {Root} /\ b \in nodes' \ {Root, a} /\ a \in ChainIn(parent', a)
          BY <1>7, <4>1, <4>2, <4>3, <4>4
        <5>3. a \in Straying({}, nodes', parent', encoded')
          BY <4>1, <4>2, <5>1, <5>2, SharingIs
        <5>4. QED
          BY <2>4, <4>3, <5>3
      <4>5. Ranks[a] < Ranks[b]
        BY <1>1, <4>1, <4>2, <4>3, <4>4 DEF Comes
      <4>6. QED
        BY <4>1, <4>2, <4>5 DEF a, b
    <3>5. OrderedBy(list, encoded', sound, order)
      BY <3>4 DEF OrderedBy
    <3>6. QED
      BY <1>11, <1>16, <2>1, <3>5 DEF OnDisk, order
  <2>7. QED
    BY <2>5, <2>6
<1>17. QED
  BY <1>15, <1>16

LEMMA DropSaves ==
  ASSUME IInv, IInv', SharingInv, SavedInv, ViewInv, NEW id \in Ids, onMessagesDrop(id)
  PROVE  SharingInv' /\ SavedInv' /\ ViewInv'
<1>1. ASSUME NEW folder, NEW at, moveInsideAtIndex(id, folder, at) PROVE SharingInv' /\ SavedInv' /\ ViewInv'
  <2>1. CASE moveUnderSameParent(id, folder, at)
    BY <2>1, SameParentSaves
  <2>2. CASE moveUnderNewParent(id, folder, at)
    BY <2>2, NewParentSaves
  <2>3. QED
    BY <1>1, <2>1, <2>2 DEF moveInsideAtIndex
<1>2. QED
  BY <1>1 DEF onMessagesDrop, moveAfter, moveBefore

LEMMA Started == Init => SharingInv /\ SavedInv /\ ViewInv
<1> SUFFICES ASSUME Init PROVE SharingInv /\ SavedInv /\ ViewInv
  OBVIOUS
<1>1. /\ nodes = {Root} /\ leafs = {} /\ strays = {} /\ children[Root] = <<>>
      /\ files = {} /\ DOMAIN index = {<<>>} /\ index[<<>>] = <<>>
  BY NodesAre DEF Init
<1>2. SharingInv
  BY <1>1 DEF SharingInv, Straying
<1>3. IInv
  BY Start
<1>4. Paths(parent, encoded)[Root] = <<>> /\ ShownIn(parent, nodes) \subseteq {Root}
  BY <1>1, <1>3, TreeNow, TreePaths
<1>5. OrderedBy(<<>>, encoded, ShownIn(parent, nodes) \ strays, <<>>)
  BY DEF OrderedBy
<1>6. SavedInv
  <2>1. ASSUME NEW i \in ShownIn(parent, nodes) \ strays
        PROVE  OnDisk(Paths(parent, encoded)[i], i \in leafs, children[i], encoded,
                      ShownIn(parent, nodes) \ strays, files, index)
    <3>1. i = Root
      BY <1>4
    <3>2. QED
      BY <1>1, <1>4, <1>5, <3>1 DEF OnDisk
  <2>2. QED
    BY <2>1 DEF SavedInv, Kept
<1>7. ViewInv
  BY <1>1 DEF ViewInv, InView
<1>8. QED
  BY <1>2, <1>6, <1>7

LEMMA StaysSaved ==
  IInv /\ IInv' /\ SharingInv /\ SavedInv /\ ViewInv /\ [Next]_vars => SharingInv' /\ SavedInv' /\ ViewInv'
<1> SUFFICES ASSUME IInv, IInv', SharingInv, SavedInv, ViewInv, [Next]_vars PROVE SharingInv' /\ SavedInv' /\ ViewInv'
  OBVIOUS
<1>1. CASE UNCHANGED vars
  <2>1. /\ nodes' = nodes /\ leafs' = leafs /\ parent' = parent /\ encoded' = encoded
        /\ children' = children /\ strays' = strays /\ unsaved' = unsaved /\ alive' = alive
        /\ files' = files /\ index' = index
    BY <1>1 DEF vars, memory, disk
  <2>2. QED
    BY <2>1 DEF SharingInv, SavedInv, ViewInv
<1>2. CASE Next
  <2>1. ASSUME NEW f \in 0..MaxIds, createFolder(f) PROVE SharingInv' /\ SavedInv' /\ ViewInv'
    <3>1. alive /\ f \in Folders /\ \E n \in Names : Unique(NewFolder, f, n) /\ insert(f, n, FALSE)
      BY <2>1 DEF createFolder
    <3>2. PICK n \in Names : Unique(NewFolder, f, n) /\ insert(f, n, FALSE)
      BY <3>1
    <3>3. Stem[n] # ".index"
      BY <3>2, FsTreeAssumption DEF Unique, ToSet
    <3>4. QED
      BY <3>1, <3>2, <3>3, InsertSaves
  <2>2. ASSUME NEW f \in 0..MaxIds, createMessage(f) PROVE SharingInv' /\ SavedInv' /\ ViewInv'
    <3>1. alive /\ f \in Folders /\ \E n \in Names : Unique(NewLeaf, Root, n) /\ insert(f, n, TRUE)
      BY <2>2 DEF createMessage
    <3>2. PICK n \in Names : Unique(NewLeaf, Root, n) /\ insert(f, n, TRUE)
      BY <3>1
    <3>3. Stem[n] # ".index"
      BY <3>2, FsTreeAssumption DEF Unique, ToSet
    <3>4. QED
      BY <3>1, <3>2, <3>3, InsertSaves
  <2>3. ASSUME NEW id \in Ids, remove(id) PROVE SharingInv' /\ SavedInv' /\ ViewInv'
    BY <2>3, RemoveSaves
  <2>4. ASSUME NEW id \in Ids, leafReplace(id) PROVE SharingInv' /\ SavedInv' /\ ViewInv'
    BY <2>4, ReplaceSaves
  <2>5. ASSUME NEW id \in Ids, NEW n \in Names, rename(id, n) PROVE SharingInv' /\ SavedInv' /\ ViewInv'
    BY <2>5, RenameSaves
  <2>6. ASSUME NEW id \in Ids, NEW n \in Names, renameFails(id, n) PROVE SharingInv' /\ SavedInv' /\ ViewInv'
    BY <2>6, RenameFailsSaves
  <2>7. ASSUME NEW id \in Ids, onMessagesDrop(id) PROVE SharingInv' /\ SavedInv' /\ ViewInv'
    BY <2>7, DropSaves
  <2>8. ASSUME load PROVE SharingInv' /\ SavedInv' /\ ViewInv'
    BY <2>8, LoadSaves
  <2>9. QED
    BY <1>2, <2>1, <2>2, <2>3, <2>4, <2>5, <2>6, <2>7, <2>8 DEF Next
<1>3. QED
  BY <1>1, <1>2


-------------------------------------------------------------------------------
(* The tree after a start *)

Increasing(list, rank) ==
  \A j, k \in 1..Len(list) : j < k => rank[list[j]] < rank[list[k]]

\* In an increasing list a rank stands for one entry.
LEMMA RankTells ==
  ASSUME NEW T, NEW a \in Seq(T), NEW rank \in [T -> Nat], Increasing(a, rank),
         NEW n \in ToSet(a), NEW m \in ToSet(a), rank[n] = rank[m]
  PROVE  n = m
<1>1. PICK j \in 1..Len(a), k \in 1..Len(a) : a[j] = n /\ a[k] = m
  BY DEF ToSet
<1>2. ~(j < k) /\ ~(k < j)
  BY <1>1 DEF Increasing
<1>3. QED
  BY <1>1, <1>2

\* Two increasing lists of the same entries are the same, from the front on.
LEMMA AgreeInOrder ==
  ASSUME NEW T, NEW a \in Seq(T), NEW b \in Seq(T), NEW rank \in [T -> Nat],
         Increasing(a, rank), Increasing(b, rank), ToSet(a) = ToSet(b)
  PROVE  \A k \in 1..Len(a) : k \in 1..Len(b) /\ b[k] = a[k]
<1> DEFINE Same(k) == k \in 1..Len(b) /\ b[k] = a[k]
           S == {k \in 1..Len(a) : ~Same(k)}
<1>1. /\ Len(a) \in Nat /\ Len(b) \in Nat
      /\ \A k \in 1..Len(a) : a[k] \in T /\ a[k] \in ToSet(a)
      /\ \A k \in 1..Len(b) : b[k] \in T /\ b[k] \in ToSet(b)
  BY DEF ToSet
<1>2. /\ \A n \in ToSet(a) : \E k \in 1..Len(a) : a[k] = n
      /\ \A n \in ToSet(b) : \E k \in 1..Len(b) : b[k] = n
  BY DEF ToSet
<1>3. SUFFICES ASSUME S # {} PROVE FALSE
  OBVIOUS
<1>4. PICK k \in S : \A j \in S : k <= j
  <2>1. S \subseteq Nat
    BY <1>1
  <2> HIDE DEF S
  <2>2. QED
    BY <1>3, <2>1, LeastOf
<1>5. k \in 1..Len(a) /\ ~Same(k) /\ \A j \in 1..Len(a) : j < k => Same(j)
  BY <1>1, <1>4
<1> HIDE DEF S
<1>6. PICK m \in 1..Len(b) : b[m] = a[k]
  BY <1>1, <1>2, <1>5
<1>7. m > k /\ k \in 1..Len(b)
  <2>1. ~(m < k)
    <3>1. SUFFICES ASSUME m < k PROVE FALSE
      OBVIOUS
    <3>2. m \in 1..Len(a) /\ b[m] = a[m]
      BY <1>1, <1>5, <3>1
    <3>3. rank[a[m]] < rank[a[k]]
      BY <1>5, <3>1, <3>2 DEF Increasing
    <3>4. a[k] \in T /\ rank[a[k]] \in Nat
      BY <1>1, <1>5
    <3>5. QED
      BY <1>6, <3>2, <3>3, <3>4
  <2>2. m # k
    BY <1>5, <1>6
  <2>3. QED
    BY <1>1, <1>5, <1>6, <2>1, <2>2
<1>8. rank[b[k]] < rank[a[k]]
  BY <1>6, <1>7 DEF Increasing
<1>9. PICK l \in 1..Len(a) : a[l] = b[k]
  BY <1>1, <1>2, <1>7
<1>10. rank[a[k]] \in Nat /\ rank[b[k]] \in Nat /\ k \in Nat /\ l \in Nat
  BY <1>1, <1>5, <1>7
<1>11. CASE l < k
  <2>1. b[l] = a[l] /\ l \in 1..Len(b)
    BY <1>5, <1>11
  <2>2. rank[b[l]] < rank[b[k]]
    BY <1>7, <1>11, <2>1 DEF Increasing
  <2>3. QED
    BY <1>9, <1>10, <2>1, <2>2
<1>12. CASE l = k
  BY <1>5, <1>7, <1>9, <1>12
<1>13. CASE k < l
  <2>1. rank[a[k]] < rank[a[l]]
    BY <1>5, <1>13 DEF Increasing
  <2>2. QED
    BY <1>8, <1>9, <1>10, <2>1
<1>14. QED
  BY <1>10, <1>11, <1>12, <1>13

LEMMA SameOrder ==
  ASSUME NEW T, NEW a \in Seq(T), NEW b \in Seq(T), NEW rank \in [T -> Nat],
         Increasing(a, rank), Increasing(b, rank), ToSet(a) = ToSet(b)
  PROVE  a = b
<1>1. \A k \in 1..Len(a) : k \in 1..Len(b) /\ b[k] = a[k]
  BY AgreeInOrder
<1>2. \A k \in 1..Len(b) : k \in 1..Len(a) /\ a[k] = b[k]
  BY AgreeInOrder
<1>3. Len(a) \in Nat /\ Len(b) \in Nat
  OBVIOUS
<1>4. Len(a) = Len(b)
  BY <1>1, <1>2, <1>3, SMTT(30)
<1>5. QED
  BY <1>1, <1>4, SameSeq

\* What is in a folder of one tree is in the folder at that path of another that
\* has all its paths.
LEMMA NamesAlike ==
  ASSUME NEW par, NEW enc, NEW ns, IsTree(par, enc, ns),
         NEW par2, NEW enc2, NEW ns2, IsTree(par2, enc2, ns2),
         \A x, y \in ShownIn(par2, ns2) : Paths(par2, enc2)[x] = Paths(par2, enc2)[y] => x = y,
         ShownPaths(par, enc, ns) \subseteq ShownPaths(par2, enc2, ns2),
         NEW i \in ShownIn(par, ns), NEW j \in ShownIn(par2, ns2),
         Paths(par2, enc2)[j] = Paths(par, enc)[i],
         NEW c \in Below(par, ns, i)
  PROVE  \E d \in Below(par2, ns2, j) : enc2[d] = enc[c]
<1> DEFINE path == Paths(par, enc)
           path2 == Paths(par2, enc2)
<1>1. c \in ShownIn(par, ns) \ {Root} /\ par[c] = i
  <2>1. c \in ns \ {Root} /\ par[c] = i
    BY DEF Below
  <2>2. QED
    BY <2>1, ShownIs DEF IsTree
<1>2. /\ path[c] = Append(path[i], enc[c]) /\ enc[c] \in Names /\ path[i] \in Seq(Names)
  BY <1>1, TreePaths
<1>3. PICK d \in ShownIn(par2, ns2) : path2[d] = path[c]
  BY <1>1 DEF ShownPaths
<1>4. path2[Root] = <<>> /\ path[c] # <<>> /\ Front(path[c]) = path[i] /\ Last(path[c]) = enc[c]
  <2>1. path2[Root] = <<>>
    BY TreePaths
  <2>2. /\ Append(path[i], enc[c]) # <<>> /\ Front(Append(path[i], enc[c])) = path[i]
        /\ Last(Append(path[i], enc[c])) = enc[c]
    BY <1>2, FrontOfAppend
  <2>3. QED
    BY <1>2, <2>1, <2>2
<1>5. d \in ShownIn(par2, ns2) \ {Root}
  BY <1>3, <1>4
<1>6. /\ path2[d] = Append(path2[par2[d]], enc2[d]) /\ enc2[d] \in Names
      /\ par2[d] \in ShownIn(par2, ns2) /\ path2[par2[d]] \in Seq(Names) /\ d \in ns2
  BY <1>5, TreePaths
<1>7. Front(path2[d]) = path2[par2[d]] /\ Last(path2[d]) = enc2[d]
  BY <1>6, FrontOfAppend
<1>8. path2[par2[d]] = path2[j] /\ enc2[d] = enc[c]
  BY <1>3, <1>4, <1>7
<1>9. par2[d] = j
  BY <1>6, <1>8
<1>10. QED
  BY <1>5, <1>6, <1>8, <1>9 DEF Below

\* The names in a folder, in order.
NamesOf(list, enc) == [k \in 1..Len(list) |-> enc[list[k]]]

LEMMA NamesOfIs ==
  ASSUME NEW par, NEW enc, NEW ns, IsTree(par, enc, ns), NEW f,
         NEW list \in Seq(Ids), ToSet(list) = Below(par, ns, f)
  PROVE  /\ NamesOf(list, enc) \in Seq(Names) /\ Len(NamesOf(list, enc)) = Len(list)
         /\ \A k \in 1..Len(list) : NamesOf(list, enc)[k] = enc[list[k]] /\ list[k] \in Below(par, ns, f)
         /\ ToSet(NamesOf(list, enc)) = {enc[c] : c \in Below(par, ns, f)}
<1> DEFINE a == NamesOf(list, enc)
<1>1. /\ Len(list) \in Nat /\ \A k \in 1..Len(list) : list[k] \in Below(par, ns, f)
      /\ \A c \in Below(par, ns, f) : \E k \in 1..Len(list) : list[k] = c
  BY DEF ToSet
<1>2. \A c \in Below(par, ns, f) : enc[c] \in Names
  BY DEF Below, IsTree
<1>3. a = [k \in 1..Len(list) |-> enc[list[k]]] /\ a \in [1..Len(list) -> Names]
  BY <1>1, <1>2 DEF NamesOf
<1> HIDE DEF a
<1>4. a \in Seq(Names) /\ Len(a) = Len(list) /\ \A k \in 1..Len(list) : a[k] = enc[list[k]]
  BY <1>1, <1>3
<1>5. ToSet(a) = {enc[c] : c \in Below(par, ns, f)}
  BY <1>1, <1>4 DEF ToSet
<1>6. QED
  BY <1>1, <1>4, <1>5 DEF a

\* Every save has succeeded and no path was lost, and load() takes the names in
\* view as they are.
Settled ==
  /\ alive /\ strays = {} /\ unsaved = {}
  /\ \A i \in ShownIn(parent, nodes) \ {Root} : Stem[encoded[i]] = encoded[i]

LEMMA SettledIs ==
  ASSUME IInv, SharingInv, SavedInv, Settled
  PROVE  /\ \A x, y \in ShownIn(parent, nodes) :
              Paths(parent, encoded)[x] = Paths(parent, encoded)[y] => x = y
         /\ \A i \in ShownIn(parent, nodes) :
              /\ Paths(parent, encoded)[i] \in files \cup DOMAIN index
              /\ i \in leafs <=> Paths(parent, encoded)[i] \in files
              /\ i \notin leafs => OrderedBy(children[i], encoded, ShownIn(parent, nodes),
                                             index[Paths(parent, encoded)[i]])
         /\ \A i \in ShownIn(parent, nodes) \ {Root} :
              Stem[encoded[i]] = encoded[i] /\ encoded[i] \in Names /\ encoded[i] # ".index"
<1> DEFINE now == ShownIn(parent, nodes)
           path == Paths(parent, encoded)
<1>1. IsTree(parent, encoded, nodes) /\ Straying({}, nodes, parent, encoded) = {}
  BY TreeNow DEF SharingInv, Settled
<1>2. \A x, y \in now : path[x] = path[y] => x = y
  BY <1>1, PathsDiffer
<1>3. strays = {} /\ unsaved = {} /\ alive
  BY DEF Settled
<1>4. files \cap DOMAIN index = {}
  BY DEF IInv, DiskIs
<1>5. ASSUME NEW i \in now
      PROVE  /\ path[i] \in files \cup DOMAIN index
             /\ i \in leafs <=> path[i] \in files
             /\ i \notin leafs => OrderedBy(children[i], encoded, now, index[path[i]])
  <2>1. i \in (now \ strays) \ unsaved /\ now \ strays = now
    BY <1>3, <1>5
  <2>2. OnDisk(path[i], i \in leafs, children[i], encoded, now, files, index)
    BY <1>3, <2>1, SavedNode
  <2>3. CASE i \in leafs
    BY <2>2, <2>3 DEF OnDisk
  <2>4. CASE i \notin leafs
    <3>1. path[i] \in DOMAIN index /\ OrderedBy(children[i], encoded, now, index[path[i]])
      BY <2>2, <2>4 DEF OnDisk
    <3>2. QED
      BY <1>4, <2>4, <3>1
  <2>5. QED
    BY <2>3, <2>4
<1>6. ASSUME NEW i \in now \ {Root}
      PROVE  Stem[encoded[i]] = encoded[i] /\ encoded[i] \in Names /\ encoded[i] # ".index"
  BY <1>1, <1>6, TreePaths, FsTreeAssumption DEF Settled
<1>7. QED
  BY <1>2, <1>5, <1>6

\* Then what is in view is what load() will find.
LEMMA ShownAreEntries ==
  ASSUME IInv, SharingInv, SavedInv, Settled, NEW i \in ShownIn(parent, nodes) \ {Root}
  PROVE  Paths(parent, encoded)[i] \in Entries
<1> DEFINE now == ShownIn(parent, nodes)
           path == Paths(parent, encoded)
           S == {k \in now : k = Root \/ path[k] \in Entries}
<1>1. IsTree(parent, encoded, nodes)
  BY TreeNow
<1>2. Root \in S /\ path[Root] = <<>>
  BY <1>1, TreePaths
<1>3. ASSUME NEW k \in now \ {Root}, parent[k] \in S PROVE k \in S
  <2>1. path[k] = Append(path[parent[k]], encoded[k]) /\ path[parent[k]] \in Seq(Names)
    BY <1>1, <1>3, TreePaths
  <2>2. encoded[k] \in Names /\ Stem[encoded[k]] # ".index" /\ path[k] \in files \cup DOMAIN index
    BY <1>3, SettledIs
  <2>3. path[k] # <<>> /\ Front(path[k]) = path[parent[k]] /\ Last(path[k]) = encoded[k]
    BY <2>1, <2>2, FrontOfAppend
  <2>4. path[parent[k]] \in Entries \cup {<<>>}
    BY <1>2, <1>3
  <2>5. path[k] \in Entries
    <3>1. path[k] \in (files \cup DOMAIN index) \ {<<>>} /\ Front(path[k]) \in Entries \cup {<<>>}
      BY <2>2, <2>3, <2>4
    <3>2. DiskIs(files, index)
      BY DEF IInv
    <3>3. path[k] \in Entries \/ Stem[Last(path[k])] = ".index"
      BY <3>1, <3>2, EntryOrSkipped
    <3>4. QED
      BY <2>2, <2>3, <3>3
  <2>6. QED
    BY <2>5
<1> HIDE DEF S
<1>4. now \subseteq S
  <2>1. parent \in [Ids -> 0..MaxIds] /\ Rooted(parent) /\ nodes \in SUBSET (0..MaxIds) /\ Root \in nodes
    BY TreeNow
  <2>2. QED
    BY <1>2, <1>3, <2>1, Downwards
<1>5. QED
  BY <1>4 DEF S

LEMMA EntriesAreShown ==
  ASSUME IInv, ViewInv, Settled, NEW p \in Entries
  PROVE  p \in ShownPaths(parent, encoded, nodes)
<1> DEFINE V == ShownPaths(parent, encoded, nodes)
           S == {j \in 1..Count : Listed[j] \notin V}
<1>1. DiskIs(files, index) /\ InView(files \cup DOMAIN index, V)
  BY DEF IInv, ViewInv, Settled
<1>2. Begins(Listed, Count) /\ Count \in Nat
  BY <1>1, ListedIs, EntriesAre DEF Count
<1>3. <<>> \in V
  <2>1. Root \in ShownIn(parent, nodes) /\ Paths(parent, encoded)[Root] = <<>>
    BY TreeNow, TreePaths
  <2>2. QED
    BY <2>1 DEF ShownPaths
<1>4. S = {}
  <2>1. SUFFICES ASSUME S # {} PROVE FALSE
    OBVIOUS
  <2>2. S \subseteq Nat
    BY <1>2
  <2>3. PICK j \in S : \A k \in S : j <= k
    <3> HIDE DEF S
    <3>1. QED
      BY <2>1, <2>2, LeastOf
  <2>4. j \in 1..Count /\ Listed[j] \in Entries /\ Listed[j] \notin V
    BY <1>2 DEF Begins
  <2>5. Front(Listed[j]) \in V
    <3>1. CASE Len(Listed[j]) > 1
      <4>1. PICK k \in 1..(j - 1) : Listed[k] = Front(Listed[j])
        BY <1>2, <2>4, <3>1 DEF Begins
      <4>2. k \in 1..Count /\ k < j /\ j \in Nat /\ k \in Nat
        BY <1>2, <2>4
      <4>3. k \notin S
        BY <2>3, <4>2
      <4>4. QED
        BY <4>1, <4>2, <4>3
    <3>2. CASE ~(Len(Listed[j]) > 1)
      BY <1>1, <1>3, <2>4, <3>2, EntriesAre
    <3>3. QED
      BY <3>1, <3>2
  <2>6. /\ Listed[j] \in files \cup DOMAIN index /\ Listed[j] # <<>>
        /\ Len(Listed[j]) \in Nat \ {0}
    BY <1>1, <2>4, EntriesAre
  <2>7. Stem[Last(Listed[j])] # ".index"
    <3>1. Len(Listed[j]) \in 1..Len(Listed[j])
      BY <2>6
    <3>2. Stem[Listed[j][Len(Listed[j])]] # ".index"
      BY <2>4, <3>1 DEF Entries
    <3>3. QED
      BY <3>2 DEF Last
  <2>8. QED
    BY <1>1, <2>4, <2>5, <2>6, <2>7 DEF InView
<1>5. PICK j \in 1..Count : Listed[j] = p
  BY <1>1, ListedAll
<1>6. QED
  BY <1>4, <1>5

\* The next start finds the paths that are in view, and shows each as it finds it.
LEMMA PathsAgain ==
  ASSUME IInv, IInv', SharingInv, SavedInv, ViewInv, Settled, load
  PROVE  /\ ShownIn(parent', nodes') = 0..Count
         /\ \A j \in 0..Count : Paths(parent', encoded')[j] = At(j)
         /\ \A x, y \in ShownIn(parent', nodes') :
              Paths(parent', encoded')[x] = Paths(parent', encoded')[y] => x = y
         /\ ShownPaths(parent', encoded', nodes') = ShownPaths(parent, encoded, nodes)
<1> DEFINE now == ShownIn(parent, nodes)
           path == Paths(parent, encoded)
<1>1. DiskIs(files, index) /\ IsTree(parent, encoded, nodes)
  BY TreeNow DEF IInv
<1>2. Begins(Listed, Count) /\ Count \in Nat /\ \A j \in 1..Count : Listed[j] \in Entries
  BY <1>1, ListedIs, LoadIs DEF Count
<1>3. path[Root] = <<>> /\ Root \in now
  BY <1>1, TreePaths
<1>4. \A j \in 1..Count : Listed[j] # <<>> /\ Listed[j] \in ShownPaths(parent, encoded, nodes)
  BY <1>1, <1>2, EntriesAre, EntriesAreShown
<1>5. ASSUME NEW j \in 1..Count PROVE Real(Listed[j]) = Last(Listed[j])
  <2>1. PICK i \in now : path[i] = Listed[j]
    BY <1>4, <1>5 DEF ShownPaths
  <2>2. i \in now \ {Root}
    BY <1>3, <1>4, <1>5, <2>1
  <2>3. path[i] = Append(path[parent[i]], encoded[i]) /\ path[parent[i]] \in Seq(Names)
    BY <1>1, <2>2, TreePaths
  <2>4. encoded[i] \in Names /\ Stem[encoded[i]] = encoded[i]
    BY <2>2, SettledIs
  <2>5. Last(path[i]) = encoded[i]
    BY <2>3, <2>4, FrontOfAppend
  <2>6. QED
    BY <2>1, <2>4, <2>5 DEF Real
<1>6. ShownIn(parent', nodes') = 0..Count /\ \A j \in 0..Count : Paths(parent', encoded')[j] = At(j)
  BY <1>5, LoadShows
<1>7. ASSUME NEW x \in 0..Count, NEW y \in 0..Count, At(x) = At(y) PROVE x = y
  <2>1. \A j \in 0..Count : j # Root => j \in 1..Count
    BY <1>2 DEF Root
  <2>2. CASE x = Root \/ y = Root
    <3>1. At(x) = <<>> /\ At(y) = <<>>
      BY <1>7, <2>2 DEF At
    <3>2. x = Root /\ y = Root
      BY <1>4, <2>1, <3>1 DEF At
    <3>3. QED
      BY <3>2
  <2>3. CASE x # Root /\ y # Root
    <3>1. x \in 1..Count /\ y \in 1..Count /\ Listed[x] = Listed[y]
      BY <1>7, <2>1, <2>3 DEF At
    <3>2. QED
      BY <1>2, <3>1, BeginsApart
  <2>4. QED
    BY <2>2, <2>3
<1>8. \A j \in 0..Count : At(j) \in ShownPaths(parent, encoded, nodes)
  <2>1. \A j \in 0..Count : j # Root => j \in 1..Count
    BY <1>2 DEF Root
  <2>2. <<>> \in ShownPaths(parent, encoded, nodes)
    BY <1>3 DEF ShownPaths
  <2>3. QED
    BY <1>4, <2>1, <2>2 DEF At
<1>9. ASSUME NEW i \in now PROVE \E j \in 0..Count : At(j) = path[i]
  <2>1. CASE i = Root
    BY <1>2, <1>3, <2>1 DEF At, Root
  <2>2. CASE i # Root
    <3>1. path[i] \in Entries
      BY <1>9, <2>2, ShownAreEntries
    <3>2. PICK j \in 1..Count : Listed[j] = path[i]
      BY <1>1, <3>1, ListedAll
    <3>3. j \in 0..Count /\ j # Root
      BY <1>2 DEF Root
    <3>4. QED
      BY <3>2, <3>3 DEF At
  <2>3. QED
    BY <2>1, <2>2
<1>10. ShownPaths(parent', encoded', nodes') = {At(j) : j \in 0..Count}
  BY <1>6 DEF ShownPaths
<1>11. {At(j) : j \in 0..Count} = ShownPaths(parent, encoded, nodes)
  BY <1>8, <1>9 DEF ShownPaths
<1>12. \A x, y \in ShownIn(parent', nodes') :
         Paths(parent', encoded')[x] = Paths(parent', encoded')[y] => x = y
  BY <1>6, <1>7
<1>13. QED
  BY <1>6, <1>10, <1>11, <1>12

\* The node at a path before the start, and the one at that path after it.
LEMMA SameKind ==
  ASSUME IInv, IInv', SharingInv, SavedInv, ViewInv, Settled, load,
         NEW i \in ShownIn(parent, nodes), NEW j \in ShownIn(parent', nodes'),
         Paths(parent', encoded')[j] = Paths(parent, encoded)[i]
  PROVE  i \in leafs <=> j \in leafs'
<1> DEFINE path == Paths(parent, encoded)
<1>1. j \in 0..Count /\ At(j) = path[i] /\ leafs' = {k \in 1..Count : Listed[k] \in files}
  BY PathsAgain, LoadIs DEF IInv
<1>2. i \in leafs <=> path[i] \in files
  BY SettledIs
<1>3. Count \in Nat /\ <<>> \in DOMAIN index /\ files \cap DOMAIN index = {}
  BY LoadIs DEF IInv, DiskIs
<1>4. CASE j = Root
  BY <1>1, <1>2, <1>3, <1>4 DEF At, Root
<1>5. CASE j # Root
  BY <1>1, <1>2, <1>3, <1>5 DEF At, Root
<1>6. QED
  BY <1>4, <1>5

\* An order by rank is increasing, for names that differ.
LEMMA NamesIncrease ==
  ASSUME NEW par, NEW enc, NEW ns, IsTree(par, enc, ns), NEW f,
         NEW list \in Seq(Ids), ToSet(list) = Below(par, ns, f),
         NEW sound, Below(par, ns, f) \subseteq sound,
         NEW order \in Seq(Names), OrderedBy(list, enc, sound, order)
  PROVE  Increasing(NamesOf(list, enc), [n \in Names |-> Rank(order, n)])
<1> DEFINE a == NamesOf(list, enc)
           rank == [n \in Names |-> Rank(order, n)]
<1>1. /\ a \in Seq(Names) /\ Len(a) = Len(list)
      /\ \A k \in 1..Len(list) : a[k] = enc[list[k]] /\ list[k] \in Below(par, ns, f)
  BY NamesOfIs
<1>2. \A k \in 1..Len(list) : list[k] \in sound /\ a[k] \in Names /\ a[k] = enc[list[k]]
  BY <1>1
<1>3. \A j, k \in 1..Len(list) : j < k => Rank(order, a[j]) < Rank(order, a[k])
  BY <1>2 DEF OrderedBy
<1>4. \A j, k \in 1..Len(list) : j < k => rank[a[j]] < rank[a[k]]
  BY <1>2, <1>3
<1>5. QED
  BY <1>1, <1>4 DEF Increasing

LEMMA ListedIn ==
  ASSUME IInv, NEW f \in ShownIn(parent, nodes) \ leafs
  PROVE  /\ children[f] \in Seq(Ids) /\ ToSet(children[f]) = Below(parent, nodes, f)
         /\ Below(parent, nodes, f) \subseteq ShownIn(parent, nodes)
<1>1. f \in nodes \ leafs /\ f \in 0..MaxIds
  BY TreeNow, TreePaths
<1>2. children[f] \in Seq(Ids) /\ ToSet(children[f]) = Below(parent, nodes, f)
  BY <1>1 DEF IInv, DownInv
<1>3. Below(parent, nodes, f) \subseteq ShownIn(parent, nodes)
  <2>1. \A i \in nodes \ {Root} : parent[i] \in ShownIn(parent, nodes) => i \in ShownIn(parent, nodes)
    BY TreeNow, ShownIs
  <2>2. QED
    BY <2>1 DEF Below
<1>4. QED
  BY <1>2, <1>3

LEMMA ListedInNext ==
  ASSUME IInv', NEW f \in ShownIn(parent', nodes') \ leafs'
  PROVE  /\ children'[f] \in Seq(Ids) /\ ToSet(children'[f]) = Below(parent', nodes', f)
         /\ Below(parent', nodes', f) \subseteq ShownIn(parent', nodes')
<1>1. f \in nodes' \ leafs' /\ f \in 0..MaxIds
  BY TreeNext, TreePaths
<1>2. children'[f] \in Seq(Ids) /\ ToSet(children'[f]) = Below(parent', nodes', f)
  BY <1>1 DEF IInv, DownInv
<1>3. Below(parent', nodes', f) \subseteq ShownIn(parent', nodes')
  <2>1. \A i \in nodes' \ {Root} : parent'[i] \in ShownIn(parent', nodes') => i \in ShownIn(parent', nodes')
    BY TreeNext, ShownIs
  <2>2. QED
    BY <2>1 DEF Below
<1>4. QED
  BY <1>2, <1>3

\* A folder at the same path has the same names in the same order.
LEMMA SameNames ==
  ASSUME IInv, IInv', SharingInv, SavedInv, ViewInv, Settled, load,
         NEW i \in ShownIn(parent, nodes) \ leafs, NEW j \in ShownIn(parent', nodes') \ leafs',
         Paths(parent', encoded')[j] = Paths(parent, encoded)[i]
  PROVE  NamesOf(children[i], encoded) = NamesOf(children'[j], encoded')
<1> DEFINE path == Paths(parent, encoded)
           a == NamesOf(children[i], encoded)
           b == NamesOf(children'[j], encoded')
           order == index[path[i]]
           rank == [n \in Names |-> Rank(order, n)]
<1>1. IsTree(parent, encoded, nodes) /\ IsTree(parent', encoded', nodes')
  BY TreeNow, TreeNext
<1>2. /\ children[i] \in Seq(Ids) /\ ToSet(children[i]) = Below(parent, nodes, i)
      /\ Below(parent, nodes, i) \subseteq ShownIn(parent, nodes)
  BY ListedIn
<1>3. /\ children'[j] \in Seq(Ids) /\ ToSet(children'[j]) = Below(parent', nodes', j)
      /\ Below(parent', nodes', j) \subseteq ShownIn(parent', nodes')
  BY ListedInNext
<1>4. /\ a \in Seq(Names) /\ Len(a) = Len(children[i])
      /\ ToSet(a) = {encoded[c] : c \in Below(parent, nodes, i)}
  BY <1>1, <1>2, NamesOfIs
<1>5. /\ b \in Seq(Names) /\ Len(b) = Len(children'[j])
      /\ \A k \in 1..Len(children'[j]) :
           b[k] = encoded'[children'[j][k]] /\ children'[j][k] \in Below(parent', nodes', j)
      /\ ToSet(b) = {encoded'[d] : d \in Below(parent', nodes', j)}
  BY <1>1, <1>3, NamesOfIs
<1>6. ToSet(a) = ToSet(b)
  <2>1. \A c \in Below(parent, nodes, i) :
          \E d \in Below(parent', nodes', j) : encoded'[d] = encoded[c]
    <3>1. /\ \A x, y \in ShownIn(parent', nodes') :
               Paths(parent', encoded')[x] = Paths(parent', encoded')[y] => x = y
          /\ ShownPaths(parent, encoded, nodes) \subseteq ShownPaths(parent', encoded', nodes')
      BY PathsAgain
    <3>2. QED
      BY <1>1, <3>1, NamesAlike
  <2>2. \A d \in Below(parent', nodes', j) :
          \E c \in Below(parent, nodes, i) : encoded[c] = encoded'[d]
    <3>1. /\ \A x, y \in ShownIn(parent, nodes) :
               Paths(parent, encoded)[x] = Paths(parent, encoded)[y] => x = y
          /\ ShownPaths(parent', encoded', nodes') \subseteq ShownPaths(parent, encoded, nodes)
      BY PathsAgain, SettledIs
    <3>2. QED
      BY <1>1, <3>1, NamesAlike
  <2>3. QED
    BY <1>4, <1>5, <2>1, <2>2
<1>7. order \in Seq(Names) /\ OrderedBy(children[i], encoded, ShownIn(parent, nodes), order)
  <2>1. path[i] \in DOMAIN index /\ OrderedBy(children[i], encoded, ShownIn(parent, nodes), order)
    BY SettledIs
  <2>2. QED
    BY <2>1 DEF IInv, DiskIs
<1>8. rank \in [Names -> Nat]
  BY <1>7, RankIs
<1>9. Increasing(a, rank)
  BY <1>1, <1>2, <1>7, NamesIncrease
<1> HIDE DEF a, b, rank
<1>10. Increasing(b, rank)
  <2>1. /\ Count \in Nat /\ Sorts(children'[j], Ranks, Under(parent', j))
        /\ Ranks \in [1..Count -> Nat] /\ Under(parent', j) \subseteq 1..Count
        /\ nodes' = 0..Count /\ encoded' = name' /\ Count <= MaxIds
        /\ name' = [k \in Ids |-> IF k <= Count THEN Real(Listed[k]) ELSE "none"]
        /\ \A k \in 1..Count : At(parent'[k]) = Front(Listed[k])
    <3>1. j \in 0..MaxIds
      BY <1>1, TreePaths
    <3>2. QED
      BY <3>1, LoadIs DEF IInv, Under
  <2>2. At(j) = path[i]
    BY PathsAgain
  <2>3. \A c \in Below(parent', nodes', j) :
          /\ c \in 1..Count /\ parent'[c] = j /\ c \in ShownIn(parent', nodes') \ {Root}
          /\ encoded'[c] = Real(Listed[c]) /\ encoded'[c] \in Names
    <3>1. ASSUME NEW c \in Below(parent', nodes', j)
          PROVE  /\ c \in 1..Count /\ parent'[c] = j /\ c \in ShownIn(parent', nodes') \ {Root}
                 /\ encoded'[c] = Real(Listed[c]) /\ encoded'[c] \in Names
      <4>1. c \in nodes' \ {Root} /\ parent'[c] = j /\ c \in ShownIn(parent', nodes')
        BY <1>3, <3>1 DEF Below
      <4>2. c \in 1..Count /\ c \in Ids /\ c <= Count
        BY <2>1, <4>1, FsTreeAssumption DEF Root, Ids
      <4>3. encoded'[c] \in Names
        BY <1>1, <4>1 DEF IsTree
      <4>4. QED
        BY <2>1, <4>1, <4>2, <4>3
    <3>2. QED
      BY <3>1
  <2>4. \A c \in Below(parent', nodes', j) : Ranks[c] = rank[encoded'[c]]
    <3>1. ASSUME NEW c \in Below(parent', nodes', j) PROVE Ranks[c] = rank[encoded'[c]]
      <4>1. c \in 1..Count /\ Front(Listed[c]) = path[i]
        BY <2>1, <2>2, <2>3
      <4>2. Ranks[c] = Rank(index[path[i]], encoded'[c])
        BY <2>3, <4>1 DEF Ranks
      <4>3. QED
        BY <2>3, <4>2 DEF rank
    <3>2. QED
      BY <3>1
  <2>5. \A c, d \in Below(parent', nodes', j) : encoded'[c] = encoded'[d] => c = d
    <3>1. ASSUME NEW c \in Below(parent', nodes', j), NEW d \in Below(parent', nodes', j),
                 encoded'[c] = encoded'[d]
          PROVE  c = d
      <4>1. /\ Paths(parent', encoded')[c] = Append(Paths(parent', encoded')[j], encoded'[c])
            /\ Paths(parent', encoded')[d] = Append(Paths(parent', encoded')[j], encoded'[d])
        <5>1. \A k \in ShownIn(parent', nodes') \ {Root} :
                Paths(parent', encoded')[k] = Append(Paths(parent', encoded')[parent'[k]], encoded'[k])
          BY <1>1, TreePaths
        <5>2. QED
          BY <2>3, <5>1
      <4>2. Paths(parent', encoded')[c] = Paths(parent', encoded')[d]
        BY <3>1, <4>1
      <4>3. QED
        BY <2>3, <4>2, PathsAgain
    <3>2. QED
      BY <3>1
  <2>6. SUFFICES ASSUME NEW x \in 1..Len(b), NEW y \in 1..Len(b), x < y
                 PROVE  rank[b[x]] < rank[b[y]]
    BY DEF Increasing
  <2> DEFINE c == children'[j][x]
             d == children'[j][y]
  <2>7. /\ c \in Below(parent', nodes', j) /\ d \in Below(parent', nodes', j)
        /\ b[x] = encoded'[c] /\ b[y] = encoded'[d]
    BY <1>5, <2>6
  <2>8. Comes(Ranks, c, d)
    <3>1. DOMAIN children'[j] = 1..Len(children'[j]) /\ x \in 1..Len(children'[j]) /\ y \in 1..Len(children'[j])
      BY <1>3, <1>5, <2>6
    <3>2. QED
      BY <2>1, <2>6, <3>1 DEF Sorts
  <2> HIDE DEF c, d
  <2>9. Ranks[c] = rank[b[x]] /\ Ranks[d] = rank[b[y]] /\ c \in Nat /\ d \in Nat
    <3>1. Ranks[c] = rank[encoded'[c]] /\ Ranks[d] = rank[encoded'[d]]
      BY <2>4, <2>7
    <3>2. c \in 1..Count /\ d \in 1..Count
      BY <2>3, <2>7
    <3>3. QED
      BY <2>1, <2>7, <3>1, <3>2
  <2>10. CASE Ranks[c] < Ranks[d]
    BY <2>9, <2>10
  <2>11. CASE Ranks[c] = Ranks[d] /\ c < d
    <3>1. b[x] \in ToSet(a) /\ b[y] \in ToSet(a) /\ rank[b[x]] = rank[b[y]]
      BY <1>5, <1>6, <2>7, <2>9, <2>11
    <3>2. b[x] = b[y]
      BY <1>4, <1>8, <1>9, <3>1, RankTells
    <3>3. c = d
      BY <2>5, <2>7, <3>2
    <3>4. QED
      BY <2>9, <2>11, <3>3
  <2>12. QED
    BY <2>8, <2>10, <2>11 DEF Comes
<1>11. QED
  <2>1. a = b
    BY <1>4, <1>5, <1>6, <1>8, <1>9, <1>10, SameOrder
  <2>2. QED
    BY <2>1 DEF a, b

\* What Tree is, of any tree in memory.
TreeOf(par, enc, ns, lfs, kids) ==
  [nodes |-> {<<Paths(par, enc)[i], i \in lfs>> : i \in ShownIn(par, ns)},
   order |-> {<<Paths(par, enc)[f], NamesOf(kids[f], enc)>> : f \in ShownIn(par, ns) \ lfs}]

LEMMA SameTree ==
  ASSUME NEW par, NEW enc, NEW ns, NEW lfs, NEW kids,
         NEW par2, NEW enc2, NEW ns2, NEW lfs2, NEW kids2,
         ShownPaths(par, enc, ns) = ShownPaths(par2, enc2, ns2),
         \A i \in ShownIn(par, ns), j \in ShownIn(par2, ns2) :
           Paths(par2, enc2)[j] = Paths(par, enc)[i] =>
             /\ i \in lfs <=> j \in lfs2
             /\ i \notin lfs => NamesOf(kids[i], enc) = NamesOf(kids2[j], enc2)
  PROVE  TreeOf(par, enc, ns, lfs, kids) = TreeOf(par2, enc2, ns2, lfs2, kids2)
<1> DEFINE path == Paths(par, enc)
           path2 == Paths(par2, enc2)
           now == ShownIn(par, ns)
           next == ShownIn(par2, ns2)
           a(i) == NamesOf(kids[i], enc)
           b(j) == NamesOf(kids2[j], enc2)
<1>1. \A i \in now : \E j \in next : path2[j] = path[i]
  BY DEF ShownPaths
<1>2. \A j \in next : \E i \in now : path2[j] = path[i]
  BY DEF ShownPaths
<1>3. \A i \in now, j \in next : path2[j] = path[i] =>
        (i \in lfs <=> j \in lfs2) /\ (i \notin lfs => a(i) = b(j))
  OBVIOUS
<1> HIDE DEF path, path2, now, next, a, b
<1>4. {<<path[i], i \in lfs>> : i \in now} = {<<path2[j], j \in lfs2>> : j \in next}
  <2> DEFINE node(i) == <<path[i], i \in lfs>>
             node2(j) == <<path2[j], j \in lfs2>>
  <2>1. \A i \in now, j \in next : path2[j] = path[i] => node(i) = node2(j)
    <3>1. ASSUME NEW i \in now, NEW j \in next, path2[j] = path[i] PROVE node(i) = node2(j)
      <4>1. (i \in lfs) = (j \in lfs2)
        BY <1>3, <3>1
      <4>2. QED
        BY <3>1, <4>1, Zenon
    <3>2. QED
      BY <3>1
  <2> HIDE DEF node, node2
  <2>2. {node(i) : i \in now} = {node2(j) : j \in next}
    BY <1>1, <1>2, <2>1
  <2>3. QED
    BY <2>2 DEF node, node2
<1>5. {<<path[f], a(f)>> : f \in now \ lfs} = {<<path2[g], b(g)>> : g \in next \ lfs2}
  <2> DEFINE folder(f) == <<path[f], a(f)>>
             folder2(g) == <<path2[g], b(g)>>
  <2>1. \A f \in now \ lfs, g \in next : path2[g] = path[f] => g \notin lfs2 /\ folder(f) = folder2(g)
    BY <1>3
  <2>2. \A f \in now, g \in next \ lfs2 : path2[g] = path[f] => f \notin lfs /\ folder(f) = folder2(g)
    BY <1>3
  <2> HIDE DEF folder, folder2
  <2>3. {folder(f) : f \in now \ lfs} = {folder2(g) : g \in next \ lfs2}
    BY <1>1, <1>2, <2>1, <2>2
  <2>4. QED
    BY <2>3 DEF folder, folder2
<1>6. QED
  BY <1>4, <1>5 DEF TreeOf, path, path2, now, next, a, b

LEMMA LoadKeepsTree ==
  ASSUME IInv, IInv', SharingInv, SavedInv, ViewInv, Settled, load
  PROVE  Tree' = Tree
<1>1. \A i \in ShownIn(parent, nodes), j \in ShownIn(parent', nodes') :
        Paths(parent', encoded')[j] = Paths(parent, encoded)[i] =>
          /\ i \in leafs <=> j \in leafs'
          /\ i \notin leafs => NamesOf(children[i], encoded) = NamesOf(children'[j], encoded')
  BY SameKind, SameNames
<1>2. ShownPaths(parent, encoded, nodes) = ShownPaths(parent', encoded', nodes')
  BY PathsAgain
<1>3. TreeOf(parent, encoded, nodes, leafs, children) = TreeOf(parent', encoded', nodes', leafs', children')
  BY <1>1, <1>2, SameTree
<1>4. Tree = TreeOf(parent, encoded, nodes, leafs, children)
  BY DEF Tree, TreeOf, NamesOf, getNodePath, Folders, Shown, Chain, ShownIn
<1>5. Tree' = TreeOf(parent', encoded', nodes', leafs', children')
  BY DEF Tree, TreeOf, NamesOf, getNodePath, Folders, Shown, Chain, ShownIn
<1>6. QED
  BY <1>3, <1>4, <1>5
-------------------------------------------------------------------------------
\* Memory is a tree, and so is the disk, whatever operations, failures and
\* starts there have been.
THEOREM TreeInvariance == Spec => []IInv
<1>1. QED
  BY Start, Stays, PTL DEF Spec

\* FsTree.hpp's mNodes after any operation of Messages: what the panes walk from
\* the root, by children, is what has its parent there, each node once.
THEOREM TreesAreConsistent == Spec => []TreeIsConsistent
<1>1. IInv => TreeIsConsistent
  <2> SUFFICES ASSUME IInv PROVE TreeIsConsistent
    OBVIOUS
  <2>0. MemoryInv /\ UpInv /\ CodeInv /\ DownInv /\ DiskIs(files, index) /\ CountInv
    BY DEF IInv
  <2>1. TypeOK
    <3>1. nodes \subseteq 0..(mNextAvailableId - 1) /\ Root \in nodes /\ leafs \subseteq nodes \ {Root}
          /\ name \in [Ids -> Names \cup {"none"}] /\ mNextAvailableId \in 1..(MaxIds + 1)
          /\ strays \subseteq Ids
      BY <2>0 DEF MemoryInv
    <3>2. /\ parent \in [Ids -> 0..MaxIds] /\ encoded \in [Ids -> Names \cup {"none"}]
          /\ children \in [0..MaxIds -> Seq(Ids)]
      BY <2>0 DEF UpInv, CodeInv, DownInv
    <3>3. /\ unsaved \subseteq nodes /\ alive \in BOOLEAN /\ faults \in 0..MaxFaults
          /\ steps \in 0..MaxSteps
      BY <2>0 DEF CountInv
    <3>4. /\ files \subseteq Seq(Names)
          /\ DOMAIN index \subseteq Seq(Names) /\ <<>> \in DOMAIN index
          /\ \A p \in DOMAIN index : index[p] \in Seq(Names)
          /\ files \cap DOMAIN index = {}
      BY <2>0 DEF DiskIs
    <3>5. QED
      BY <3>1, <3>2, <3>3, <3>4 DEF TypeOK
  <2>2. ASSUME NEW f \in Shown
        PROVE  /\ f \in leafs => children[f] = <<>>
               /\ ToSet(children[f]) = {i \in Shown \ {Root} : parent[i] = f}
               /\ \A j, k \in 1..Len(children[f]) : children[f][j] = children[f][k] => j = k
    <3>1. /\ f \in nodes /\ f \in 0..MaxIds /\ Shown \subseteq nodes
          /\ \A i \in nodes \ {Root} : parent[i] \in Shown => i \in Shown
          /\ \A i \in nodes \ {Root} : parent[i] \notin leafs
      BY <2>0, NodesInBounds DEF UpInv
    <3>2. /\ children[f] \in Seq(Ids) /\ Distinct(children[f])
          /\ ToSet(children[f]) = IF f \in nodes \ leafs THEN Below(parent, nodes, f) ELSE {}
      BY <2>0, <3>1 DEF DownInv
    <3>3. {i \in Shown \ {Root} : parent[i] = f} = Below(parent, nodes, f)
      <4>1. \A i \in nodes \ {Root} : parent[i] = f => i \in Shown
        BY <2>2, <3>1
      <4>2. Shown \subseteq nodes
        BY <3>1
      <4> HIDE DEF Shown
      <4>3. QED
        BY <4>1, <4>2 DEF Below
    <3>4. f \in leafs => Below(parent, nodes, f) = {} /\ children[f] = <<>>
      <4>1. SUFFICES ASSUME f \in leafs
                     PROVE  Below(parent, nodes, f) = {} /\ children[f] = <<>>
        OBVIOUS
      <4>2. Below(parent, nodes, f) = {}
        BY <3>1, <4>1 DEF Below
      <4>3. Len(children[f]) \in Nat /\ DOMAIN children[f] = 1..Len(children[f])
        BY <3>2
      <4>4. Len(children[f]) = 0
        <5>1. SUFFICES ASSUME 1 \in 1..Len(children[f]) PROVE FALSE
          BY <4>3
        <5>2. children[f][1] \in ToSet(children[f])
          BY <4>3, <5>1 DEF ToSet
        <5>3. QED
          BY <3>2, <4>1, <5>2
      <4>5. QED
        BY <3>2, <4>2, <4>4
    <3>5. QED
      BY <3>1, <3>2, <3>3, <3>4 DEF Distinct
  <2>3. QED
    BY <2>1, <2>2 DEF TreeIsConsistent
<1>2. QED
  BY <1>1, TreeInvariance, PTL
\* What has been saved is where its path says and in its order, and nodes that
\* share a path are known to have lost it, whatever operations, failures and
\* starts there have been.
THEOREM SavedInvariance == Spec => [](IInv /\ SharingInv /\ SavedInv /\ ViewInv)
<1>1. QED
  BY Start, Stays, Started, StaysSaved, PTL DEF Spec

\* FsTree::save, rename, move and remove: no creation, rename, move or removal
\* leaves a saved message or folder anywhere but where its path says, or the
\* index file of a saved folder in another order than its children.
THEOREM SavedNodesAreOnDisk == Spec => []SavedIsOnDisk
<1>1. IInv /\ SavedInv => SavedIsOnDisk
  <2> SUFFICES ASSUME IInv, SavedInv, alive, NEW i \in Sound \ unsaved
               PROVE  IF i \in leafs THEN getNodePath(i) \in files
                      ELSE /\ getNodePath(i) \in DOMAIN index
                           /\ \A j, k \in 1..Len(children[i]) :
                                LET order == index[getNodePath(i)]
                                    first == children[i][j]
                                    second == children[i][k]
                                IN  j < k /\ {first, second} \subseteq Sound =>
                                      Rank(order, encoded[first]) < Rank(order, encoded[second])
    BY DEF SavedIsOnDisk
  <2>1. Sound = ShownIn(parent, nodes) \ strays
    BY TreeNow DEF Sound
  <2>2. OnDisk(getNodePath(i), i \in leafs, children[i], encoded, Sound, files, index)
    BY <2>1, SavedNode DEF getNodePath
  <2>3. QED
    BY <2>2 DEF OnDisk, OrderedBy
<1>2. QED
  BY <1>1, SavedInvariance, PTL

\* FsTree::load on what FsTree::save has left: as long as no path was lost and
\* every save succeeded, a start shows the tree that was in view, with nothing
\* missing, nothing that was removed, and every folder in its order.
THEOREM RestartShowsTheTree == Spec => RestartKeepsTree
<1>1. ASSUME IInv /\ SharingInv /\ SavedInv /\ ViewInv, [Next]_vars
      PROVE  [(/\ alive /\ strays = {} /\ unsaved = {}
               /\ \A i \in Shown \ {Root} : Stem[encoded[i]] = encoded[i]
               /\ load) => Tree' = Tree]_vars
  <2>1. SUFFICES ASSUME Next, alive /\ strays = {} /\ unsaved = {}, load,
                        \A i \in Shown \ {Root} : Stem[encoded[i]] = encoded[i]
                 PROVE  Tree' = Tree
    BY <1>1
  <2>2. IInv'
    BY <1>1, Stays
  <2>3. Settled
    <3>1. Shown = ShownIn(parent, nodes)
      BY <1>1, TreeNow
    <3>2. QED
      BY <2>1, <3>1 DEF Settled
  <2>4. QED
    BY <1>1, <2>1, <2>2, <2>3, LoadKeepsTree
<1>2. QED
  BY SavedInvariance, <1>1, PTL DEF Spec, RestartKeepsTree
=============================================================================
