--------------------------- MODULE ProfilesProofs ---------------------------
(***************************************************************************)
(* What the disk holds of the profiles, and what the next start makes of   *)
(* it, for any names, options and topics and any number of operations.     *)
(***************************************************************************)
EXTENDS Profiles, FiniteSetTheorems, TLAPS

\* What the config tree holds of a profile.
Stays(o) == [options |-> o.options, layout |-> o.layout, snippets |-> o.snippets]

\* A profile that is not a stray is on the disk as it is in memory.
CleanInv ==
  \A p \in Visible \ strays :
    /\ prof[p].base = Path(prof[p]) /\ prof[p].file = Path(prof[p])
    /\ Path(prof[p]) \in DOMAIN config
    /\ Path(prof[p]) # QuickPath => config[Path(prof[p])] = Stays(prof[p])
\* No other is where it is.
DistinctInv ==
  \A p \in Visible \ strays, q \in Visible : Path(prof[p]) = Path(prof[q]) => p = q
\* Only of strays is the folder gone.
LostInv == \A p \in InTree : prof[p].where = Lost => p \in strays
\* What is on the disk is in a folder, and a directory is a folder or a profile.
WhereInv ==
  /\ IsFiniteSet(DOMAIN config)
  /\ \A p \in Visible : prof[p].where \in folders \cup {Top}
  /\ \A q \in DOMAIN config : q[1] \in folders \cup {Top}
  /\ \A p \in Visible : prof[p].where = Top => prof[p].name \notin folders
  /\ \A f \in folders \ spoiled : <<Top, f>> \notin DOMAIN config
FatalInv == alive \/ strays # {} \/ removed # {}

IInv == TypeOK /\ CleanInv /\ DistinctInv /\ LostInv /\ WhereInv /\ FatalInv

USE ProfilesAssumption

-------------------------------------------------------------------------------
(* The operators of the model *)

\* The path of a profile whose folder is there is one of the config tree.
LEMMA PathIs ==
  ASSUME NEW o \in Object
  PROVE  /\ Path(o)[1] = o.where /\ Path(o)[2] = o.name /\ Path(o) = <<o.where, o.name>>
         /\ o.where \in Names \cup {Top, Lost} /\ o.name \in Names
         /\ o.where # Lost => Path(o) \in Paths
BY DEF Path, Paths, Object

\* A path is known by its two parts.
LEMMA PathParts ==
  ASSUME NEW q \in Paths
  PROVE  q = <<q[1], q[2]>> /\ q[1] \in Names \cup {Top} /\ q[2] \in Names
BY DEF Paths

\* leafSave binds an object to its path, and keeps what it is.
LEMMA SavedIs ==
  ASSUME NEW o \in Object, o.where # Lost, NEW stored,
         stored[Path(o)].snippets \in SUBSET Topics
  PROVE  /\ Saved(o, stored) \in Object
         /\ Saved(o, stored).name = o.name /\ Saved(o, stored).where = o.where
         /\ Saved(o, stored).options = o.options /\ Saved(o, stored).layout = o.layout
         /\ Saved(o, stored).topics = o.topics
         /\ Saved(o, stored).snippets = stored[Path(o)].snippets
         /\ Saved(o, stored).base = Path(o) /\ Saved(o, stored).file = Path(o)
         /\ Path(Saved(o, stored)) = Path(o)
<1>1. Path(o) \in Paths
  BY PathIs
<1>2. QED
  BY <1>1 DEF Saved, Object, Path

\* What is written for an object.
LEMMA EntryIs ==
  ASSUME NEW o \in Object, NEW stored, stored \in [DOMAIN stored -> Stored]
  PROVE  /\ Entry(o, stored) \in Stored
         /\ Entry(o, stored).options = o.options /\ Entry(o, stored).layout = o.layout
BY DEF Entry, Stored, Object

\* An entry of the config tree and an object that agree.
LEMMA StaysIs ==
  ASSUME NEW o \in Object, NEW e \in Stored
  PROVE  e = Stays(o) <=> /\ e.options = o.options /\ e.layout = o.layout
                          /\ e.snippets = o.snippets
BY DEF Stays, Stored, Object

\* A key is given a value of the type that the others have.
LEMMA SetType ==
  ASSUME NEW T, NEW f, f \in [DOMAIN f -> T], NEW k, NEW v \in T
  PROVE  Set(f, k, v) \in [DOMAIN Set(f, k, v) -> T]
BY DEF Set

\* The destroyed lists of topics are written where they were read.
LEMMA DestroyedIs ==
  ASSUME TypeOK, NEW S \in SUBSET DOMAIN prof
  PROVE  /\ Destroyed(S) \in [DOMAIN Destroyed(S) -> SUBSET Topics]
         /\ DOMAIN Destroyed(S) \subseteq Paths
<1>1. \A p \in S : prof[p].file \in Paths /\ prof[p].topics \in SUBSET Topics
  BY DEF TypeOK, Object
<1>2. \A q \in DOMAIN cache : cache[q] \in SUBSET Topics /\ q \in Paths
  BY DEF TypeOK
<1> DEFINE D == DOMAIN cache \cup {prof[p].file : p \in S}
<1>3. \A q \in D :
        (IF \E p \in S : prof[p].file = q
         THEN prof[CHOOSE p \in S : prof[p].file = q].topics ELSE cache[q]) \in SUBSET Topics
  BY <1>1, <1>2
<1>4. D \subseteq Paths
  BY <1>1, <1>2
<1>5. QED
  BY <1>3, <1>4 DEF Destroyed

\* A function on a finite set has a finite image.
LEMMA FiniteImage ==
  ASSUME NEW f, IsFiniteSet(DOMAIN f)
  PROVE  IsFiniteSet({f[x] : x \in DOMAIN f})
<1> DEFINE T == {f[x] : x \in DOMAIN f}
           g == [x \in DOMAIN f |-> f[x]]
<1>1. g \in Surjection(DOMAIN f, T)
  BY DEF Surjection
<1>2. QED
  BY <1>1, FS_Surjection

-------------------------------------------------------------------------------
(* Initially, and when a profile is saved *)

LEMMA InitInv == Init => IInv
<1> SUFFICES ASSUME Init PROVE IInv
  OBVIOUS
<1>1. QuickPath \in Paths
  BY DEF QuickPath, Paths
<1>2. IsFiniteSet({QuickPath})
  BY FS_Singleton
<1>3. [options |-> Default, layout |-> "Default", snippets |-> {}] \in Stored
  BY DEF Stored, Layouts
<1>4. TypeOK
  BY <1>1, <1>3 DEF Init, TypeOK, Layouts, Object
<1>5. Visible = {} /\ InTree = {}
  BY DEF Init, Visible, InTree
<1>6. WhereInv
  BY <1>2, <1>5 DEF Init, WhereInv, QuickPath
<1>7. CleanInv /\ DistinctInv /\ LostInv /\ FatalInv
  BY <1>5 DEF Init, CleanInv, DistinctInv, LostInv, FatalInv
<1>8. QED
  BY <1>4, <1>6, <1>7 DEF IInv

\* The profiles that are in the tree, and in a folder.
LEMMA VisibleIs ==
  ASSUME TypeOK
  PROVE  /\ \A p \in Visible : /\ p \in DOMAIN prof /\ p \in 1..MaxProfiles /\ p \notin removed
                               /\ prof[p] \in Object /\ prof[p].where # Lost
                               /\ p \in InTree /\ Path(prof[p]) \in Paths
         /\ \A p \in InTree : prof[p] \in Object /\ (prof[p].where # Lost => p \in Visible)
BY PathIs DEF TypeOK, Visible, InTree

\* What every saving of a profile keeps, whatever changes with it.
LEMMA LeafSaveKeeps ==
  ASSUME IInv, NEW p \in 1..MaxProfiles, p \notin removed, NEW o \in Object, NEW stored,
         stored \in [DOMAIN stored -> Stored], DOMAIN stored \subseteq Paths,
         IsFiniteSet(DOMAIN stored),
         o.where \in folders \cup {Top}, o.where = Top => o.name \notin folders,
         \A q \in DOMAIN stored : q[1] \in folders \cup {Top},
         \A f \in folders \ spoiled : <<Top, f>> \notin DOMAIN stored,
         \A q \in Visible \ strays :
           q # p /\ Path(prof[q]) # Path(o) =>
             /\ Path(prof[q]) \in DOMAIN stored
             /\ stored[Path(prof[q])] = config[Path(prof[q])],
         leafSave(p, o, stored), SameFolders, UNCHANGED <<removed, tabs, layouts, alive>>,
         Step
  PROVE  IInv'
<1>1. TypeOK /\ CleanInv /\ DistinctInv /\ LostInv /\ WhereInv /\ FatalInv
  BY DEF IInv
<1>2. UNCHANGED <<folders, spoiled, removed, tabs, layouts, alive>>
  BY DEF SameFolders
<1>3. o.where # Lost /\ Path(o) \in Paths /\ folders \subseteq Names
  BY <1>1, PathIs DEF TypeOK
<1> DEFINE P == Path(o)
           N == prof'[p]
<1>4. /\ config' = Set(stored, P, Entry(o, stored)) /\ cache' = Set(cache, P, o.topics)
      /\ prof' = Set(prof, p, Saved(o, config'))
  BY DEF leafSave
<1>5. /\ DOMAIN config' = DOMAIN stored \cup {P} /\ config'[P] = Entry(o, stored)
      /\ \A q \in DOMAIN stored : q # P => config'[q] = stored[q]
  BY <1>4 DEF Set
<1>6. /\ Entry(o, stored) \in Stored
      /\ Entry(o, stored).options = o.options /\ Entry(o, stored).layout = o.layout
  BY EntryIs
<1>7. config'[P].snippets \in SUBSET Topics
  BY <1>5, <1>6 DEF Stored
<1>8. /\ N \in Object /\ N.name = o.name /\ N.where = o.where
      /\ N.options = o.options /\ N.layout = o.layout
      /\ N.snippets = config'[P].snippets /\ N.base = P /\ N.file = P /\ Path(N) = P
  <2>1. N = Saved(o, config')
    BY <1>4 DEF Set
  <2>2. QED
    BY <1>3, <1>7, <2>1, SavedIs
<1>9. /\ DOMAIN prof' = DOMAIN prof \cup {p}
      /\ \A q \in DOMAIN prof : q # p => prof'[q] = prof[q]
  BY <1>4 DEF Set
<1> HIDE DEF P, N
<1>10. p \in Visible' /\ Visible' = Visible \cup {p} /\ InTree' = InTree \cup {p}
  <2>1. InTree' = InTree \cup {p}
    BY <1>2, <1>9 DEF InTree
  <2>2. N.where # Lost
    BY <1>3, <1>8
  <2>3. QED
    BY <1>9, <2>1, <2>2 DEF Visible, N, InTree
<1>11. \A q \in Visible' : q # p => q \in Visible /\ prof'[q] = prof[q]
  BY <1>9, <1>10 DEF Visible, InTree
<1>12. /\ strays \subseteq strays'
       /\ strays' \subseteq strays \cup Visible \cup {p}
       /\ \A q \in Visible \ {p} : Path(prof[q]) = P => p \in strays' /\ q \in strays'
  BY DEF leafSave, P
<1>13. TypeOK'
  <2>1. prof' \in [DOMAIN prof' -> Object] /\ DOMAIN prof' \subseteq 1..MaxProfiles
    <3>1. Saved(o, config') \in Object
      BY <1>4, <1>8 DEF Set, N
    <3>2. QED
      BY <1>1, <1>4, <1>9, <3>1, SetType DEF TypeOK
  <2>2. config' \in [DOMAIN config' -> Stored] /\ DOMAIN config' \subseteq Paths
    BY <1>3, <1>4, <1>5, <1>6, SetType DEF P
  <2>3. cache' \in [DOMAIN cache' -> SUBSET Topics] /\ DOMAIN cache' \subseteq Paths
    <3>1. o.topics \in SUBSET Topics
      BY DEF Object
    <3>2. DOMAIN cache' = DOMAIN cache \cup {P}
      BY <1>4 DEF Set
    <3>3. QED
      BY <1>1, <1>3, <1>4, <3>1, <3>2, SetType DEF TypeOK, P
  <2>4. strays' \subseteq 1..MaxProfiles
    BY <1>1, <1>12, VisibleIs DEF TypeOK
  <2>5. steps' \in 0..MaxSteps
    BY <1>1 DEF Step, TypeOK
  <2>6. removed' \subseteq tabs' /\ tabs' \subseteq DOMAIN prof'
    BY <1>1, <1>2, <1>9 DEF TypeOK
  <2>7. QED
    BY <1>1, <1>2, <2>1, <2>2, <2>3, <2>4, <2>5, <2>6 DEF TypeOK
<1>14. CleanInv'
  <2> SUFFICES ASSUME NEW q \in Visible', q \notin strays'
               PROVE  /\ prof'[q].base = Path(prof'[q]) /\ prof'[q].file = Path(prof'[q])
                      /\ Path(prof'[q]) \in DOMAIN config'
                      /\ Path(prof'[q]) # QuickPath => config'[Path(prof'[q])] = Stays(prof'[q])
    BY DEF CleanInv, QuickPath
  <2>1. CASE q = p
    <3>1. config'[P] = Stays(N)
      BY <1>5, <1>6, <1>8, StaysIs
    <3>2. QED
      BY <1>5, <1>8, <2>1, <3>1 DEF N
  <2>2. CASE q # p
    <3>1. q \in Visible \ strays /\ prof'[q] = prof[q]
      BY <1>11, <1>12, <2>2
    <3>2. Path(prof[q]) # P
      BY <1>12, <2>2, <3>1
    <3>3. Path(prof[q]) \in DOMAIN stored /\ stored[Path(prof[q])] = config[Path(prof[q])]
      BY <2>2, <3>1, <3>2 DEF P
    <3>4. QED
      BY <1>1, <1>5, <3>1, <3>2, <3>3 DEF CleanInv
  <2>3. QED
    BY <2>1, <2>2
<1>15. DistinctInv'
  <2> SUFFICES ASSUME NEW q \in Visible', q \notin strays', NEW r \in Visible',
                      Path(prof'[q]) = Path(prof'[r]), q # r
               PROVE  FALSE
    BY DEF DistinctInv
  <2>1. CASE q = p
    BY <1>8, <1>11, <1>12, <2>1 DEF N
  <2>2. CASE r = p
    BY <1>8, <1>11, <1>12, <2>2 DEF N
  <2>3. CASE q # p /\ r # p
    BY <1>1, <1>11, <1>12, <2>3 DEF DistinctInv
  <2>4. QED
    BY <2>1, <2>2, <2>3
<1>16. LostInv'
  BY <1>1, <1>3, <1>8, <1>9, <1>10, <1>12 DEF LostInv, N, InTree
<1>17. WhereInv'
  <2>1. IsFiniteSet(DOMAIN config')
    BY <1>5, FS_AddElement
  <2>2. \A q \in Visible' : /\ prof'[q].where \in folders' \cup {Top}
                            /\ prof'[q].where = Top => prof'[q].name \notin folders'
    BY <1>1, <1>2, <1>8, <1>11 DEF WhereInv, N
  <2>3. P[1] = o.where /\ P[2] = o.name
    BY PathIs DEF P
  <2>4. \A q \in DOMAIN config' : q[1] \in folders' \cup {Top}
    BY <1>2, <1>5, <2>3
  <2>5. \A f \in folders' \ spoiled' : <<Top, f>> \notin DOMAIN config'
    <3>1. \A f \in folders : <<Top, f>> # P
      BY <2>3
    <3>2. QED
      BY <1>2, <1>5, <3>1
  <2>6. QED
    BY <2>1, <2>2, <2>4, <2>5 DEF WhereInv
<1>18. FatalInv'
  BY <1>2 DEF FatalInv, Step
<1>19. QED
  BY <1>13, <1>14, <1>15, <1>16, <1>17, <1>18 DEF IInv

-------------------------------------------------------------------------------
(* The operations that save one profile *)

LEMMA createProfileKeeps ==
  ASSUME IInv, NEW d \in folders \cup {Top}, createProfile(d)
  PROVE  IInv'
<1>1. TypeOK /\ CleanInv /\ WhereInv
  BY DEF IInv
<1>2. PICK k \in 1..Len(NewName), p \in 1..MaxProfiles \ DOMAIN prof :
        LET o == [name |-> NewName[k], where |-> d, options |-> Default, layout |-> "Default",
                  snippets |-> {}, topics |-> {}, base |-> <<d, NewName[k]>>, file |-> <<d, NewName[k]>>]
        IN NewName[k] \notin ChildrenOf(Top) /\ leafSave(p, o, config)
  BY DEF createProfile
<1> DEFINE o == [name |-> NewName[k], where |-> d, options |-> Default, layout |-> "Default",
                 snippets |-> {}, topics |-> {}, base |-> <<d, NewName[k]>>, file |-> <<d, NewName[k]>>]
<1>3. NewName[k] \in Names /\ d \in Names \cup {Top} /\ <<d, NewName[k]>> \in Paths
  BY <1>1 DEF TypeOK, Paths
<1>4. o \in Object /\ o.where = d /\ o.name = NewName[k]
  BY <1>3 DEF Object, Layouts
<1>5. NewName[k] \notin folders
  BY <1>2 DEF ChildrenOf
<1>6. leafSave(p, o, config)
  BY <1>2
<1> HIDE DEF o
<1>7. p \notin removed
  BY <1>1 DEF TypeOK
<1>8. SameFolders /\ UNCHANGED <<removed, tabs, layouts, alive>> /\ Step
  BY DEF createProfile
<1>9. \A q \in Visible \ strays : Path(prof[q]) \in DOMAIN config
  BY <1>1 DEF CleanInv
<1>10. /\ config \in [DOMAIN config -> Stored] /\ DOMAIN config \subseteq Paths
       /\ IsFiniteSet(DOMAIN config)
       /\ \A q \in DOMAIN config : q[1] \in folders \cup {Top}
       /\ \A f \in folders \ spoiled : <<Top, f>> \notin DOMAIN config
  BY <1>1 DEF TypeOK, WhereInv
<1>11. p \in 1..MaxProfiles /\ o.where \in folders \cup {Top} /\ o.name \notin folders
  BY <1>4, <1>5
<1>12. QED
  BY <1>4, <1>6, <1>7, <1>8, <1>9, <1>10, <1>11, LeafSaveKeeps

LEMMA updateOptionsKeeps ==
  ASSUME IInv, NEW p \in Visible, NEW b \in Options, NEW l \in Layouts, updateOptions(p, b, l)
  PROVE  IInv'
<1> DEFINE o == [prof[p] EXCEPT !.options = b, !.layout = l]
<1>1. TypeOK /\ CleanInv /\ WhereInv
  BY DEF IInv
<1>2. p \in 1..MaxProfiles /\ p \notin removed /\ prof[p] \in Object
  BY <1>1, VisibleIs
<1>3. o \in Object /\ o.where = prof[p].where /\ o.name = prof[p].name
  BY <1>2 DEF Object
<1>4. leafSave(p, o, config) /\ Step
      /\ SameFolders /\ UNCHANGED <<removed, tabs, layouts, alive>>
  BY DEF updateOptions
<1> HIDE DEF o
<1>5. o.where \in folders \cup {Top} /\ (o.where = Top => o.name \notin folders)
  BY <1>1, <1>3 DEF WhereInv
<1>6. \A q \in Visible \ strays : Path(prof[q]) \in DOMAIN config
  BY <1>1 DEF CleanInv
<1>7. /\ config \in [DOMAIN config -> Stored] /\ DOMAIN config \subseteq Paths
      /\ IsFiniteSet(DOMAIN config)
      /\ \A q \in DOMAIN config : q[1] \in folders \cup {Top}
      /\ \A f \in folders \ spoiled : <<Top, f>> \notin DOMAIN config
  BY <1>1 DEF TypeOK, WhereInv
<1>8. QED
  BY <1>2, <1>3, <1>4, <1>5, <1>6, <1>7, LeafSaveKeeps

\* The directory moves with what is in it, and it is that of no profile but the
\* moved one, strays aside.
LEMMA relocateKeeps ==
  ASSUME IInv, NEW p \in Visible, NEW d \in folders \cup {Top}, NEW n \in Names,
         relocate(p, d, n)
  PROVE  IInv'
<1> DEFINE o == [prof[p] EXCEPT !.where = d, !.name = n]
           from == Path(prof[p])
           to == <<d, n>>
           stored == Moved(from, to)
<1>1. TypeOK /\ CleanInv /\ DistinctInv /\ WhereInv
  BY DEF IInv
<1>2. p \in 1..MaxProfiles /\ p \notin removed /\ prof[p] \in Object
  BY <1>1, VisibleIs
<1>3. d \in Names \cup {Top} /\ to \in Paths /\ to[1] = d
  BY <1>1 DEF TypeOK, Paths
<1>4. o \in Object /\ o.where = d /\ o.name = n /\ Path(o) = to
  BY <1>2, <1>3 DEF Object, Path
<1>5. /\ from # to /\ n \notin ChildrenOf(d) /\ from \in DOMAIN config /\ to \notin DOMAIN config
      /\ leafSave(p, o, stored) /\ Step
      /\ SameFolders /\ UNCHANGED <<removed, tabs, layouts, alive>>
  BY DEF relocate
<1>6. /\ DOMAIN stored = (DOMAIN config \ {from}) \cup {to}
      /\ stored[to] = config[from]
      /\ \A q \in DOMAIN config : q # from => stored[q] = config[q]
      /\ stored \in [DOMAIN stored -> Stored]
  BY <1>1, <1>5 DEF Moved, Set, Without, TypeOK
<1> HIDE DEF o, stored, from
<1>7. d = Top => n \notin folders
  BY <1>5 DEF ChildrenOf
<1>8. IsFiniteSet(DOMAIN stored)
  <2>1. IsFiniteSet(DOMAIN config \ {from})
    BY <1>1, FS_Subset DEF WhereInv
  <2>2. IsFiniteSet((DOMAIN config \ {from}) \cup {to})
    BY <2>1, FS_AddElement
  <2>3. QED
    BY <1>6, <2>2
<1>9. DOMAIN stored \subseteq Paths /\ \A q \in DOMAIN stored : q[1] \in folders \cup {Top}
  BY <1>1, <1>3, <1>6 DEF TypeOK, WhereInv
<1>10. \A f \in folders \ spoiled : <<Top, f>> \notin DOMAIN stored
  BY <1>1, <1>6, <1>7 DEF WhereInv
<1>11. ASSUME NEW q \in Visible \ strays, q # p, Path(prof[q]) # to
       PROVE  Path(prof[q]) \in DOMAIN stored /\ stored[Path(prof[q])] = config[Path(prof[q])]
  <2>1. Path(prof[q]) # from
    BY <1>1, <1>11 DEF DistinctInv, from
  <2>2. Path(prof[q]) \in DOMAIN config
    BY <1>1 DEF CleanInv
  <2>3. QED
    BY <1>6, <2>1, <2>2
<1>12. QED
  BY <1>2, <1>4, <1>5, <1>6, <1>7, <1>8, <1>9, <1>10, <1>11, LeafSaveKeeps

-------------------------------------------------------------------------------
(* Folders, and the profiles in them *)

LEMMA createFolderKeeps ==
  ASSUME IInv, NEW n \in Names, createFolder(n)
  PROVE  IInv'
<1>1. TypeOK /\ CleanInv /\ DistinctInv /\ LostInv /\ WhereInv /\ FatalInv
  BY DEF IInv
<1>2. /\ n \notin ChildrenOf(Top) /\ <<Top, n>> \notin DOMAIN config
      /\ folders' = folders \cup {n} /\ Step
      /\ UNCHANGED <<prof, removed, tabs, layouts, config, cache, alive, strays, spoiled>>
  BY DEF createFolder
<1>3. Visible' = Visible /\ InTree' = InTree
  BY <1>2 DEF Visible, InTree
<1>4. \A p \in Visible : prof[p].where = Top => prof[p].name # n
  BY <1>2 DEF ChildrenOf
<1>5. TypeOK'
  BY <1>1, <1>2 DEF TypeOK, Step
<1>6. CleanInv' /\ DistinctInv' /\ LostInv' /\ FatalInv'
  BY <1>1, <1>2, <1>3 DEF CleanInv, DistinctInv, LostInv, FatalInv, QuickPath
<1>7. WhereInv'
  BY <1>1, <1>2, <1>3, <1>4 DEF WhereInv
<1>8. QED
  BY <1>5, <1>6, <1>7 DEF IInv

\* When a folder gets another name or goes, the profiles in it become strays; the
\* others are as they were, and so is what the config tree holds of them.
LEMMA InsideKeeps ==
  ASSUME IInv, Step, NEW f \in folders, NEW w \in Names \cup {Lost}, w \notin folders,
         prof' = [p \in DOMAIN prof |->
                    IF p \in {x \in Visible : prof[x].where = f}
                    THEN [prof[p] EXCEPT !.where = w] ELSE prof[p]],
         strays' = strays \cup {x \in Visible : prof[x].where = f},
         UNCHANGED <<removed, alive>>,
         \A q \in DOMAIN config :
           q[1] # f /\ q # <<Top, f>> => q \in DOMAIN config' /\ config'[q] = config[q]
  PROVE  /\ prof' \in [DOMAIN prof' -> Object] /\ DOMAIN prof' = DOMAIN prof
         /\ strays' \subseteq 1..MaxProfiles
         /\ \A p \in Visible' : /\ p \in Visible /\ prof'[p].name = prof[p].name
                                /\ IF prof[p].where = f THEN w # Lost /\ prof'[p].where = w
                                   ELSE prof'[p] = prof[p]
         /\ CleanInv' /\ DistinctInv' /\ LostInv' /\ FatalInv'
<1>1. TypeOK /\ CleanInv /\ DistinctInv /\ LostInv /\ WhereInv /\ FatalInv
  BY DEF IInv
<1> DEFINE inside == {x \in Visible : prof[x].where = f}
<1>2. /\ DOMAIN prof' = DOMAIN prof
      /\ \A p \in DOMAIN prof : IF p \in inside THEN prof'[p] = [prof[p] EXCEPT !.where = w]
                                ELSE prof'[p] = prof[p]
  OBVIOUS
<1>3. strays' = strays \cup inside
  OBVIOUS
<1>4. \A p \in inside : p \in Visible /\ prof[p].where = f
  OBVIOUS
<1>5. \A p \in Visible : prof[p].where = f => p \in inside
  OBVIOUS
<1> HIDE DEF inside
<1>6. f \in Names /\ f # Lost /\ f # Top
  BY <1>1 DEF TypeOK
<1>7. \A p \in DOMAIN prof : prof[p] \in Object
  BY <1>1 DEF TypeOK
<1>8. \A p \in DOMAIN prof :
        /\ prof'[p] \in Object /\ prof'[p].name = prof[p].name
        /\ p \in inside => prof'[p].where = w
        /\ p \notin inside => prof'[p] = prof[p]
  BY <1>2, <1>7 DEF Object
<1>9. prof' = [p \in DOMAIN prof' |-> prof'[p]]
  OBVIOUS
<1>10. prof' \in [DOMAIN prof' -> Object]
  BY <1>2, <1>8, <1>9
<1>11. strays' \subseteq 1..MaxProfiles
  BY <1>1, <1>3, <1>4, VisibleIs DEF TypeOK
<1>12. InTree' = InTree /\ \A p \in Visible : p \in DOMAIN prof
  BY <1>2 DEF InTree, Visible
<1>13. ASSUME NEW p \in Visible'
       PROVE  /\ p \in Visible /\ p \in DOMAIN prof /\ prof'[p].name = prof[p].name
              /\ IF p \in inside THEN w # Lost /\ prof'[p].where = w
                 ELSE prof'[p] = prof[p]
  <2>1. p \in InTree /\ prof'[p].where # Lost /\ p \in DOMAIN prof
    BY <1>12 DEF Visible, InTree
  <2>2. CASE p \in inside
    BY <1>4, <1>8, <2>1, <2>2
  <2>3. CASE p \notin inside
    BY <1>8, <2>1, <2>3 DEF Visible
  <2>4. QED
    BY <2>2, <2>3
<1>14. CleanInv'
  <2> SUFFICES ASSUME NEW p \in Visible', p \notin strays'
               PROVE  /\ prof'[p].base = Path(prof'[p]) /\ prof'[p].file = Path(prof'[p])
                      /\ Path(prof'[p]) \in DOMAIN config'
                      /\ Path(prof'[p]) # QuickPath => config'[Path(prof'[p])] = Stays(prof'[p])
    BY DEF CleanInv, QuickPath
  <2>1. p \in Visible \ strays /\ p \notin inside /\ prof'[p] = prof[p]
    BY <1>3, <1>13
  <2>2. Path(prof[p])[1] # f /\ Path(prof[p]) # <<Top, f>>
    <3>1. prof[p].where # f /\ (prof[p].where = Top => prof[p].name # f)
      BY <1>1, <1>5, <2>1 DEF WhereInv
    <3>2. QED
      BY <3>1 DEF Path
  <2>3. QED
    BY <1>1, <2>1, <2>2 DEF CleanInv
<1>15. DistinctInv'
  <2> SUFFICES ASSUME NEW p \in Visible', p \notin strays', NEW q \in Visible',
                      Path(prof'[p]) = Path(prof'[q])
               PROVE  p = q
    BY DEF DistinctInv
  <2>1. p \in Visible \ strays /\ prof'[p] = prof[p]
    BY <1>3, <1>13
  <2>2. CASE q \in inside
    <3>1. prof'[q].where = w /\ w # Lost /\ w # Top
      BY <1>13, <2>2
    <3>2. prof'[p].where = w
      BY <3>1 DEF Path
    <3>3. QED
      BY <1>1, <2>1, <3>1, <3>2 DEF WhereInv
  <2>3. CASE q \notin inside
    BY <1>1, <1>13, <2>1, <2>3 DEF DistinctInv
  <2>4. QED
    BY <2>2, <2>3
<1>16. LostInv'
  <2> SUFFICES ASSUME NEW p \in InTree, prof'[p].where = Lost
               PROVE  p \in strays'
    BY <1>12 DEF LostInv
  <2>1. p \in DOMAIN prof
    BY DEF InTree
  <2>2. QED
    BY <1>1, <1>3, <1>8, <2>1 DEF LostInv
<1>17. FatalInv'
  BY <1>1, <1>3 DEF FatalInv
<1>18. \A p \in Visible' : /\ p \in Visible /\ prof'[p].name = prof[p].name
                           /\ IF prof[p].where = f THEN w # Lost /\ prof'[p].where = w
                              ELSE prof'[p] = prof[p]
  BY <1>4, <1>5, <1>13
<1>19. QED
  BY <1>2, <1>10, <1>11, <1>14, <1>15, <1>16, <1>17, <1>18

LEMMA removeFolderKeeps ==
  ASSUME IInv, NEW f \in Names, removeFolder(f)
  PROVE  IInv'
<1>1. TypeOK /\ WhereInv
  BY DEF IInv
<1>2. /\ f \in folders /\ Step
      /\ folders' = folders \ {f} /\ spoiled' = spoiled \ {f}
      /\ config' = Without(config, {q \in DOMAIN config : q[1] = f \/ q = <<Top, f>>})
      /\ prof' = [p \in DOMAIN prof |->
                    IF p \in {x \in Visible : prof[x].where = f}
                    THEN [prof[p] EXCEPT !.where = Lost] ELSE prof[p]]
      /\ strays' = strays \cup {x \in Visible : prof[x].where = f}
      /\ UNCHANGED <<removed, tabs, layouts, cache, alive>>
  BY DEF removeFolder
<1>3. /\ DOMAIN config' = {q \in DOMAIN config : q[1] # f /\ q # <<Top, f>>}
      /\ \A q \in DOMAIN config : q[1] # f /\ q # <<Top, f>> => config'[q] = config[q]
      /\ config' \in [DOMAIN config' -> Stored]
  BY <1>1, <1>2 DEF Without, TypeOK
<1>4. Lost \notin folders
  BY <1>1 DEF TypeOK
<1>5. /\ prof' \in [DOMAIN prof' -> Object] /\ DOMAIN prof' = DOMAIN prof
      /\ strays' \subseteq 1..MaxProfiles
      /\ \A p \in Visible' : /\ p \in Visible /\ prof[p].where # f
                             /\ prof'[p] = prof[p]
      /\ CleanInv' /\ DistinctInv' /\ LostInv' /\ FatalInv'
  <2>1. \A q \in DOMAIN config : q[1] # f /\ q # <<Top, f>> =>
                                  q \in DOMAIN config' /\ config'[q] = config[q]
    BY <1>3
  <2>2. UNCHANGED <<removed, alive>> /\ Lost \in Names \cup {Lost}
    BY <1>2
  <2>3. PICK w : w = Lost
    OBVIOUS
  <2>4. /\ w \in Names \cup {Lost} /\ w \notin folders
        /\ prof' = [p \in DOMAIN prof |->
                      IF p \in {x \in Visible : prof[x].where = f}
                      THEN [prof[p] EXCEPT !.where = w] ELSE prof[p]]
    BY <1>2, <1>4, <2>3
  <2>5. /\ prof' \in [DOMAIN prof' -> Object] /\ DOMAIN prof' = DOMAIN prof
        /\ strays' \subseteq 1..MaxProfiles
        /\ \A p \in Visible' : /\ p \in Visible /\ prof'[p].name = prof[p].name
                               /\ IF prof[p].where = f THEN w # Lost /\ prof'[p].where = w
                                  ELSE prof'[p] = prof[p]
        /\ CleanInv' /\ DistinctInv' /\ LostInv' /\ FatalInv'
    BY <1>2, <2>1, <2>2, <2>4, InsideKeeps
  <2>6. ASSUME NEW p \in Visible' PROVE prof[p].where # f /\ prof'[p] = prof[p] /\ p \in Visible
    <3>1. w = Lost
      BY <2>3
    <3>2. IF prof[p].where = f THEN w # Lost /\ prof'[p].where = w ELSE prof'[p] = prof[p]
      BY <2>5
    <3>3. QED
      BY <2>5, <3>1, <3>2
  <2>7. QED
    BY <2>5, <2>6
<1>6. TypeOK'
  <2>1. folders' \subseteq Names /\ spoiled' \subseteq Names
    BY <1>1, <1>2 DEF TypeOK
  <2>2. config' \in [DOMAIN config' -> Stored] /\ DOMAIN config' \subseteq Paths
    BY <1>1, <1>3 DEF TypeOK
  <2>3. steps' \in 0..MaxSteps
    BY <1>1, <1>2 DEF TypeOK, Step
  <2>4. QED
    BY <1>1, <1>2, <1>5, <2>1, <2>2, <2>3 DEF TypeOK
<1>7. WhereInv'
  <2>1. IsFiniteSet(DOMAIN config')
    BY <1>1, <1>3, FS_Subset DEF WhereInv
  <2>2. \A p \in Visible' : /\ prof'[p].where \in folders' \cup {Top}
                            /\ prof'[p].where = Top => prof'[p].name \notin folders'
    <3> SUFFICES ASSUME NEW p \in Visible'
                 PROVE  /\ prof'[p].where \in folders' \cup {Top}
                        /\ prof'[p].where = Top => prof'[p].name \notin folders'
      OBVIOUS
    <3>1. p \in Visible /\ prof[p].where # f /\ prof'[p] = prof[p]
      BY <1>5
    <3>2. QED
      BY <1>1, <1>2, <3>1 DEF WhereInv
  <2>3. \A q \in DOMAIN config' : q[1] \in folders' \cup {Top}
    BY <1>1, <1>2, <1>3 DEF WhereInv
  <2>4. \A g \in folders' \ spoiled' : <<Top, g>> \notin DOMAIN config'
    BY <1>1, <1>2, <1>3 DEF WhereInv
  <2>5. QED
    BY <2>1, <2>2, <2>3, <2>4 DEF WhereInv
<1>8. QED
  BY <1>5, <1>6, <1>7 DEF IInv

\* The directories in the folder, and what makes it a profile, go along.
LEMMA renameFolderKeeps ==
  ASSUME IInv, NEW f \in Names, NEW n \in Names, renameFolder(f, n)
  PROVE  IInv'
<1> DEFINE New(q) == IF q[1] = f THEN <<n, q[2]>> ELSE IF q = <<Top, f>> THEN <<Top, n>> ELSE q
           Old(q) == IF q[1] = n THEN <<f, q[2]>> ELSE IF q = <<Top, n>> THEN <<Top, f>> ELSE q
           new == [q \in DOMAIN config |-> New(q)]
           dirs == {New(q) : q \in DOMAIN config}
<1>1. TypeOK /\ WhereInv
  BY DEF IInv
<1>2. /\ f \in folders /\ Step /\ n \notin ChildrenOf(Top) /\ <<Top, n>> \notin DOMAIN config
      /\ folders' = (folders \ {f}) \cup {n}
      /\ spoiled' = IF f \in spoiled THEN (spoiled \ {f}) \cup {n} ELSE spoiled
      /\ config' = [q \in dirs |-> config[Old(q)]]
      /\ prof' = [p \in DOMAIN prof |->
                    IF p \in {x \in Visible : prof[x].where = f}
                    THEN [prof[p] EXCEPT !.where = n] ELSE prof[p]]
      /\ strays' = strays \cup {x \in Visible : prof[x].where = f}
      /\ UNCHANGED <<removed, tabs, layouts, cache, alive>>
  BY DEF renameFolder
<1>3. n \notin folders /\ n # Top /\ f # n /\ f # Top /\ folders \subseteq Names
      /\ \A p \in Visible : prof[p].where = Top => prof[p].name # n
  BY <1>1, <1>2 DEF ChildrenOf, TypeOK
<1>4. \A q \in DOMAIN config : q \in Paths /\ q[1] \in folders \cup {Top} /\ q # <<Top, n>>
                               /\ config[q] \in Stored
  BY <1>1, <1>2 DEF TypeOK, WhereInv
<1>5. ASSUME NEW q \in DOMAIN config
      PROVE  /\ New(q) \in Paths /\ Old(New(q)) = q
             /\ q[1] = f => New(q) = <<n, q[2]>>
             /\ q[1] # f => New(q)[1] = q[1] /\ (q # <<Top, f>> => New(q) = q)
             /\ q = <<Top, f>> => New(q) = <<Top, n>>
  <2>1. q = <<q[1], q[2]>> /\ q[1] \in Names \cup {Top} /\ q[2] \in Names /\ q[1] # n
    BY <1>3, <1>4, PathParts
  <2>2. CASE q[1] = f
    <3>1. New(q) = <<n, q[2]>> /\ New(q)[1] = n /\ New(q)[2] = q[2]
      BY <2>2
    <3>2. Old(New(q)) = <<f, q[2]>>
      BY <3>1
    <3>3. QED
      BY <1>3, <2>1, <2>2, <3>1, <3>2 DEF Paths
  <2>3. CASE q[1] # f /\ q = <<Top, f>>
    <3>1. New(q) = <<Top, n>> /\ New(q)[1] = Top
      BY <2>3
    <3>2. Old(New(q)) = <<Top, f>>
      BY <1>3, <3>1
    <3>3. QED
      BY <1>3, <2>1, <2>3, <3>1, <3>2 DEF Paths
  <2>4. CASE q[1] # f /\ q # <<Top, f>>
    <3>1. New(q) = q
      BY <2>4
    <3>2. Old(New(q)) = q
      BY <1>4, <2>1, <3>1
    <3>3. QED
      BY <1>4, <2>4, <3>1, <3>2
  <2>5. QED
    BY <2>2, <2>3, <2>4
<1> HIDE DEF Old, New
<1>6. /\ DOMAIN config' = dirs
      /\ \A q \in DOMAIN config : config'[New(q)] = config[q]
      /\ config' \in [DOMAIN config' -> Stored]
  <2>1. \A q \in dirs : config[Old(q)] \in Stored
    BY <1>4, <1>5
  <2>2. QED
    BY <1>2, <1>5, <2>1
<1>7. \A q \in DOMAIN config : q[1] # f /\ q # <<Top, f>> =>
                                  q \in DOMAIN config' /\ config'[q] = config[q]
  <2> SUFFICES ASSUME NEW q \in DOMAIN config, q[1] # f, q # <<Top, f>>
               PROVE  q \in DOMAIN config' /\ config'[q] = config[q]
    OBVIOUS
  <2>1. New(q) = q
    BY <1>5
  <2>2. QED
    BY <1>6, <2>1
<1>8. /\ prof' \in [DOMAIN prof' -> Object] /\ DOMAIN prof' = DOMAIN prof
      /\ strays' \subseteq 1..MaxProfiles
      /\ \A p \in Visible' : /\ p \in Visible /\ prof'[p].name = prof[p].name
                             /\ IF prof[p].where = f THEN n # Lost /\ prof'[p].where = n
                                ELSE prof'[p] = prof[p]
      /\ CleanInv' /\ DistinctInv' /\ LostInv' /\ FatalInv'
  BY <1>2, <1>3, <1>7, InsideKeeps
<1>9. TypeOK'
  <2>1. DOMAIN config' \subseteq Paths
    BY <1>5, <1>6
  <2>2. QED
    BY <1>1, <1>2, <1>6, <1>8, <2>1 DEF TypeOK, Step
<1>10. WhereInv'
  <2>1. IsFiniteSet(DOMAIN config')
    <3>1. DOMAIN new = DOMAIN config /\ dirs = {new[q] : q \in DOMAIN new}
      OBVIOUS
    <3>2. IsFiniteSet({new[q] : q \in DOMAIN new})
      BY <1>1, <3>1, FiniteImage DEF WhereInv
    <3>3. QED
      BY <1>6, <3>1, <3>2
  <2>2. \A p \in Visible' : /\ prof'[p].where \in folders' \cup {Top}
                            /\ prof'[p].where = Top => prof'[p].name \notin folders'
    <3> SUFFICES ASSUME NEW p \in Visible'
                 PROVE  /\ prof'[p].where \in folders' \cup {Top}
                        /\ prof'[p].where = Top => prof'[p].name \notin folders'
      OBVIOUS
    <3>1. p \in Visible /\ prof'[p].name = prof[p].name
      BY <1>8
    <3>2. CASE prof[p].where = f
      <4>1. prof'[p].where = n
        BY <1>8, <3>2
      <4>2. n \in folders' /\ n # Top
        BY <1>2, <1>3
      <4>3. QED
        BY <4>1, <4>2
    <3>3. CASE prof[p].where # f
      <4>1. prof'[p] = prof[p]
        BY <1>8, <3>3
      <4>2. prof[p].where \in folders \cup {Top}
        BY <1>1, <3>1 DEF WhereInv
      <4>3. prof[p].where = Top => prof[p].name \notin folders /\ prof[p].name # n
        BY <1>1, <1>3, <3>1 DEF WhereInv
      <4>4. QED
        BY <1>2, <3>3, <4>1, <4>2, <4>3
    <3>4. QED
      BY <3>2, <3>3
  <2>3. \A q \in DOMAIN config : New(q)[1] \in folders' \cup {Top}
    BY <1>2, <1>4, <1>5
  <2>4. ASSUME NEW g \in folders' \ spoiled', NEW q \in DOMAIN config, New(q) = <<Top, g>>
        PROVE  FALSE
    <3>1. g = n \/ (g \in folders /\ g # f /\ g \notin spoiled)
      BY <1>2, <2>4
    <3>2. q[1] # f
      BY <1>3, <1>5, <2>4
    <3>3. CASE q = <<Top, f>>
      <4>1. g = n
        BY <1>5, <2>4, <3>3
      <4>2. f \in spoiled
        BY <1>1, <1>2, <3>3 DEF WhereInv
      <4>3. QED
        BY <1>2, <4>1, <4>2
    <3>4. CASE q # <<Top, f>>
      <4>1. q = <<Top, g>>
        BY <1>5, <2>4, <3>2, <3>4
      <4>2. QED
        BY <1>1, <1>4, <3>1, <4>1 DEF WhereInv
    <3>5. QED
      BY <3>3, <3>4
  <2>5. QED
    BY <1>6, <2>1, <2>2, <2>3, <2>4 DEF WhereInv
<1>11. QED
  BY <1>8, <1>9, <1>10 DEF IInv

-------------------------------------------------------------------------------
(* The other operations on profiles *)

\* A profile goes, and with it the directory and what else was in the same one.
LEMMA removeProfileKeeps ==
  ASSUME IInv, NEW p \in Visible, removeProfile(p)
  PROVE  IInv'
<1>1. TypeOK /\ CleanInv /\ DistinctInv /\ LostInv /\ WhereInv /\ FatalInv
  BY DEF IInv
<1>2. /\ Step /\ UNCHANGED <<folders, spoiled, tabs, layouts, alive>>
      /\ config' = Without(config, {Path(prof[p])})
      /\ strays' = (strays \cup {q \in Visible : Path(prof[q]) = Path(prof[p])}) \ {p}
      /\ IF p \in tabs THEN removed' = removed \cup {p} /\ UNCHANGED <<prof, cache>>
         ELSE prof' = Without(prof, {p}) /\ cache' = Destroyed({p}) /\ UNCHANGED removed
  BY DEF removeProfile, SameFolders
<1>3. p \in DOMAIN prof /\ p \in 1..MaxProfiles /\ p \notin removed
  BY <1>1, VisibleIs
<1>4. /\ prof' \in [DOMAIN prof' -> Object] /\ DOMAIN prof' \subseteq DOMAIN prof
      /\ \A q \in DOMAIN prof' : prof'[q] = prof[q]
      /\ InTree' = InTree \ {p} /\ removed' \subseteq tabs' /\ tabs' \subseteq DOMAIN prof'
      /\ cache' \in [DOMAIN cache' -> SUBSET Topics] /\ DOMAIN cache' \subseteq Paths
  <2>1. CASE p \in tabs
    BY <1>1, <1>2, <2>1 DEF TypeOK, InTree
  <2>2. CASE p \notin tabs
    <3>1. {p} \in SUBSET DOMAIN prof
      BY <1>3
    <3>2. cache' \in [DOMAIN cache' -> SUBSET Topics] /\ DOMAIN cache' \subseteq Paths
      BY <1>1, <1>2, <2>2, <3>1, DestroyedIs
    <3>3. /\ DOMAIN prof' = DOMAIN prof \ {p} /\ \A q \in DOMAIN prof' : prof'[q] = prof[q]
          /\ prof' \in [DOMAIN prof' -> Object]
      BY <1>1, <1>2, <2>2 DEF Without, TypeOK
    <3>4. QED
      BY <1>1, <1>2, <2>2, <3>2, <3>3 DEF TypeOK, InTree
  <2>3. QED
    BY <2>1, <2>2
<1>5. Visible' \subseteq Visible \ {p} /\ \A q \in Visible' : prof'[q] = prof[q]
  BY <1>4 DEF Visible, InTree
<1>6. /\ DOMAIN config' = DOMAIN config \ {Path(prof[p])}
      /\ \A q \in DOMAIN config' : config'[q] = config[q]
      /\ config' \in [DOMAIN config' -> Stored]
  BY <1>1, <1>2 DEF Without, TypeOK
<1>7. TypeOK'
  <2>1. strays' \subseteq 1..MaxProfiles
    BY <1>1, <1>2, VisibleIs DEF TypeOK
  <2>2. steps' \in 0..MaxSteps
    BY <1>1, <1>2 DEF TypeOK, Step
  <2>3. config' \in [DOMAIN config' -> Stored] /\ DOMAIN config' \subseteq Paths
    BY <1>1, <1>6 DEF TypeOK
  <2>4. QED
    BY <1>1, <1>2, <1>4, <2>1, <2>2, <2>3 DEF TypeOK
<1>8. \A q \in Visible' \ strays' :
        q \in Visible \ strays /\ prof'[q] = prof[q] /\ Path(prof[q]) # Path(prof[p])
  BY <1>2, <1>5
<1>9. CleanInv'
  BY <1>1, <1>6, <1>8 DEF CleanInv, QuickPath
<1>10. DistinctInv'
  BY <1>1, <1>5, <1>8 DEF DistinctInv
<1>11. LostInv'
  BY <1>1, <1>2, <1>4 DEF LostInv, InTree
<1>12. WhereInv'
  <2>1. IsFiniteSet(DOMAIN config')
    BY <1>1, <1>6, FS_Subset DEF WhereInv
  <2>2. QED
    BY <1>1, <1>2, <1>5, <1>6, <2>1 DEF WhereInv
<1>13. FatalInv'
  BY <1>2 DEF FatalInv, Step
<1>14. QED
  BY <1>7, <1>9, <1>10, <1>11, <1>12, <1>13 DEF IInv

\* The affected profiles are saved where they are, which no other one is.
LEMMA onLayoutRemovedKeeps ==
  ASSUME IInv, onLayoutRemoved
  PROVE  IInv'
<1> DEFINE affected == {p \in InTree : prof[p].layout = "Own"}
           Reset(p) == [prof[p] EXCEPT !.layout = "Default"]
           At(q) == CHOOSE p \in affected : Path(prof[p]) = q
           dirs == {Path(prof[p]) : p \in affected}
           paths == [p \in affected |-> Path(prof[p])]
<1>1. TypeOK /\ CleanInv /\ DistinctInv /\ LostInv /\ WhereInv /\ FatalInv
  BY DEF IInv
<1>2. /\ Step /\ layouts' = layouts \ {"Own"}
      /\ UNCHANGED <<folders, spoiled, removed, tabs, strays>>
      /\ IF \E p \in affected : prof[p].where = Lost
         THEN alive' = FALSE /\ UNCHANGED <<prof, config, cache>>
         ELSE /\ config' = [q \in DOMAIN config \cup dirs |->
                              IF q \in dirs THEN Entry(Reset(At(q)), config) ELSE config[q]]
              /\ cache' = [q \in DOMAIN cache \cup dirs |->
                              IF q \in dirs THEN prof[At(q)].topics ELSE cache[q]]
              /\ prof' = [p \in DOMAIN prof |->
                           IF p \in affected THEN Saved(Reset(p), config') ELSE prof[p]]
              /\ UNCHANGED alive
  BY DEF onLayoutRemoved, SameFolders
<1>3. steps' \in 0..MaxSteps /\ layouts' \subseteq Layouts
  BY <1>1, <1>2 DEF TypeOK, Step
<1>4. CASE \E p \in affected : prof[p].where = Lost
  <2>1. strays # {}
    BY <1>1, <1>4 DEF LostInv
  <2>2. alive' = FALSE
        /\ UNCHANGED <<folders, spoiled, removed, tabs, strays, prof, config, cache>>
    BY <1>2, <1>4
  <2>3. TypeOK'
    BY <1>1, <1>3, <2>2 DEF TypeOK
  <2>4. Visible' = Visible /\ InTree' = InTree
    BY <2>2 DEF Visible, InTree
  <2>5. CleanInv' /\ DistinctInv' /\ LostInv' /\ WhereInv'
    BY <1>1, <2>2, <2>4 DEF CleanInv, DistinctInv, LostInv, WhereInv, QuickPath
  <2>6. FatalInv'
    BY <2>1, <2>2 DEF FatalInv
  <2>7. QED
    BY <2>3, <2>5, <2>6 DEF IInv
<1>5. CASE ~ \E p \in affected : prof[p].where = Lost
  <2> HIDE DEF affected
  <2>1. affected \subseteq InTree
    BY DEF affected
  <2>2. \A p \in affected : p \in Visible /\ p \in DOMAIN prof /\ prof[p] \in Object
                            /\ prof[p].where # Lost /\ Path(prof[p]) \in Paths
    BY <1>1, <1>5, <2>1, VisibleIs
  <2>3. \A q \in dirs : At(q) \in affected /\ Path(prof[At(q)]) = q
    OBVIOUS
  <2>4. \A p \in affected :
          /\ Reset(p) \in Object /\ Reset(p).where = prof[p].where /\ Reset(p).name = prof[p].name
          /\ Reset(p).layout = "Default" /\ Reset(p).options = prof[p].options
          /\ Path(Reset(p)) = Path(prof[p])
    BY <2>2 DEF Object, Layouts, Path
  <2> HIDE DEF At, Reset
  <2>5. /\ config' = [q \in DOMAIN config \cup dirs |->
                              IF q \in dirs THEN Entry(Reset(At(q)), config) ELSE config[q]]
        /\ cache' = [q \in DOMAIN cache \cup dirs |->
                              IF q \in dirs THEN prof[At(q)].topics ELSE cache[q]]
        /\ prof' = [p \in DOMAIN prof |->
                      IF p \in affected THEN Saved(Reset(p), config') ELSE prof[p]]
        /\ UNCHANGED alive
    BY <1>2, <1>5 DEF Reset, At, affected
  <2>6. dirs \subseteq Paths /\ \A p \in affected : Path(prof[p]) \in dirs
    BY <2>2
  <2>7. \A q \in dirs : /\ Entry(Reset(At(q)), config) \in Stored
                        /\ Entry(Reset(At(q)), config).options = prof[At(q)].options
                        /\ Entry(Reset(At(q)), config).layout = "Default"
    BY <1>1, <2>3, <2>4, EntryIs DEF TypeOK
  <2>8. IsFiniteSet(dirs)
    <3>1. affected \subseteq 1..MaxProfiles
      BY <1>1, <2>2, VisibleIs
    <3>2. IsFiniteSet(affected)
      <4>1. 1 \in Int /\ MaxProfiles \in Int
        OBVIOUS
      <4>2. QED
        BY <3>1, <4>1, FS_Interval, FS_Subset
    <3>3. DOMAIN paths = affected /\ dirs = {paths[p] : p \in DOMAIN paths}
      OBVIOUS
    <3>4. IsFiniteSet({paths[p] : p \in DOMAIN paths})
      BY <3>2, <3>3, FiniteImage
    <3>5. QED
      BY <3>3, <3>4
  <2> HIDE DEF dirs
  <2>9. /\ DOMAIN config' = DOMAIN config \cup dirs
        /\ \A q \in dirs : config'[q] = Entry(Reset(At(q)), config)
        /\ \A q \in DOMAIN config \ dirs : config'[q] = config[q]
        /\ config' \in [DOMAIN config' -> Stored] /\ DOMAIN config' \subseteq Paths
    BY <1>1, <2>5, <2>6, <2>7 DEF TypeOK
  <2>10. cache' \in [DOMAIN cache' -> SUBSET Topics] /\ DOMAIN cache' \subseteq Paths
    <3>1. \A q \in dirs : prof[At(q)].topics \in SUBSET Topics
      BY <2>2, <2>3 DEF Object
    <3>2. QED
      BY <1>1, <2>5, <2>6, <3>1 DEF TypeOK
  <2>11. ASSUME NEW p \in affected
         PROVE  /\ prof'[p] \in Object /\ prof'[p].where = prof[p].where
                /\ prof'[p].name = prof[p].name /\ Path(prof'[p]) = Path(prof[p])
                /\ prof'[p].options = prof[p].options /\ prof'[p].layout = "Default"
                /\ prof'[p].snippets = config'[Path(prof[p])].snippets
                /\ prof'[p].base = Path(prof[p]) /\ prof'[p].file = Path(prof[p])
    <3>1. prof'[p] = Saved(Reset(p), config')
      BY <2>2, <2>5
    <3>2. config'[Path(prof[p])] \in Stored
      BY <2>6, <2>9
    <3>3. config'[Path(Reset(p))].snippets \in SUBSET Topics
      BY <2>4, <3>2 DEF Stored
    <3>4. Reset(p) \in Object /\ Reset(p).where # Lost
      BY <2>2, <2>4
    <3>5. QED
      BY <2>4, <3>1, <3>3, <3>4, SavedIs
  <2>12. DOMAIN prof' = DOMAIN prof /\ \A p \in DOMAIN prof \ affected : prof'[p] = prof[p]
    BY <2>5
  <2>13. prof' \in [DOMAIN prof' -> Object]
    <3>1. \A p \in DOMAIN prof : prof'[p] \in Object
      BY <1>1, <2>11, <2>12 DEF TypeOK
    <3>2. prof' = [p \in DOMAIN prof |-> prof'[p]]
      BY <2>5
    <3>3. QED
      BY <2>12, <3>1, <3>2
  <2>14. \A p \in DOMAIN prof : /\ prof'[p].where = prof[p].where /\ prof'[p].name = prof[p].name
                                /\ Path(prof'[p]) = Path(prof[p])
    BY <2>11, <2>12
  <2>15. InTree' = InTree /\ Visible' = Visible
    <3>1. InTree' = InTree
      BY <1>2, <2>12 DEF InTree
    <3>2. InTree \subseteq DOMAIN prof
      BY DEF InTree
    <3>3. QED
      BY <2>14, <3>1, <3>2 DEF Visible
  <2>16. \A p \in Visible : p \in DOMAIN prof
    BY DEF Visible, InTree
  <2>17. TypeOK'
    BY <1>1, <1>2, <1>3, <2>5, <2>9, <2>10, <2>12, <2>13 DEF TypeOK
  <2>18. CleanInv'
    <3> SUFFICES ASSUME NEW p \in Visible, p \notin strays
                 PROVE  /\ prof'[p].base = Path(prof'[p]) /\ prof'[p].file = Path(prof'[p])
                        /\ Path(prof'[p]) \in DOMAIN config'
                        /\ Path(prof'[p]) # QuickPath => config'[Path(prof'[p])] = Stays(prof'[p])
      BY <1>2, <2>15 DEF CleanInv, QuickPath
    <3> DEFINE P == Path(prof[p])
    <3>1. Path(prof'[p]) = P /\ P \in DOMAIN config
      BY <1>1, <2>14, <2>16 DEF CleanInv
    <3>2. CASE p \in affected
      <4>1. P \in dirs /\ At(P) \in affected /\ Path(prof[At(P)]) = P
        BY <2>3, <2>6, <3>2
      <4>2. At(P) = p
        BY <1>1, <2>2, <4>1 DEF DistinctInv
      <4>3. config'[P].options = prof[p].options /\ config'[P].layout = "Default"
            /\ config'[P] \in Stored
        BY <2>7, <2>9, <4>1, <4>2
      <4>4. config'[P] = Stays(prof'[p])
        BY <2>11, <3>2, <4>3, StaysIs
      <4>5. QED
        BY <2>9, <2>11, <3>1, <3>2, <4>4
    <3>3. CASE p \notin affected
      <4>1. prof'[p] = prof[p]
        BY <2>12, <2>16, <3>3
      <4>2. P \notin dirs
        <5>1. ASSUME P \in dirs PROVE FALSE
          <6>1. At(P) \in affected /\ Path(prof[At(P)]) = P
            BY <2>3, <5>1
          <6>2. At(P) = p
            BY <1>1, <2>2, <6>1 DEF DistinctInv
          <6>3. QED
            BY <3>3, <6>1, <6>2
        <5>2. QED
          BY <5>1
      <4>3. P \in DOMAIN config' /\ config'[P] = config[P]
        BY <2>9, <3>1, <4>2
      <4>4. QED
        BY <1>1, <4>1, <4>3 DEF CleanInv
    <3>4. QED
      BY <3>2, <3>3
  <2>19. DistinctInv' /\ LostInv'
    <3>1. InTree \subseteq DOMAIN prof
      BY DEF InTree
    <3>2. QED
      BY <1>1, <1>2, <2>14, <2>15, <2>16, <3>1 DEF DistinctInv, LostInv
  <2>20. WhereInv'
    <3>1. IsFiniteSet(DOMAIN config')
      <4>1. IsFiniteSet(DOMAIN config)
        BY <1>1 DEF WhereInv
      <4>2. IsFiniteSet(DOMAIN config \cup dirs)
        BY <2>8, <4>1, FS_Union
      <4>3. QED
        BY <2>9, <4>2
    <3>2. \A p \in Visible' : /\ prof'[p].where \in folders' \cup {Top}
                              /\ prof'[p].where = Top => prof'[p].name \notin folders'
      BY <1>1, <1>2, <2>14, <2>15, <2>16 DEF WhereInv
    <3>3. \A q \in dirs : /\ q[1] \in folders \cup {Top}
                          /\ \A f \in folders : q # <<Top, f>>
      <4> SUFFICES ASSUME NEW q \in dirs
                   PROVE  /\ q[1] \in folders \cup {Top}
                          /\ \A f \in folders : q # <<Top, f>>
        OBVIOUS
      <4>1. At(q) \in Visible /\ q = <<prof[At(q)].where, prof[At(q)].name>>
        BY <2>2, <2>3 DEF Path
      <4>2. QED
        BY <1>1, <4>1 DEF WhereInv
    <3>4. QED
      BY <1>1, <1>2, <2>9, <3>1, <3>2, <3>3 DEF WhereInv
  <2>21. FatalInv'
    BY <1>2, <2>5 DEF FatalInv, Step
  <2>22. QED
    BY <2>17, <2>18, <2>19, <2>20, <2>21 DEF IInv
<1>6. QED
  BY <1>4, <1>5

-------------------------------------------------------------------------------
(* Client tabs *)

LEMMA openTabKeeps ==
  ASSUME IInv, NEW p \in Visible, openTab(p)
  PROVE  IInv'
<1>1. TypeOK /\ CleanInv /\ DistinctInv /\ LostInv /\ WhereInv /\ FatalInv
  BY DEF IInv
<1>2. /\ Step /\ tabs' = tabs \cup {p}
      /\ UNCHANGED <<folders, spoiled, prof, removed, layouts, config, cache, alive, strays>>
  BY DEF openTab, SameFolders
<1>3. Visible' = Visible /\ InTree' = InTree /\ p \in DOMAIN prof
  BY <1>2 DEF Visible, InTree
<1>4. TypeOK'
  BY <1>1, <1>2, <1>3 DEF TypeOK, Step
<1>5. CleanInv' /\ DistinctInv' /\ LostInv' /\ WhereInv' /\ FatalInv'
  BY <1>1, <1>2, <1>3 DEF CleanInv, DistinctInv, LostInv, WhereInv, FatalInv, QuickPath
<1>6. QED
  BY <1>4, <1>5 DEF IInv

\* The objects of the tree stay.
LEMMA closeTabKeeps ==
  ASSUME IInv, NEW p \in tabs, closeTab(p)
  PROVE  IInv'
<1>1. TypeOK /\ CleanInv /\ DistinctInv /\ LostInv /\ WhereInv /\ FatalInv
  BY DEF IInv
<1>2. /\ Step /\ tabs' = tabs \ {p} /\ removed' = removed \ {p}
      /\ UNCHANGED <<folders, spoiled, layouts, config, alive, strays>>
      /\ IF p \in removed THEN prof' = Without(prof, {p}) /\ cache' = Destroyed({p})
         ELSE UNCHANGED <<prof, cache>>
  BY DEF closeTab, SameFolders
<1>3. p \in DOMAIN prof
  BY <1>1 DEF TypeOK
<1>4. /\ prof' \in [DOMAIN prof' -> Object] /\ DOMAIN prof' \subseteq DOMAIN prof
      /\ \A q \in DOMAIN prof' : prof'[q] = prof[q]
      /\ InTree' = InTree /\ tabs' \subseteq DOMAIN prof'
      /\ cache' \in [DOMAIN cache' -> SUBSET Topics] /\ DOMAIN cache' \subseteq Paths
  <2>1. CASE p \notin removed
    BY <1>1, <1>2, <2>1 DEF TypeOK, InTree
  <2>2. CASE p \in removed
    <3>1. {p} \in SUBSET DOMAIN prof
      BY <1>3
    <3>2. cache' \in [DOMAIN cache' -> SUBSET Topics] /\ DOMAIN cache' \subseteq Paths
      BY <1>1, <1>2, <2>2, <3>1, DestroyedIs
    <3>3. /\ DOMAIN prof' = DOMAIN prof \ {p} /\ \A q \in DOMAIN prof' : prof'[q] = prof[q]
          /\ prof' \in [DOMAIN prof' -> Object]
      BY <1>1, <1>2, <2>2 DEF Without, TypeOK
    <3>4. QED
      BY <1>1, <1>2, <2>2, <3>2, <3>3 DEF TypeOK, InTree
  <2>3. QED
    BY <2>1, <2>2
<1>5. Visible' = Visible /\ \A q \in InTree : prof'[q] = prof[q]
  BY <1>4 DEF Visible, InTree
<1>6. Visible \subseteq InTree
  BY DEF Visible
<1>7. TypeOK'
  <2>1. steps' \in 0..MaxSteps
    BY <1>1, <1>2 DEF TypeOK, Step
  <2>2. removed' \subseteq tabs'
    BY <1>1, <1>2 DEF TypeOK
  <2>3. QED
    BY <1>1, <1>2, <1>4, <2>1, <2>2 DEF TypeOK
<1>8. CleanInv'
  BY <1>1, <1>2, <1>5, <1>6 DEF CleanInv, QuickPath
<1>9. DistinctInv' /\ LostInv' /\ WhereInv'
  BY <1>1, <1>2, <1>4, <1>5, <1>6 DEF DistinctInv, LostInv, WhereInv
<1>10. FatalInv'
  BY <1>2 DEF FatalInv, Step
<1>11. QED
  BY <1>7, <1>8, <1>9, <1>10 DEF IInv

LEMMA appendKeeps ==
  ASSUME IInv, NEW p \in tabs, NEW t \in Topics, append(p, t)
  PROVE  IInv'
<1>1. TypeOK /\ CleanInv /\ DistinctInv /\ LostInv /\ WhereInv /\ FatalInv
  BY DEF IInv
<1>2. /\ Step /\ prof' = [prof EXCEPT ![p].topics = @ \cup {t}]
      /\ UNCHANGED <<folders, spoiled, removed, tabs, layouts, config, cache, alive, strays>>
  BY DEF append, SameFolders
<1>3. p \in DOMAIN prof /\ prof[p] \in Object
  BY <1>1 DEF TypeOK
<1>4. /\ DOMAIN prof' = DOMAIN prof /\ prof'[p] = [prof[p] EXCEPT !.topics = @ \cup {t}]
      /\ \A q \in DOMAIN prof : q # p => prof'[q] = prof[q]
  BY <1>2, <1>3
<1>5. prof'[p] \in Object
  <2>1. prof[p].topics \cup {t} \in SUBSET Topics
    BY <1>3 DEF Object
  <2>2. prof'[p] = [prof[p] EXCEPT !.topics = prof[p].topics \cup {t}]
    BY <1>4
  <2>3. QED
    BY <1>3, <2>1, <2>2 DEF Object
<1>6. prof' \in [DOMAIN prof' -> Object]
  BY <1>1, <1>2, <1>4, <1>5 DEF TypeOK
<1>7. \A q \in DOMAIN prof : /\ prof'[q].name = prof[q].name /\ prof'[q].where = prof[q].where
                             /\ prof'[q].base = prof[q].base /\ prof'[q].file = prof[q].file
                             /\ Path(prof'[q]) = Path(prof[q]) /\ Stays(prof'[q]) = Stays(prof[q])
  BY <1>3, <1>4 DEF Object, Path, Stays
<1>8. Visible' = Visible /\ InTree' = InTree /\ InTree \subseteq DOMAIN prof /\ Visible \subseteq DOMAIN prof
  BY <1>2, <1>4, <1>7 DEF Visible, InTree
<1>9. TypeOK'
  BY <1>1, <1>2, <1>4, <1>6 DEF TypeOK, Step
<1>10. CleanInv' /\ DistinctInv' /\ LostInv'
  <2>1. strays' = strays /\ config' = config
    BY <1>2
  <2>2. CleanInv'
    BY <1>1, <1>7, <1>8, <2>1 DEF CleanInv, QuickPath
  <2>3. DistinctInv' /\ LostInv'
    BY <1>1, <1>7, <1>8, <2>1 DEF DistinctInv, LostInv
  <2>4. QED
    BY <2>2, <2>3
<1>11. WhereInv' /\ FatalInv'
  BY <1>1, <1>2, <1>7, <1>8 DEF WhereInv, FatalInv
<1>12. QED
  BY <1>9, <1>10, <1>11 DEF IInv

\* A snippet is written where the messages of the object are bound to: at its own
\* path, or it makes a stray of whatever profile is there.
LEMMA createMessageKeeps ==
  ASSUME IInv, NEW p \in tabs, NEW t \in Topics, createMessage(p, t)
  PROVE  IInv'
<1> DEFINE at == prof[p].base
<1>1. TypeOK /\ CleanInv /\ DistinctInv /\ LostInv /\ WhereInv /\ FatalInv
  BY DEF IInv
<1>2. /\ Step
      /\ IF at \in DOMAIN config
         THEN /\ config' = [config EXCEPT ![at].snippets = @ \cup {t}]
              /\ prof' = [prof EXCEPT ![p].snippets = @ \cup {t}] /\ UNCHANGED alive
         ELSE alive' = FALSE /\ UNCHANGED <<config, prof>>
      /\ strays' = strays \cup {q \in Visible \ {p} : Path(prof[q]) = at}
      /\ UNCHANGED <<folders, spoiled, removed, tabs, layouts, cache>>
  BY DEF createMessage, SameFolders
<1>3. p \in DOMAIN prof /\ prof[p] \in Object
  BY <1>1 DEF TypeOK
<1>4. strays' \subseteq 1..MaxProfiles /\ steps' \in 0..MaxSteps
  BY <1>1, <1>2, VisibleIs DEF TypeOK, Step
<1>5. CASE at \notin DOMAIN config
  <2>1. UNCHANGED <<folders, spoiled, removed, tabs, layouts, cache, config, prof>>
        /\ alive' = FALSE
    BY <1>2, <1>5
  <2>2. Visible' = Visible /\ InTree' = InTree
    BY <2>1 DEF Visible, InTree
  <2>3. TypeOK'
    BY <1>1, <1>4, <2>1 DEF TypeOK
  <2>4. strays \subseteq strays'
    BY <1>2
  <2>5. CleanInv' /\ DistinctInv' /\ LostInv' /\ WhereInv'
    BY <1>1, <2>1, <2>2, <2>4 DEF CleanInv, DistinctInv, LostInv, WhereInv, QuickPath
  <2>6. p \in removed \/ p \in strays
    <3>1. p \in Visible \ strays => at \in DOMAIN config
      BY <1>1 DEF CleanInv
    <3>2. p \notin removed => p \in InTree
      BY <1>3 DEF InTree
    <3>3. p \in InTree => p \in Visible \/ p \in strays
      BY <1>1 DEF LostInv, Visible
    <3>4. QED
      BY <1>5, <3>1, <3>2, <3>3
  <2>7. FatalInv'
    BY <2>1, <2>4, <2>6 DEF FatalInv
  <2>8. QED
    BY <2>3, <2>5, <2>7 DEF IInv
<1>6. CASE at \in DOMAIN config
  <2>1. /\ config' = [config EXCEPT ![at].snippets = @ \cup {t}]
        /\ prof' = [prof EXCEPT ![p].snippets = @ \cup {t}] /\ UNCHANGED alive
    BY <1>2, <1>6
  <2>2. config[at] \in Stored
    BY <1>1, <1>6 DEF TypeOK
  <2>3. /\ DOMAIN prof' = DOMAIN prof /\ prof'[p] = [prof[p] EXCEPT !.snippets = @ \cup {t}]
        /\ \A q \in DOMAIN prof : q # p => prof'[q] = prof[q]
    BY <1>3, <2>1
  <2>4. /\ DOMAIN config' = DOMAIN config
        /\ config'[at] = [config[at] EXCEPT !.snippets = @ \cup {t}]
        /\ \A q \in DOMAIN config : q # at => config'[q] = config[q]
    BY <1>6, <2>1
  <2>5. /\ prof'[p] \in Object /\ prof'[p].options = prof[p].options
        /\ prof'[p].layout = prof[p].layout /\ prof'[p].snippets = prof[p].snippets \cup {t}
    <3>1. prof[p].snippets \cup {t} \in SUBSET Topics
      BY <1>3 DEF Object
    <3>2. prof'[p] = [prof[p] EXCEPT !.snippets = prof[p].snippets \cup {t}]
      BY <2>3
    <3>3. QED
      BY <1>3, <3>1, <3>2 DEF Object
  <2>6. /\ config'[at] \in Stored /\ config'[at].options = config[at].options
        /\ config'[at].layout = config[at].layout
        /\ config'[at].snippets = config[at].snippets \cup {t}
    <3>1. config[at].snippets \cup {t} \in SUBSET Topics
      BY <2>2 DEF Stored
    <3>2. config'[at] = [config[at] EXCEPT !.snippets = config[at].snippets \cup {t}]
      BY <2>4
    <3>3. QED
      BY <2>2, <3>1, <3>2 DEF Stored
  <2>7. prof' \in [DOMAIN prof' -> Object] /\ config' \in [DOMAIN config' -> Stored]
    BY <1>1, <2>1, <2>3, <2>4, <2>5, <2>6 DEF TypeOK
  <2>8. \A q \in DOMAIN prof : /\ prof'[q].name = prof[q].name /\ prof'[q].where = prof[q].where
                               /\ prof'[q].base = prof[q].base /\ prof'[q].file = prof[q].file
                               /\ Path(prof'[q]) = Path(prof[q])
    BY <1>3, <2>3 DEF Object, Path
  <2>9. Visible' = Visible /\ InTree' = InTree /\ InTree \subseteq DOMAIN prof
        /\ Visible \subseteq DOMAIN prof
    BY <1>2, <2>3, <2>8 DEF Visible, InTree
  <2>10. TypeOK'
    BY <1>1, <1>2, <1>4, <2>1, <2>3, <2>4, <2>7 DEF TypeOK
  <2>11. strays \subseteq strays'
    BY <1>2
  <2>12. CleanInv'
    <3> SUFFICES ASSUME NEW q \in Visible, q \notin strays'
                 PROVE  /\ prof'[q].base = Path(prof'[q]) /\ prof'[q].file = Path(prof'[q])
                        /\ Path(prof'[q]) \in DOMAIN config'
                        /\ Path(prof'[q]) # QuickPath => config'[Path(prof'[q])] = Stays(prof'[q])
      BY <2>9 DEF CleanInv, QuickPath
    <3>1. /\ prof'[q].base = Path(prof'[q]) /\ prof'[q].file = Path(prof'[q])
          /\ Path(prof'[q]) \in DOMAIN config' /\ Path(prof'[q]) = Path(prof[q])
          /\ Path(prof[q]) # QuickPath => config[Path(prof[q])] = Stays(prof[q])
          /\ Path(prof[q]) \in DOMAIN config /\ prof[q].base = Path(prof[q])
      BY <1>1, <2>4, <2>8, <2>9, <2>11 DEF CleanInv
    <3>2. CASE q = p
      <4>1. Path(prof[q]) = at
        BY <3>1, <3>2
      <4>2. config[at] = Stays(prof[p]) => config'[at] = Stays(prof'[p])
        <5> SUFFICES ASSUME config[at] = Stays(prof[p]) PROVE config'[at] = Stays(prof'[p])
          OBVIOUS
        <5>1. /\ config[at].options = prof[p].options /\ config[at].layout = prof[p].layout
              /\ config[at].snippets = prof[p].snippets
          BY <1>3, <2>2, StaysIs
        <5>2. /\ config'[at].options = prof'[p].options /\ config'[at].layout = prof'[p].layout
              /\ config'[at].snippets = prof'[p].snippets
          BY <2>5, <2>6, <5>1
        <5>3. config'[at] \in Stored /\ prof'[p] \in Object
          BY <2>5, <2>6
        <5>4. QED
          BY <5>2, <5>3, StaysIs
      <4>3. QED
        BY <3>1, <3>2, <4>1, <4>2
    <3>3. CASE q # p
      <4>1. Path(prof[q]) # at
        BY <1>2, <3>3
      <4>2. prof'[q] = prof[q] /\ config'[Path(prof[q])] = config[Path(prof[q])]
        BY <2>3, <2>4, <2>9, <3>1, <3>3, <4>1
      <4>3. QED
        BY <3>1, <4>2
    <3>4. QED
      BY <3>2, <3>3
  <2>13. DistinctInv' /\ LostInv'
    BY <1>1, <1>2, <2>8, <2>9, <2>11 DEF DistinctInv, LostInv
  <2>14. WhereInv' /\ FatalInv'
    BY <1>1, <1>2, <2>1, <2>4, <2>8, <2>9 DEF WhereInv, FatalInv, Step
  <2>15. QED
    BY <2>10, <2>12, <2>13, <2>14 DEF IInv
<1>7. QED
  BY <1>5, <1>6

-------------------------------------------------------------------------------
(* The next start *)

\* The directories that the next start looks at.
SeenPaths == {q \in DOMAIN config : q[1] = Top \/ <<Top, q[1]>> \notin DOMAIN config}

\* What is read of a directory.
LEMMA LoadedIs ==
  ASSUME TypeOK, NEW topics, topics \in [DOMAIN topics -> SUBSET Topics],
         NEW q \in DOMAIN config
  PROVE  /\ Loaded(q, topics) \in Object /\ Path(Loaded(q, topics)) = q
         /\ Loaded(q, topics).where = q[1] /\ Loaded(q, topics).where # Lost
         /\ Loaded(q, topics).name = q[2]
         /\ Loaded(q, topics).base = q /\ Loaded(q, topics).file = q
         /\ config[q] = Stays(Loaded(q, topics))
         /\ q \in DOMAIN topics => topics[q] \subseteq Loaded(q, topics).topics
<1>1. q \in Paths /\ config[q] \in Stored
  BY DEF TypeOK
<1>2. q = <<q[1], q[2]>> /\ q[1] \in Names \cup {Top} /\ q[2] \in Names
  BY <1>1, PathParts
<1> DEFINE known == IF q \in DOMAIN topics THEN topics[q] ELSE {}
<1>3. known \in SUBSET Topics
  OBVIOUS
<1>4. Loaded(q, topics) =
        [name |-> q[2], where |-> q[1], options |-> config[q].options, layout |-> config[q].layout,
         snippets |-> config[q].snippets, base |-> q, file |-> q,
         topics |-> config[q].snippets \cup known]
  BY DEF Loaded
<1> HIDE DEF known
<1>5. /\ config[q].options \in Options /\ config[q].layout \in Layouts
      /\ config[q].snippets \in SUBSET Topics
  BY <1>1 DEF Stored
<1>6. Loaded(q, topics) \in Object
  BY <1>1, <1>2, <1>3, <1>4, <1>5 DEF Object
<1>7. /\ Path(Loaded(q, topics)) = q /\ q[1] # Lost
      /\ Loaded(q, topics).where = q[1] /\ Loaded(q, topics).name = q[2]
      /\ Loaded(q, topics).base = q /\ Loaded(q, topics).file = q
  BY <1>2, <1>4 DEF Path
<1>8. config[q] = Stays(Loaded(q, topics))
  BY <1>1, <1>4, <1>6, StaysIs
<1>9. q \in DOMAIN topics => topics[q] \subseteq Loaded(q, topics).topics
  BY <1>4 DEF known
<1>10. QED
  BY <1>6, <1>7, <1>8, <1>9

\* There is an object for each directory looked at, and no two for the same one.
LEMMA LoadYields ==
  ASSUME IInv, NEW topics, topics \in [DOMAIN topics -> SUBSET Topics],
         DOMAIN topics \subseteq Paths, load(topics)
  PROVE  /\ DOMAIN prof' \subseteq 1..MaxProfiles
         /\ \A i \in DOMAIN prof' : \E q \in SeenPaths : prof'[i] = Loaded(q, topics)
         /\ \A q \in SeenPaths : \E i \in DOMAIN prof' : prof'[i] = Loaded(q, topics)
         /\ \A i, j \in DOMAIN prof' : Path(prof'[i]) = Path(prof'[j]) => i = j
         /\ prof' = [i \in DOMAIN prof' |-> prof'[i]]
<1> DEFINE dirs == SeenPaths
           n == Cardinality(dirs)
           Order(f) == \A i, j \in 1..n : f[i] = f[j] => i = j
           order == CHOOSE f \in [1..n -> dirs] : Order(f)
<1>1. TypeOK /\ WhereInv
  BY DEF IInv
<1>2. n <= MaxProfiles /\ prof' = [i \in 1..n |-> Loaded(order[i], topics)]
  BY DEF load, SeenPaths
<1>3. dirs \subseteq DOMAIN config /\ IsFiniteSet(dirs)
  BY <1>1, FS_Subset DEF WhereInv, SeenPaths
<1>4. n \in Nat /\ ExistsBijection(1..n, dirs)
  BY <1>3, FS_CardinalityType
<1>5. PICK f \in Bijection(1..n, dirs) : TRUE
  BY <1>4 DEF ExistsBijection
<1>6. f \in [1..n -> dirs] /\ Order(f)
  BY <1>5 DEF Bijection, Injection, Surjection, IsInjective
<1> HIDE DEF Order
<1>7. order \in [1..n -> dirs] /\ Order(order)
  BY <1>6
<1> USE DEF Order
<1> HIDE DEF order, n, dirs
<1>8. order \in Injection(1..n, dirs)
  BY <1>7 DEF Injection, IsInjective
<1>9. order \in Surjection(1..n, dirs)
  <2>1. IsFiniteSet(1..n) /\ Cardinality(1..n) = n
    <3>1. 1 \in Int /\ n \in Int
      BY <1>4
    <3>2. Cardinality(1..n) = IF 1 > n THEN 0 ELSE n - 1 + 1
      BY <3>1, FS_Interval
    <3>3. IsFiniteSet(1..n)
      BY <3>1, FS_Interval
    <3>4. n \in Nat
      BY <1>4
    <3>5. QED
      BY <3>2, <3>3, <3>4
  <2>2. Cardinality(1..n) = Cardinality(dirs)
    BY <2>1 DEF n
  <2>3. QED
    BY <1>3, <1>8, <2>2, FS_Injection
<1>10. \A q \in dirs : \E i \in 1..n : order[i] = q
  BY <1>9 DEF Surjection
<1>11. DOMAIN prof' = 1..n /\ \A i \in 1..n : prof'[i] = Loaded(order[i], topics)
  BY <1>2
<1>12. \A i \in 1..n : order[i] \in dirs /\ Path(prof'[i]) = order[i]
  BY <1>1, <1>3, <1>7, <1>11, LoadedIs
<1>13. \A i, j \in DOMAIN prof' : Path(prof'[i]) = Path(prof'[j]) => i = j
  BY <1>7, <1>11, <1>12
<1>14. DOMAIN prof' \subseteq 1..MaxProfiles
  BY <1>2, <1>4, <1>11
<1>15. /\ \A i \in DOMAIN prof' : \E q \in dirs : prof'[i] = Loaded(q, topics)
       /\ \A q \in dirs : \E i \in DOMAIN prof' : prof'[i] = Loaded(q, topics)
  BY <1>10, <1>11, <1>12
<1>16. prof' = [i \in DOMAIN prof' |-> prof'[i]]
  BY <1>2
<1>17. QED
  BY <1>13, <1>14, <1>15, <1>16 DEF dirs

\* The start leaves a directory that is both a folder and a profile to the latter.
LEMMA LoadKeeps ==
  ASSUME IInv, NEW topics, topics \in [DOMAIN topics -> SUBSET Topics],
         DOMAIN topics \subseteq Paths, Restarted, load(topics)
  PROVE  IInv'
<1> DEFINE quick == [name |-> QuickPath[2], where |-> Top, options |-> Default, layout |-> "Default"]
           kept == [q \in SeenPaths |-> config[q]]
<1>1. TypeOK /\ WhereInv
  BY DEF IInv
<1>2. /\ folders' = {f \in folders : <<Top, f>> \notin DOMAIN config}
      /\ spoiled' = folders' \cap {QuickConnect}
      /\ config' = Set(kept, QuickPath, Entry(quick, config))
      /\ cache' = Set([q \in DOMAIN topics \cup SeenPaths |->
                         IF q \in DOMAIN topics THEN topics[q] ELSE {}], QuickPath, {})
  BY DEF load, SeenPaths
<1>3. Step /\ removed' = {} /\ tabs' = {} /\ strays' = {} /\ UNCHANGED <<layouts, alive>>
  BY DEF Restarted
<1>4. QuickPath \in Paths /\ QuickPath = <<Top, QuickConnect>> /\ QuickPath[1] = Top
  BY DEF QuickPath, Paths
<1>5. SeenPaths \subseteq DOMAIN config /\ DOMAIN config \subseteq Paths
      /\ \A q \in DOMAIN config : config[q] \in Stored
  BY <1>1 DEF TypeOK, SeenPaths
<1>6. Entry(quick, config) \in Stored
  <2>1. Path(quick) \in DOMAIN config => config[Path(quick)].snippets \in SUBSET Topics
    BY <1>5 DEF Stored
  <2>2. quick.options \in Options /\ quick.layout \in Layouts
    BY DEF Layouts
  <2> HIDE DEF quick
  <2>3. QED
    BY <2>1, <2>2 DEF Entry, Stored
<1> HIDE DEF quick
<1>7. /\ DOMAIN config' = SeenPaths \cup {QuickPath}
      /\ \A q \in SeenPaths : q # QuickPath => config'[q] = config[q]
      /\ config' \in [DOMAIN config' -> Stored]
  BY <1>2, <1>5, <1>6 DEF Set
<1>8. cache' \in [DOMAIN cache' -> SUBSET Topics] /\ DOMAIN cache' \subseteq Paths
  BY <1>2, <1>4, <1>5 DEF Set
<1>9. /\ DOMAIN prof' \subseteq 1..MaxProfiles
      /\ \A i \in DOMAIN prof' : \E q \in SeenPaths : prof'[i] = Loaded(q, topics)
      /\ \A i, j \in DOMAIN prof' : Path(prof'[i]) = Path(prof'[j]) => i = j
      /\ prof' = [i \in DOMAIN prof' |-> prof'[i]]
  BY LoadYields
<1>10. ASSUME NEW i \in DOMAIN prof'
       PROVE  /\ prof'[i] \in Object /\ Path(prof'[i]) \in SeenPaths
              /\ prof'[i].where # Lost /\ prof'[i].where = Path(prof'[i])[1]
              /\ Path(prof'[i]) = <<prof'[i].where, prof'[i].name>>
              /\ prof'[i].base = Path(prof'[i]) /\ prof'[i].file = Path(prof'[i])
              /\ config[Path(prof'[i])] = Stays(prof'[i])
  <2>1. PICK q \in SeenPaths : prof'[i] = Loaded(q, topics)
    BY <1>9
  <2>2. q \in DOMAIN config /\ q \in Paths
    BY <1>5
  <2>3. QED
    BY <1>1, <2>1, <2>2, LoadedIs, PathParts
<1>11. Visible' \subseteq DOMAIN prof' /\ InTree' \subseteq DOMAIN prof'
  BY DEF Visible, InTree
<1>12. prof' \in [DOMAIN prof' -> Object]
  BY <1>9, <1>10
<1>13. TypeOK'
  <2>1. steps' \in 0..MaxSteps
    BY <1>1, <1>3 DEF TypeOK, Step
  <2>2. folders' \subseteq Names /\ spoiled' \subseteq Names
    BY <1>1, <1>2 DEF TypeOK
  <2>3. DOMAIN config' \subseteq Paths
    BY <1>4, <1>5, <1>7
  <2>4. QED
    BY <1>1, <1>3, <1>7, <1>8, <1>9, <1>12, <2>1, <2>2, <2>3 DEF TypeOK
<1>14. CleanInv'
  BY <1>7, <1>10, <1>11 DEF CleanInv, QuickPath
<1>15. DistinctInv' /\ LostInv'
  BY <1>9, <1>10, <1>11 DEF DistinctInv, LostInv
<1>16. WhereInv'
  <2>1. IsFiniteSet(DOMAIN config')
    <3>1. IsFiniteSet(SeenPaths)
      BY <1>1, <1>5, FS_Subset DEF WhereInv
    <3>2. IsFiniteSet(SeenPaths \cup {QuickPath})
      BY <3>1, FS_AddElement
    <3>3. QED
      BY <1>7, <3>2
  <2>2. \A q \in SeenPaths : q[1] \in folders' \cup {Top}
    BY <1>1, <1>2 DEF WhereInv, SeenPaths
  <2>3. \A f \in folders' : <<Top, f>> \notin SeenPaths
    BY <1>2, <1>5
  <2>4. \A p \in Visible' : prof'[p].where \in folders' \cup {Top}
    BY <1>10, <1>11, <2>2
  <2>5. ASSUME NEW p \in Visible', prof'[p].where = Top PROVE prof'[p].name \notin folders'
    <3>1. Path(prof'[p]) = <<Top, prof'[p].name>> /\ Path(prof'[p]) \in SeenPaths
      BY <1>10, <1>11, <2>5
    <3>2. QED
      BY <2>3, <3>1
  <2>6. \A q \in DOMAIN config' : q[1] \in folders' \cup {Top}
    BY <1>4, <1>7, <2>2
  <2>7. \A f \in folders' \ spoiled' : <<Top, f>> \notin DOMAIN config'
    BY <1>2, <1>4, <1>7, <2>3
  <2>8. QED
    BY <2>1, <2>4, <2>5, <2>6, <2>7 DEF WhereInv
<1>17. FatalInv'
  BY <1>3 DEF FatalInv, Step
<1>18. QED
  BY <1>13, <1>14, <1>15, <1>16, <1>17 DEF IInv

\* The next start finds every settled profile, and what is remembered of its topics.
LEMMA LoadFinds ==
  ASSUME IInv, NEW topics, topics \in [DOMAIN topics -> SUBSET Topics],
         DOMAIN topics \subseteq Paths, load(topics), NEW p \in Settled
  PROVE  \E q \in DOMAIN prof' :
           /\ Path(prof'[q]) = Path(prof[p])
           /\ prof'[q].options = prof[p].options /\ prof'[q].layout = prof[p].layout
           /\ prof'[q].snippets = prof[p].snippets
           /\ prof[p].file \in DOMAIN topics => topics[prof[p].file] \subseteq prof'[q].topics
<1> DEFINE P == Path(prof[p])
<1>1. TypeOK /\ CleanInv /\ WhereInv
  BY DEF IInv
<1>2. p \in Visible /\ p \notin strays /\ P # QuickPath /\ prof[p].where \notin spoiled
  BY DEF Settled, QuickPath
<1>3. prof[p].file = P /\ P \in DOMAIN config /\ config[P] = Stays(prof[p])
  BY <1>1, <1>2 DEF CleanInv
<1>4. prof[p] \in Object /\ P[1] = prof[p].where
  BY <1>1, <1>2, VisibleIs, PathIs
<1> HIDE DEF P
<1>5. P \in SeenPaths
  <2>1. prof[p].where \in folders \cup {Top}
    BY <1>1, <1>2 DEF WhereInv
  <2>2. prof[p].where # Top => <<Top, prof[p].where>> \notin DOMAIN config
    BY <1>1, <1>2, <2>1 DEF WhereInv
  <2>3. QED
    BY <1>3, <1>4, <2>2 DEF SeenPaths
<1>6. PICK q \in DOMAIN prof' : prof'[q] = Loaded(P, topics)
  BY <1>5, LoadYields
<1>7. /\ prof'[q] \in Object /\ Path(prof'[q]) = P /\ config[P] = Stays(prof'[q])
      /\ P \in DOMAIN topics => topics[P] \subseteq prof'[q].topics
  BY <1>1, <1>3, <1>6, LoadedIs
<1>8. /\ prof'[q].options = prof[p].options /\ prof'[q].layout = prof[p].layout
      /\ prof'[q].snippets = prof[p].snippets
  <2>1. config[P] \in Stored
    BY <1>1, <1>3 DEF TypeOK
  <2>2. /\ config[P].options = prof[p].options /\ config[P].layout = prof[p].layout
        /\ config[P].snippets = prof[p].snippets
    BY <1>3, <1>4, <2>1, StaysIs
  <2>3. /\ config[P].options = prof'[q].options /\ config[P].layout = prof'[q].layout
        /\ config[P].snippets = prof'[q].snippets
    BY <1>7, <2>1, StaysIs
  <2>4. QED
    BY <2>2, <2>3
<1>9. QED
  BY <1>3, <1>6, <1>7, <1>8 DEF P

\* The lists of topics that the exit leaves.
LEMMA ExitLoads ==
  ASSUME IInv, exit
  PROVE  \E topics :
           /\ topics \in [DOMAIN topics -> SUBSET Topics] /\ DOMAIN topics \subseteq Paths
           /\ Restarted /\ load(topics)
           /\ \A p \in DOMAIN prof : prof[p].file \in DOMAIN topics
           /\ \A p \in DOMAIN prof : prof[p].file # QuickPath =>
                \E x \in DOMAIN prof : /\ prof[x].file = prof[p].file
                                       /\ topics[prof[p].file] = prof[x].topics
<1> DEFINE files == {prof[p].file : p \in DOMAIN prof}
           Last(q) == {prof[p].topics : p \in {x \in DOMAIN prof : prof[x].file = q}}
                        \cup IF q = QuickPath THEN {{}} ELSE {}
<1>1. TypeOK
  BY DEF IInv
<1>2. Restarted
  BY DEF exit
<1>3. PICK last \in [files -> SUBSET Topics] :
        /\ \A q \in files : last[q] \in Last(q)
        /\ load([q \in DOMAIN cache \cup files |-> IF q \in files THEN last[q] ELSE cache[q]])
  BY DEF exit
<1> DEFINE topics == [q \in DOMAIN cache \cup files |-> IF q \in files THEN last[q] ELSE cache[q]]
<1>4. files \subseteq Paths /\ \A p \in DOMAIN prof : prof[p].file \in files
  BY <1>1 DEF TypeOK, Object
<1>5. topics \in [DOMAIN topics -> SUBSET Topics] /\ DOMAIN topics \subseteq Paths
  BY <1>1, <1>4 DEF TypeOK
<1>6. ASSUME NEW p \in DOMAIN prof
      PROVE  /\ prof[p].file \in DOMAIN topics
             /\ prof[p].file # QuickPath =>
                  \E x \in DOMAIN prof : /\ prof[x].file = prof[p].file
                                         /\ topics[prof[p].file] = prof[x].topics
  <2>1. prof[p].file \in files
    BY <1>4
  <2>2. topics[prof[p].file] = last[prof[p].file] /\ prof[p].file \in DOMAIN topics
    BY <2>1
  <2>3. last[prof[p].file] \in Last(prof[p].file)
    BY <1>3, <2>1
  <2>4. QED
    BY <2>2, <2>3
<1>7. load(topics)
  BY <1>3
<1> HIDE DEF topics
<1>8. QED
  BY <1>2, <1>5, <1>6, <1>7

-------------------------------------------------------------------------------
(* The theorems *)

LEMMA NextInv ==
  ASSUME IInv, [Next]_vars
  PROVE  IInv'
<1>1. CASE \E n \in Names : createFolder(n)
  BY <1>1, createFolderKeeps
<1>2. CASE \E d \in folders \cup {Top} : createProfile(d)
  BY <1>2, createProfileKeeps
<1>3. ASSUME NEW p \in Visible,
             \/ \E o \in Options, l \in Layouts : updateOptions(p, o, l)
             \/ \E n \in Names : rename(p, n)
             \/ \E d \in folders \cup {Top} : move(p, d)
             \/ removeProfile(p) \/ openTab(p)
      PROVE  IInv'
  <2>1. p \in InTree /\ prof[p] \in Object /\ prof[p].where \in folders \cup {Top}
    BY VisibleIs DEF IInv, WhereInv
  <2>2. CASE \E o \in Options, l \in Layouts : updateOptions(p, o, l)
    BY <2>2, updateOptionsKeeps
  <2>3. CASE \E n \in Names : rename(p, n)
    BY <2>1, <2>3, relocateKeeps DEF rename
  <2>4. CASE \E d \in folders \cup {Top} : move(p, d)
    <3>1. prof[p].name \in Names
      BY <2>1, PathIs
    <3>2. QED
      BY <2>4, <3>1, relocateKeeps DEF move
  <2>5. CASE removeProfile(p)
    BY <2>5, removeProfileKeeps
  <2>6. CASE openTab(p)
    BY <2>6, openTabKeeps
  <2>7. QED
    BY <1>3, <2>2, <2>3, <2>4, <2>5, <2>6
<1>4. ASSUME NEW f \in folders, removeFolder(f) \/ \E n \in Names : renameFolder(f, n)
      PROVE  IInv'
  <2>1. f \in Names
    BY DEF IInv, TypeOK
  <2>2. QED
    BY <1>4, <2>1, removeFolderKeeps, renameFolderKeeps
<1>5. CASE onLayoutRemoved
  BY <1>5, onLayoutRemovedKeeps
<1>6. ASSUME NEW p \in tabs,
             closeTab(p) \/ \E t \in Topics : append(p, t) \/ createMessage(p, t)
      PROVE  IInv'
  BY <1>6, closeTabKeeps, appendKeeps, createMessageKeeps
<1>7. CASE exit
  BY <1>7, ExitLoads, LoadKeeps
<1>8. CASE kill
  <2>1. cache \in [DOMAIN cache -> SUBSET Topics] /\ DOMAIN cache \subseteq Paths
    BY DEF IInv, TypeOK
  <2>2. QED
    BY <1>8, <2>1, LoadKeeps DEF kill
<1>9. CASE UNCHANGED vars
  <2>1. UNCHANGED <<folders, prof, removed, tabs, layouts, config, cache, alive, steps, strays, spoiled>>
    BY <1>9 DEF vars
  <2>2. Visible' = Visible /\ InTree' = InTree
    BY <2>1 DEF Visible, InTree
  <2>3. TypeOK'
    BY <2>1 DEF IInv, TypeOK
  <2>4. CleanInv' /\ DistinctInv' /\ LostInv' /\ WhereInv' /\ FatalInv'
    BY <2>1, <2>2 DEF IInv, CleanInv, DistinctInv, LostInv, WhereInv, FatalInv, QuickPath
  <2>5. QED
    BY <2>3, <2>4 DEF IInv
<1>10. QED
  BY <1>1, <1>2, <1>3, <1>4, <1>5, <1>6, <1>7, <1>8, <1>9 DEF Next

\* The invariant holds of every run.
THEOREM InvHolds == Spec => []IInv
<1>1. QED
  BY InitInv, NextInv, PTL DEF Spec

\* The state is of its types, and the program ends only once there are strays or
\* a removed profile is still used by a tab.
THEOREM OnlyStraysAreFatalHolds == Spec => []OnlyStraysAreFatal
<1>1. IInv => OnlyStraysAreFatal
  BY DEF IInv, FatalInv, OnlyStraysAreFatal
<1>2. QED
  BY <1>1, InvHolds, PTL

\* The next start finds every profile where it was, with its options, its layout
\* and its snippets, but strays and what is in the directory of Quick Connect.
THEOREM RestartKeepsProfilesHolds == Spec => RestartKeepsProfiles
<1> DEFINE Found == \A p \in Settled : \E q \in DOMAIN prof' :
              /\ Path(prof'[q]) = Path(prof[p])
              /\ prof'[q].options = prof[p].options /\ prof'[q].layout = prof[p].layout
              /\ prof'[q].snippets = prof[p].snippets
<1>1. IInv /\ exit => Found
  BY ExitLoads, LoadFinds
<1>2. IInv /\ kill => Found
  <2> SUFFICES ASSUME IInv, kill PROVE Found
    OBVIOUS
  <2>1. cache \in [DOMAIN cache -> SUBSET Topics] /\ DOMAIN cache \subseteq Paths
    BY DEF IInv, TypeOK
  <2>2. QED
    BY <2>1, LoadFinds DEF kill
<1>3. IInv /\ [Next]_vars => [exit \/ kill => Found]_vars
  BY <1>1, <1>2
<1>4. QED
  BY <1>3, InvHolds, PTL DEF Spec, RestartKeepsProfiles

\* After a regular exit it knows the topics of each of them, too, where no removed
\* profile that a tab holds, and no stray, writes to the same file.
THEOREM ExitKeepsTopicsHolds == Spec => ExitKeepsTopics
<1> DEFINE Alone(p) == \A x \in removed \cup (strays \cap DOMAIN prof) : prof[x].file # prof[p].file
           Known == \A p \in Settled : Alone(p) =>
                      \E q \in DOMAIN prof' :
                        Path(prof'[q]) = Path(prof[p]) /\ prof[p].topics \subseteq prof'[q].topics
<1>1. IInv /\ exit => Known
  <2> SUFFICES ASSUME IInv, exit, NEW p \in Settled, Alone(p)
               PROVE  \E q \in DOMAIN prof' : /\ Path(prof'[q]) = Path(prof[p])
                                              /\ prof[p].topics \subseteq prof'[q].topics
    OBVIOUS
  <2>1. TypeOK /\ CleanInv /\ DistinctInv /\ LostInv
    BY DEF IInv
  <2>2. p \in Visible /\ p \notin strays /\ Path(prof[p]) # QuickPath
    BY DEF Settled, QuickPath
  <2>3. p \in DOMAIN prof /\ prof[p].file = Path(prof[p])
    BY <2>1, <2>2, VisibleIs DEF CleanInv
  <2>4. PICK topics :
          /\ topics \in [DOMAIN topics -> SUBSET Topics] /\ DOMAIN topics \subseteq Paths
          /\ load(topics)
          /\ \A r \in DOMAIN prof : prof[r].file \in DOMAIN topics
          /\ \A r \in DOMAIN prof : prof[r].file # QuickPath =>
               \E x \in DOMAIN prof : /\ prof[x].file = prof[r].file
                                      /\ topics[prof[r].file] = prof[x].topics
    BY ExitLoads
  <2>5. PICK x \in DOMAIN prof : /\ prof[x].file = prof[p].file
                                 /\ topics[prof[p].file] = prof[x].topics
    BY <2>2, <2>3, <2>4
  <2>6. x \notin removed /\ x \notin strays
    BY <2>5
  <2>7. x \in Visible
    BY <2>1, <2>5, <2>6 DEF LostInv, InTree, Visible
  <2>8. Path(prof[x]) = Path(prof[p])
    BY <2>1, <2>3, <2>5, <2>6, <2>7 DEF CleanInv
  <2>9. x = p
    BY <2>1, <2>2, <2>7, <2>8 DEF DistinctInv
  <2>10. PICK q \in DOMAIN prof' :
           /\ Path(prof'[q]) = Path(prof[p])
           /\ prof[p].file \in DOMAIN topics => topics[prof[p].file] \subseteq prof'[q].topics
    BY <2>4, LoadFinds
  <2>11. QED
    BY <2>3, <2>4, <2>5, <2>9, <2>10
<1>2. IInv /\ [Next]_vars => [exit => Known]_vars
  BY <1>1
<1>3. QED
  BY <1>2, InvHolds, PTL DEF Spec, ExitKeepsTopics

===============================================================================
