------------------------------ MODULE Profiles ------------------------------
(***************************************************************************)
(* The stored profiles (Models::Profiles): their options, their snippets   *)
(* (Models::Messages) and the topics remembered for them (KnownTopics), in *)
(* memory and in the two directories they are kept in; the profile of      *)
(* Quick Connect; and what the next start of the program makes of it.      *)
(*                                                                         *)
(* The tree is that of FsTree with folders one level deep; failures of the *)
(* file system are its subject, not that of this module.  A profile is a   *)
(* directory of the config tree with its options and snippets, its topics  *)
(* are in a file at the same place of the cache tree.                      *)
(***************************************************************************)
EXTENDS Naturals, Sequences, FiniteSets

CONSTANTS
  NewName,      \* "New profile", "New profile - 1", ...
  Names,        \* names of profiles and folders
  QuickConnect, \* the name taken by createQuickConnect
  Options, Default, \* broker options, and those of a new profile
  Topics,       \* topics; a snippet is known by its topic
  Top, Lost,    \* no folder; a folder that was removed
  MaxProfiles,  \* bound: profiles in memory
  MaxSteps      \* bound: operations and starts
ASSUME ProfilesAssumption ==
  /\ NewName \in Seq(Names) /\ QuickConnect \in Names /\ Default \in Options
  /\ Top # Lost /\ {Top, Lost} \cap Names = {}
  /\ MaxProfiles \in Nat /\ MaxSteps \in Nat

Layouts == {"Default", "Own"}
Paths == (Names \cup {Top}) \X Names
Stored == [options : Options, layout : Layouts, snippets : SUBSET Topics]

VARIABLES
  folders,   \* names of the folders, the same in memory and on disk
  prof,      \* Profile objects: those of the tree, and those a tab still holds
  removed,   \* the objects no longer in the tree
  tabs,      \* the objects that a client tab uses
  layouts,   \* the names in Models::Layouts
  config,    \* path -> what is stored there
  cache,     \* path -> topics
  alive, steps,
  strays,    \* history: profiles whose folder was renamed or removed, that got
             \* the path of another one, or a snippet of another one
  spoiled    \* history: folders with the options of Quick Connect in them

vars == <<folders, prof, removed, tabs, layouts, config, cache, alive, steps, strays, spoiled>>

Object == [name : Names, where : Names \cup {Top, Lost}, options : Options,
           layout : Layouts, snippets : SUBSET Topics, topics : SUBSET Topics,
           base : Paths,   \* mBaseDir of its messages
           file : Paths]   \* mFilepath of its topics

TypeOK ==
  /\ folders \subseteq Names /\ prof \in [DOMAIN prof -> Object]
  /\ DOMAIN prof \subseteq 1..MaxProfiles
  /\ removed \subseteq tabs /\ tabs \subseteq DOMAIN prof
  /\ layouts \subseteq Layouts
  /\ config \in [DOMAIN config -> Stored] /\ DOMAIN config \subseteq Paths
  /\ cache \in [DOMAIN cache -> SUBSET Topics] /\ DOMAIN cache \subseteq Paths
  /\ alive \in BOOLEAN /\ steps \in 0..MaxSteps
  /\ strays \subseteq 1..MaxProfiles /\ spoiled \subseteq Names

-------------------------------------------------------------------------------
Path(o) == <<o.where, o.name>>
InTree == DOMAIN prof \ removed
Visible == {p \in InTree : prof[p].where # Lost}
ChildrenOf(d) == {prof[p].name : p \in {q \in Visible : prof[q].where = d}}
                   \cup (IF d = Top THEN folders ELSE {})
Set(f, k, v) == [x \in DOMAIN f \cup {k} |-> IF x = k THEN v ELSE f[x]]
Without(f, S) == [x \in DOMAIN f \ S |-> f[x]]
Step == alive /\ steps < MaxSteps /\ steps' = steps + 1
SameFolders == UNCHANGED <<folders, spoiled>>

\* Mutant: the messages are not told of the new directory.
SavedWithoutLoad(o, stored) ==
  [o EXCEPT !.file = Path(o), !.snippets = stored[Path(o)].snippets]
\* leafSave, for a profile object: topics and messages are bound to its path,
\* and the messages are read again.
Saved(o, stored) ==
  [o EXCEPT !.file = Path(o), !.base = Path(o), !.snippets = stored[Path(o)].snippets]
Entry(o, stored) ==
  [options |-> o.options, layout |-> o.layout,
   snippets |-> IF Path(o) \in DOMAIN stored THEN stored[Path(o)].snippets ELSE {}]
\* Profile p becomes o and is saved, over the given config tree.
leafSave(p, o, stored) ==
  /\ config' = Set(stored, Path(o), Entry(o, stored))
  /\ cache' = Set(cache, Path(o), o.topics)
  /\ prof' = Set(prof, p, Saved(o, config'))
  /\ strays' = IF \E q \in Visible \ {p} : Path(prof[q]) = Path(o)
               THEN strays \cup {q \in Visible \cup {p} : q = p \/ Path(prof[q]) = Path(o)}
               ELSE strays
Moved(from, to) ==
  Set(Without(config, {from}), to, config[from])

\* ~KnownTopics: the last reference writes the file once more.
Destroyed(S) ==
  [q \in DOMAIN cache \cup {prof[p].file : p \in S} |->
    IF \E p \in S : prof[p].file = q
    THEN prof[CHOOSE p \in S : prof[p].file = q].topics ELSE cache[q]]

-------------------------------------------------------------------------------
(* The profile menu and the options form *)

createFolder(n) ==
  /\ Step /\ n \notin ChildrenOf(Top) /\ <<Top, n>> \notin DOMAIN config
  /\ folders' = folders \cup {n}
  /\ UNCHANGED <<prof, removed, tabs, layouts, config, cache, alive, strays, spoiled>>

\* createProfile: the name is unique at the top, whatever the folder.
createProfile(d) ==
  /\ Step
  /\ \E k \in 1..Len(NewName), p \in 1..MaxProfiles \ DOMAIN prof :
       LET o == [name |-> NewName[k], where |-> d, options |-> Default, layout |-> "Default",
                 snippets |-> {}, topics |-> {}, base |-> <<d, NewName[k]>>, file |-> <<d, NewName[k]>>]
       IN /\ NewName[k] \notin ChildrenOf(Top)
          /\ \A j \in 1..(k - 1) : NewName[j] \in ChildrenOf(Top)
          /\ \A q \in 1..(p - 1) : q \in DOMAIN prof
          /\ leafSave(p, o, config)
  /\ SameFolders /\ UNCHANGED <<removed, tabs, layouts, alive>>

\* updateBrokerOptions and updateClientOptions, as the form calls them.
updateOptions(p, o, l) ==
  /\ Step /\ p \in Visible /\ l \in layouts
  /\ leafSave(p, [prof[p] EXCEPT !.options = o, !.layout = l], config)
  /\ SameFolders /\ UNCHANGED <<removed, tabs, layouts, alive>>

\* A rename, or a move to another folder, which finds the target free.
relocate(p, d, n) ==
  LET from == Path(prof[p])
      to == <<d, n>>
  IN /\ Step /\ p \in Visible /\ from # to /\ n \notin ChildrenOf(d)
     /\ from \in DOMAIN config /\ to \notin DOMAIN config
     /\ leafSave(p, [prof[p] EXCEPT !.where = d, !.name = n], Moved(from, to))
     /\ SameFolders /\ UNCHANGED <<removed, tabs, layouts, alive>>
rename(p, n) == relocate(p, prof[p].where, n)
move(p, d) == d # prof[p].where /\ relocate(p, d, prof[p].name)

\* The profiles in a renamed folder are not saved again: their messages and
\* their topics stay bound to the old path.
renameFolder(f, n) ==
  LET inside == {p \in Visible : prof[p].where = f}
      New(q) == IF q[1] = f THEN <<n, q[2]>> ELSE IF q = <<Top, f>> THEN <<Top, n>> ELSE q
      Old(q) == IF q[1] = n THEN <<f, q[2]>> ELSE IF q = <<Top, n>> THEN <<Top, f>> ELSE q
      dirs == {New(q) : q \in DOMAIN config}
  IN /\ Step /\ f \in folders /\ n \notin ChildrenOf(Top) /\ <<Top, n>> \notin DOMAIN config
     /\ folders' = (folders \ {f}) \cup {n}
     /\ spoiled' = IF f \in spoiled THEN (spoiled \ {f}) \cup {n} ELSE spoiled
     /\ config' = [q \in dirs |-> config[Old(q)]]
     /\ prof' = [p \in DOMAIN prof |-> IF p \in inside THEN [prof[p] EXCEPT !.where = n] ELSE prof[p]]
     /\ strays' = strays \cup inside
     /\ UNCHANGED <<removed, tabs, layouts, cache, alive>>

removeProfile(p) ==
  /\ Step /\ p \in Visible
  /\ config' = Without(config, {Path(prof[p])})
  /\ strays' = (strays \cup {q \in Visible : Path(prof[q]) = Path(prof[p])}) \ {p}
  /\ IF p \in tabs THEN removed' = removed \cup {p} /\ UNCHANGED <<prof, cache>>
     ELSE prof' = Without(prof, {p}) /\ cache' = Destroyed({p}) /\ UNCHANGED removed
  /\ SameFolders /\ UNCHANGED <<tabs, layouts, alive>>

\* The nodes of the profiles inside stay, without the one their path runs through.
removeFolder(f) ==
  LET inside == {p \in Visible : prof[p].where = f} IN
  /\ Step /\ f \in folders
  /\ folders' = folders \ {f} /\ spoiled' = spoiled \ {f}
  /\ config' = Without(config, {q \in DOMAIN config : q[1] = f \/ q = <<Top, f>>})
  /\ prof' = [p \in DOMAIN prof |-> IF p \in inside THEN [prof[p] EXCEPT !.where = Lost] ELSE prof[p]]
  /\ strays' = strays \cup inside
  /\ UNCHANGED <<removed, tabs, layouts, cache, alive>>

\* renameLayoutIfMissing goes through all nodes; getNodePath throws for one whose
\* folder is gone.
onLayoutRemoved ==
  LET affected == {p \in InTree : prof[p].layout = "Own"}
      Reset(p) == [prof[p] EXCEPT !.layout = "Default"]
      At(q) == CHOOSE p \in affected : Path(prof[p]) = q
      dirs == {Path(prof[p]) : p \in affected}
  IN /\ Step /\ "Own" \in layouts
     /\ layouts' = layouts \ {"Own"}
     /\ IF \E p \in affected : prof[p].where = Lost
        THEN alive' = FALSE /\ UNCHANGED <<prof, config, cache>>
        ELSE /\ config' = [q \in DOMAIN config \cup dirs |->
                             IF q \in dirs THEN Entry(Reset(At(q)), config) ELSE config[q]]
             /\ cache' = [q \in DOMAIN cache \cup dirs |->
                             IF q \in dirs THEN prof[At(q)].topics ELSE cache[q]]
             /\ prof' = [p \in DOMAIN prof |->
                          IF p \in affected THEN Saved(Reset(p), config') ELSE prof[p]]
             /\ UNCHANGED alive
     /\ SameFolders /\ UNCHANGED <<removed, tabs, strays>>

-------------------------------------------------------------------------------
(* Client tabs *)

openTab(p) ==
  /\ Step /\ p \in Visible \ tabs /\ tabs' = tabs \cup {p}
  /\ SameFolders /\ UNCHANGED <<prof, removed, layouts, config, cache, alive, strays>>
closeTab(p) ==
  /\ Step /\ p \in tabs /\ tabs' = tabs \ {p} /\ removed' = removed \ {p}
  /\ IF p \in removed THEN prof' = Without(prof, {p}) /\ cache' = Destroyed({p})
     ELSE UNCHANGED <<prof, cache>>
  /\ SameFolders /\ UNCHANGED <<layouts, config, alive, strays>>

\* KnownTopics::append
append(p, t) ==
  /\ Step /\ p \in tabs /\ t \notin prof[p].topics
  /\ prof' = [prof EXCEPT ![p].topics = @ \cup {t}]
  /\ SameFolders /\ UNCHANGED <<removed, tabs, layouts, config, cache, alive, strays>>

\* Messages::createMessage: the snippets directory is made again if it is not
\* there, which throws if the one of the profile is not there either.
createMessage(p, t) ==
  LET at == prof[p].base IN
  /\ Step /\ p \in tabs /\ t \notin prof[p].snippets
  /\ IF at \in DOMAIN config
     THEN /\ config' = [config EXCEPT ![at].snippets = @ \cup {t}]
          /\ prof' = [prof EXCEPT ![p].snippets = @ \cup {t}] /\ UNCHANGED alive
     ELSE alive' = FALSE /\ UNCHANGED <<config, prof>>
  /\ strays' = strays \cup {q \in Visible \ {p} : Path(prof[q]) = at}
  /\ SameFolders /\ UNCHANGED <<removed, tabs, layouts, cache>>

-------------------------------------------------------------------------------
(* The next start *)

\* Mutant: the Quick Connect profile is put where new profiles go.
QuickPathTaken == <<Top, NewName[1]>>
QuickPath == <<Top, QuickConnect>>

\* Profile::load: the topics of the snippets are known topics.
Loaded(q, topics) ==
  [name |-> q[2], where |-> q[1], options |-> config[q].options, layout |-> config[q].layout,
   snippets |-> config[q].snippets, base |-> q, file |-> q,
   topics |-> config[q].snippets \cup IF q \in DOMAIN topics THEN topics[q] ELSE {}]

\* FsTree::load: a directory with client options is a profile, so what is below
\* it is not looked at, by this start or a later one.  Then createQuickConnect
\* writes default options into the directory of its name, whosever it is, and
\* empty lists of topics.
load(topics) ==
  LET dirs == {q \in DOMAIN config : q[1] = Top \/ <<Top, q[1]>> \notin DOMAIN config}
      n == Cardinality(dirs)
      order == CHOOSE f \in [1..n -> dirs] : \A i, j \in 1..n : f[i] = f[j] => i = j
      quick == [name |-> QuickPath[2], where |-> Top, options |-> Default, layout |-> "Default"]
  IN /\ n <= MaxProfiles
     /\ prof' = [i \in 1..n |-> Loaded(order[i], topics)]
     /\ folders' = {f \in folders : <<Top, f>> \notin DOMAIN config}
     /\ spoiled' = folders' \cap {QuickConnect}
     /\ config' = Set([q \in dirs |-> config[q]], QuickPath, Entry(quick, config))
     /\ cache' = Set([q \in DOMAIN topics \cup dirs |->
                        IF q \in DOMAIN topics THEN topics[q] ELSE {}], QuickPath, {})

Restarted ==
  /\ Step /\ removed' = {} /\ tabs' = {} /\ strays' = {}
  /\ UNCHANGED <<layouts, alive>>
\* Mutant: nobody writes the topics at the exit.
exitUnsaved == Restarted /\ load(cache)
\* At the exit every list of topics is written, that of Quick Connect, which
\* nothing adds to, among them; nobody says in which order.
exit ==
  /\ Restarted
  /\ LET files == {prof[p].file : p \in DOMAIN prof}
         Last(q) == {prof[p].topics : p \in {x \in DOMAIN prof : prof[x].file = q}}
                      \cup IF q = QuickPath THEN {{}} ELSE {}
     IN \E last \in [files -> SUBSET Topics] :
          /\ \A q \in files : last[q] \in Last(q)
          /\ load([q \in DOMAIN cache \cup files |-> IF q \in files THEN last[q] ELSE cache[q]])
kill == Restarted /\ load(cache)

\* The first start.
Init ==
  /\ folders = {} /\ prof = [p \in {} |-> {}] /\ removed = {} /\ tabs = {}
  /\ layouts = Layouts
  /\ config = [q \in {QuickPath} |-> [options |-> Default, layout |-> "Default", snippets |-> {}]]
  /\ cache = [q \in {QuickPath} |-> {}]
  /\ alive = TRUE /\ steps = 0 /\ strays = {} /\ spoiled = {}

Next ==
  \/ \E n \in Names : createFolder(n)
  \/ \E d \in folders \cup {Top} : createProfile(d)
  \/ \E p \in Visible : \/ \E o \in Options, l \in Layouts : updateOptions(p, o, l)
                        \/ \E n \in Names : rename(p, n)
                        \/ \E d \in folders \cup {Top} : move(p, d)
                        \/ removeProfile(p) \/ openTab(p)
  \/ \E f \in folders : removeFolder(f) \/ \E n \in Names : renameFolder(f, n)
  \/ onLayoutRemoved
  \/ \E p \in tabs : closeTab(p) \/ \E t \in Topics : append(p, t) \/ createMessage(p, t)
  \/ exit \/ kill
Spec == Init /\ [][Next]_vars

-------------------------------------------------------------------------------
(* Properties *)

\* Not the profile of Quick Connect, which is made anew, and not in its directory.
Settled ==
  {p \in Visible \ strays :
     Path(prof[p]) # <<Top, QuickConnect>> /\ prof[p].where \notin spoiled}

\* The next start, after an exit or a kill, finds every profile where it was
\* with the options, the layout and the snippets it had.
RestartKeepsProfiles ==
  [][exit \/ kill =>
      \A p \in Settled : \E q \in DOMAIN prof' :
        /\ Path(prof'[q]) = Path(prof[p])
        /\ prof'[q].options = prof[p].options /\ prof'[q].layout = prof[p].layout
        /\ prof'[q].snippets = prof[p].snippets]_vars

\* After a regular exit it knows the topics of each profile, too, unless a removed
\* profile that a tab holds, or a stray, writes to the same file.
ExitKeepsTopics ==
  [][exit =>
      \A p \in Settled :
        (\A x \in removed \cup (strays \cap DOMAIN prof) : prof[x].file # prof[p].file) =>
          \E q \in DOMAIN prof' :
            Path(prof'[q]) = Path(prof[p]) /\ prof[p].topics \subseteq prof'[q].topics]_vars

\* The program ends only once there are strays or a removed profile is still
\* used by a tab: while neither was met since the start, every path and every
\* profile that is asked for is there.
OnlyStraysAreFatal == TypeOK /\ (alive \/ strays # {} \/ removed # {})

===============================================================================
