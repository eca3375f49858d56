--------------------------------- MODULE FsTree ---------------------------------
(***************************************************************************)
(* GUI::Models::FsTree as the stored messages of a profile use it: a tree  *)
(* of folders and leafs in memory, and the directory it is kept in.        *)
(*                                                                         *)
(* A leaf is a file and a folder a directory, each under the encoded name  *)
(* of its node; every directory has an .index.json with the names of the   *)
(* children in order.  A path is computed from the encoded names of a node *)
(* and its ancestors whenever the disk is touched, so memory and disk      *)
(* agree only as long as every operation changes both.                     *)
(*                                                                         *)
(* The file system is external: rename replaces a file by a file and       *)
(* nothing else; exceptions of std::filesystem are not caught and end the  *)
(* program (~alive), which the user may start again.                       *)
(***************************************************************************)
EXTENDS Naturals, Sequences, FiniteSets, SequencesExt

CONSTANTS
  Names,        \* names of nodes; encoding them is one to one
  Stem,         \* a name without its last extension, which load() drops from
                \* files; ".index", which stands for no name, if load() skips
                \* the entry
  NewFolder, NewLeaf, \* the names given to new nodes, in the order tried
  MaxIds,       \* bound: nodes created between two starts
  MaxSteps,     \* bound: operations and starts
  MaxFaults     \* bound: failures of rename, and of opening a file to write

Ids == 1..MaxIds
Root == 0

ASSUME FsTreeAssumption ==
  /\ Stem \in [Names -> Names \cup {".index"}] /\ ".index" \notin Names
  /\ NewFolder \in Seq(Names) /\ NewLeaf \in Seq(Names)
  /\ \A n \in ToSet(NewFolder) \cup ToSet(NewLeaf) : Stem[n] # ".index"
  /\ MaxIds \in Nat /\ MaxSteps \in Nat
  /\ MaxFaults \in Nat

VARIABLES
  nodes, leafs,             \* the keys of mNodes; those of type Payload
  parent, name, encoded, children,  \* of the node with that id
  unsaved,                  \* nodes with saved = false
  mNextAvailableId,
  alive,
  files,                    \* paths of files
  index,                    \* for each directory the names in its index file
  faults, steps,            \* not in the code: failures and operations so far
  strays                    \* not in the code: nodes that lost their own path,
                            \* by a failed rename or to a sibling's, and nodes
                            \* loaded without a place in the index

memory == <<nodes, leafs, parent, name, encoded, children, mNextAvailableId>>
disk == <<files, index>>
vars == <<memory, unsaved, alive, disk, faults, steps, strays>>

TypeOK ==
  /\ nodes \subseteq 0..(mNextAvailableId - 1) /\ Root \in nodes
  /\ leafs \subseteq nodes \ {Root} /\ unsaved \subseteq nodes
  /\ parent \in [Ids -> 0..MaxIds]
  /\ name \in [Ids -> Names \cup {"none"}]
  /\ encoded \in [Ids -> Names \cup {"none"}]
  /\ children \in [0..MaxIds -> Seq(Ids)]
  /\ mNextAvailableId \in 1..(MaxIds + 1)
  /\ alive \in BOOLEAN
  /\ files \subseteq Seq(Names)
  /\ DOMAIN index \subseteq Seq(Names) /\ <<>> \in DOMAIN index
  /\ \A p \in DOMAIN index : index[p] \in Seq(Names)
  /\ files \cap DOMAIN index = {}
  /\ faults \in 0..MaxFaults /\ steps \in 0..MaxSteps /\ strays \subseteq Ids

-------------------------------------------------------------------------------
(* Helpers *)

\* getNodePath: the encoded names from the root down.
Paths(par, enc) ==
  LET path[i \in 0..MaxIds] ==
        IF i = Root THEN <<>> ELSE Append(path[par[i]], enc[i])
  IN  path
getNodePath(id) == Paths(parent, encoded)[id]

\* A node and all above it.
ChainIn(par, id) ==
  LET chain[i \in 0..MaxIds] == IF i = Root THEN {Root} ELSE {i} \cup chain[par[i]]
  IN  chain[id]
Chain(id) == ChainIn(parent, id)

\* What the user sees.  The descendants of a removed folder stay in mNodes.
Shown == {i \in nodes : Chain(i) \subseteq nodes}
Folders == Shown \ leafs

NamesIn(folder) == {name[i] : i \in ToSet(children[folder])}

\* hasChildNamed, asked of one generated name after the other.
Unique(generated, folder, n) ==
  \E k \in 1..Len(generated) :
    /\ n = generated[k] /\ n \notin NamesIn(folder)
    /\ \A j \in 1..(k - 1) : generated[j] \in NamesIn(folder)

\* Nodes that lose their path when those in S do, or when siblings share one.
Straying(S, ns, par, enc) ==
  LET sharing == {i \in ns \ {Root} :
                    \E j \in ns \ {Root, i} : par[i] = par[j] /\ enc[i] = enc[j]}
  IN  {i \in ns : ChainIn(par, i) \cap (S \cup sharing) # {}}

\* The directory tree after fs::rename(from, to).
Moved(from, to, p) ==
  IF IsPrefix(from, p) THEN to \o SubSeq(p, Len(from) + 1, Len(p)) ELSE p
MovedFiles(from, to) == {Moved(from, to, p) : p \in files}
MovedIndex(from, to) ==
  [q \in {Moved(from, to, p) : p \in DOMAIN index} |->
     index[CHOOSE p \in DOMAIN index : Moved(from, to, p) = q]]

Exists(p) == p \in files \cup DOMAIN index

Fault == faults < MaxFaults /\ faults' = faults + 1

\* fs::rename(from, to) has no error; a directory does not move into itself.
Renames(from, to) ==
  /\ Exists(from) /\ ~IsPrefix(from, Front(to)) /\ Front(to) \in DOMAIN index
  /\ Exists(to) => from = to \/ {from, to} \subseteq files

\* What the index file of a folder then has.
indexFileWrite(f) == [k \in 1..Len(children'[f]) |-> encoded'[children'[f][k]]]

\* FsTree::save of the nodes just marked, over the tree in memory as the action
\* has changed it and the disk as it has left it: an unsaved node saves its
\* parent first, a folder its children last.  A directory whose parent is not
\* there cannot be created, which throws; a file in the place of a directory is
\* removed, but the directory is created by the next save only, which an unsaved
\* child of it asks for.  A folder whose index file is not written stays unsaved,
\* and then it and an unsaved child call each other: until a later attempt
\* succeeds, or the stack ends.
Saves(todo, path, marked, files0, index0) ==
  \E saving \in SUBSET todo :
    LET Closed(S) ==
          marked \subseteq S /\ \A i \in todo, j \in S :
            (j # Root /\ i = parent'[j]) \/ (i # Root /\ j = parent'[i]) => i \in S
        leafsIn == saving \cap leafs'
        folders == saving \ leafs'
        calledBack == {i \in folders : \E j \in saving \ {Root} : parent'[j] = i}
        blocked == {i \in folders \ calledBack : path[i] \in files0}
        made == {path[i] : i \in folders \ blocked}
        directories == DOMAIN index0 \cup made
        freed == files0 \ {path[i] : i \in folders}
        throws == \E p \in made : p \notin DOMAIN index0 /\ Front(p) \notin directories
    IN
    /\ Closed(saving) /\ \A S \in SUBSET saving : Closed(S) => S = saving
    /\ \/ /\ IF throws THEN UNCHANGED faults ELSE calledBack # {} /\ Fault
          /\ alive' = FALSE
          /\ files' = freed /\ index' = index0
          /\ unsaved' = todo
       \/ /\ ~throws
          /\ \E failed \in SUBSET (saving \ calledBack) :
               LET stillUnsaved == failed \cup blocked \cup
                     {i \in leafsIn : Front(path[i]) \notin directories \/
                                      path[i] \in directories}
                   Written(p) == {i \in folders \ stillUnsaved : path[i] = p}
               IN  /\ IF failed = {} THEN UNCHANGED faults ELSE Fault
                   /\ files' = freed \cup {path[i] : i \in leafsIn \ stillUnsaved}
                   /\ index' = [p \in directories |->
                        IF Written(p) # {}
                        THEN indexFileWrite(CHOOSE i \in Written(p) : TRUE)
                        ELSE IF p \in DOMAIN index0 THEN index0[p] ELSE <<>>]
                   /\ unsaved' = todo \ (saving \ stillUnsaved)
          /\ UNCHANGED alive
save(marked, files0, index0) ==
  \E todo \in {(unsaved \cup marked) \cap nodes'}, path \in {Paths(parent', encoded')} :
    Saves(todo, path, marked, files0, index0)

-------------------------------------------------------------------------------
(* An empty directory has been loaded. *)

Init ==
  /\ nodes = {Root} /\ leafs = {} /\ unsaved = {} /\ strays = {} /\ faults = 0 /\ steps = 0
  /\ parent = [i \in Ids |-> Root]
  /\ name = [i \in Ids |-> "none"] /\ encoded = name
  /\ children = [i \in 0..MaxIds |-> <<>>]
  /\ mNextAvailableId = 1 /\ alive = TRUE
  /\ files = {} /\ index = [p \in {<<>>} |-> <<>>]

-------------------------------------------------------------------------------
(* The operations of the menus, of drag and drop and of the name editor.  All *)
(* are about nodes in view.                                                   *)

getNextId == mNextAvailableId' = mNextAvailableId + 1

\* A new node at the end of a folder.
Add(folder, n, isLeaf) ==
  LET id == mNextAvailableId IN
  /\ id \in Ids /\ getNextId
  /\ nodes' = nodes \cup {id}
  /\ leafs' = IF isLeaf THEN leafs \cup {id} ELSE leafs
  /\ parent' = [parent EXCEPT ![id] = folder]
  /\ name' = [name EXCEPT ![id] = n]
  /\ encoded' = [encoded EXCEPT ![id] = n]
  /\ children' = [children EXCEPT ![folder] = Append(@, id)]
  /\ strays' = strays \cup Straying({}, nodes', parent', encoded')

\* Mutant: as leafInsert does, for a folder that is saved already.
InsertIntoSaved(folder, n, isLeaf) ==
  Add(folder, n, isLeaf) /\ save({mNextAvailableId}, files, index)

\* The new node and its folder are saved.
insert(folder, n, isLeaf) ==
  Add(folder, n, isLeaf) /\ save({folder, mNextAvailableId}, files, index)

createFolder(folder) ==
  /\ alive /\ folder \in Folders
  /\ \E n \in Names : Unique(NewFolder, folder, n) /\ insert(folder, n, FALSE)

\* Messages::createMessage: the name is unique in the root, whatever the folder.
createMessage(folder) ==
  /\ alive /\ folder \in Folders
  /\ \E n \in Names : Unique(NewLeaf, Root, n) /\ insert(folder, n, TRUE)

\* SetValue: a name that a sibling has is refused.
SetValue(id, n) ==
  alive /\ id \in Shown \ {Root} /\ n \notin NamesIn(parent[id])

rename(id, n) ==
  LET from == getNodePath(id)
      to == Append(Front(from), n)
  IN
  /\ SetValue(id, n)
  /\ Renames(from, to)
  /\ name' = [name EXCEPT ![id] = n]
  /\ encoded' = [encoded EXCEPT ![id] = n]
  /\ strays' = strays \cup Straying({}, nodes, parent, encoded')
  /\ UNCHANGED <<nodes, leafs, parent, children, mNextAvailableId>>
  /\ save({id, parent[id]}, MovedFiles(from, to), MovedIndex(from, to))

\* The encoded name is not put back.
renameFails(id, n) ==
  LET from == getNodePath(id) IN
  /\ SetValue(id, n)
  /\ IF Renames(from, Append(Front(from), n)) THEN Fault ELSE UNCHANGED faults
  /\ encoded' = [encoded EXCEPT ![id] = n]
  /\ strays' = strays \cup Straying({id}, nodes, parent, encoded')
  /\ UNCHANGED <<nodes, leafs, parent, name, children, mNextAvailableId, unsaved, alive, disk>>

\* Mutant: std::remove without erase leaves the last child where it was.
UnlistedNotErased(id) ==
  [children EXCEPT ![parent[id]] = Append(RemoveFirst(@, id), Last(@))]

\* The children of every folder without that node.
Unlisted(id) == [children EXCEPT ![parent[id]] = RemoveFirst(@, id)]

\* The directory is removed with all that is in it; the index file above is not
\* written.  (When this fails nothing else is done.)
remove(id) ==
  LET gone == getNodePath(id) IN
  /\ alive /\ id \in Shown \ {Root}
  /\ files' = {p \in files : ~IsPrefix(gone, p)}
  /\ index' = [p \in {q \in DOMAIN index : ~IsPrefix(gone, q)} |-> index[p]]
  /\ nodes' = nodes \ {id} /\ leafs' = leafs \ {id} /\ unsaved' = unsaved \ {id}
  /\ children' = [Unlisted(id) EXCEPT ![id] = <<>>]
  /\ parent' = [parent EXCEPT ![id] = Root]
  /\ name' = [name EXCEPT ![id] = "none"]
  /\ encoded' = [encoded EXCEPT ![id] = "none"]
  /\ UNCHANGED <<mNextAvailableId, alive, faults, strays>>

\* moveCheck
Movable(id, folder, at) ==
  /\ id \in Shown \ {Root} /\ folder \in Folders
  /\ id \notin Chain(folder)
  /\ at < Len(children[folder]) => children[folder][at + 1] # id

\* moveUnderSameParent: before the child at that place, or at the end.
moveUnderSameParent(id, folder, at) ==
  LET others == RemoveFirst(children[folder], id)
      behind == \E k \in 1..at : children[folder][k] = id
  IN
  /\ alive /\ Movable(id, folder, at) /\ parent[id] = folder
  /\ children' = [children EXCEPT
                    ![folder] = InsertAt(others, IF behind THEN at ELSE at + 1, id)]
  /\ UNCHANGED <<nodes, leafs, parent, name, encoded, mNextAvailableId, strays>>
  /\ save({id, folder}, files, index)

\* moveFile, which does nothing if the target exists, and moveUnderNewParent.
moveUnderNewParent(id, folder, at) ==
  LET from == getNodePath(id)
      to == Append(getNodePath(folder), encoded[id])
  IN
  /\ alive /\ Movable(id, folder, at) /\ parent[id] # folder
  /\ ~Exists(to) /\ Renames(from, to)
  /\ children' = [Unlisted(id) EXCEPT ![folder] = InsertAt(@, at + 1, id)]
  /\ parent' = [parent EXCEPT ![id] = folder]
  /\ strays' = strays \cup Straying({}, nodes, parent', encoded)
  /\ UNCHANGED <<nodes, leafs, name, encoded, mNextAvailableId>>
  /\ save({parent[id], id, folder}, MovedFiles(from, to), MovedIndex(from, to))

moveInsideAtIndex(id, folder, at) ==
  moveUnderSameParent(id, folder, at) \/ moveUnderNewParent(id, folder, at)

\* The place of a node among its siblings, from 0.
Place(id) == (CHOOSE k \in 1..Len(children[parent[id]]) : children[parent[id]][k] = id) - 1
moveBefore(id, sibling) == moveInsideAtIndex(id, parent[sibling], Place(sibling))
moveAfter(id, sibling) == moveInsideAtIndex(id, parent[sibling], Place(sibling) + 1)

\* Where a node is dropped: on a folder or on a message, if that was reported
\* as possible before; otherwise above a node, or below all of them.
onMessagesDrop(id) ==
  \/ \E folder \in Folders : moveInsideAtIndex(id, folder, 0)
  \/ \E leaf \in Shown \cap leafs : moveAfter(id, leaf)
  \/ \E sibling \in Shown \ {Root} : moveBefore(id, sibling)
  \/ moveInsideAtIndex(id, Root, Len(children[Root]))

\* The content of the leaf, which the model leaves out, is written.
leafReplace(id) ==
  /\ alive /\ id \in Shown \cap leafs
  /\ UNCHANGED <<memory, strays>>
  /\ save({id}, files, index)

-------------------------------------------------------------------------------
(* load: the program is started on the directory as it is. *)

\* Mutant: a directory that is empty is not listed.
EntriesInUse ==
  {p \in files \cup (DOMAIN index \ {<<>>}) :
     /\ \A k \in 1..Len(p) : Stem[p[k]] # ".index"
     /\ p \in files \/ index[p] # <<>>}

\* Entries that load() does not skip.
Entries ==
  {p \in files \cup (DOMAIN index \ {<<>>}) : \A k \in 1..Len(p) : Stem[p[k]] # ".index"}

\* loadLeaf: a file loses its extension.
Real(p) == IF p \in files THEN Stem[Last(p)] ELSE Last(p)

\* Where an index file puts a name; names it does not have come last.
Rank(order, n) ==
  IF n \in ToSet(order) THEN CHOOSE k \in 1..Len(order) : order[k] = n /\
                                     \A j \in 1..(k - 1) : order[j] # n
  ELSE Len(order) + 1

\* The order in which the file system lists the entries, which gives nodes their
\* ids and places names without a rank: some order, parents first.
Listed ==
  LET n == Cardinality(Entries) IN
  CHOOSE entry \in [1..n -> Entries] :
    \A i \in 1..n :
      /\ \A j \in 1..(i - 1) : entry[j] # entry[i]
      /\ Len(entry[i]) > 1 => \E j \in 1..(i - 1) : entry[j] = Front(entry[i])

load ==
  LET n == Cardinality(Entries)
      entry == Listed
      directory == [i \in 0..n |-> IF i = Root THEN <<>> ELSE entry[i]]
      up(i) == CHOOSE f \in 0..n : directory[f] = Front(entry[i])
      rank == [i \in 1..n |-> Rank(index[Front(entry[i])], Real(entry[i]))]
      before(i, j) == rank[i] < rank[j] \/ (rank[i] = rank[j] /\ i < j)
      under(f) == {i \in 1..n : parent'[i] = f}
  IN
  /\ n <= MaxIds
  /\ mNextAvailableId' = n + 1
  /\ unsaved' = {} /\ alive' = TRUE
  /\ UNCHANGED <<files, faults>>
  /\ nodes' = 0..n /\ leafs' = {i \in 1..n : entry[i] \in files}
  /\ parent' = [i \in Ids |-> IF i <= n THEN up(i) ELSE Root]
  /\ name' = [i \in Ids |-> IF i <= n THEN Real(entry[i]) ELSE "none"]
  /\ encoded' = name'
  /\ children' = [f \in 0..MaxIds |->
       CHOOSE list \in [1..Cardinality(under(f)) -> under(f)] :
         \A j, k \in DOMAIN list : j < k => before(list[j], list[k])]
  /\ index' = [p \in DOMAIN index |->
       IF index[p] = <<>> /\ \E f \in 0..n : directory[f] = p
       THEN LET f == CHOOSE f \in 0..n : directory[f] = p IN
              [k \in 1..Len(children'[f]) |-> name'[children'[f][k]]]
       ELSE index[p]]
  /\ strays' = Straying(
       {i \in 1..n : Real(entry[i]) # Last(entry[i]) \/
                      Real(entry[i]) \notin ToSet(index'[Front(entry[i])])},
       nodes', parent', encoded')

-------------------------------------------------------------------------------
Next ==
  /\ steps < MaxSteps /\ steps' = steps + 1
  /\ \/ \E f \in 0..MaxIds : createFolder(f) \/ createMessage(f)
     \/ \E id \in Ids :
          \/ remove(id) \/ leafReplace(id)
          \/ \E n \in Names : rename(id, n) \/ renameFails(id, n)
          \/ onMessagesDrop(id)
     \/ load

Spec == Init /\ [][Next]_vars

-------------------------------------------------------------------------------
(* Safety *)

\* Parents and children agree: each node in view is listed once, by its parent.
TreeIsConsistent ==
  TypeOK /\
  \A f \in Shown :
    /\ f \in leafs => children[f] = <<>>
    /\ ToSet(children[f]) = {i \in Shown \ {Root} : parent[i] = f}
    /\ \A j, k \in 1..Len(children[f]) : children[f][j] = children[f][k] => j = k

\* Nodes in view that are where their path says, as far as the file system let them.
Sound == Shown \ strays

\* Whatever is saved is on disk under its path, and a folder with the order of
\* its children, however creations, renames, moves and removals mix.
SavedIsOnDisk ==
  alive => \A i \in Sound \ unsaved :
    IF i \in leafs THEN getNodePath(i) \in files
    ELSE /\ getNodePath(i) \in DOMAIN index
         /\ \A j, k \in 1..Len(children[i]) :
              LET order == index[getNodePath(i)]
                  first == children[i][j]
                  second == children[i][k]
              IN  j < k /\ {first, second} \subseteq Sound =>
                    Rank(order, encoded[first]) < Rank(order, encoded[second])

\* What the user would call the tree.
Tree ==
  [nodes |-> {<<getNodePath(i), i \in leafs>> : i \in Shown},
   order |-> {<<getNodePath(f), [k \in 1..Len(children[f]) |-> encoded[children[f][k]]]>> :
                f \in Folders}]

\* As long as no path was lost and every save succeeded, the next start shows
\* the same tree: nothing is missing, nothing removed comes back, all in order.
\* Names with an extension are the exception: see Stem.
RestartKeepsTree ==
  [][(/\ alive /\ strays = {} /\ unsaved = {}
      /\ \A i \in Shown \ {Root} : Stem[encoded[i]] = encoded[i]
      /\ load) => Tree' = Tree]_vars

================================================================================
