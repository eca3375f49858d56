------------------------------- MODULE Layouts -------------------------------
(***************************************************************************)
(* The layouts of panes (Models::Layouts), the notifiers that queue every  *)
(* change of them to whoever shows them, and the combo box of each client  *)
(* tab (Widgets::Layouts).  Ids count up and are never used again; a       *)
(* reference to a layout is its id.  Nothing catches std::out_of_range, so *)
(* asking for an id that is gone ends the program.                         *)
(***************************************************************************)
EXTENDS Naturals, Sequences, FiniteSets

CONSTANTS
  Defaults,    \* names of the built-in layouts, the first is getDefault()
  NewNames,    \* "New Layout", "New Layout - 1", ...: what getUniqueName tries
  Texts,       \* what a user may type as a name
  Tabs,        \* client tabs
  Others,      \* whoever else listens: the settings tab, the profiles
  Deaf,        \* those of them that do not listen to additions
  Blank,       \* an empty combo box
  MaxId,       \* bound: layouts made in the life of the program
  MaxQueue     \* bound: changes nobody has been told of yet

Listeners == Tabs \cup Others
Builtin == 1..Len(Defaults)
NewNamesSet == {NewNames[k] : k \in 1..Len(NewNames)}
DefaultNames == {Defaults[k] : k \in Builtin}
AllNames == DefaultNames \cup NewNamesSet \cup Texts

ASSUME LayoutsAssumption ==
  /\ Defaults \in Seq(AllNames) /\ Len(Defaults) > 0
  /\ \A i, j \in Builtin : Defaults[i] = Defaults[j] => i = j
  /\ NewNames \in Seq(AllNames) /\ NewNamesSet \cap DefaultNames = {}
  /\ \A i, j \in 1..Len(NewNames) : NewNames[i] = NewNames[j] => i = j
  /\ Blank \notin AllNames
  /\ MaxId \in Nat /\ MaxQueue \in Nat
  /\ MaxId <= Len(Defaults) + Len(NewNames) \* getUniqueName tries without end
  /\ IsFiniteSet(Texts)
  /\ Deaf \subseteq Others /\ Others \cap Tabs = {}

VARIABLES
  name,       \* id -> name, for the layouts in mLayouts
  path,       \* id -> the name in its file path; Blank for the built-in ones
  next,       \* mAvailableId
  files,      \* the names of the files in the layouts directory
  queue,      \* the events queued to each listener by its notifier
  current,    \* mCurrentSelection of each tab, 0 if the tab is not open
  shown,      \* the text of mLayoutsLocked
  offered,    \* the names the combo boxes offer
  edit,       \* mLayoutsEdit: hidden, focused, or hidden with its focus event due
  missed,     \* history: tabs whose user picked an entry that was gone
  alive,
  orphaned    \* history: a layout was removed while a tab or an event meant it

model   == <<name, path, next, files>>
widgets == <<current, shown, offered, edit, missed>>
vars    == <<model, queue, widgets, alive, orphaned>>

Ids == DOMAIN name
Taken == {name[i] : i \in Ids}
Open == {t \in Tabs : current[t] # 0}
EventTypes == {"added", "removed", "changed"}
Events == [type : EventTypes, item : Nat]

TypeOK ==
  /\ name \in [Ids -> AllNames] /\ Ids \subseteq 1..(next - 1)
  /\ path \in [Ids -> AllNames \cup {Blank}]
  /\ next \in 1..(MaxId + 1) /\ files \subseteq AllNames
  /\ queue \in [Listeners -> Seq(Events)]
  /\ current \in [Tabs -> Nat] /\ shown \in [Tabs -> AllNames \cup {Blank}]
  /\ offered \in [Tabs -> SUBSET AllNames]
  /\ edit \in [Tabs -> {"hidden", "focused", "leaving"}]
  /\ missed \subseteq Tabs /\ alive \in BOOLEAN /\ orphaned \in BOOLEAN

-------------------------------------------------------------------------------
(* The model *)

Least(S) == CHOOSE i \in S : \A j \in S : i <= j
\* findItemByName: the first layout of that name, in the order of the ids.
Found(n) == Least({i \in Ids : name[i] = n})

\* isDeletable; the settings ask it before a rename and before a removal.
isDeletable(i) == i > Len(Defaults)

\* Mutant: the names tried are not compared with those in use.
FirstName == NewNames[1]
getUniqueName ==
  NewNames[Least({k \in 1..Len(NewNames) : NewNames[k] \notin Taken})]

\* ItemAdded, ItemDeleted and ItemChanged reach every notifier; the events of
\* a tab that was closed are dropped, and only what was added or changed is
\* named in the event.
Notified(type, i) ==
  [l \in Listeners |->
    IF l \in Tabs \ Open \/ (l \in Deaf /\ type = "added") THEN queue[l]
    ELSE Append(queue[l], [type |-> type, item |-> IF type = "removed" THEN 0 ELSE i])]
MayNotify == \A l \in Listeners : Len(queue[l]) < MaxQueue

\* std::out_of_range leaves a handler.
Crash == alive' = FALSE /\ UNCHANGED <<model, queue, widgets, orphaned>>

\* Mutant: the path stays that of the old name.
SetValueForgetsPath(i, v) ==
  /\ i \in Ids /\ v \notin Taken /\ path[i] \in files
  /\ name' = [name EXCEPT ![i] = v] /\ path' = path
  /\ files' = (files \ {path[i]}) \cup {v}
  /\ queue' = Notified("changed", i) /\ UNCHANGED next
\* A rename that is carried out.
SetValue(i, v) ==
  /\ i \in Ids /\ v \notin Taken /\ path[i] \in files
  /\ name' = [name EXCEPT ![i] = v] /\ path' = [path EXCEPT ![i] = v]
  /\ files' = (files \ {path[i]}) \cup {v}
  /\ queue' = Notified("changed", i) /\ UNCHANGED next

\* The file cannot be written (`saved` is FALSE): create does not mind.
create(saved) ==
  LET n == getUniqueName
      WithNext(f) == [i \in Ids \cup {next} |-> IF i = next THEN n ELSE f[i]]
  IN /\ name' = WithNext(name) /\ path' = WithNext(path)
     /\ next' = next + 1
     /\ files' = IF saved THEN files \cup {n} ELSE files
     /\ queue' = Notified("added", next)

Meant(i) == {t \in Open : current[t] = i} # {}
             \/ \E l \in Listeners : \E k \in 1..Len(queue[l]) : queue[l][k].item = i

remove(i, used) ==
  /\ name' = [j \in Ids \ {i} |-> name[j]] /\ path' = [j \in Ids \ {i} |-> path[j]]
  /\ files' = files \ {path[i]}
  /\ queue' = Notified("removed", i) /\ orphaned' = (orphaned \/ used \/ Meant(i))
  /\ UNCHANGED next

\* The constructor puts in the built-in layouts, load adds the files found.
Init ==
  \E saved \in SUBSET (AllNames \ DefaultNames) :
    \E order \in [1..Cardinality(saved) -> saved] :
      LET n == Len(Defaults) + Cardinality(saved) IN
      /\ \A a \in saved : \E k \in DOMAIN order : order[k] = a
      /\ n <= MaxId
      /\ name = [i \in 1..n |-> IF i \in Builtin THEN Defaults[i] ELSE order[i - Len(Defaults)]]
      /\ path = [i \in 1..n |-> IF i \in Builtin THEN Blank ELSE name[i]]
      /\ next = n + 1 /\ files = saved
      /\ queue = [l \in Listeners |-> <<>>]
      /\ current = [t \in Tabs |-> 0] /\ shown = [t \in Tabs |-> Blank]
      /\ offered = [t \in Tabs |-> {}] /\ edit = [t \in Tabs |-> "hidden"]
      /\ missed = {} /\ alive = TRUE /\ orphaned = FALSE

-------------------------------------------------------------------------------
(* The combo box of a tab *)

Show(t, n) == shown' = [shown EXCEPT ![t] = n]
\* resize hides the edit box, which loses the focus by that.
Hide(t) == edit' = [edit EXCEPT ![t] = IF @ = "focused" THEN "leaving" ELSE @]
\* A read-only combo box drops a value that is not among its offered.
IfListed(n) == IF n \in Taken THEN n ELSE Blank

Refill(t) == offered' = [offered EXCEPT ![t] = Taken]

\* Mutant: a name that is not there selects nothing.
OpenWithoutDefault(t, n) ==
  /\ t \notin Open
  /\ current' = [current EXCEPT ![t] = IF n \in Taken THEN Found(n) ELSE next]
  /\ Show(t, IF n \in Taken THEN n ELSE name[1])
  /\ Refill(t) /\ UNCHANGED <<model, queue, edit, missed, alive, orphaned>>
\* A tab opens with the layout its profile names, or with the default.
OpenTab(t, n) ==
  /\ t \notin Open
  /\ current' = [current EXCEPT ![t] = IF n \in Taken THEN Found(n) ELSE 1]
  /\ Show(t, IF n \in Taken THEN n ELSE name[1])
  /\ Refill(t) /\ UNCHANGED <<model, queue, edit, missed, alive, orphaned>>

CloseTab(t) ==
  /\ t \in Open
  /\ current' = [current EXCEPT ![t] = 0] /\ Show(t, Blank) /\ offered' = [offered EXCEPT ![t] = {}]
  /\ edit' = [edit EXCEPT ![t] = "hidden"] /\ queue' = [queue EXCEPT ![t] = <<>>]
  /\ missed' = missed \ {t} /\ UNCHANGED <<model, alive, orphaned>>

onLayoutSaveClicked(t) ==
  /\ t \in Open /\ MayNotify /\ next <= MaxId
  /\ \E saved \in BOOLEAN : create(saved)
  /\ current' = [current EXCEPT ![t] = next]
  /\ UNCHANGED <<shown, offered, edit, missed, alive, orphaned>>

\* A rename that is refused leaves the box as it is.
onLayoutEditEnter(t, v) ==
  /\ edit[t] = "focused" /\ MayNotify
  /\ IF current[t] \notin Ids THEN Crash
     ELSE /\ \/ SetValue(current[t], v)
             \/ v = name[current[t]] /\ UNCHANGED <<model, queue>>
          /\ Show(t, v) /\ Hide(t) /\ UNCHANGED <<current, offered, missed, alive, orphaned>>

onLayoutEditLostFocus(t) ==
  /\ edit[t] # "hidden"
  /\ IF current[t] \notin Ids THEN Crash
     ELSE /\ Show(t, name[current[t]]) /\ edit' = [edit EXCEPT ![t] = "hidden"]
          /\ UNCHANGED <<model, queue, current, offered, missed, alive, orphaned>>

\* The user picks an entry, which may be older than the model; a name that is
\* gone changes nothing but the text.
onLayoutLockedSelected(t, n) ==
  /\ t \in Open /\ edit[t] = "hidden"
  /\ n \in offered[t]
  /\ current' = IF n \in Taken THEN [current EXCEPT ![t] = Found(n)] ELSE current
  /\ Show(t, n) /\ missed' = IF n \in Taken THEN missed ELSE missed \cup {t}
  /\ UNCHANGED <<model, queue, offered, edit, alive, orphaned>>
onLayoutEditSelected(t, n) ==
  /\ edit[t] = "focused" /\ n \in offered[t]
  /\ current' = IF n \in Taken THEN [current EXCEPT ![t] = Found(n)] ELSE current
  /\ UNCHANGED <<model, queue, shown, offered, edit, missed, alive, orphaned>>

\* The event at the head of a listener's queue, which this step handles.
Handles(l, type) == queue[l] # <<>> /\ Head(queue[l]).type = type
                    /\ queue' = [queue EXCEPT ![l] = Tail(@)]

onLayoutAdded(t) ==
  /\ t \in Open /\ Handles(t, "added")
  /\ LET i == Head(queue[t]).item IN
     IF i \notin Ids THEN alive' = FALSE /\ UNCHANGED widgets
     ELSE /\ IF i = current[t]
             THEN Show(t, name[i]) /\ edit' = [edit EXCEPT ![t] = "focused"]
             ELSE Show(t, IfListed(shown[t])) /\ Hide(t)
          /\ Refill(t) /\ UNCHANGED <<current, missed, alive>>
  /\ UNCHANGED <<model, orphaned>>

onLayoutRemoved(t) ==
  /\ t \in Open /\ Handles(t, "removed")
  /\ Show(t, IfListed(shown[t])) /\ Hide(t) /\ Refill(t)
  /\ UNCHANGED <<model, current, missed, alive, orphaned>>

\* Mutant: the box keeps its text, as it does after a removal.
onLayoutChangedKeepsText(t) ==
  /\ t \in Open /\ Handles(t, "changed")
  /\ IF current[t] \notin Ids THEN alive' = FALSE /\ UNCHANGED widgets
     ELSE Show(t, IfListed(shown[t])) /\ Hide(t) /\ Refill(t) /\ UNCHANGED <<current, missed, alive>>
  /\ UNCHANGED <<model, orphaned>>
onLayoutChanged(t) ==
  /\ t \in Open /\ Handles(t, "changed")
  /\ IF current[t] \notin Ids THEN alive' = FALSE /\ UNCHANGED widgets
     ELSE Show(t, name[current[t]]) /\ Hide(t) /\ Refill(t) /\ UNCHANGED <<current, missed, alive>>
  /\ UNCHANGED <<model, orphaned>>

\* The list of the settings tab; it offers neither for the built-in layouts.
onLayoutsDelete(i, used) ==
  /\ isDeletable(i) /\ MayNotify /\ remove(i, used)
  /\ UNCHANGED <<widgets, alive>>
onLayoutsRename(i, v) ==
  /\ isDeletable(i) /\ MayNotify /\ SetValue(i, v)
  /\ UNCHANGED <<widgets, alive, orphaned>>

TabStep ==
  \E t \in Tabs :
    \/ CloseTab(t) \/ onLayoutSaveClicked(t) \/ onLayoutEditLostFocus(t)
    \/ \E n \in AllNames : \/ onLayoutEditEnter(t, n)
                           \/ onLayoutLockedSelected(t, n)
                           \/ onLayoutEditSelected(t, n)
    \/ onLayoutAdded(t) \/ onLayoutRemoved(t) \/ onLayoutChanged(t)

ListStep ==
  \E i \in Ids : onLayoutsDelete(i, FALSE) \/ \E v \in Texts : onLayoutsRename(i, v)

Next == alive /\ (TabStep \/ ListStep \/ \E t \in Tabs, n \in AllNames : OpenTab(t, n))
Spec == Init /\ [][Next]_vars

-------------------------------------------------------------------------------
(* Properties *)

\* A layout is found by its name: no two layouts share one, whatever is
\* created, renamed and removed while widgets are behind.
NamesAreUnique ==
  TypeOK /\ \A i, j \in Ids : name[i] = name[j] => i = j

\* The directory is what the next start will load: nothing in it but the files
\* of the layouts on the list, each under its present name.
FilesAreLayouts ==
  /\ \A n \in files : \E i \in Ids : isDeletable(i) /\ name[i] = n /\ path[i] = n
  /\ \A i \in Ids : isDeletable(i) => path[i] = name[i]

\* A tab that has heard of every change shows the name of the layout that its
\* next rename is about, or nothing, after a refill that found its text gone from
\* the list; never the name of another layout.  Not said of a layout that was
\* removed, nor of a tab that was asked for a name that was gone.
TabShowsItsLayout ==
  \A t \in Open : queue[t] = <<>> /\ edit[t] = "hidden" /\ current[t] \in Ids /\ t \notin missed =>
    shown[t] \in {name[current[t]], Blank}

\* The program ends only when a layout was removed that a tab had selected or
\* that an event on its way named.
OnlyOrphansAreFatal == alive \/ orphaned

===============================================================================
