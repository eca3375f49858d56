----------------------------- MODULE SettingsForm -----------------------------
(***************************************************************************)
(* The settings tab (Tabs::Settings): its lists of layouts and of profiles *)
(* and the form for the options of the selected profile; with it, what     *)
(* Models::Profiles does about the layouts its profiles name.              *)
(***************************************************************************)
EXTENDS Layouts

CONSTANTS
  SettingsTab, ProfileList, \* the two other listeners
  Options,       \* values of the broker options, the form as a whole
  DefaultOptions, \* those of a new profile
  Folder,        \* a folder of the profile tree
  None,          \* no selection
  MaxProfiles    \* bound: profiles made in the life of the program

ASSUME SettingsAssumption ==
  /\ {SettingsTab, ProfileList} \subseteq Others
  /\ ProfileList \in Deaf /\ SettingsTab \notin Deaf
  /\ DefaultOptions \in Options /\ MaxProfiles \in Nat \ {0}
  /\ {None, Folder} \cap 1..MaxProfiles = {} /\ None # Folder

VARIABLES
  stored,        \* profile -> its broker options and the name of its layout
  selected,      \* the selection of mProfilesCtrl
  visible,       \* mProfileOptions is shown
  grid,          \* mProfileGrid: options, and an index into the layout labels
  buttons,       \* Connect, or Save and Cancel
  enabled,       \* mConnect and mSave are enabled
  \* History; the properties speak of it.
  ref,           \* the layout each profile was given, 0 for an undefined one
  filledFor,     \* whose options the form was last filled with
  unshown,       \* profiles made by the context menu, and not shown since
  hasty          \* the user went on before everybody knew of the last change

form  == <<selected, visible, grid, buttons, enabled, filledFor, unshown>>
allVars == <<vars, stored, form, ref, hasty>>

ProfileIds == DOMAIN stored
Grid == [options : Options \cup {None}, index : Nat, labels : Seq(AllNames)]
\* Everybody but the tabs has been told of every change.
Quiet == queue[SettingsTab] = <<>> /\ queue[ProfileList] = <<>>

FormTypeOK ==
  /\ TypeOK
  /\ stored \in [ProfileIds -> [options : Options, layout : AllNames \cup {Blank}]]
  /\ ProfileIds \subseteq 1..MaxProfiles
  /\ selected \in ProfileIds \cup {None, Folder} /\ visible \in BOOLEAN
  /\ grid \in Grid /\ buttons \in {"connect", "save"} /\ enabled \in BOOLEAN
  /\ ref \in [ProfileIds -> Nat] /\ filledFor \in (1..MaxProfiles) \cup {None, Folder}
  /\ unshown \subseteq ProfileIds
  /\ hasty \in BOOLEAN

-------------------------------------------------------------------------------
(* The layout property of the form: an index into labels of its own *)

\* getLabelArray: in the order of the ids.
getLabelArray ==
  [k \in 1..Cardinality(Ids) |->
    name[CHOOSE i \in Ids : Cardinality({j \in Ids : j <= i}) = k]]

IndexOf(labels, n) ==
  IF \E k \in DOMAIN labels : labels[k] = n
  THEN Least({k \in DOMAIN labels : labels[k] = n}) ELSE 0
Label == IF grid.index \in DOMAIN grid.labels THEN grid.labels[grid.index] ELSE Blank

\* getBrokerOptions and getClientOptions; a folder has those of a new profile.
Fresh == [options |-> DefaultOptions, layout |-> Defaults[1]]
OptionsOf(x) == IF x \in ProfileIds THEN stored[x] ELSE Fresh

\* A layout that is not among the labels leaves the index as it is.
Fill(values, left) ==
  LET k == IndexOf(grid.labels, values.layout) IN
  grid' = [grid EXCEPT !.options = values.options, !.index = IF k = 0 THEN left ELSE k]
propertyGridFill(x, left) ==
  /\ Fill(OptionsOf(x), left)
  /\ enabled' = TRUE /\ filledFor' = x /\ unshown' = unshown \ {x}
\* An index of 0 is a property without a value.
propertyGridClear ==
  /\ grid' = [grid EXCEPT !.options = None, !.index = 0] /\ enabled' = FALSE

FormInit ==
  /\ Init
  /\ \E o \in Options, n \in Taken :
       stored = [p \in {1} |-> [options |-> o, layout |-> n]]
  /\ ref = [p \in {1} |-> Found(stored[1].layout)]
  /\ selected = None /\ visible = FALSE
  /\ grid = [options |-> None, index |-> 0, labels |-> getLabelArray]
  /\ buttons = "connect" /\ enabled = FALSE /\ filledFor = None /\ unshown = {} /\ hasty = FALSE

-------------------------------------------------------------------------------
(* The profile list and its form *)

Hurry == hasty' = (hasty \/ ~Quiet)
UserOfForm == UNCHANGED vars /\ Hurry

\* A profile shows the form, a folder or nothing hides it.
onProfileSelected(x) ==
  /\ x # selected /\ selected' = x
  /\ visible' = (x \in ProfileIds)
  /\ IF x \in ProfileIds THEN propertyGridFill(x, grid.index)
     ELSE UNCHANGED <<grid, enabled, filledFor, unshown>>
  /\ UserOfForm /\ UNCHANGED <<buttons, stored, ref>>

\* Mutant: the form keeps what it showed.
selectWithoutFill(p) ==
  /\ selected' = p /\ visible' = TRUE /\ buttons' = "save"
  /\ UNCHANGED <<grid, enabled, filledFor, unshown>>
\* selectProfile, for the window: wxDataViewCtrl::Select sends no event.
selectProfile(p) ==
  /\ selected' = p /\ visible' = TRUE /\ buttons' = "save"
  /\ propertyGridFill(p, grid.index)
onProfileEdit(p) == selectProfile(p) /\ UserOfForm /\ UNCHANGED <<stored, ref>>

NewProfile ==
  LET p == IF ProfileIds = {} THEN 1 ELSE 1 + CHOOSE i \in ProfileIds : \A j \in ProfileIds : j <= i
  IN /\ p <= MaxProfiles
     /\ stored' = [q \in ProfileIds \cup {p} |-> IF q = p THEN Fresh ELSE stored[q]]
     /\ ref' = [q \in ProfileIds \cup {p} |-> IF q = p THEN 1 ELSE ref[q]]
     /\ selected' = p
\* The button, and the request of a homepage.
createProfile ==
  /\ NewProfile /\ visible' = TRUE /\ buttons' = "save" /\ enabled' = TRUE
  /\ Fill(Fresh, grid.index) /\ filledFor' = selected' /\ UNCHANGED unshown
  /\ UserOfForm
\* The context menu of a folder, or of the empty area below the list: it selects
\* what it made without an event, and the form stays as it was, shown or not.
onProfileNewProfile ==
  /\ NewProfile /\ unshown' = unshown \cup {selected'}
  /\ UserOfForm /\ UNCHANGED <<visible, grid, buttons, enabled, filledFor>>
onProfileNewFolder ==
  /\ selected' = Folder
  /\ UserOfForm /\ UNCHANGED <<visible, grid, buttons, enabled, filledFor, unshown, stored, ref>>

\* A folder goes with whatever is in it.  The list reports an empty selection
\* once the selected row is gone.
onProfileDelete ==
  /\ selected # None
  /\ \E gone \in IF selected = Folder THEN SUBSET ProfileIds ELSE {{selected}} :
       /\ stored' = [p \in ProfileIds \ gone |-> stored[p]]
       /\ ref' = [p \in ProfileIds \ gone |-> ref[p]]
       /\ unshown' = unshown \ gone
  /\ selected' = None /\ visible' = FALSE
  /\ propertyGridClear /\ filledFor' = None
  /\ UserOfForm /\ UNCHANGED buttons

\* Mutant: Connect stays on offer for a form with unsaved changes.
onProfileGridChangedQuietly(o, k) ==
  /\ visible /\ enabled /\ k \in DOMAIN grid.labels
  /\ grid' = [grid EXCEPT !.options = o, !.index = k]
  /\ UserOfForm /\ UNCHANGED <<selected, visible, buttons, enabled, filledFor, unshown, stored, ref>>
onProfileGridChanged(o, k) ==
  /\ visible /\ enabled /\ k \in DOMAIN grid.labels
  /\ grid' = [grid EXCEPT !.options = o, !.index = k] /\ buttons' = "save"
  /\ UserOfForm /\ UNCHANGED <<selected, visible, enabled, filledFor, unshown, stored, ref>>

onButtonClickedCancel ==
  /\ visible /\ buttons = "save"
  /\ IF selected = None
     THEN propertyGridClear /\ UNCHANGED <<buttons, filledFor, unshown>>
     ELSE propertyGridFill(selected, 0) /\ buttons' = "connect"
  /\ UserOfForm /\ UNCHANGED <<selected, visible, stored, ref>>

\* clientOptionsFromPropertyGrid.  No value reads as the first label; an index
\* outside the labels of the model is undefined behaviour, read as the first
\* label, as garbage or not at all.
Readable(k) == k \in 0..Cardinality(Ids)
LabelsAt(k) ==
  IF k \in 1..Cardinality(Ids) THEN {getLabelArray[k]}
  ELSE IF k = 0 THEN {Defaults[1]} ELSE {Defaults[1], Blank}
\* A folder has no options to write.
onButtonClickedSave ==
  /\ visible /\ buttons = "save" /\ enabled /\ selected # None
  /\ \/ \E n \in LabelsAt(grid.index) :
          /\ IF selected \in ProfileIds
             THEN /\ stored' = [stored EXCEPT ![selected] = [options |-> grid.options, layout |-> n]]
                  /\ ref' = [ref EXCEPT ![selected] = IF Readable(grid.index) THEN Found(n) ELSE 0]
             ELSE UNCHANGED <<stored, ref>>
          /\ buttons' = "connect" /\ UNCHANGED alive
     \/ /\ ~Readable(grid.index)
        /\ alive' = FALSE /\ UNCHANGED <<stored, ref, buttons>>
  /\ Hurry
  /\ UNCHANGED <<model, queue, widgets, orphaned, selected, visible, grid, enabled, filledFor, unshown>>

-------------------------------------------------------------------------------
(* The list of layouts *)

UnchangedForm == UNCHANGED <<stored, form, ref>>

DeleteInList(i) ==
  /\ onLayoutsDelete(i, visible /\ Label = name[i])
  /\ ref' = [p \in ProfileIds |-> IF ref[p] = i THEN 1 ELSE ref[p]]
  /\ Hurry /\ UNCHANGED <<stored, form>>
RenameInList(i, v) == onLayoutsRename(i, v) /\ Hurry /\ UnchangedForm
\* A client tab makes a layout.
SaveInTab ==
  /\ MayNotify /\ next <= MaxId /\ create(TRUE)
  /\ Hurry /\ UnchangedForm /\ UNCHANGED <<widgets, alive, orphaned>>

\* A new property with the new labels gets the old label back.  One that is
\* gone, or that the hidden form does not ask for, leaves the first or none.
refreshLayouts ==
  /\ \E type \in {"added", "removed"} : Handles(SettingsTab, type)
  /\ LET k == IndexOf(getLabelArray, Label) IN
     \E index \in IF visible /\ k # 0 THEN {k} ELSE {0, 1} :
       grid' = [grid EXCEPT !.labels = getLabelArray, !.index = index]
  /\ UNCHANGED <<model, widgets, alive, orphaned, stored, ref, hasty,
                 selected, visible, buttons, enabled, filledFor, unshown>>
\* After a rename the old index is put back.
SettingsLayoutChanged ==
  /\ Handles(SettingsTab, "changed")
  /\ grid' = [grid EXCEPT !.labels = getLabelArray]
  /\ UNCHANGED <<model, widgets, alive, orphaned, stored, ref, hasty,
                 selected, visible, buttons, enabled, filledFor, unshown>>

-------------------------------------------------------------------------------
(* The profiles *)

renameLayoutIfMissing(n) ==
  stored' = [p \in ProfileIds |->
              IF stored[p].layout \in Taken THEN stored[p] ELSE [stored[p] EXCEPT !.layout = n]]

ProfilesLayoutRemoved ==
  /\ Handles(ProfileList, "removed") /\ renameLayoutIfMissing(Defaults[1])
  /\ UNCHANGED <<model, widgets, alive, orphaned, form, ref, hasty>>
\* Mutant: profiles of a renamed layout go back to the default.
ProfilesLayoutChangedToDefault ==
  /\ Handles(ProfileList, "changed") /\ renameLayoutIfMissing(Defaults[1])
  /\ UNCHANGED <<model, widgets, alive, orphaned, form, ref, hasty>>
ProfilesLayoutChanged ==
  /\ Handles(ProfileList, "changed")
  /\ LET i == Head(queue[ProfileList]).item IN
     IF i \in Ids THEN renameLayoutIfMissing(name[i]) /\ UNCHANGED alive
     ELSE alive' = FALSE /\ UNCHANGED stored
  /\ UNCHANGED <<model, widgets, orphaned, form, ref, hasty>>

-------------------------------------------------------------------------------
FormStep ==
  \/ \E x \in ProfileIds \cup {None, Folder} : onProfileSelected(x)
  \/ \E p \in ProfileIds : onProfileEdit(p)
  \/ createProfile \/ onProfileNewProfile \/ onProfileNewFolder \/ onProfileDelete
  \/ \E o \in Options : \E k \in DOMAIN grid.labels : onProfileGridChanged(o, k)
  \/ onButtonClickedCancel \/ onButtonClickedSave

LayoutStep ==
  \/ \E i \in Ids : DeleteInList(i) \/ \E v \in Texts : RenameInList(i, v)
  \/ SaveInTab
  \/ refreshLayouts \/ SettingsLayoutChanged
  \/ ProfilesLayoutRemoved \/ ProfilesLayoutChanged

FormNext == alive /\ (FormStep \/ LayoutStep)
FormSpec == FormInit /\ [][FormNext]_allVars

-------------------------------------------------------------------------------
(* Properties *)

\* Save writes the form to the selected profile: a form on screen is one that
\* was filled with the options of that profile, whatever selected it; the one
\* exception is a profile made by the context menu, which selects it unheard.
FormIsOfSelection ==
  FormTypeOK /\ (visible /\ selected \in ProfileIds \ unshown => filledFor = selected)

\* With the same exception, Connect is offered only for a form whose broker
\* options are the stored ones, so the connection is made with what the screen
\* says.  For a user who waits this holds of the layout as well, and the form
\* says nothing of it at most where it is the default.
ConnectUsesWhatIsShown ==
  visible /\ enabled /\ buttons = "connect" /\ selected \in ProfileIds \ unshown =>
    /\ grid.options = stored[selected].options
    /\ Quiet /\ ~hasty => \/ Label = stored[selected].layout
                          \/ Label = Blank /\ stored[selected].layout = Defaults[1]

\* A profile keeps the layout it was given through every rename of it, and
\* falls back to the default when it is removed; no Save of a user who waits
\* reads a label that is not there.
ProfileKeepsItsLayout ==
  Quiet /\ ~hasty =>
    \A p \in ProfileIds : ref[p] \in Ids /\ stored[p].layout = name[ref[p]]

===============================================================================
