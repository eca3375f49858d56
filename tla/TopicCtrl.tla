------------------------------ MODULE TopicCtrl ------------------------------
(***************************************************************************)
(* The fields for a topic (Widgets::TopicCtrl) that complete it from one   *)
(* set of known topics (Models::KnownTopics): the publish editors, or the  *)
(* subscribe fields, of all tabs of a profile.  The set has one filter,    *)
(* and what it offers are the topics that contain it, in order.            *)
(*                                                                         *)
(* popupHide destroys the list and keeps the pointer to it: what an arrow  *)
(* key then does is undefined, told here as the end of the program.        *)
(***************************************************************************)
EXTENDS Naturals, Sequences, FiniteSets, Order

CONSTANTS
  Sorted,    \* the topics there may be, in the order of std::set
  Within,    \* text -> the topics that contain it
  Fields,    \* the fields that share the set
  Nobody

AllTopics == {Sorted[i] : i \in 1..Len(Sorted)}
Unused == {"", "#"}            \* what append does not keep
Texts == AllTopics \cup Unused

ASSUME TopicCtrlAssumption ==
  /\ Sorted \in Seq(AllTopics) /\ AllTopics \cap Unused = {} /\ Nobody \notin Fields
  /\ Within \in [Texts -> SUBSET AllTopics] /\ Within[""] = AllTopics
  /\ \A t \in AllTopics : t \in Within[t]

VARIABLES
  subscribing, \* the fields are those to subscribe, emptied as they are used
  known,     \* mTopics
  filter,    \* mFilter
  offered,   \* mRemap
  filledBy,  \* history: the field whose text is the filter
  text,      \* of each field
  popup,     \* of each field: none so far, open, or gone
  row,       \* the row selected in the open popup
  focus,     \* the field that has the focus
  returning, \* fields with a TOPICCTRL_RETURN, or EDIT_PUBLISH, queued
  running

model    == <<known, filter, offered, filledBy>>
fields   == <<text, popup, row, focus, returning>>
ctrlVars == <<model, fields, subscribing, running>>

CtrlTypeOK ==
  /\ subscribing \in BOOLEAN /\ known \subseteq AllTopics
  /\ filter \in Texts /\ offered \in Seq(known)
  /\ filledBy \in Fields \cup {Nobody} /\ focus \in Fields \cup {Nobody}
  /\ text \in [Fields -> Texts] /\ popup \in [Fields -> {"none", "open", "gone"}]
  /\ row \in 0..Len(Sorted) /\ returning \subseteq Fields /\ running \in BOOLEAN

-------------------------------------------------------------------------------
(* Models::KnownTopics *)

\* The topics that contain the text, in the order of the set.
remapTopics(topics, fragment) ==
  Picked(Sorted, {i \in 1..Len(Sorted) : Sorted[i] \in topics \cap Within[fragment]})

\* Mutant: the rows are not computed again.
appendUnmapped(t) ==
  /\ known' = known \cup ({t} \ Unused)
  /\ offered' = offered
append(t) ==
  /\ known' = known \cup ({t} \ Unused)
  /\ IF known' = known THEN UNCHANGED offered ELSE offered' \in remapTopics(known', filter)

-------------------------------------------------------------------------------
(* A new tab: the topics of the file, which are offered, and those of the  *)
(* stored messages, which were merged in after that and are not.           *)
CtrlInit ==
  /\ \E file, messages \in SUBSET AllTopics :
       known = file \cup messages /\ offered \in remapTopics(file, "")
  /\ subscribing \in BOOLEAN /\ filter = "" /\ filledBy = Nobody
  /\ text = [f \in Fields |-> ""] /\ popup = [f \in Fields |-> "none"] /\ row = 0
  /\ focus = Nobody /\ returning = {} /\ running = TRUE

Closed(f) == [g \in Fields |-> IF g = f /\ popup[g] = "open" THEN "gone" ELSE popup[g]]
popupHide(f) == popup' = Closed(f) /\ row' = 0

\* A list that is open already is made anew; without topics nothing is shown.
popupShow(f) ==
  offered # <<>> /\ popup' = [Closed(focus) EXCEPT ![f] = "open"] /\ row' = 1

\* SetValue, or a key, and popupRefresh: the open popup goes on at its top, or
\* closes for want of rows.
Fill(f, t) ==
  /\ text' = [text EXCEPT ![f] = t] /\ filter' = t /\ filledBy' = f
  /\ offered' \in remapTopics(known, t) /\ UNCHANGED known
\* Mutant: a popup that has no rows left stays open.
FilledAndKept(f, t) ==
  /\ Fill(f, t)
  /\ popup' = popup
  /\ row' = IF popup[f] = "open" /\ offered' # <<>> THEN 1 ELSE row
Filled(f, t) ==
  /\ Fill(f, t)
  /\ popup' = IF offered' = <<>> THEN Closed(f) ELSE popup
  /\ row' = IF popup[f] # "open" THEN row ELSE IF offered' = <<>> THEN 0 ELSE 1

-------------------------------------------------------------------------------
(* The user and the focused field *)

\* A click shows the popup, the Tab key does not; the field left hides its own.
Enter(f) ==
  /\ running /\ focus # f /\ focus' = f
  /\ popupShow(f) \/ popupHide(focus)
  /\ UNCHANGED <<model, text, returning, running>>
onLostFocus ==
  /\ running /\ focus # Nobody /\ focus' = Nobody
  /\ popupHide(focus)
  /\ UNCHANGED <<model, text, returning, running>>

\* Another click, or Ctrl-Space.
Show ==
  /\ running /\ focus # Nobody /\ popupShow(focus)
  /\ UNCHANGED <<model, text, focus, returning, running>>
onEscape ==
  /\ running /\ focus # Nobody /\ popupHide(focus)
  /\ UNCHANGED <<model, text, focus, returning, running>>

Type(t) ==
  /\ running /\ focus # Nobody /\ Filled(focus, t)
  /\ UNCHANGED <<focus, returning, running>>

autoCompleteUp ==
  /\ running /\ focus # Nobody
  /\ \/ popup[focus] = "open" /\ row > 1 /\ row' = row - 1 /\ UNCHANGED running
     \/ popup[focus] = "gone" /\ running' = FALSE /\ UNCHANGED row
  /\ UNCHANGED <<model, text, popup, focus, returning>>
autoCompleteDown ==
  /\ running /\ focus # Nobody
  /\ \/ /\ popup[focus] = "open" /\ row # Len(offered)
        /\ row' = row + 1 /\ UNCHANGED running
     \/ popup[focus] = "gone" /\ running' = FALSE /\ UNCHANGED row
  /\ UNCHANGED <<model, text, popup, focus, returning>>

\* Tab, or a click on the row.
autoCompleteSelect ==
  /\ running /\ focus # Nobody /\ popup[focus] = "open"
  /\ Fill(focus, offered[row]) /\ popupHide(focus)
  /\ UNCHANGED <<focus, returning, running>>

\* Return is used at once by a field to subscribe, which is emptied first; for an
\* editor an event is queued.
SubscribeTo(f) ==
  /\ text' = [text EXCEPT ![f] = ""] /\ filter' = "" /\ filledBy' = f
  /\ known' = known \cup ({text[f]} \ Unused) /\ offered' \in remapTopics(known', "")
onReturn ==
  /\ running /\ focus # Nobody /\ popupHide(focus)
  /\ IF subscribing THEN SubscribeTo(focus) /\ UNCHANGED returning
     ELSE /\ returning' = returning \cup {f \in {focus} : text[f] # ""}
          /\ UNCHANGED <<model, text>>
  /\ UNCHANGED <<focus, running>>

\* onTopicCtrlReturn and onPublishClicked: the editor publishes to the topic it
\* holds by now.
onPublishClicked(f) ==
  /\ running /\ f \in returning /\ returning' = returning \ {f}
  /\ append(text[f]) /\ UNCHANGED <<filter, filledBy, text, popup, row, focus, running>>

\* A button to subscribe was clicked.
onSubscribeClicked(f) ==
  /\ running /\ subscribing /\ focus = Nobody /\ SubscribeTo(f)
  /\ UNCHANGED <<popup, row, focus, returning, running>>

\* setTopic of an editor that is shown a message, or the topic of a subscription
\* that is selected: the focus is in some table.
SetTopic(f, t) ==
  /\ running /\ focus = Nobody /\ t \in AllTopics \cup {""} /\ Filled(f, t)
  /\ UNCHANGED <<focus, returning, running>>

-------------------------------------------------------------------------------
FieldStep ==
  \/ \E f \in Fields : Enter(f)
  \/ onLostFocus \/ Show \/ onEscape
  \/ \E t \in Texts : Type(t)
  \/ autoCompleteUp \/ autoCompleteDown \/ autoCompleteSelect \/ onReturn

TabStep ==
  \E f \in Fields :
    onPublishClicked(f) \/ onSubscribeClicked(f) \/ \E t \in Texts : SetTopic(f, t)

CtrlNext == (FieldStep \/ TabStep) /\ UNCHANGED subscribing

CtrlSpec == CtrlInit /\ [][CtrlNext]_ctrlVars

-------------------------------------------------------------------------------
(* Safety *)

\* What is offered is, in order, what is known and contains the text of the
\* field that was last filled, however the fields take turns and topics are
\* added; until a field is filled, the topics of the messages are missing.
OffersAreOfTheText ==
  CtrlTypeOK /\
  (filledBy # Nobody =>
    filter = text[filledBy] /\ offered \in remapTopics(known, text[filledBy]))

\* An open popup belongs to the field with the focus and has a selected row,
\* which the rows offered do have: KnownTopics::getTopic is not asked for others.
PopupHasItsRow ==
  \A f \in Fields : popup[f] = "open" => focus = f /\ row \in 1..Len(offered)
===============================================================================
