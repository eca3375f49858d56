------------------------------- MODULE Window -------------------------------
(***************************************************************************)
(* The window (App): a notebook with the settings page in front, homepages *)
(* and client pages after it and the page with the plus sign at the end,   *)
(* and the homepages (Tabs::Homepage) with their list of profiles.         *)
(*                                                                         *)
(* The notebook is wxAuiNotebook: setting a selection and removing a page  *)
(* report the page that comes up (PAGE_CHANGING), ChangeSelection does     *)
(* not; RemovePage does not destroy the page.  The buttons of a homepage   *)
(* queue a request, which the window handles with whatever is selected by  *)
(* then.  Indices count from 0 as in the code: page k is pages[k + 1].     *)
(***************************************************************************)
EXTENDS Naturals, Sequences, SequencesExt, Order

CONSTANTS
  Profiles, Folder, \* what the tree of profiles may hold
  Quick,        \* the Quick Connect profile, which is not in the tree
  None,         \* no selection
  MaxPages,     \* bound: pages in the notebook
  MaxMade,      \* bound: pages made
  MaxQueue      \* bound: requests nobody has handled yet
Items == Profiles \cup {Folder}
ASSUME WindowAssumption ==
  /\ {Quick, None} \cap Items = {} /\ Quick # None /\ Folder \notin Profiles
  /\ MaxPages \in Nat /\ MaxMade \in Nat \ {0, 1} /\ MaxQueue \in Nat

VARIABLES
  pages, selected,
  mCount,
  items,     \* the tree of profiles
  requests,  \* events queued by pages to themselves, which the window binds
  made,      \* pages made so far; the ids of pages
  hidden,    \* client pages out of the notebook, with the connection going on
  fatal,     \* the request the program ended over
  hasty,     \* history: the user acted while a request was waiting
  skipped    \* history: a homepage came up without being told
book == <<pages, selected, mCount, made>>
vars == <<book, items, requests, hidden, fatal, hasty, skipped>>

Kinds == {"settings", "home", "client", "recording", "plus"}
Pages == [kind : Kinds, id : Nat,
          item : Items \cup {None},  \* the selection, or the profile of a client
          enabled : BOOLEAN,         \* the buttons of a homepage
          seen : SUBSET Items]       \* what its list shows
Requests == [type : {"connect", "create", "edit", "recording"},
             item : Items \cup {Quick, None}, from : Nat]

TypeOK ==
  /\ pages \in Seq(Pages) /\ selected \in 0..(Len(pages) - 1)
  /\ items \subseteq Items /\ requests \in Seq(Requests)
  /\ made \in 0..MaxMade /\ hidden \subseteq 1..MaxMade
  /\ \A i, j \in 1..Len(pages) : pages[i].id = pages[j].id => i = j
  /\ fatal \in Items \cup {Quick, None} /\ {hasty, skipped} \subseteq BOOLEAN

Page(kind, id) == [kind |-> kind, id |-> id, item |-> None, enabled |-> FALSE, seen |-> {}]
KindAt(ps, k) == ps[k + 1].kind
Plus == mCount - 1

-------------------------------------------------------------------------------
(* The notebook *)

\* Mutant: the list is read when the page is made, and never again.
FocusOnce(ps, k) ==
  IF KindAt(ps, k) # "home" \/ ps[k + 1].seen # {} THEN ps
  ELSE [ps EXCEPT ![k + 1].seen = items,
                  ![k + 1].item = IF items = {} THEN None ELSE CHOOSE i \in items : TRUE,
                  ![k + 1].enabled = @ \/ items # {}]
\* Homepage::focus: the list is read again and its first entry selected; the
\* buttons of an empty list stay as they are.
Focus(ps, k) ==
  IF KindAt(ps, k) # "home" THEN ps
  ELSE [ps EXCEPT ![k + 1].seen = items,
                  ![k + 1].item = IF items = {} THEN None ELSE CHOOSE i \in items : TRUE,
                  ![k + 1].enabled = @ \/ items # {}]
InsertPage(ps, k, page) == InsertAt(ps, k + 1, page)
\* RemovePage and DeletePage: what follows the selected page comes up, and is told.
RemovePage(ps, k, sel) ==
  LET rest == RemoveAt(ps, k + 1)
      up == IF sel > k THEN sel - 1 ELSE sel
  IN  Focus(rest, up)
After(k, sel) == IF sel > k THEN sel - 1 ELSE sel

MayMake == made < MaxMade /\ Len(pages) < MaxPages
Made(ps, sel, count, n) == pages' = ps /\ selected' = sel /\ mCount' = count /\ made' = n
\* Mutant: mCount is not counted up.
createUncounted(ps, k, count) ==
  Made(Focus(InsertPage(ps, k, Page("home", made + 1)), k), k, count, made + 1)
\* createHomepageTab: a page of its own, told twice that it has come up.
createHomepageTab(ps, k, count) ==
  Made(Focus(InsertPage(ps, k, Page("home", made + 1)), k), k, count + 1, made + 1)

\* ChangeSelection tells nobody.
Skips(ps, k, sel) == skipped' = (skipped \/ (k # sel /\ KindAt(ps, k) = "home"))

-------------------------------------------------------------------------------
(* The user and the pages *)

alive == fatal = None
User == alive /\ hasty' = (hasty \/ requests # <<>>)

\* A click on a page; the last one makes a homepage and stays unselected.
onPageSelected(k) ==
  /\ User /\ k # selected
  /\ IF k = Plus THEN MayMake /\ createHomepageTab(pages, Plus, mCount)
     ELSE Made(Focus(pages, k), k, mCount, made)
  /\ UNCHANGED <<items, requests, hidden, fatal, skipped>>

onKeyDownControlT ==
  /\ User /\ MayMake /\ createHomepageTab(pages, Plus, mCount)
  /\ UNCHANGED <<items, requests, hidden, fatal, skipped>>

\* The events queued to a page are deleted with it.
Forgotten(id) ==
  requests' \in Picked(requests, {j \in 1..Len(requests) : requests[j].from # id})

\* The close button or a middle click; the page is destroyed, with its requests.
\* The handler counts it out, makes a homepage if none of the others is left and
\* selects the page before the last one; then the notebook deletes it.
onPageClosing(k) ==
  /\ User /\ k \in 1..(Plus - 1)
  /\ IF mCount - 1 = 2
     THEN /\ made < MaxMade
          /\ LET both == Focus(InsertPage(pages, 1, Page("home", made + 1)), 1)
             IN  Made(RemovePage(both, 2, 1), 1, mCount, made + 1)
     ELSE LET sel == IF k = mCount - 2 THEN mCount - 3 ELSE selected
          IN  Made(RemovePage(pages, k, sel), After(k, sel), mCount - 1, made)
  /\ Forgotten(pages[k + 1].id)
  /\ UNCHANGED <<items, hidden, fatal, skipped>>

Hide(page) == hidden' = IF page.kind = "client" THEN hidden \cup {page.id} ELSE hidden

\* Ctrl-W removes the selected page and leaves it be.
onKeyDownControlW ==
  LET rest == RemovePage(pages, selected, selected) IN
  /\ User /\ selected \notin {0, Plus}
  /\ IF mCount - 1 = 2
     THEN made < MaxMade /\ createHomepageTab(rest, 1, 2) /\ UNCHANGED skipped
     ELSE LET sel == IF selected = mCount - 2 THEN mCount - 3 ELSE selected
          IN  Made(rest, sel, mCount - 1, made) /\ Skips(rest, sel, selected)
  /\ Hide(pages[selected + 1])
  /\ UNCHANGED <<items, requests, fatal>>

Request(type, item) ==
  /\ Len(requests) < MaxQueue
  /\ requests' = Append(requests, [type |-> type, item |-> item, from |-> pages[selected + 1].id])
  /\ UNCHANGED <<book, items, hidden, fatal, skipped>>
Home == KindAt(pages, selected) = "home"

\* onProfileSelected
Select(i) ==
  /\ User /\ Home /\ i \in pages[selected + 1].seen \cup {None} /\ i # pages[selected + 1].item
  /\ pages' = [pages EXCEPT ![selected + 1].item = i, ![selected + 1].enabled = (i # None)]
  /\ UNCHANGED <<selected, mCount, made, items, requests, hidden, fatal, skipped>>
\* onProfileConnect, onProfileActivated, onProfileEdit.
Ask ==
  /\ User /\ Home /\ pages[selected + 1].enabled
  /\ \E type \in {"connect", "edit"} : Request(type, pages[selected + 1].item)
onProfileCreate == User /\ Home /\ Request("create", None)
onRecordingOpen == User /\ Home /\ Request("recording", None)
onQuickConnect == User /\ Home /\ Request("connect", Quick)

\* The settings: the tree changes, and its selected profile is connected.
Settings ==
  /\ User /\ KindAt(pages, selected) = "settings"
  /\ \/ \E i \in Profiles : items' = (items \cup {i}) \ (items \cap {i})
                         /\ UNCHANGED <<book, requests, hidden, fatal, skipped>>
     \/ \E i \in items \cap Profiles : Request("connect", i)

-------------------------------------------------------------------------------
(* The window handles a request *)

Handle(type) ==
  /\ alive /\ requests # <<>> /\ Head(requests).type = type /\ requests' = Tail(requests)
  /\ UNCHANGED hasty

\* In the place of the page that is selected.
Replace(page) ==
  LET rest == RemovePage(pages, selected, selected) IN
  /\ Made(InsertPage(rest, selected, page), selected, mCount, made + 1)
  /\ Hide(pages[selected + 1])

\* Mutant: a request of the settings page replaces the last page, too.
openInLastPlace ==
  LET i == Head(requests).item
      client == [Page("client", made + 1) EXCEPT !.item = i]
      rest == RemovePage(pages, Plus - 1, selected)
  IN
  /\ Handle("connect") /\ i \in items \cup {None} /\ MayMake
  /\ IF selected # 0 THEN Replace(client)
     ELSE Made(InsertPage(rest, Plus - 1, client), Plus - 1, mCount, made + 1)
          /\ UNCHANGED hidden
  /\ UNCHANGED <<items, fatal, skipped>>
\* openProfile: the name of an item that is not in the tree is out of range.
openProfile ==
  LET i == Head(requests).item
      client == [Page("client", made + 1) EXCEPT !.item = i]
  IN
  /\ Handle("connect")
  /\ IF i \notin items \cup {None} THEN fatal' = i /\ UNCHANGED <<book, hidden>>
     ELSE /\ UNCHANGED fatal /\ MayMake
          /\ IF selected # 0 THEN Replace(client)
             ELSE Made(InsertPage(pages, Plus, client), Plus, mCount + 1, made + 1)
                  /\ UNCHANGED hidden
  /\ UNCHANGED <<items, skipped>>

\* The dialog may be cancelled, and the file be no recording.
openRecording ==
  /\ Handle("recording")
  /\ \/ MayMake /\ Replace(Page("recording", made + 1))
     \/ UNCHANGED <<book, hidden>>
  /\ UNCHANGED <<items, fatal, skipped>>

\* The settings page comes up to edit a profile or to make one.
CreateProfile ==
  /\ Handle("create") /\ Made(pages, 0, mCount, made)
  /\ items' \in {items \cup {i} : i \in Profiles \ items} \cup (IF Profiles \subseteq items THEN {items} ELSE {})
  /\ Skips(pages, 0, selected) /\ UNCHANGED <<hidden, fatal>>
EditProfile ==
  /\ Handle("edit") /\ Made(pages, 0, mCount, made)
  /\ Skips(pages, 0, selected) /\ UNCHANGED <<items, hidden, fatal>>

\* OnInit: the first homepage is made before the last page.
Init ==
  /\ items \in {{}, Items}
  /\ pages = <<Page("settings", 0)>> \o Focus(<<Page("home", 1)>>, 0) \o <<Page("plus", 2)>>
  /\ selected = 1 /\ mCount = 3 /\ made = 2
  /\ requests = <<>> /\ hidden = {} /\ fatal = None /\ hasty = FALSE /\ skipped = FALSE

\* The tabs of the notebook, the keys, the controls of a homepage, the requests.
TabStep == \E k \in 0..Plus : onPageSelected(k) \/ onPageClosing(k)
KeyStep == onKeyDownControlT \/ onKeyDownControlW
HomeStep ==
  \/ \E i \in Items \cup {None} : Select(i)
  \/ Ask \/ onProfileCreate \/ onRecordingOpen \/ onQuickConnect
RequestStep == openProfile \/ openRecording \/ CreateProfile \/ EditProfile

Next == TabStep \/ KeyStep \/ HomeStep \/ Settings \/ RequestStep
Spec == Init /\ [][Next]_vars

-------------------------------------------------------------------------------
(* Properties *)

\* mCount is kept by hand; the places of the settings and of the plus page are
\* computed from it.  The settings page can be lost to a recording, if the user
\* asks for one and is at the settings when the request is handled.  The page with
\* the plus sign never stays selected, and there is always a page to work with.
CountIsRight ==
  /\ TypeOK
  /\ mCount = Len(pages) /\ KindAt(pages, Plus) = "plus"
  /\ KindAt(pages, 0) # "settings" => hasty
  /\ \A k \in 1..(Plus - 1) : KindAt(pages, k) \in {"home", "client", "recording"}
  /\ selected # Plus /\ Len(pages) > 2

\* The program ends over a homepage that lists what is gone, over a request
\* that was overtaken by the user, or over Quick Connect.
OnlyStaleIsFatal == fatal \in {None, Quick} \/ skipped \/ hasty

\* A page opened for a request takes the place of the homepage that asked for
\* it, never that of a client, unless the user was quicker than the window.
Clients == {page.id : page \in {p \in ToSet(pages) : p.kind \in {"client", "recording"}}}
RequestsKeepClients ==
  [][openProfile \/ openRecording => Clients \subseteq Clients' \/ hasty]_vars

\* The tool tip of the button of Quick Connect: "Connect to broker with default
\* settings".  The code does not keep it.
QuickConnectConnects == fatal # Quick

===============================================================================
