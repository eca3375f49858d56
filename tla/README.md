# Transmitron in TLA+

Transmitron is a desktop MQTT client (C++, wxWidgets, the Paho MQTT library).
It has no tests. This directory holds TLA+ models of the parts whose
correctness depends on the order of events, TLC runs that check them on small
instances, and TLAPS proofs of their main properties for all instances.

Paths below are relative to the repository; its sources are in `src/`.

## 1. The system

### Components

| component | state | operations | talks to |
|---|---|---|---|
| `MQTT::Client` (`MQTT/Client.cpp`) | `mCanceled`, `mShouldReconnect`, `mRetries`, the Paho client, `mSubscriptions`, `mObservers` | connect, disconnect, cancel, subscribe, unsubscribe, publish; the callbacks of Paho | the tab and the subscriptions through observers |
| `MQTT::Subscription` (`MQTT/Subscription.cpp`) | `mState`, observers | unsubscribe, notifications | one row |
| `GUI::Tabs::Client` (`GUI/Tabs/Client.cpp`) | which of Connect / Disconnect / Cancel is shown, panes | the button handlers, the handlers of queued notifications, menus, drag and drop | every model |
| `Models::Subscriptions`, `Types::Subscription` | rows, their order, mute flag, color | subscribe, unsubscribe, mute, solo, clear, load | `MQTT::Client`, the history |
| `Models::History` | messages, `mRemap`, filter, selected line | arrival, forget, filter, load, paint | the rows it observes |
| `Models::FsTree`, with `Models::Messages` and `Models::Profiles` | a tree of nodes; a directory tree with an index file in each folder | create, rename, move, remove, save, load | the file system |
| `Models::ProfilesWrapper`, `Tabs::Homepage` | Quick Connect beside the profiles | select, connect, open a recording | the window, by queued requests |
| `Models::Layouts`, `Widgets::Layouts`, `Notifiers::Layouts` | named perspectives; a current selection per widget | create, rename, remove, select | profiles, tabs |
| `Models::KnownTopics`, `Widgets::TopicCtrl` | a set of topics and the positions that match | append, filter, load, save | the tab |
| `App` | the notebook and a page count of its own | open and close tabs | the tabs |
| `Tabs::Settings` | a form over the selected profile, its layout labels, its buttons | edit, save and cancel; profiles and layouts made, renamed, removed | both models, the window |
| `Widgets::Edit` | a text, the payload kept for Binary, the format | show, type, pick a format, publish, save | the tab, the stored messages |
| `Common/` | none | url coding, time formatting, JSON extraction, directories | |

### How they interact

Two threads act in a tab. The **GUI thread** runs button handlers and queued
events to completion. The **callback thread** of Paho runs the handlers of
`MQTT::Client`, one at a time, and `MQTT::Client::reconnect` sleeps on it for up
to 2.5 seconds. They share `MQTT::Client` with no lock. The callback thread
reaches the GUI only by events: connection events to the tab
(`Events::Connection`), subscription events to each row, which is an event
handler of its own (`Events::Subscription`). Models tell each other by
observers, which are plain calls within the GUI thread.

### What is hard

* a handler of one thread runs between two reads of the other
  (`Client.cpp:63-75`, `358-394`, `396-413`);
* notifications of an old connection are handled during a new one;
* answers arrive for a subscription that was removed, subscribed anew, or
  reset by a loss in the meantime;
* an exception of Paho is caught and only logged;
* positions cached by one model (`mRemap`, `mSelected`, a current selection, the
  row of a popup, an index into the labels of a form) are used after another has
  changed what they point to;
* a menu is an event loop of its own: messages arrive and rows go while it is
  open, and its commands read the selection afterwards;
* requests of a page and changes of the layouts wait in queues, and the window,
  the model and the user go on meanwhile;
* counts and flags are kept by hand beside what they count (`mCount`, the
  toggles of the panes, `mPayload`);
* the tree in memory and the directories on disk are changed one after the
  other, and either may fail.

`PROJECT.json` lists these hazards line by line, with the properties that
cover each or the reason why none does.

### What makes each part correct

* The tab shows the state of its connection once it has handled what it was
  told; a loss or a cancel comes to an end; retries are bounded.
* A subscription that the user sees is registered, is asked for again after a
  loss, and is held by the broker while it is shown as subscribed.
* The table shows what it should, and commands and previews are about the line
  the user sees.
* What is in memory is on disk, and a restart finds it: messages, profiles,
  layouts, topics.
* Names that identify something are unique, and whoever holds a name or a
  position is told when it changes.
* Whatever a queue delays, the program goes on; where it does not, the reason is
  one of those named in `OnlyOrphansAreFatal`, `OnlyStraysAreFatal`,
  `OnlyStaleIsFatal` and `SurvivesTheRest`.

## 2. Modules

| module | models | code |
|---|---|---|
| `ConnectionContract` | what a session of `MQTT::Client` promises its observer: an abstract specification | |
| `Connection` | the connection of one tab: both threads, the flags, Paho as the code uses it, the queue of the tab, its buttons | `MQTT/Client.cpp`, `Tabs/Client.cpp` |
| `ConnectionProofs` | theorems about `Connection` | |
| `Subscriptions`, `MCSubscriptions` | registry, rows, requests under way and what the broker holds | `MQTT/Client.cpp`, `Models/Subscriptions.cpp`, both `Subscription.cpp` |
| `SubscriptionsProofs` | theorems about `Subscriptions` | |
| `History`, `MCHistory` | the messages of a tab and what its table shows | `Models/History.cpp`, `Models/Subscriptions.cpp` |
| `OrderProofs` | theorems about `History`, `TopicCtrl` and `Texts` | |
| `Order` | positions in ascending order, and what is left of a list whose other elements go, for `History`, `TopicCtrl`, `Window` and `Texts` | `Models/History.cpp`, `MQTT/Client.cpp` |
| `FsTree`, `MCFsTree` | the stored messages of a profile: the tree in memory and the directory it is kept in | `Models/FsTree.cpp`, `Models/Messages.cpp` |
| `FsTreeProofs` | theorems about `FsTree` | |
| `Layouts`, `MCLayouts` | the layouts, the queues to those who show them, the combo box of every tab | `Models/Layouts.cpp`, `Widgets/Layouts.cpp`, `Notifiers/Layouts.cpp` |
| `LayoutsProofs` | theorems about `Layouts` and about `SettingsForm` | |
| `SettingsForm`, `MCSettings` | extends `Layouts` by the settings tab and by what profiles do about their layouts | `Tabs/Settings.cpp`, `Models/Profiles.cpp` |
| `Profiles`, `MCProfiles` | profiles, their snippets and topics, in memory and in two directories, through exit, kill and start | `Models/Profiles.cpp`, `Models/KnownTopics.cpp`, `Models/Messages.cpp` |
| `ProfilesProofs` | theorems about `Profiles` | |
| `Window` | the notebook, its pages and their requests, the homepages | `App.cpp`, `Tabs/Homepage.cpp`, `Models/ProfilesWrapper.cpp` |
| `WindowProofs` | theorems about `Window` | |
| `ClientTab` | the tables, the menu, the editors and the panes of one tab | `Tabs/Client.cpp`, `Widgets/Edit.cpp` |
| `ClientTabProofs` | theorems about `ClientTab` | |
| `TopicCtrl`, `MCTopicCtrl` | the known topics and the fields that complete from them | `Models/KnownTopics.cpp`, `Widgets/TopicCtrl.cpp` |
| `Texts`, `MCTexts` | `match`, the file names that a name is saved under and loaded from, `durationToString`, each with its reference | `MQTT/Client.cpp`, `Common/Url.cpp`, `Models/FsTree.cpp`, `Models/Layouts.cpp`, `Common/Helpers.cpp` |

The lines of each definition are in `PROJECT.json`. Variables and actions have
the names of the code where it has one. An exception that nothing catches, or a
null pointer, ends the program: `alive` becomes FALSE (in `Window`, `fatal` names
the request); what the handler did before it is not told.

### Connection

* `gui` splits `onDisconnectClicked`: the handler looks at `connected()`
  (`onDisconnectClicked`), `MQTT::Client::disconnect` looks again
  (`DisconnectChecks`), and Paho is called (`DisconnectSubmits`). The link may
  break in between. All other GUI handlers touch shared state once and are one
  action.
* `callback` splits `reconnect`: its head up to the wait is part of the action
  of the calling handler (`onFailureConnect`, `connection_lost`); the wait ends
  in `WaitIsCanceled` or `WaitElapses`; the flag is then not read again and
  `Attempt` connects. Cancel may be clicked at each of these points.
* `link` is the connection as Paho reports it: `acked` is the time between the
  CONNACK, from which `is_connected()` is true, and the callback `connected`.
* `events` is the event queue of the tab, as far as connection events go.
* `CloseTab(kept)`: a subscription holds a `shared_ptr` to its client, so after
  a subscription was made the client outlives the tab (`kept`).
* `attempts`, `lateAttempts`, `asked` and `swallowed` are history variables.
  No guard of the model reads them.

External, modelled from their use: `mqtt::async_client::connect` and
`disconnect`, which may throw or fail when `PahoErrors` is TRUE, and the link.

### ConnectionContract

Forgets threads, flags and retries. A *session* is idle, trying, live, closing,
dead (an error was only logged) or abandoned (the tab is closed), and each
change posts fixed notifications. The mapping is `session` in `Connection`,
computed from `tab`, `swallowed`, `link`, `closing` and `callback`; `posted` is
the queue. It says among others that LOST is posted before the outcome of the
reconnection, that an outcome ends the session, and that no session begins
while notifications of the last one are unread.

### Subscriptions

A subscription is an id with a registry entry (`registry`, `filter`, `state`)
and a row (`rows`). `gui` splits `Models::Subscriptions::subscribe`: entry,
request, state, row. `callback` separates the notification of a row from the
`erase` of its entry. Iterations of the code over the map are one step.

The broker and Paho are external: requests about one filter are answered in
order (`inflight`); when the connection ends, requests left over fail one at a
time before `connection_lost` or the success of DISCONNECT is reported; the
session is clean, so the broker forgets its filters. Messages and the QoS,
which the code fixes, are left out; `Matches` stands for `Client::match`.

`late`, `stale` and `spared` are history variables that name windows of the code,
so that the properties can leave exactly these out:

* `late`: rows attached when the answer that ends their entry had already been
  handled. Nobody tells them; they stay in the list.
* `stale`: entries whose state is left from an earlier connection, so that the
  next one does not ask for them. Either the connection ended between the request
  and the state that `doSubscribe` sets behind it (`gui` is "mark"), or the states
  were changed after `disconnect` had reset them: by an answer that came before
  the DISCONNECT was carried out, or by a request that then failed. An entry is
  stale until it is asked for again.
* `spared`: entries whose SUBSCRIBE was refused while another entry, with a filter
  that matches theirs, was removed in their place. They stay Pending.

`NothingIsForgotten` speaks of every other entry: on a connection, the broker holds
its filter, a request about it is unanswered, or the GUI thread is about to ask
for it or the callback thread about to erase it.

### History

The rows' event queues are `pending`; the callback thread appends to them and
the GUI thread handles each in order. `mRemap` and `mFilter` are the code's; a
filter is represented by the set of topics that contain its text. An id is
asked of `Models::Subscriptions` with `map::at`, so asking for a row that is gone
ends the program.

The loops that keep some elements of a list are `InOrder` and `Picked` of
`Order`: the set of the one arrangement that holds what is kept, in the order it
had. An action takes its next value from that set. `SelectSeq` would say the same,
but it is defined by recursion, and nothing could be proved of it for every list.

`openRecording` stores the history and opens it again in a tab of its own, which
has no client (`live` is FALSE) and knows the subscriptions from the file. An
empty history is written as null, which is refused; so it asks for a message.

### FsTree

The memory of the tree is `nodes`, `leafs`, `parent`, `name`, `encoded`,
`children` and `unsaved`, functions over the ids of the nodes; the disk is the
set of the paths of `files` and, for each directory, the names in its `index`
file. A path is the sequence of encoded names below the base directory. Every
operation of the code that changes the tree is one action and includes the
`save` that ends it; `load` is a start of the program on whatever is on disk, at
any time, so also after an exception or in the middle of a session.

`save` gives the outcome of the mutual recursion of `save`, `saveFolder` and
`saveLeaf`: the unsaved nodes that it reaches from the marked ones, what it
writes for each, and the cases in which it throws or does not end. What it
wrote before it threw is left out.

The file system is external (`Renames`, `Moved`, `Listed`). `rename` and opening
a file may fail `MaxFaults` times. A removal or a move that fails changes
nothing and is no action; a removal that fails half way is left out. Encoding is
taken to be one to one on names; `Stem` gives what `loadLeaf` makes of a file
name with an extension, or ".index" for names `load` skips.

`strays` is a history variable. It holds the nodes whose path no longer is where
their data is: after a rename that failed (the code keeps the new encoded name,
but not the new name), after two siblings came to share a path, and after a
start that found an entry without a place in the index. The properties speak of
the other nodes (`Sound`). The descendants of a removed folder stay in
`mNodes`, as in the code, and are not `Shown`.


### Layouts

A layout is an id; ids count up. `name` and `path` are what `Models::Layouts`
holds of it, `files` the directory. `Notifiers::Layouts` queues an event to every
listener, which is `queue`: one sequence per tab, for the settings tab and for
the profiles, which do not listen to additions (`Deaf`). A tab handles its queue
in order while its user goes on: `current` is `mCurrentSelection`, `shown` the
text of the combo box, `offered` its entries, `edit` the text field for a
rename, which loses its focus by an event of its own.

`orphaned` and `missed` are history variables: a layout was removed while a tab
or an event on its way meant it; the user of a tab picked an entry that was
gone. The perspectives (what wxAUI makes of them) are left out, and so is a
rename whose file cannot be moved.

### SettingsForm

Extends `Layouts`, with the settings tab and the profiles as two more
listeners. The layout in the form is an index into a copy of the labels
(`grid`), so it can point past the labels of the model; reading there is
undefined and modelled as the first label, garbage, or the end of the program
(`LabelsAt`). Selection, form and buttons change by different calls
(`onProfileSelected`, `selectProfile`, `createProfile`, `onProfileNewProfile`), and
each changes a different subset of them. `onProfileNewProfile` and
`onProfileNewFolder` are the context menu of the list, which also opens over the
empty area, whatever is selected: they select what they made, send no event, and
leave the form as it was, in view or not. So a folder may be selected while a
form is shown; `OptionsOf` says what is read of it.

History variables: `ref`, the layout each profile was given, 0 when it was read
from past the labels; `filledFor`, the profile whose options fill the form;
`unshown`, the profiles the context menu made and that were not shown since;
`hasty`, whether the user acted while a change of layouts was waiting.

`SettingsAssumption` says who listens to what: the settings tab to every change,
the profiles to all but additions (`Models/Profiles.cpp:41`); and that a folder, and the absence of a selection, are no profiles.

### Profiles

`prof` are the profile objects, including those a tab still holds after their
removal. A profile has a path in the config tree (options, layout, snippets) and
the same path in the cache tree (topics). Its messages and its topics keep the
path they were bound to when it was saved (`base`, `file`), which a rename of the
folder above does not change: such profiles are in the history variable `strays`,
as are two that came to share a path. A folder with the name of Quick Connect gets
default options at each start, and the start after that takes it for a profile
and loses what is in it; such folders are in the history variable `spoiled`.
Folders are one level deep; deeper trees and
failures of the file system are the subject of `FsTree`. `exit` ends the program
in order, `kill` does not; both are followed by the next start, which reads
`config` and `cache`.

### Window

wxAuiNotebook is external: a selection that is set and a page that is removed
tell the page that comes up, `ChangeSelection` tells nobody, and `RemovePage` does
not destroy the page, so a client page lives on `hidden`. `mCount` is the count
the code keeps by hand. Pages queue requests (`requests`), which the window handles
with whatever page is selected by then.

`hasty` (the user acted while a request was waiting) and `skipped` (a homepage
came up without being told) are history variables.

### ClientTab

What the GUI thread does in one tab apart from its connection and its rows. The
context menu of the history is an event loop of its own, so `onMessage` and `Forget`
can come while `menu` is open, and a command reads `selected` when it runs. The
table shows the messages at `mRemap`, any of those there are: which ones are muted
or filtered is the subject of `History`. `remap` gives it other lines, fewer or more
(`onHistoryChanged`, `Forget`); the selection is a position and stays, unless it
is past the new end. An editor (`Edit`) holds the text on screen, the payload it keeps for Binary
(`mPayload`) and two formats, the wanted and the current one. Payloads are one of
six classes that `formatGuess` and `FromUTF8` tell apart, and "hex" for a dump.

`meant` (what was put into the editor), `stale` (it was put there in Binary),
`misplaced` (another line came to the place of the selected one, because lines
went or came back) and `remapped` (the lines changed since the menu was opened) are
history variables. The retained flag is left out.

### TopicCtrl

All fields of a profile share one `KnownTopics`, with one filter and one list of
offered rows. `popupHide` destroys the list and keeps the pointer: that popup is
"gone", and an arrow key then ends the program, as its use is undefined. `Within`
gives, for each text, the topics that contain it.

### Texts

Three groups of pure functions: a state is one call and its result, and `TextsNext` makes
every call over the bounded inputs. Where the code goes through a text once, to find
the slashes, the levels that are not empty or the bytes that are left of a file
name, the model takes these positions with `Ascending` of `Order`. `Standard` is the definition of the MQTT
standard (4.7.1). `SaveAndLoad` composes what happens to a name for each kind of
file: a message is a file under the encoded name and is loaded under the decoded
`stem` of it, so the end of a name after a dot is lost; a folder or a profile is a
directory and keeps it; a layout has `.json` behind the name, which the stem
takes off again. A directory does not list "." and "..", and loading passes over
whatever has the stem `.index`. `NamesSurviveAsFiles` says what comes back, kind by
kind. `DurationReadsBack` computes the time from the digits on screen.
The properties name exactly the inputs for which the code deviates.

## 3. Checks

| run | bounds | shows |
|---|---|---|
| `connection` | 2 retries, a queue of 3 when the link breaks, Paho may throw | `ConnectReplacesIdleClient`, `SettledViewIsTrue`, `RetriesAreBounded`, `CancelStopsRetries`; the refinement `KeepsContract`; under `FairSpec` also `CancelViewResolves` and `LossIsResolved` |
| `subscriptions` | 2 filters of which one matches the other, 3 subscriptions, 2 requests per filter, rejections | `FiltersAreUnique`, `RegisteredHasRow`, `RowIsBacked`, `NothingIsForgotten`, `SubscribedIsHeld` |
| `history` | 2 topics, 2 subscriptions, 3 messages, 2 events per row | `RemapIsExact`, `AllOrNothing` |
| `fs_tree` | 3 nodes between two starts, 4 names of which one has an extension, 6 operations or starts, 1 failure | `TreeIsConsistent`, `SavedIsOnDisk`, `RestartKeepsTree` |
| `layouts` | 1 built-in layout, 2 generated names, 2 typed names, 2 tabs (symmetric), 3 layouts in all, queues of 2 | `NamesAreUnique`, `FilesAreLayouts`, `TabShowsItsLayout`, `OnlyOrphansAreFatal` |
| `settings` | the same with 1 typed name, queues of 1, 2 values of the options, 2 profiles | `FormIsOfSelection`, `ConnectUsesWhatIsShown`, `ProfileKeepsItsLayout` |
| `profiles` | 4 names, 1 topic, 3 profiles, 6 operations or starts | `OnlyStraysAreFatal`, `RestartKeepsProfiles`, `ExitKeepsTopics` |
| `window` | 1 profile and 1 folder, 5 pages at a time and in all, 1 request waiting | `CountIsRight`, `OnlyStaleIsFatal`, `RequestsKeepClients` |
| `client_tab` | 1 topic, 3 classes received, 2 typed, 3 formats, 1 pane, 3 lines, 2 stored messages, 6 steps | `EditorKeepsPayload`, `PreviewIsOfSelection`, `MenuActsOnItsLine`, `SurvivesTheRest`, `TogglesTellPanes` |
| `topic_ctrl` | 4 topics, 2 fields | `OffersAreOfTheText`, `PopupHasItsRow` |
| `texts` | topics of up to 4 characters, filters of up to 5 out of 2 letters and `/ + #`, names of up to 3 out of 9 bytes and 5 names around `.index`, for each kind of file, 27 durations | `MatchIsStandard`, `NamesSurviveAsFiles`, `DurationReadsBack` |
| `quick_connect` | as `window` | a violation, see below |

The type invariants of `Connection` and `Subscriptions` are proved (`TypeCorrect`);
the others are part of the first property of their run.

Why the bounds are enough.

* `connection`: two retries give a first, a middle and a last attempt; a queue
  of three holds the notifications of two losses.
* `subscriptions`: three subscriptions over two filters give a filter that is
  subscribed again while an older entry or row of it exists, beside one whose
  filter it matches. Two requests per filter give a SUBSCRIBE behind an
  UNSUBSCRIBE and the reverse.
* `history`: three messages of two subscriptions give every order of one among
  two of the other. `ObserverId` is 1, an id of a subscription: ids of observers
  count up over all tabs, so this is a later tab.
* `fs_tree`: six steps build a tree of two levels, move or rename in it, fail
  once, restart and go on; three nodes give a folder with an order of two
  children, and a path of three parts.
* `layouts`: three ids are the built-in layout, one that is renamed or removed,
  and one that takes its name; two tabs are the one that changes it and the one
  that is behind; two waiting events are a change and the removal that follows.
* `settings`: two profiles are one that is in the form and one that is not.
* `profiles`: three profiles and six steps give two that meet on a path, one of
  which is held by a tab after its removal, and a restart.
* `window`: five pages are the two fixed ones and three in between, so that a
  page goes before, at and after the selected one. One waiting request is enough
  for the user to overtake it.
* `client_tab`: three lines are one before, at and after the selection; six
  steps are a message, a selection, a menu, a loss of lines, a command, and one
  more, or two messages, a mute, a selection and an unmute.
* `topic_ctrl`: two fields take turns; the four topics are two, one that
  contains both, and one apart.
* `texts`: five characters give filters of three levels, with wildcards in any
  of them. Three bytes give a dot before, between and after others, and two dots;
  nine bytes are of each kind that `encode` and `stem` tell apart.

Deadlock is checked in `subscriptions`. Elsewhere the system may stop: a closed
tab whose client died with it, a program ended by an exception, the bound on
steps or ids, and, in `texts`, a call that was made.

Each property of a passing run has a mutant in its module: a definition with a
plausible mistake in it, with which the run fails.

### Fairness

`FairSpec` of `Connection` gives weak fairness to the steps of the GUI thread
other than user clicks, and to the callback thread. The event loop runs as long
as the program does; Paho answers each request in the end, since connect and
disconnect carry timeouts (`getTimeout`, `getDisconnectTimeout`), and its thread
sleeps a bounded time. Users and the network get none. The liveness properties
except `swallowed`: when Paho's connect throws or a DISCONNECT fails, the code
logs it, and nothing is left to happen. No other module has a liveness property:
its steps are the user's.

### What the code does not keep

`quick_connect` ends with a counterexample: the profile of Quick Connect has an
id that no node of the profile tree has, `openProfile` asks for its name with
`map::at`, and the exception ends the program, although the button promises to
"Connect to broker with default settings".

Further disagreements were met while modelling. The models do what the code
does, and the properties except it:

* `MQTT/Client.cpp:77`: Cancel during an attempt that then succeeds leaves
  `mCanceled` set; the next loss is not followed by an attempt, though the tab
  logs "Connection lost, reconnecting...".
* `MQTT/Client.cpp:58`: an exception of Paho's connect is logged and no observer
  told; the tab shows Cancel for ever (`swallowed`).
* `MQTT/Client.cpp:314`: a removal that fails with the end of a disconnection
  leaves a row that cannot be removed.
* `MQTT/Client.cpp:240`: a late SUBACK overwrites a pending removal.
* `MQTT/Client.cpp:412`: a connection that ends between the request and the state
  behind it leaves the entry Pending, and the next one does not ask for it. An
  answer that comes between `disconnect` and the DISCONNECT (`:70`) does the same.
* `MQTT/Client.cpp:303`: a refused SUBSCRIBE may remove another entry than its own.
* `MQTT/Client.cpp:440`: a filter that ends in # is compared as a prefix of the
  text; with a + in it, empty levels are passed over.
* `Models/Subscriptions.cpp:227`: a row that is made after the answer that ends its
  entry is never told, and stays.
* `Models/Subscriptions.cpp:350`: a shadowed variable makes the history forget the
  messages of the wrong subscription, or of none.
* `Models/History.cpp:387`: the selected line is not reset when the table shrinks.
* `Models/History.cpp:231`: when lines go or come back before the selected one, the
  selection is of another line, and the preview of the former.
* `Tabs/Client.cpp:1327`: the commands of the menu act on what is selected when they
  run, which may be another line than the menu was opened for, or none.
* `Models/History.cpp:139`: an empty history is stored as null, which is refused
  when it is opened.
* `Models/Messages.cpp:52`: the unique name of a new message is looked for in the
  root and used in the selected folder. `Models/Profiles.cpp` does the same.
* `Models/FsTree.cpp:283`: a rename that fails leaves the new encoded name.
* `Models/FsTree.cpp:463`: a message with a dot in its name is loaded without the last
  dot and what follows it.
* `Models/FsTree.cpp:748`: a folder whose index file cannot be written and an
  unsaved child save each other without end.
* `Models/Profiles.cpp:490`, `Widgets/Layouts.cpp:138`: a profile whose folder is gone
  and a layout that is gone are asked for with `map::at`, which ends the program.
* `App.cpp:202` and `426`: a homepage that comes up by `ChangeSelection` is not told;
  a request replaces the page that is selected when it is handled.
* `Widgets/Edit.cpp:327`: a payload put into an editor in Binary is not kept, and
  `getPayload` returns an earlier one.
* `Tabs/Settings.cpp:579`: New Profile in the context menu of the empty area selects
  what it made without an event. If the form of another profile is shown, it stays,
  and Save, which promises to "Save changes to this profile" (line 391), writes it
  to the new one (`unshown`, until that profile is shown).
* `Tabs/Settings.cpp:916`: Save reads the labels of the model by an index that the
  form has from before a removal.
* `Common/Helpers.cpp:82`: milliseconds are filled up behind the digits, so 1.05 s is
  shown as 1.500s.
* `Models/Profiles.cpp:115`: the port is cut to sixteen bits.
* `Models/Profiles.cpp:130`: a start writes the options of Quick Connect into a
  folder of the user that has its name, and a later start loads the folder as a
  profile, without what is in it (`spoiled`).
* `Models/KnownTopics.cpp:116`: a list of topics keeps the file it was bound to. A
  profile that is made where another one was before a rename or a removal of the
  folder shares that file, and at the exit one of the two overwrites it; so
  `ExitKeepsTopics` speaks of files with one writer.

## 4. Proofs

Eight modules hold proofs; the one of `Layouts` holds those of `SettingsForm`, too.
All follow one scheme: an inductive invariant, a lemma that the initial states
have it, lemmas for the actions, and a theorem that it is invariant, from which
the properties follow. The only assumptions are the `ASSUME`s of the modules;
retries, queues, lines, layouts, profiles, tabs and requests are as many as the
constants say, whatever these are. The parts of the invariants were checked by TLC
before they were proved. `History`, `TopicCtrl` and `Texts`
share a module of proofs, for all rest on what the operators of `Order` leave of a
list (`InOrderIs`, `PickedIs`, `PickedGrows`, `AscendingIs`); to be read together
with `History`, `TopicCtrl` has `CtrlInit`, `CtrlNext` and `CtrlSpec`, and `Texts`
`TextsInit`, `TextsNext` and `TextsSpec`.

*Connection* (`ConnectionProofs`: every safety property of the run and the
refinement). `SettledViewIsTrue` speaks of states where the queue is empty and is
not inductive. `ViewInv` says what the button will be once the queue is handled
(`FinalView`), and holds in every state. It needs `QueueInv`: an outcome
(DISCONNECTED or FAILURE) is the last notification and is followed by nothing
until the user clicks Connect, which is possible only when the queue is empty.
`RetryInv` relates `mRetries`, one ahead while waiting, to the attempts made;
`CancelInv` says that a wait does not end in an attempt under a raised flag, which
leaves only the attempt already decided on. `PhasesInv` says that the callback
thread is inside `reconnect` only when there is no link. `Implementation` shows
that `Init` maps to `CInit` and every step to a step of `ConnectionContract` or a
stutter, again action by action.

*Subscriptions* (`SubscriptionsProofs`: all five properties). They lean on each
other and are proved as one invariant. `GuiInv` keeps the filter the GUI thread is
working on away from the rows; `ToldInv` says that an entry outlives the
notification of its row by one step only, so a row never goes before its entry;
`StaleInv` says that whatever is Subscribed while no connection is up is `stale`,
which is what `SubscribedIsHeld` needs when the next connection begins.
`NothingIsForgotten` speaks of a connection that is up; `AskedInv` says what makes it
true when one begins: until then every entry that is neither `stale` nor `spared`
(`Minded`) is ToSubscribe and stays so, or has a request under way. `CheckInv` says
that an entry `doSubscribe` passes over has been asked for by the callback thread.

*Layouts* (`LayoutsProofs`: all four properties). The model part is `ModelInv`:
names are unique and the files are those of the list. That `getUniqueName` finds a
free name is a pigeonhole argument (`UniqueName`): among as many generated names
as there can be layouts one is free; `LayoutsAssumption` states what it needs of
the names. `TabShowsItsLayout` speaks of tabs that have heard of everything;
`ShowInv` says of any tab that it shows its layout or an event that will make it
do so is on its way (`Coming`). `OrphanInv` says that every id a tab or an event
refers to exists, unless a layout was orphaned.

*SettingsForm* (`LayoutsProofs`: all three properties). Two of them speak of
moments in which everybody has heard of the last change, and are not inductive.
`FinalLayout` is the layout a profile will have, and `FinalLabels` what the form
may show, once the waiting event is handled; `LayoutInv` and `LabelInv` say of
these what the properties say of the settled state, and a handler leaves both as
they are. They need `PendingInv`: as long as the user waits, one change is on its
way at most, and a rename on its way is of a layout that exists. The form holds
an index, so a rename is followed by counting: `RankIs` says that the ids can be
numbered in their order, `ArrayIs` that the labels are the names in that order.
`RefInv` says that what a profile was given exists, since a removal gives it the
default, and `IndexInv` that as long as the user waits no index is past the labels.
`SelectedInv` ties the form to the selection, and with it Connect to the
stored options, for every profile that is not `unshown`. `LabelInv` compares what the
form may show with the layout the profile will have (`Agrees`): the same, or
nothing where that is the default.

*FsTree* (`FsTreeProofs`: all three properties). `TreeIsConsistent` speaks of what is in
view; the descendants of a removed folder stay in memory, so the invariant speaks
of them, too. `UpInv` says that going up ends at the root (`Rooted`: in every set of
nodes there is one whose parent is not in it); from this it follows that paths and
chains exist at all (`PathIs`, `ChainIs`), which are recursive functions over
parents, and it is why a folder cannot be moved under itself: what `moveCheck`
forbids is what would close a circle. `DownInv` says that every folder, in view or
not, lists what has it as its parent, each once. `DiskIs` says that a file or a
directory is in a directory and that no path is both. It is kept by `fs::rename`
since a directory does not move into itself and only a file may be replaced
(`RenamedDisk`), and it is what a start needs: the entries of the disk, numbered
level by level, make a tree again (`LoadKeeps`). `Saves` writes many nodes at once
and fails anywhere; `SaveKeeps` says that whatever it leaves is such a disk.

`SavedIsOnDisk` needs to know that what an operation does to one path does it to
no other node. `SharingInv` says that nodes with a sibling under the same path above
them are among the `strays`; any two other nodes have paths that differ, and one is
at or below the path of another only if it is below that node (`PathsApart`,
`PathsDiffer`). So a rename or a move takes along what is below the node and nothing
else (`PathMoves`, `RelocatedKept`), a removal removes no more than that, and what
`Saves` writes into an index file is the order of one folder (`WrittenOrder`). The
order is stated by the ranks `load` gives to names, so `RankOf` is what is known of
them: a name that an index file has once has that place.

`RestartKeepsTree` is about one step, `load`. It needs the converse of
`SavedIsOnDisk`, `ViewInv`: as long as no path was lost, whatever is on the disk in
a folder in view is in view. That the removed do not come back is this. From both,
the entries `load` finds are the paths in view (`ShownAreEntries`, `EntriesAreShown`,
by going down and by going along `Listed`), so each node comes back with its path
and kind (`PathsAgain`, `SameKind`). The order comes back because the children were
increasing in rank before and are sorted by it after, and two increasing lists of
the same names are the same (`SameOrder`, `SameNames`).

The assumption on `Stem` says that ".index", which marks the entries `load` skips,
is no name, and that the names given to new nodes are not skipped: they are "New
Folder" and "New message" with a number.

*Profiles* (`ProfilesProofs`: all three properties, two of which are about a step).
`CleanInv` says of a profile that is no stray that its messages and topics are
bound to its path, and that the config tree has it there as it is in memory;
`DistinctInv` that nobody else is at that path; `LostInv` that only of strays the
folder is gone; `WhereInv` that a directory is in a folder that exists, and is
a folder or a profile but not both, unless it is `spoiled`. A start then finds
each profile by its path (`RestartKeepsProfilesHolds`), and after an exit the
topics by the one object that writes them (`ExitKeepsTopicsHolds`). That a stray
may be the second writer of a file shows only in runs longer than the bound of
TLC; the proof could not do without it.

*ClientTab* (`ClientTabProofs`: all five properties). `Good` says what an editor
holds: in Binary what it kept, else its text, and either way what was put into
it. That a line is of a message (`LinesAre`), stays one when messages arrive
(`LinesStay`) and is one of another list after a `remap` (`RemapKeeps`) is what
`PreviewIsOfSelection` rests on. `MenuInv` says that a menu under which no line went has a selection, which
is the line it was opened on or, in a tab that follows, the last one; with it
`SurvivesTheRest` is inductive. `PutAwayVisible` says that a pane that is put away
is remembered as visible, so its toggle tells the truth when it comes back.

*Window* (`WindowProofs`: all three properties). `Book` says what a notebook is, for
any number of pages: the settings or a recording in front, the plus sign at the
end, work in between, ids that are unique; the helpers on pages (`InsertIs`,
`RemoveIs`, `ReplaceIs`) keep it. `ListInv` says that a homepage that is up lists
what the tree holds, unless it came up untold (`skipped`), and `RequestInv` that a
request nobody has overtaken is the only one, is about something that is there,
and finds the page that asked for it still up. From those two follows that only
what is stale can end the program. `MaxMade` is at least 2 because `OnInit` makes
two pages beside the settings.

*History* (`OrderProofs`: both properties). `RemapIsExact` compares a line with
the next; `ExactInv` compares any two (`Growing`), which is what an arrival, a
filter and the bound on the table need, and the step back to neighbours is
immediate. `ListInv` says that no message has an id beyond the last one given, so a
new row begins with none. That the table never is longer than the list is a
pigeonhole argument over positions. `AllOrNothing` counts: what `Picked` keeps of
another subscription is reached from every position it had, so none of it is lost.

*TopicCtrl* (`OrderProofs`: both properties). A topic may become known while a
popup is open, and before the first field is filled the list lags behind the set.
`OfferInv` says that what is offered is right for some part of what is known; so
computing it again for more topics under the same text makes it no shorter
(`PickedGrows`), and the selected row stays one that is offered.

*Texts* (`OrderProofs`: its three properties). The bounds on the lengths are
constants, so what is proved is of topics, filters and names of any length; the
arguments are about positions, where induction is needed by the least position at
which a claim fails. `AscendingIs` and `OneOrder` say that the positions of a set
have one ascending order, `LevelsAre` that the levels of a text cover it between the
slashes, and `LevelsAgree` that texts whose first levels are the same are the same
up to there. With a plus and no empty level, `split` finds the levels of the standard
(`SplitIs`) and the comparison is the standard's (`PlusIsStandard`); without one
`match` misses nothing (`StandardMatches`), and what it shows too much has the text
before the # in front. For file names, `JoinsLay` says where in the file the piece
for each character lies; the positions that `decode` keeps are where the pieces
begin (`NameIsKept`), so a character of the file is never taken for part of another.
A dot is not encoded, so the extensions of a file are where the dots of the name
are, and the stem of the file is the file of the stem (`StemIs`).

Only model-checked: the liveness properties (no backend handles fairness).

## 5. Not modelled

* Publishing ends at `MQTT::Client::publish`: the call into Paho has no state, and
  its answers are only logged.
* Drawing, docking, captions, columns and colors, highlighting in the editor.
* The command line, logging, resources, the directories of the program, JSON
  parsing (a file is read as it was written).
* Data races within one operation, on `mSubscriptions` for instance, are
  undefined behaviour; the models take one such operation as one step.
* The contents of the options of a profile, which are one value.

## 6. Plan

1. Removals that fail half way, in `FsTree`.
