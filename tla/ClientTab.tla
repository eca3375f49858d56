------------------------------ MODULE ClientTab ------------------------------
(***************************************************************************)
(* What the GUI thread does in one tab: the table of received messages and *)
(* its menu, the tree of stored messages, the two editors that show one    *)
(* message each (Widgets::Edit: Publish, which the user edits, and         *)
(* Preview), and the panes with their toggles.                             *)
(*                                                                         *)
(* A menu is a loop of its own: messages keep arriving while it is open.   *)
(* A topic with its QoS is one `head`; the retained flag is left out.  An  *)
(* exception that leaves a handler, or a null pointer, ends the program:   *)
(* ~alive.  Which messages are muted or filtered, and whether that can be  *)
(* told, is left to History: here it may be any of them.                   *)
(***************************************************************************)
EXTENDS Naturals, Sequences, FiniteSets, Order

CONSTANTS
  Heads,      \* topics, with QoS
  NoHead,     \* an empty topic
  Inbox,      \* payloads that are received
  Typed,      \* payloads the user types
  Choices,    \* the formats the user picks
  Panes,      \* the panes that have a toggle
  MaxLines, MaxStored, \* bounds: received and stored messages
  MaxSteps    \* bound: length of a session

(* Payloads: "" is empty, "compact" a JSON text and "pretty" the same text *)
(* laid out, "bytes" starts with a control character, "latin" is no UTF-8. *)
(* "hex" is the dump of any of them, which only the text field holds.      *)
Payloads == {"", "words", "compact", "pretty", "bytes", "latin"}
Formats == {"Auto", "Text", "Json", "Binary"}

ASSUME ClientTabAssumption ==
  /\ NoHead \notin Heads
  /\ Inbox \subseteq Payloads /\ Typed \subseteq Payloads /\ Choices \subseteq Formats
  /\ MaxLines \in Nat /\ MaxStored \in Nat /\ MaxSteps \in Nat

Message == [head : Heads \cup {NoHead}, payload : Payloads]
Empty == [head |-> NoHead, payload |-> ""]
NoMenu == [head |-> NoHead, payload |-> "no menu"]

VARIABLES
  live,       \* the tab has an MQTT::Client; FALSE: it shows a recording
  alive,
  mMessages,  \* the received messages
  mRemap,     \* the positions of those the table shows
  selected,   \* its selection, a line of the table: 0 is none
  following,  \* mAutoScroll
  menu,       \* the message whose menu is open
  remapped,   \* history: lines were taken away since it was opened
  misplaced,  \* history: another line came to the place of the selected one
  stored,     \* the stored messages; folders are left to FsTree
  chosen,     \* the selection among them, 0: a folder or nothing
  publish, preview, \* the editors
  sent,       \* the last message given to MQTT::Client::publish
  panes,      \* managed by mAuiMan? shown? what mPanes remembers; toggle grey?
  steps

lineVars == <<mMessages, mRemap>>
table   == <<lineVars, selected, following, misplaced>>
popup   == <<menu, remapped>>
vars    == <<live, alive, table, popup, stored, chosen, publish, preview, sent,
             panes, steps>>

LinesOf(messages, positions) ==
  [i \in 1..Len(positions) |-> messages[positions[i]]]
lines == LinesOf(mMessages, mRemap)

Editor == [head : Heads \cup {NoHead}, text : Payloads \cup {"hex"},
           mPayload : Payloads, format : Formats \cup {"?"},
           mCurrentFormat : Formats, locked : BOOLEAN,
           meant : Payloads, stale : BOOLEAN]

TypeOK ==
  /\ live \in BOOLEAN /\ alive \in BOOLEAN /\ steps \in 0..MaxSteps
  /\ mMessages \in Seq(Message) /\ mRemap \in Seq(1..Len(mMessages))
  /\ selected \in 0..Len(lines)
  /\ following \in BOOLEAN /\ remapped \in BOOLEAN /\ misplaced \in BOOLEAN
  /\ menu \in Message \cup {NoMenu}
  /\ stored \in Seq(Message) /\ chosen \in 0..Len(stored)
  /\ publish \in Editor /\ preview \in Editor /\ preview.locked
  /\ sent \in Message
  /\ panes \in [Panes -> [managed : BOOLEAN, shown : BOOLEAN,
                          remembered : BOOLEAN, grey : BOOLEAN]]

-------------------------------------------------------------------------------
(* Widgets::Edit.  `meant` is the payload last put into the editor, and     *)
(* `stale` that it was put there in Binary, which setPayload forgets.       *)

formatGuess(p) ==
  CASE p \in {"compact", "pretty"} -> "Json" [] p = "bytes" -> "Binary" [] OTHER -> "Text"

\* formatTry: what is displayed, and in which format.
Format(p, wanted) == IF wanted = "Auto" THEN formatGuess(p) ELSE wanted
formatTry(p, wanted, current) ==
  LET f == Format(p, wanted) IN
  IF p = "" THEN [text |-> "", is |-> current]
  ELSE [is |-> f,
        text |-> IF f = "Binary" THEN "hex"
                 ELSE IF f = "Json" /\ p = "compact" THEN "pretty" ELSE p]

\* wxString::FromUTF8 of what is not UTF-8 is empty.
FromUTF8(p) == IF p = "latin" THEN "" ELSE p

Displayed(e, p, readOnly) ==
  LET tried == formatTry(p, e.format, e.mCurrentFormat) IN
  [e EXCEPT !.text = FromUTF8(tried.text), !.mCurrentFormat = tried.is,
            !.locked = readOnly \/ tried.is = "Binary"]

setPayload(e, p, readOnly) ==
  LET shown == Displayed(e, p, readOnly) IN
  [shown EXCEPT !.meant = p, !.stale = (shown.mCurrentFormat = "Binary")]

setMessage(e, m, readOnly) == [setPayload(e, m.payload, readOnly) EXCEPT !.head = m.head]
clear(e, readOnly) == setMessage(e, Empty, readOnly)

getPayload(e) == IF e.mCurrentFormat = "Binary" THEN e.mPayload ELSE e.text
getMessage(e) == [head |-> e.head, payload |-> getPayload(e)]

\* Mutant: the payload is not kept before it is shown as a dump.
formatForgets(e, wanted, readOnly) ==
  Displayed([e EXCEPT !.format = wanted], getPayload(e), readOnly)
\* format, as a format is picked
format(e, wanted, readOnly) ==
  Displayed([e EXCEPT !.format = wanted, !.mPayload = getPayload(e)],
            getPayload(e), readOnly)

\* formats().at throws for a text that is typed into the combo box.
Unknown(e) == e.format = "?"

-------------------------------------------------------------------------------
NewEditor(readOnly) ==
  [head |-> NoHead, text |-> "", mPayload |-> "", format |-> "Auto",
   mCurrentFormat |-> "Auto", locked |-> readOnly, meant |-> "", stale |-> FALSE]

\* A new tab, or a recording just opened.
Init ==
  /\ live \in BOOLEAN /\ alive = TRUE /\ steps = 0
  /\ IF live THEN mMessages = <<>>
     ELSE \E h \in Heads : \E p, q \in Inbox :
            mMessages = <<[head |-> h, payload |-> p], [head |-> h, payload |-> q]>>
  /\ mRemap = [i \in 1..Len(mMessages) |-> i]
  /\ selected = 0 /\ following = TRUE /\ menu = NoMenu
  /\ remapped = FALSE /\ misplaced = FALSE
  /\ stored = <<>> /\ chosen = 0 /\ sent = Empty
  /\ publish = NewEditor(FALSE) /\ preview = NewEditor(TRUE)
  /\ panes = [p \in Panes |-> [managed |-> TRUE, shown |-> TRUE,
                               remembered |-> TRUE, grey |-> FALSE]]

\* What a handler did before an exception left it is not told.
May == alive /\ steps < MaxSteps /\ steps' = steps + 1 /\ UNCHANGED live
\* The user, while no menu is open.
User == May /\ menu = NoMenu
Lives == UNCHANGED alive
Crash == /\ alive' = FALSE
         /\ UNCHANGED <<table, popup, stored, chosen, publish, preview, sent, panes>>

-------------------------------------------------------------------------------
(* Received messages *)

\* History::onMessage, with a line in the table, and the tab's.
onMessage(m) ==
  /\ May /\ live /\ Len(mMessages) < MaxLines
  /\ \/ following /\ Unknown(preview) /\ Crash
     \/ /\ ~(following /\ Unknown(preview)) /\ Lives
        /\ mMessages' = Append(mMessages, m)
        /\ mRemap' = Append(mRemap, Len(mMessages'))
        /\ selected' = IF following THEN Len(mRemap') ELSE selected
        /\ misplaced' = (misplaced /\ ~following)
        /\ preview' = IF following THEN setMessage(preview, m, TRUE) ELSE preview
        /\ UNCHANGED <<following, popup, stored, chosen, publish, sent, panes>>
\* A message that is muted or does not pass the filter.
onMessageHidden(m) ==
  /\ May /\ Lives /\ live /\ Len(mMessages) < MaxLines
  /\ mMessages' = Append(mMessages, m)
  /\ UNCHANGED <<mRemap, selected, following, misplaced, popup, stored, chosen,
                 publish, preview, sent, panes>>

\* History::remap.  The table is told that its lines have changed and that the
\* last of them went, or that some were appended.  So the selection stays where
\* it is, and is of the line that has moved there.
remap(messages, shown) ==
  /\ mMessages' = messages /\ mRemap' \in InOrder(shown) /\ lineVars' # lineVars
  /\ selected' = IF selected <= Len(mRemap') THEN selected ELSE 0
  /\ misplaced' = (/\ selected' # 0
                    /\ (misplaced \/ lines'[selected'] # lines[selected]))
  /\ remapped' = (menu # NoMenu /\ (remapped \/ lines' # lines))
  /\ UNCHANGED <<following, menu, stored, chosen, publish, preview, sent, panes>>

\* Mute, unmute, solo, or another filter: lines go, and lines that had gone
\* come back between the others.
onHistoryChanged(shown) == User /\ Lives /\ remap(mMessages, shown)

\* onCleared, and onUnsubscribed, which comes while a menu is open as well: the
\* messages of a subscription go, and the others are shown as before.
Forget(kept) ==
  /\ May /\ Lives /\ live
  /\ \E order \in InOrder(kept) :
       remap([i \in DOMAIN order |-> mMessages[order[i]]],
             {i \in DOMAIN order : \E k \in DOMAIN mRemap : order[i] = mRemap[k]})

\* Mutant: the preview keeps the message shown before.
SelectQuietly(i) ==
  /\ selected' = i /\ misplaced' = FALSE /\ preview' = preview
Select(i) ==
  /\ selected' = i /\ misplaced' = FALSE
  /\ preview' = setMessage(preview, lines[i], TRUE)

\* The table tells of a selection that changes.
onHistorySelected(i) ==
  /\ User /\ i # selected
  /\ \/ Unknown(preview) /\ Crash
     \/ /\ ~Unknown(preview) /\ Lives /\ Select(i)
        /\ UNCHANGED <<lineVars, following, popup, stored, chosen, publish, sent, panes>>

\* Mutant: the menu opens over whatever is selected.
onHistoryContextAnywhere(i) ==
  /\ User /\ Lives /\ menu' = lines[i] /\ remapped' = FALSE
  /\ UNCHANGED <<table, stored, chosen, publish, preview, sent, panes>>
\* The click that opens the menu selects the line.
onHistoryContext(i) ==
  /\ User /\ Lives /\ menu' = lines[i] /\ remapped' = FALSE
  /\ \/ i = selected /\ UNCHANGED <<selected, misplaced, preview>>
     \/ i # selected /\ ~Unknown(preview) /\ Select(i)
  /\ UNCHANGED <<lineVars, following, stored, chosen, publish, sent, panes>>

\* A double click loads the message into Publish; a recording has neither that
\* editor nor the stored messages.
onHistoryDoubleClicked ==
  /\ User /\ selected # 0
  /\ \/ (~live \/ Unknown(publish)) /\ Crash
     \/ /\ live /\ ~Unknown(publish) /\ Lives
        /\ publish' = setMessage(publish, lines[selected], FALSE) /\ chosen' = 0
        /\ UNCHANGED <<table, popup, stored, preview, sent, panes>>

\* Both forget the selection and empty the preview.
onHistoryClearClicked ==
  /\ User /\ live /\ mMessages # <<>>
  /\ \/ Unknown(preview) /\ Crash
     \/ /\ ~Unknown(preview) /\ Lives
        /\ mMessages' = <<>> /\ mRemap' = <<>> /\ selected' = 0 /\ misplaced' = FALSE
        /\ preview' = clear(preview, TRUE)
        /\ UNCHANGED <<following, popup, stored, chosen, publish, sent, panes>>
onContextSelectedSubscriptionsUnsubscribe ==
  /\ User /\ live
  /\ \/ Unknown(preview) /\ Crash
     \/ /\ ~Unknown(preview) /\ Lives
        /\ selected' = 0 /\ misplaced' = FALSE /\ preview' = clear(preview, TRUE)
        /\ UNCHANGED <<lineVars, following, popup, stored, chosen, publish, sent, panes>>

Follow ==
  /\ User /\ Lives /\ live /\ following' = ~following
  /\ UNCHANGED <<lineVars, selected, misplaced, popup, stored, chosen, publish, preview,
                 sent, panes>>

-------------------------------------------------------------------------------
(* The commands of the menu act on the selection, wherever it is by now. *)

Command == May /\ menu # NoMenu
Closed == menu' = NoMenu /\ remapped' = FALSE

onContextSelectedHistoryRetainedClear ==
  /\ Command /\ Lives /\ live /\ Closed
  /\ sent' = IF selected = 0 THEN sent
             ELSE [head |-> lines[selected].head, payload |-> ""]
  /\ UNCHANGED <<table, stored, chosen, publish, preview, panes>>
onContextSelectedHistoryResend ==
  /\ Command /\ Lives /\ live /\ Closed
  /\ sent' = IF selected = 0 THEN sent ELSE lines[selected]
  /\ UNCHANGED <<table, stored, chosen, publish, preview, panes>>
onContextSelectedHistoryEdit ==
  /\ Command /\ live
  /\ \/ selected # 0 /\ Unknown(publish) /\ Crash
     \/ /\ selected = 0 \/ ~Unknown(publish)
        /\ Lives /\ Closed
        /\ publish' = IF selected = 0 THEN publish
                      ELSE setMessage(clear(publish, FALSE), lines[selected], FALSE)
        /\ UNCHANGED <<table, stored, chosen, preview, sent, panes>>

\* onContextSelectedHistoryCopyTopic and -CopyPayload, which do not ask whether
\* anything is selected.
onContextSelectedHistoryCopy ==
  /\ Command
  /\ \/ selected = 0 /\ Crash
     \/ /\ selected # 0 /\ Lives /\ Closed
        /\ UNCHANGED <<table, stored, chosen, publish, preview, sent, panes>>
Dismiss ==
  /\ Command /\ Lives /\ Closed
  /\ UNCHANGED <<table, stored, chosen, publish, preview, sent, panes>>

-------------------------------------------------------------------------------
(* Stored messages *)

\* createMessage, and the selection of what was made.
Store(m) == /\ Len(stored) < MaxStored
            /\ stored' = Append(stored, m) /\ chosen' = Len(stored')
\* The new message is shown in Publish.
StoreAndLoad(m) ==
  \/ Unknown(publish) /\ Crash
  \/ /\ ~Unknown(publish) /\ Lives /\ Store(m) /\ Closed
     /\ publish' = setMessage(publish, m, FALSE)
     /\ UNCHANGED <<table, preview, sent, panes>>

onContextSelectedHistorySaveMessage ==
  /\ Command
  /\ \/ (~live \/ selected = 0) /\ Crash
     \/ live /\ selected # 0 /\ StoreAndLoad(lines[selected])
onPublishSaveMessage == User /\ live /\ StoreAndLoad(getMessage(publish))
onContextSelectedMessageNewMessage == User /\ live /\ StoreAndLoad(Empty)
onPreviewSaveMessage ==
  /\ User
  /\ \/ ~live /\ Crash
     \/ /\ live /\ Lives /\ Store(getMessage(preview))
        /\ UNCHANGED <<table, popup, publish, preview, sent, panes>>

onMessagesSelected(k) ==
  /\ User /\ k \in 1..Len(stored)
  /\ \/ Unknown(publish) /\ Crash
     \/ /\ ~Unknown(publish) /\ Lives
        /\ chosen' = k /\ publish' = setMessage(publish, stored[k], FALSE)
        /\ UNCHANGED <<table, popup, stored, preview, sent, panes>>

\* A double click, or the menu, which loads the message first.
onMessagesActivated ==
  /\ User /\ chosen # 0 /\ Lives /\ sent' = stored[chosen]
  /\ UNCHANGED <<table, popup, stored, chosen, publish, preview, panes>>
onContextSelectedMessagePublish ==
  /\ User /\ chosen # 0
  /\ \/ Unknown(publish) /\ Crash
     \/ /\ ~Unknown(publish) /\ Lives /\ sent' = stored[chosen]
        /\ publish' = setMessage(publish, stored[chosen], FALSE)
        /\ UNCHANGED <<table, popup, stored, chosen, preview, panes>>
onContextSelectedMessageOverwrite ==
  /\ User /\ chosen # 0 /\ Lives
  /\ stored' = [stored EXCEPT ![chosen] = getMessage(publish)]
  /\ UNCHANGED <<table, popup, chosen, publish, preview, sent, panes>>
onContextSelectedMessageDelete ==
  /\ User /\ chosen # 0 /\ Lives /\ chosen' = 0
  /\ stored' = SubSeq(stored, 1, chosen - 1) \o SubSeq(stored, chosen + 1, Len(stored))
  /\ UNCHANGED <<table, popup, publish, preview, sent, panes>>

-------------------------------------------------------------------------------
(* The editors *)

TypeText(p) ==
  /\ User /\ Lives /\ live /\ ~publish.locked
  /\ publish' = [publish EXCEPT !.text = p, !.meant = p, !.stale = FALSE]
  /\ UNCHANGED <<table, popup, stored, chosen, preview, sent, panes>>
\* The topic, and onQosClicked.
EditHead(h) ==
  /\ User /\ Lives /\ live /\ publish' = [publish EXCEPT !.head = h]
  /\ UNCHANGED <<table, popup, stored, chosen, preview, sent, panes>>
onFormatSelected(f) ==
  /\ User /\ Lives
  /\ \/ live /\ publish' = format(publish, f, FALSE) /\ UNCHANGED preview
     \/ preview' = format(preview, f, TRUE) /\ UNCHANGED publish
  /\ UNCHANGED <<table, popup, stored, chosen, sent, panes>>
TypeFormat ==
  /\ User /\ Lives
  /\ \/ live /\ publish' = [publish EXCEPT !.format = "?"] /\ UNCHANGED preview
     \/ preview' = [preview EXCEPT !.format = "?"] /\ UNCHANGED publish
  /\ UNCHANGED <<table, popup, stored, chosen, sent, panes>>
onPublishClicked ==
  /\ User /\ Lives /\ live /\ publish.head # NoHead /\ sent' = getMessage(publish)
  /\ UNCHANGED <<table, popup, stored, chosen, publish, preview, panes>>

-------------------------------------------------------------------------------
(* Panes *)

\* Mutant: what is known of a pane is read when it is brought back only.
ToggledForgetful(pane) ==
  IF ~pane.managed
  THEN [pane EXCEPT !.managed = TRUE, !.shown = pane.remembered, !.grey = FALSE]
  ELSE IF pane.shown
  THEN [pane EXCEPT !.managed = FALSE, !.shown = FALSE, !.grey = TRUE]
  ELSE [managed |-> TRUE, shown |-> TRUE, remembered |-> FALSE, grey |-> FALSE]
\* The toggle of a pane: it is missing, visible, or known but hidden.
Toggled(pane) ==
  IF ~pane.managed
  THEN [pane EXCEPT !.managed = TRUE, !.shown = pane.remembered, !.grey = FALSE]
  ELSE IF pane.shown
  THEN [managed |-> FALSE, shown |-> FALSE, remembered |-> TRUE, grey |-> TRUE]
  ELSE [managed |-> TRUE, shown |-> TRUE, remembered |-> FALSE, grey |-> FALSE]
\* A perspective says nothing to a pane that mAuiMan does not manage.
Arranged(pane, visible) ==
  [pane EXCEPT !.shown = pane.managed /\ visible, !.grey = ~(pane.managed /\ visible)]

TogglePane(p) ==
  /\ User /\ Lives /\ panes' = [panes EXCEPT ![p] = Toggled(@)]
  /\ UNCHANGED <<table, popup, stored, chosen, publish, preview, sent>>
onLayoutSelected(visible) ==
  /\ User /\ Lives /\ panes' = [p \in Panes |-> Arranged(panes[p], p \in visible)]
  /\ UNCHANGED <<table, popup, stored, chosen, publish, preview, sent>>

-------------------------------------------------------------------------------
HistoryStep ==
  \/ \E h \in Heads : \E p \in Inbox :
       LET m == [head |-> h, payload |-> p] IN onMessage(m) \/ onMessageHidden(m)
  \/ \E some \in SUBSET (1..Len(mMessages)) : onHistoryChanged(some) \/ Forget(some)
  \/ \E i \in 1..Len(lines) :
       onHistorySelected(i) \/ onHistoryContext(i)
  \/ onHistoryDoubleClicked \/ onHistoryClearClicked \/ onContextSelectedSubscriptionsUnsubscribe \/ Follow

\* onContextSelected
MenuStep ==
  \/ onContextSelectedHistoryRetainedClear \/ onContextSelectedHistoryResend
  \/ onContextSelectedHistoryEdit \/ onContextSelectedHistorySaveMessage
  \/ onContextSelectedHistoryCopy \/ Dismiss

StoredStep ==
  \/ onPublishSaveMessage \/ onPreviewSaveMessage \/ onContextSelectedMessageNewMessage
  \/ \E k \in 1..MaxStored : onMessagesSelected(k)
  \/ onMessagesActivated \/ onContextSelectedMessagePublish
  \/ onContextSelectedMessageOverwrite \/ onContextSelectedMessageDelete

EditorStep ==
  \/ \E p \in Typed : TypeText(p)
  \/ \E h \in Heads : EditHead(h)
  \/ \E f \in Choices : onFormatSelected(f)
  \/ TypeFormat \/ onPublishClicked

PaneStep ==
  \/ \E p \in Panes : TogglePane(p)
  \/ \E visible \in SUBSET Panes : onLayoutSelected(visible)

Next == HistoryStep \/ MenuStep \/ StoredStep \/ EditorStep \/ PaneStep

Spec == Init /\ [][Next]_vars

-------------------------------------------------------------------------------
(* Safety *)

\* What is published or stored from an editor is what was put into it, laid out
\* anew at most, through any changes of format; but for a message that was
\* loaded in Binary (setPayload does not set mPayload), and one that is no UTF-8.
SamePayload(p) ==
  {p} \cup (IF p = "compact" THEN {"pretty"} ELSE {}) \cup {FromUTF8(p)}
EditorKeepsPayload ==
  TypeOK /\
  \A e \in {publish, preview} : ~e.stale => getPayload(e) \in SamePayload(e.meant)

\* The preview shows the selected message, whether the user selected it or it
\* was followed, and whatever arrives, is muted, filtered, brought back or
\* forgotten; unless lines went or came back before it and put another message
\* in its place.
PreviewIsOfSelection ==
  alive /\ selected # 0 /\ ~misplaced =>
    preview.head = lines[selected].head /\ preview.meant = lines[selected].payload

\* The menu's commands act on the line it was opened on, although they ask for
\* the selection only when they are run; but for a tab that follows its
\* history, and for lines that went meanwhile.
MenuActsOnItsLine ==
  menu # NoMenu =>
    \/ selected # 0 /\ lines[selected] = menu
    \/ following /\ selected = Len(lines)
    \/ remapped

\* The program ends in a recording that is asked for what it does not have, in
\* a format nobody knows, and for a line that went while its menu was open, and
\* at no other time.
SurvivesTheRest ==
  ~alive => ~live \/ Unknown(publish) \/ Unknown(preview) \/ remapped

\* A toggle is grey if and only if its pane is not to be seen, after any toggles
\* and layouts; in particular a pane that was put away comes back visible.
TogglesTellPanes ==
  \A p \in Panes : panes[p].grey = ~(panes[p].managed /\ panes[p].shown)
===============================================================================
