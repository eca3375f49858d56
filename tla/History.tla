-------------------------------- MODULE History --------------------------------
(***************************************************************************)
(* The message history of one tab: GUI::Models::History, fed and filtered  *)
(* by the rows of GUI::Models::Subscriptions it observes.                  *)
(*                                                                         *)
(* A row queues what MQTT::Subscription tells it; the GUI thread handles   *)
(* each row's queue in order.  The history keeps every message with the id *)
(* of its subscription, and mRemap, the positions of those to be shown:    *)
(* not muted, and with a topic that contains the text of the filter.       *)
(*                                                                         *)
(* Asking Models::Subscriptions about an id without a row throws (map::at);*)
(* nothing catches it, and the program ends: ~alive.                       *)
(***************************************************************************)
EXTENDS Naturals, Sequences, FiniteSets, Order

CONSTANTS
  Topics,       \* topics of messages
  TopicFilters, \* for each text of the filter, the topics that contain it
  ObserverId,   \* the id Models::Subscriptions gave the history of this tab
  MaxIds,       \* bound: subscriptions created in the life of the tab
  MaxMessages,  \* bound: messages kept
  MaxPending    \* bound: events waiting in a row's queue

Ids == 1..MaxIds

ASSUME HistoryAssumption ==
  /\ "UNSUBSCRIBED" \notin Topics
  /\ TopicFilters \subseteq SUBSET Topics /\ Topics \in TopicFilters
  /\ ObserverId \in Nat
  /\ MaxIds \in Nat /\ MaxMessages \in Nat /\ MaxPending \in Nat

VARIABLES
  live,             \* the tab has an MQTT::Client; FALSE: it shows a recording
  mSubscriptionIds, \* the last id given out
  rows, muted,      \* the rows, and those that are muted
  pending,          \* the event queue of each row
  mMessages,        \* of Models::History, oldest first
  mRemap,           \* the positions in mMessages that are shown
  mFilter,          \* the topics that contain the filter's text
  mSelected,        \* the selected line of the table, 0 for none
  alive             \* FALSE once an exception ended the program

subscriptions == <<live, mSubscriptionIds, rows, muted>>
vars == <<subscriptions, pending, mMessages, mRemap, mFilter, mSelected, alive>>

Message == [subscriptionId : Ids, topic : Topics]

TypeOK ==
  /\ live \in BOOLEAN /\ alive \in BOOLEAN
  /\ mSubscriptionIds \in 0..MaxIds
  /\ rows \subseteq 1..mSubscriptionIds /\ muted \subseteq rows
  /\ pending \in [Ids -> Seq(Topics \cup {"UNSUBSCRIBED"})]
  /\ \A id \in Ids \ rows : pending[id] = <<>>
  /\ mMessages \in Seq(Message) /\ Len(mMessages) <= MaxMessages
  /\ mRemap \in Seq(1..(IF alive THEN Len(mMessages) ELSE MaxMessages))
  /\ mFilter \in TopicFilters
  /\ mSelected \in 0..MaxMessages

-------------------------------------------------------------------------------
(* Helpers *)

\* Messages whose subscription has no row any more.
Orphans == {i \in 1..Len(mMessages) : mMessages[i].subscriptionId \notin rows}

Visible(message, silent, topics) ==
  message.subscriptionId \notin silent /\ message.topic \in topics

\* The positions to be shown.
Positions(messages, silent, topics) ==
  {i \in 1..Len(messages) : Visible(messages[i], silent, topics)}

\* Mutant of remap: what is muted stays on screen.
RemapFiltered(messages, silent, topics) ==
  /\ mRemap' \in InOrder(Positions(messages, {}, topics))
  /\ UNCHANGED alive

\* History::remap.  It asks for the mute flag of every message's subscription.
remap(messages, silent, topics) ==
  IF \A i \in 1..Len(messages) : messages[i].subscriptionId \in rows
  THEN mRemap' \in InOrder(Positions(messages, silent, topics)) /\ UNCHANGED alive
  ELSE alive' = FALSE /\ UNCHANGED mRemap

\* Mutant of Without: goes on behind the message it erased, so it spares every
\* second of a run of them.
WithoutSkipping(id) ==
  Picked(mMessages, {i \in 1..Len(mMessages) :
                       \/ mMessages[i].subscriptionId # id
                       \/ i > 1 /\ mMessages[i - 1].subscriptionId = id})

Without(id) ==
  Picked(mMessages, {i \in 1..Len(mMessages) : mMessages[i].subscriptionId # id})

\* History::onCleared and History::onUnsubscribed: the id's messages go.
Forget(id) ==
  \E kept \in Without(id) : mMessages' = kept /\ remap(kept, muted, mFilter)

-------------------------------------------------------------------------------

\* A new tab; or a recording just loaded: its messages belong to the
\* subscriptions recorded with them, and all of them are shown.
Init ==
  /\ live \in BOOLEAN
  /\ IF live THEN mSubscriptionIds = 0 ELSE mSubscriptionIds \in Ids
  /\ rows = 1..mSubscriptionIds /\ muted = {}
  /\ pending = [id \in Ids |-> <<>>]
  /\ \E n \in (IF live THEN {0} ELSE 1..MaxMessages) :
       mMessages \in [1..n -> [subscriptionId : rows, topic : Topics]]
  /\ mRemap = [i \in 1..Len(mMessages) |-> i]
  /\ mFilter = Topics /\ mSelected = 0 /\ alive = TRUE

-------------------------------------------------------------------------------
(* The callback thread: what MQTT::Subscription tells its row. *)

Queue(id, event) ==
  /\ alive /\ live /\ id \in rows /\ Len(pending[id]) < MaxPending
  /\ pending' = [pending EXCEPT ![id] = Append(@, event)]
  /\ UNCHANGED <<subscriptions, mMessages, mRemap, mFilter, mSelected, alive>>

\* Types::Subscription::onMessage
Receive(id, topic) == topic \in Topics /\ Queue(id, topic)

\* Types::Subscription::onUnsubscribed; the MQTT::Subscription tells nothing
\* after it.
EndSubscription(id) == Queue(id, "UNSUBSCRIBED")

Told(id) == \E i \in 1..Len(pending[id]) : pending[id][i] = "UNSUBSCRIBED"

-------------------------------------------------------------------------------
(* The GUI thread: events of the rows *)

Subscribe ==
  /\ alive /\ live /\ mSubscriptionIds < MaxIds
  /\ mSubscriptionIds' = mSubscriptionIds + 1
  /\ rows' = rows \cup {mSubscriptionIds'}
  /\ UNCHANGED <<live, muted, pending, mMessages, mRemap, mFilter, mSelected, alive>>

\* History::onMessage, and the tab's, which selects the new line if it is to
\* follow the history.
onMessage(id, autoScroll) ==
  /\ alive /\ id \in rows /\ pending[id] # <<>> /\ Head(pending[id]) \in Topics
  /\ Len(mMessages) < MaxMessages
  /\ LET message == [subscriptionId |-> id, topic |-> Head(pending[id])] IN
       /\ mMessages' = Append(mMessages, message)
       /\ IF Visible(message, muted, mFilter)
          THEN /\ mRemap' = Append(mRemap, Len(mMessages) + 1)
               /\ mSelected' = IF autoScroll THEN Len(mRemap) + 1 ELSE mSelected
          ELSE UNCHANGED <<mRemap, mSelected>>
  /\ pending' = [pending EXCEPT ![id] = Tail(@)]
  /\ UNCHANGED <<subscriptions, mFilter, alive>>

\* Models::Subscriptions::onUnsubscribed.  The loop that tells the observers
\* names the key of the observer `id` too, so it passes ObserverId on; the row
\* and its queue go after that.
onUnsubscribed(id) ==
  /\ alive /\ id \in rows /\ pending[id] # <<>> /\ Head(pending[id]) = "UNSUBSCRIBED"
  /\ Forget(ObserverId)
  /\ rows' = rows \ {id} /\ muted' = muted \ {id}
  /\ pending' = [pending EXCEPT ![id] = <<>>]
  /\ UNCHANGED <<live, mSubscriptionIds, mFilter, mSelected>>

-------------------------------------------------------------------------------
(* The GUI thread: the user *)

mute(id) ==
  /\ alive /\ id \in rows \ muted /\ muted' = muted \cup {id}
  /\ remap(mMessages, muted', mFilter)
  /\ UNCHANGED <<live, mSubscriptionIds, rows, pending, mMessages, mFilter, mSelected>>

unmute(id) ==
  /\ alive /\ id \in muted /\ muted' = muted \ {id}
  /\ remap(mMessages, muted', mFilter)
  /\ UNCHANGED <<live, mSubscriptionIds, rows, pending, mMessages, mFilter, mSelected>>

solo(id) ==
  /\ alive /\ id \in rows /\ muted' = rows \ {id}
  /\ remap(mMessages, muted', mFilter)
  /\ UNCHANGED <<live, mSubscriptionIds, rows, pending, mMessages, mFilter, mSelected>>

\* Models::Subscriptions::clear, in the menu of a live tab.
clearSubscription(id) ==
  /\ alive /\ live /\ id \in rows
  /\ UNCHANGED <<subscriptions, pending, mFilter, mSelected>>
  /\ Forget(id)

\* History::clear; a recording has no button for it.
clear ==
  /\ alive /\ live /\ mMessages' = <<>>
  /\ UNCHANGED <<subscriptions, pending, mFilter, mSelected>>
  /\ remap(<<>>, muted, mFilter)

setFilter(topics) ==
  /\ alive /\ mFilter' = topics
  /\ UNCHANGED <<subscriptions, pending, mMessages, mSelected>>
  /\ remap(mMessages, muted, topics)

\* The history is stored (onHistoryRecordClicked) and opened again in a tab of
\* its own: every message is shown, none is muted.  An empty list is written as
\* null, which is no list when it is read.
openRecording ==
  /\ alive /\ live /\ rows # {} /\ mMessages # <<>>
  /\ live' = FALSE /\ muted' = {} /\ pending' = [id \in Ids |-> <<>>]
  /\ mRemap' = [i \in 1..Len(mMessages) |-> i]
  /\ mFilter' = Topics /\ mSelected' = 0
  /\ UNCHANGED <<mSubscriptionIds, rows, mMessages, alive>>

\* The user selects a line.
onHistorySelected(line) ==
  /\ alive /\ line \in 1..Len(mRemap)
  /\ mSelected' = line
  /\ UNCHANGED <<subscriptions, pending, mMessages, mRemap, mFilter, alive>>

\* The table is painted: History::GetValueByRow asks for the color of a line's
\* subscription and, if the time difference is shown, for the selected line.
Paint(showDt) ==
  /\ alive /\ mRemap # <<>>
  /\ \/ \E line \in 1..Len(mRemap) : mRemap[line] \in Orphans
     \/ showDt /\ live /\ mSelected > Len(mRemap)
  /\ alive' = FALSE
  /\ UNCHANGED <<subscriptions, pending, mMessages, mRemap, mFilter, mSelected>>

-------------------------------------------------------------------------------
CallbackStep ==
  \E id \in Ids :
    /\ ~Told(id)
    /\ EndSubscription(id) \/ \E topic \in Topics : Receive(id, topic)

RowStep ==
  \E id \in Ids :
    onUnsubscribed(id) \/ \E autoScroll \in BOOLEAN : onMessage(id, autoScroll)

UserStep ==
  \/ Subscribe \/ clear \/ openRecording
  \/ \E topics \in TopicFilters : setFilter(topics)
  \/ \E line \in 1..MaxMessages : onHistorySelected(line)
  \/ \E id \in Ids : mute(id) \/ unmute(id) \/ solo(id) \/ clearSubscription(id)

Next == CallbackStep \/ RowStep \/ UserStep \/ \E showDt \in BOOLEAN : Paint(showDt)

Spec == Init /\ [][Next]_vars

-------------------------------------------------------------------------------
(* Safety *)

\* The table shows, in order and once, exactly the messages that are neither
\* muted nor filtered out, however muting, filters, clearing and arrivals mix;
\* nothing is said of messages whose row is gone.
RemapIsExact ==
  TypeOK /\
  (alive =>
    /\ \A i \in 1..Len(mRemap) - 1 : mRemap[i] < mRemap[i + 1]
    /\ \A k \in 1..Len(mMessages) \ Orphans :
         (\E i \in 1..Len(mRemap) : mRemap[i] = k)
           <=> Visible(mMessages[k], muted, mFilter))

\* The messages of a subscription stay together: a step removes all or none.
CountOf(messages, id) ==
  Cardinality({i \in 1..Len(messages) : messages[i].subscriptionId = id})

Together ==
  \A id \in Ids : \/ CountOf(mMessages', id) >= CountOf(mMessages, id)
                  \/ CountOf(mMessages', id) = 0
AllOrNothing == [][Together]_vars

===============================================================================
