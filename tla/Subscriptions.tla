----------------------------- MODULE Subscriptions -----------------------------
(***************************************************************************)
(* The subscriptions of one client tab: the registry of MQTT::Client, the  *)
(* rows of GUI::Models::Subscriptions, and what the broker holds.          *)
(*                                                                         *)
(* A row and a registry entry have the same id.  The GUI thread adds both, *)
(* in several steps; the callback thread of the MQTT library removes the   *)
(* registry entry when an answer arrives, after it has queued an           *)
(* UNSUBSCRIBED event to the row (a wxEvtHandler of its own), whose        *)
(* handler removes the row.  No lock orders the two threads.               *)
(*                                                                         *)
(* External (Paho and the broker, not under src/): requests about the same *)
(* filter are answered in order; when the connection ends, requests still  *)
(* unanswered fail one by one before its end is reported; the session is   *)
(* clean, so the broker forgets it then.                                   *)
(***************************************************************************)
EXTENDS Naturals, Sequences

CONSTANTS
  Filters,          \* topic filters a user may type
  Matches,          \* <<f, g>> such that Client::match(f, g)
  MaxIds,           \* bound: subscriptions created in the life of the tab
  MaxInFlight,      \* bound: unanswered requests about one filter
  BrokerMayReject   \* TRUE: a SUBACK may carry a failure

Ids == 1..MaxIds

ASSUME SubscriptionsAssumption ==
  /\ "none" \notin Filters
  /\ Matches \subseteq Filters \X Filters
  /\ \A f \in Filters : <<f, f>> \in Matches
  /\ MaxIds \in Nat /\ MaxInFlight \in Nat
  /\ BrokerMayReject \in BOOLEAN

VARIABLES
  mSubscriptionIds, \* MQTT::Client: the last id given out
  registry,         \* MQTT::Client::mSubscriptions, its keys
  filter, state,    \* of the MQTT::Subscription with that id
  rows,             \* GUI::Models::Subscriptions::mSubscriptions, its keys
  told,             \* rows with an UNSUBSCRIBED event in their queue
  gui, cur,         \* where the GUI thread is inside subscribe, and for which id
  callback, cid,    \* an entry the callback thread is about to erase
  net, closing,     \* the connection, and whether a DISCONNECT is pending
  inflight,         \* unanswered requests, per filter
  broker,           \* filters the broker holds for this session
  \* What follows is not in the code.
  late,             \* rows made when their entry was already being erased
  stale,            \* entries whose state is left from an earlier connection
  spared            \* entries for whose refused request another was removed

client == <<mSubscriptionIds, registry, filter, state>>
model  == <<rows, told, late, stale, spared>>
threads == <<gui, cur, callback, cid>>
wire   == <<net, closing, inflight, broker>>
vars   == <<client, model, threads, wire>>

States == {"none", "ToSubscribe", "PendingSubscription", "Subscribed",
           "PendingUnsubscription", "Unsubscribed"}

TypeOK ==
  /\ mSubscriptionIds \in 0..MaxIds
  /\ registry \subseteq 1..mSubscriptionIds
  /\ filter \in [Ids -> Filters \cup {"none"}]
  /\ state \in [Ids -> States]
  /\ rows \subseteq Ids /\ told \subseteq rows /\ late \subseteq rows
  /\ stale \subseteq Ids /\ spared \subseteq Ids
  /\ gui \in {"idle", "check", "mark", "attach"}
  /\ callback \in {"idle", "erase"}
  /\ cur \in 0..MaxIds /\ cid \in 0..MaxIds
  /\ net \in {"down", "acked", "up", "lost", "ended"} /\ closing \in BOOLEAN
  /\ inflight \in [Filters -> Seq({"SUB", "UNSUB"})]
  /\ broker \subseteq Filters

-------------------------------------------------------------------------------
(* Helpers *)

connected == net \in {"acked", "up"}

\* The registry entries for a filter; the code takes the first.
Registered(f) == {id \in registry : filter[id] = f}

\* The entry of the callback thread is as good as gone.
Dying(id) == callback = "erase" /\ cid = id

Send(f, request) == inflight' = [inflight EXCEPT ![f] = Append(@, request)]

\* Mutant of cleanSubscriptions: spares the ones already answered.
CleanUnanswered ==
  state' = [id \in Ids |-> IF id \in registry /\ state[id] # "Subscribed"
                           THEN "ToSubscribe" ELSE state[id]]

\* Every MQTT::Subscription goes back to ToSubscribe, whatever its state.
cleanSubscriptions ==
  state' = [id \in Ids |-> IF id \in registry THEN "ToSubscribe" ELSE state[id]]

\* Mutants of NotifyUnsubscribed: erasing without a word; with the entry left
\* in the registry.
EraseSilently(id) ==
  /\ UNCHANGED told
  /\ callback' = "erase" /\ cid' = id
NotifyOnly(id) ==
  /\ told' = IF id \in rows THEN told \cup {id} ELSE told
  /\ UNCHANGED <<callback, cid>>

\* The observers of the MQTT::Subscription are notified (if it has a row by
\* now, an event goes to the row); the entry is erased in the next step.
NotifyUnsubscribed(id) ==
  /\ told' = IF id \in rows THEN told \cup {id} ELSE told
  /\ callback' = "erase" /\ cid' = id

-------------------------------------------------------------------------------

Init ==
  /\ mSubscriptionIds = 0 /\ registry = {}
  /\ filter = [id \in Ids |-> "none"] /\ state = [id \in Ids |-> "none"]
  /\ rows = {} /\ told = {} /\ late = {} /\ stale = {} /\ spared = {}
  /\ gui = "idle" /\ cur = 0 /\ callback = "idle" /\ cid = 0
  /\ net = "down" /\ closing = FALSE
  /\ inflight = [f \in Filters |-> <<>>] /\ broker = {}

-------------------------------------------------------------------------------
(* The GUI thread *)

\* Mutant of subscribe: looks at the rows only.
SubscribeUnlessShown(f) ==
  /\ gui = "idle" /\ mSubscriptionIds < MaxIds
  /\ \A id \in rows : filter[id] # f
  /\ LET id == mSubscriptionIds + 1 IN
       /\ mSubscriptionIds' = id /\ cur' = id
       /\ registry' = registry \cup {id}
       /\ filter' = [filter EXCEPT ![id] = f]
       /\ state' = [state EXCEPT ![id] = "ToSubscribe"]
  /\ gui' = "check"
  /\ UNCHANGED <<model, callback, cid, wire>>

\* Models::Subscriptions::subscribe, up to the entry in the registry.  A filter
\* that has a row is not subscribed again; one that has an entry shares it.
subscribe(f) ==
  /\ gui = "idle"
  /\ \A id \in rows : filter[id] # f
  /\ \/ /\ Registered(f) = {} /\ mSubscriptionIds < MaxIds
        /\ LET id == mSubscriptionIds + 1 IN
             /\ mSubscriptionIds' = id /\ cur' = id
             /\ registry' = registry \cup {id}
             /\ filter' = [filter EXCEPT ![id] = f]
             /\ state' = [state EXCEPT ![id] = "ToSubscribe"]
        /\ gui' = "check"
     \/ /\ cur' \in Registered(f)
        /\ gui' = "attach"
        /\ UNCHANGED client
  /\ UNCHANGED <<model, callback, cid, wire>>

\* MQTT::Client::subscribe goes on: if connected, doSubscribe sends a request ...
doSubscribe ==
  /\ gui = "check"
  /\ IF connected /\ cur \in registry /\ state[cur] = "ToSubscribe"
     THEN Send(filter[cur], "SUB") /\ gui' = "mark"
     ELSE gui' = "attach" /\ UNCHANGED inflight
  /\ UNCHANGED <<client, model, cur, callback, cid, net, closing, broker>>

\* ... and only then, perhaps after the answer, sets the state.
SetPending ==
  /\ gui = "mark"
  /\ state' = [state EXCEPT ![cur] = "PendingSubscription"]
  /\ gui' = "attach"
  /\ UNCHANGED <<mSubscriptionIds, registry, filter, model, cur, callback, cid, wire>>

\* The row is built: it observes the MQTT::Subscription from here on.
AttachRow ==
  /\ gui = "attach"
  /\ rows' = rows \cup {cur}
  /\ late' = IF cur \notin registry \/ Dying(cur) THEN late \cup {cur} ELSE late
  /\ gui' = "idle" /\ cur' = 0
  /\ UNCHANGED <<client, told, stale, spared, callback, cid, wire>>

\* MQTT::Subscription::unsubscribe and MQTT::Client::unsubscribe.
unsubscribe(id) ==
  /\ gui = "idle" /\ id \in rows
  /\ state[id] \in {"ToSubscribe", "PendingSubscription", "Subscribed"}
  /\ id \in registry
  /\ \/ /\ connected /\ Len(inflight[filter[id]]) < MaxInFlight
        /\ state' = [state EXCEPT ![id] = "PendingUnsubscription"]
        /\ Send(filter[id], "UNSUB")
        /\ UNCHANGED <<registry, told, stale>>
     \/ /\ ~connected
        /\ state' = [state EXCEPT ![id] = "Unsubscribed"]
        /\ told' = told \cup {id}
        /\ registry' = registry \ {id} /\ stale' = stale \ {id}
        /\ UNCHANGED inflight
  /\ UNCHANGED <<mSubscriptionIds, filter, rows, late, spared, threads, net, closing, broker>>

\* Models::Subscriptions::onUnsubscribed: the row goes, and its queue with it.
onUnsubscribed(id) ==
  /\ gui = "idle" /\ id \in told
  /\ rows' = rows \ {id} /\ told' = told \ {id} /\ late' = late \ {id}
  /\ UNCHANGED <<client, stale, spared, threads, wire>>

\* MQTT::Client::disconnect.  Its button is shown once `connected` was called,
\* and hidden by its click.
disconnect ==
  /\ gui = "idle" /\ net = "up" /\ ~closing
  /\ closing' = TRUE
  /\ cleanSubscriptions
  /\ stale' = {}
  /\ UNCHANGED <<mSubscriptionIds, registry, filter, rows, told, late, spared, threads,
                 net, inflight, broker>>

-------------------------------------------------------------------------------
(* The callback thread, and what Paho and the broker do *)

Connack ==
  /\ net = "down" /\ net' = "acked"
  /\ UNCHANGED <<client, model, threads, closing, inflight, broker>>

\* Mutant of onConnected: what was subscribed offline stays so.
ConnectedOnly ==
  /\ net = "acked" /\ net' = "up"
  /\ UNCHANGED <<client, model, threads, closing, inflight, broker>>

\* The callback `connected`: doSubscribe for every entry.
onConnected ==
  /\ net = "acked" /\ net' = "up"
  /\ LET todo == {id \in registry : state[id] = "ToSubscribe"} IN
       /\ state' = [id \in Ids |-> IF id \in todo THEN "PendingSubscription"
                                                  ELSE state[id]]
       /\ inflight' = [f \in Filters |->
                         IF \E id \in todo : filter[id] = f
                         THEN Append(inflight[f], "SUB") ELSE inflight[f]]
       /\ stale' = stale \ todo
  /\ UNCHANGED <<mSubscriptionIds, registry, filter, rows, told, late, spared, threads,
                 closing, broker>>

\* The answer to the oldest request about f arrives.
Answered(f, request) ==
  /\ net = "up" /\ callback = "idle"
  /\ inflight[f] # <<>> /\ Head(inflight[f]) = request
  /\ inflight' = [inflight EXCEPT ![f] = Tail(@)]

\* The first entry, in the order of ids, whose filter matches f is removed: not
\* necessarily the one that asked for f.
RemoveFirstMatch(f) ==
  LET matching == {id \in registry : <<filter[id], f>> \in Matches} IN
    IF matching = {} THEN UNCHANGED <<told, callback, cid>>
    ELSE \E id \in matching :
           /\ \A other \in matching : id <= other
           /\ NotifyUnsubscribed(id)

onSuccessSubscribe(f) ==
  /\ Answered(f, "SUB")
  /\ broker' = broker \cup {f}
  /\ state' = [id \in Ids |-> IF id \in Registered(f) THEN "Subscribed" ELSE state[id]]
  /\ stale' = stale \ Registered(f)
  /\ UNCHANGED <<mSubscriptionIds, registry, filter, rows, told, late, spared, threads,
                 net, closing>>

onFailureSubscribe(f) ==
  /\ BrokerMayReject
  /\ Answered(f, "SUB")
  /\ RemoveFirstMatch(f)
  /\ spared' = spared \cup (Registered(f) \ {cid'})
  /\ UNCHANGED <<client, rows, late, stale, gui, cur, net, closing, broker>>

onSuccessUnsubscribe(f) ==
  /\ Answered(f, "UNSUB")
  /\ broker' = broker \ {f}
  /\ IF Registered(f) = {} THEN UNCHANGED <<state, told, callback, cid>>
     ELSE \E id \in Registered(f) :
            /\ state' = [state EXCEPT ![id] = "Unsubscribed"]
            /\ NotifyUnsubscribed(id)
  /\ UNCHANGED <<mSubscriptionIds, registry, filter, rows, late, stale, spared, gui, cur,
                 net, closing>>

\* mSubscriptions.erase, the last statement of the two handlers.
Erase ==
  /\ callback = "erase" /\ callback' = "idle"
  /\ registry' = registry \ {cid} /\ stale' = stale \ {cid} /\ cid' = 0
  /\ UNCHANGED <<mSubscriptionIds, filter, state, rows, told, late, spared, gui, cur, wire>>

\* The connection breaks, or the pending DISCONNECT is carried out.
Breaks ==
  /\ net = "up" /\ net' \in {"lost"} \cup (IF closing THEN {"ended"} ELSE {})
  /\ closing' = FALSE /\ broker' = {}
  /\ UNCHANGED <<client, model, threads, inflight>>

\* Paho fails what is still unanswered; a failed UNSUBSCRIBE is only logged.
FailRequest(f) ==
  /\ net \in {"lost", "ended"} /\ callback = "idle"
  /\ inflight[f] # <<>>
  /\ inflight' = [inflight EXCEPT ![f] = Tail(@)]
  /\ IF Head(inflight[f]) = "SUB" THEN RemoveFirstMatch(f)
                                  ELSE UNCHANGED <<told, callback, cid>>
  /\ UNCHANGED <<client, rows, late, stale, spared, gui, cur, net, closing, broker>>

\* The callback connection_lost; after a DISCONNECT it is on_success instead,
\* which leaves the registry alone.
connection_lost ==
  /\ net \in {"lost", "ended"} /\ callback = "idle"
  /\ \A f \in Filters : inflight[f] = <<>>
  /\ IF net = "lost" THEN cleanSubscriptions ELSE UNCHANGED state
  /\ stale' = {id \in registry : \/ gui = "mark" /\ cur = id
                                 \/ net = "ended" /\ state[id] # "ToSubscribe"}
  /\ spared' = {}
  /\ net' = "down"
  /\ UNCHANGED <<mSubscriptionIds, registry, filter, rows, told, late, threads,
                 closing, inflight, broker>>

-------------------------------------------------------------------------------

User ==
  \/ \E f \in Filters : subscribe(f)
  \/ \E id \in Ids : unsubscribe(id)
  \/ disconnect

GuiStep ==
  \/ doSubscribe \/ SetPending \/ AttachRow
  \/ \E id \in Ids : onUnsubscribed(id)

CallbackStep ==
  \/ onConnected \/ Erase \/ connection_lost
  \/ \E f \in Filters :
       \/ onSuccessSubscribe(f) \/ onFailureSubscribe(f)
       \/ onSuccessUnsubscribe(f) \/ FailRequest(f)

Network == Connack \/ Breaks

Next == User \/ GuiStep \/ CallbackStep \/ Network

Spec == Init /\ [][Next]_vars

-------------------------------------------------------------------------------
(* Safety *)

\* A filter is registered once and shown once: a message never appears twice
\* because its filter was subscribed twice.
FiltersAreUnique ==
  /\ \A id, other \in registry : filter[id] = filter[other] => id = other
  /\ \A id, other \in rows : filter[id] = filter[other] => id = other

\* Whatever the client holds open has a row to remove it from, unless that row
\* is being made or the entry is being erased.
RegisteredHasRow ==
  \A id \in registry : id \in rows \/ (gui # "idle" /\ cur = id) \/ Dying(id)

\* A row outlives its registry entry only until its UNSUBSCRIBED event is
\* handled; the exception are rows that were made too late to be told.
RowIsBacked ==
  \A id \in rows : id \in registry \ (IF callback = "erase" THEN {cid} ELSE {})
                   \/ id \in told \/ id \in late

\* While the connection is up, every entry is held by the broker, or a request
\* about its filter is under way, or it is about to be sent or to go: those made
\* offline, and those of an earlier connection, are asked for again.  Three windows
\* are the exceptions: between the request and the state that is set behind it
\* (doSubscribe) the connection may end; the end of a DISCONNECT leaves the states
\* as they are (both in stale); and a refusal may remove another entry than the one
\* refused (spared).
NothingIsForgotten ==
  net = "up" /\ ~closing =>
    \A id \in registry \ (stale \cup spared) :
      \/ filter[id] \in broker \/ inflight[filter[id]] # <<>>
      \/ Dying(id) \/ (gui = "check" /\ cur = id)

\* What the client calls Subscribed is held by the broker, across reconnections;
\* the exception are those it called so when a DISCONNECT ended the connection.
SubscribedIsHeld ==
  net = "up" => \A id \in registry \ stale :
                  state[id] = "Subscribed" => filter[id] \in broker

===============================================================================
