------------------------------ MODULE Connection ------------------------------
(***************************************************************************)
(* The life of one MQTT connection of a client tab.                        *)
(*                                                                         *)
(* Two threads act.  The GUI thread runs the button handlers and the       *)
(* queued notifications of GUI::Tabs::Client; the callback thread of the   *)
(* MQTT library (Paho, not under src/) runs the handlers of MQTT::Client,  *)
(* which it may hold for seconds: MQTT::Client::reconnect sleeps on it.    *)
(* The two share the flags of MQTT::Client without a lock.  A              *)
(* notification travels from the callback thread to the GUI thread as an   *)
(* event of the tab's queue.                                               *)
(***************************************************************************)
EXTENDS Naturals, Sequences

CONSTANTS
  MaxRetries,       \* BrokerOptions::getMaxReconnectRetries
  AutoReconnect,    \* BrokerOptions::getAutoReconnect
  PahoErrors,       \* TRUE: Paho's connect may throw, its DISCONNECT may fail
  MaxLag            \* bound: the link breaks only while the GUI thread has at
                    \* most this many notifications to handle

ASSUME ConnectionAssumption ==
  /\ MaxRetries \in Nat
  /\ AutoReconnect \in BOOLEAN
  /\ PahoErrors \in BOOLEAN
  /\ MaxLag \in Nat

VARIABLES
  mCanceled, mShouldReconnect, mRetries,    \* MQTT::Client
  link,             \* the connection, as Paho knows it
  closing,          \* a DISCONNECT has been handed to Paho
  callback,         \* where the callback thread is inside reconnect
  events,           \* notifications queued to the tab
  gui,              \* where the GUI thread is inside onDisconnectClicked
  view,             \* the one button the tab shows
  tab,
  \* What follows is not in the code; the properties speak of it.
  attempts,         \* automatic attempts since the last connection
  lateAttempts,     \* ... those begun after Cancel had been clicked
  swallowed         \* an error of Paho's has been logged and forgotten

flags == <<mCanceled, mShouldReconnect, mRetries>>
paho  == <<link, closing, callback>>
ui    == <<events, gui, view, tab>>
ghost == <<attempts, lateAttempts, swallowed>>
vars  == <<flags, paho, ui, ghost>>

Links == {"closed", "connecting", "acked", "up", "lost"}
Events == {"CONNECTED", "DISCONNECTED", "LOST", "FAILURE"}

TypeOK ==
  /\ mCanceled \in BOOLEAN /\ mShouldReconnect \in BOOLEAN
  /\ mRetries \in 0..(MaxRetries + 1)
  /\ link \in Links /\ closing \in BOOLEAN
  /\ callback \in {"idle", "waiting", "attempt"}
  /\ events \in Seq(Events)
  /\ gui \in {"idle", "checking", "submitting"}
  /\ view \in {"connect", "disconnect", "cancel"}
  /\ tab \in {"open", "closed"}
  /\ attempts \in Nat /\ lateAttempts \in Nat
  /\ swallowed \in BOOLEAN

-------------------------------------------------------------------------------
(* Helpers *)

\* mqtt::async_client::is_connected: TRUE from the CONNACK on, before the
\* callback `connected` has run, and until the socket is gone.
connected == link \in {"acked", "up"}

\* Mutant: the destructor of the tab does not detach the observer.
PostToAll(notes) == events' = events \o notes
\* MQTT::Client notifies mObservers, which is empty once the tab is closed.
Post(notes) == events' = IF tab = "open" THEN events \o notes ELSE events

\* The handlers on*Sync of the tab: the button an event leaves on the screen.
ViewAfter(e) ==
  CASE e = "CONNECTED" -> "disconnect"
    [] e = "LOST" -> "cancel"
    [] OTHER -> "connect"

\* Mutant: postfix instead of prefix increment, one attempt too many.
OutOfRetriesPostfix == mRetries > MaxRetries
\* ++mRetries > getMaxReconnectRetries()
OutOfRetries == mRetries + 1 > MaxRetries

\* Mutant: the last failure is not announced.
reconnectSilently(notes) ==
  /\ Post(notes)
  /\ IF mShouldReconnect /\ AutoReconnect
     THEN /\ mRetries' = mRetries + 1
          /\ callback' = IF OutOfRetries THEN "idle" ELSE "waiting"
     ELSE UNCHANGED <<mRetries, callback>>

\* The head of MQTT::Client::reconnect, up to its wait.  `notes` are the
\* notifications that the calling handler posted before it.
reconnect(notes) ==
  IF mShouldReconnect /\ AutoReconnect
  THEN /\ mRetries' = mRetries + 1
       /\ callback' = IF OutOfRetries THEN "idle" ELSE "waiting"
       /\ Post(IF OutOfRetries THEN notes \o <<"FAILURE">> ELSE notes)
  ELSE /\ Post(notes \o <<"FAILURE">>)
       /\ UNCHANGED <<mRetries, callback>>

\* mClient->connect(...), which may throw; the exception is only logged.
PahoConnect ==
  \/ link' = "connecting" /\ UNCHANGED swallowed
  \/ PahoErrors /\ link' = "closed" /\ swallowed' = TRUE

\* MQTT::Client::connect: a fresh async_client replaces the old one.
ClientConnect ==
  /\ mCanceled' = FALSE /\ mShouldReconnect' = FALSE /\ mRetries' = 0
  /\ attempts' = 0 /\ lateAttempts' = 0
  /\ PahoConnect

-------------------------------------------------------------------------------
(* The tab is built: the constructor ends with mClient->connect().          *)

Init ==
  /\ mCanceled = FALSE /\ mShouldReconnect = FALSE /\ mRetries = 0
  /\ \/ link = "connecting" /\ swallowed = FALSE
     \/ PahoErrors /\ link = "closed" /\ swallowed = TRUE
  /\ closing = FALSE /\ callback = "idle"
  /\ events = <<>> /\ gui = "idle" /\ view = "cancel" /\ tab = "open"
  /\ attempts = 0 /\ lateAttempts = 0

-------------------------------------------------------------------------------
(* The GUI thread *)

\* The handler returns at once when connected; otherwise allowCancel and
\* MQTT::Client::connect.
onConnectClicked ==
  /\ tab = "open" /\ gui = "idle" /\ view = "connect"
  /\ ~connected
  /\ view' = "cancel"
  /\ ClientConnect
  /\ UNCHANGED <<closing, callback, events, gui, tab>>

\* The first half of the handler: it looks at the connection, and shows the
\* Cancel button.
onDisconnectClicked ==
  /\ tab = "open" /\ gui = "idle" /\ view = "disconnect"
  /\ connected
  /\ view' = "cancel" /\ gui' = "checking"
  /\ UNCHANGED <<flags, paho, events, tab, ghost>>

\* MQTT::Client::disconnect looks at the connection again ...
DisconnectChecks ==
  /\ gui = "checking"
  /\ IF connected
     THEN /\ mCanceled' = FALSE /\ lateAttempts' = 0
          /\ gui' = "submitting"
     ELSE /\ gui' = "idle"
          /\ UNCHANGED <<mCanceled, lateAttempts>>
  /\ UNCHANGED <<mShouldReconnect, mRetries, paho, events, view, tab,
                 attempts, swallowed>>

\* ... and calls Paho, which throws when the connection broke meanwhile.
DisconnectSubmits ==
  /\ gui = "submitting"
  /\ gui' = "idle"
  /\ closing' = (closing \/ connected)
  /\ UNCHANGED <<flags, link, callback, events, view, tab, ghost>>

onCancelClicked ==
  /\ tab = "open" /\ gui = "idle" /\ view = "cancel"
  /\ mCanceled' = TRUE
  /\ UNCHANGED <<mShouldReconnect, mRetries, paho, ui,
                 attempts, lateAttempts, swallowed>>

\* The event loop hands the next queued notification to its handler.
HandleEvent ==
  /\ tab = "open" /\ gui = "idle" /\ events # <<>>
  /\ view' = ViewAfter(Head(events))
  /\ events' = Tail(events)
  /\ UNCHANGED <<flags, paho, gui, tab, ghost>>

\* The destructor of the tab: disconnect, detachObserver; its queue dies with
\* it.  A subscription holds a shared_ptr to the MQTT client, which then
\* outlives the tab (`kept`); without one the MQTT client is destroyed here.
CloseTab(kept) ==
  /\ tab = "open" /\ gui = "idle"
  /\ tab' = "closed" /\ events' = <<>>
  /\ mCanceled' = IF connected THEN FALSE ELSE mCanceled
  /\ lateAttempts' = IF connected THEN 0 ELSE lateAttempts
  /\ closing' = (kept /\ (closing \/ connected))
  /\ link' = IF kept THEN link ELSE "closed"
  /\ callback' = IF kept THEN callback ELSE "idle"
  /\ UNCHANGED <<mShouldReconnect, mRetries, gui, view, attempts, swallowed>>

-------------------------------------------------------------------------------
(* The callback thread: one handler at a time. *)

onSuccessConnect ==
  /\ callback = "idle" /\ link = "connecting"
  /\ link' = "acked" /\ mRetries' = 0
  /\ UNCHANGED <<mCanceled, mShouldReconnect, closing, callback, ui, ghost>>

onFailureConnect ==
  /\ callback = "idle" /\ link = "connecting"
  /\ link' = "closed"
  /\ reconnect(<<>>)
  /\ UNCHANGED <<mCanceled, mShouldReconnect, closing, gui, view, tab, ghost>>

\* The callback `connected` (its subscriptions are in Subscriptions.tla).
\* Paho runs it right after on_success, before it notices any loss.
onConnected ==
  /\ link = "acked"
  /\ link' = "up"
  /\ mRetries' = 0 /\ mShouldReconnect' = TRUE
  /\ Post(<<"CONNECTED">>)
  /\ attempts' = 0
  /\ UNCHANGED <<mCanceled, closing, callback, gui, view, tab, lateAttempts, swallowed>>

connection_lost ==
  /\ link = "lost"
  /\ link' = "closed"
  /\ reconnect(<<"LOST">>)
  /\ UNCHANGED <<mCanceled, mShouldReconnect, closing, gui, view, tab, ghost>>

onSuccessDisconnect ==
  /\ link = "up" /\ closing
  /\ link' = "closed" /\ closing' = FALSE
  /\ Post(<<"DISCONNECTED">>)
  /\ UNCHANGED <<flags, callback, gui, view, tab, ghost>>

\* The failure is only logged.
onFailureDisconnect ==
  /\ PahoErrors /\ link = "up" /\ closing
  /\ link' = "closed" /\ closing' = FALSE /\ swallowed' = TRUE
  /\ UNCHANGED <<flags, callback, ui, attempts, lateAttempts>>

\* Mutant: the early return after the notification is missing.
WaitIsCanceledFallsThrough ==
  /\ callback = "waiting" /\ mCanceled
  /\ callback' = "attempt"
  /\ Post(<<"DISCONNECTED">>)
  /\ UNCHANGED <<flags, link, closing, gui, view, tab, ghost>>

\* Mutant: a canceled wait is not announced.
WaitIsCanceledSilently ==
  /\ callback = "waiting" /\ mCanceled
  /\ callback' = "idle"
  /\ UNCHANGED <<flags, link, closing, ui, ghost>>

\* reconnect, after its wait of ReconnectAfterMs or on seeing mCanceled.
WaitIsCanceled ==
  /\ callback = "waiting" /\ mCanceled
  /\ callback' = "idle"
  /\ Post(<<"DISCONNECTED">>)
  /\ UNCHANGED <<flags, link, closing, gui, view, tab, ghost>>

\* Mutant: the flag is not looked at again after the wait.
WaitElapsesBlindly ==
  /\ callback = "waiting"
  /\ callback' = "attempt"
  /\ UNCHANGED <<flags, link, closing, ui, ghost>>

WaitElapses ==
  /\ callback = "waiting" /\ ~mCanceled
  /\ callback' = "attempt"
  /\ UNCHANGED <<flags, link, closing, ui, ghost>>

\* The tail of reconnect.  Cancel may have been clicked since the flag was read.
Attempt ==
  /\ callback = "attempt"
  /\ callback' = "idle"
  /\ mShouldReconnect' = TRUE
  /\ PahoConnect
  /\ attempts' = attempts + 1
  /\ lateAttempts' = IF mCanceled THEN lateAttempts + 1 ELSE lateAttempts
  /\ UNCHANGED <<mCanceled, mRetries, closing, ui>>

-------------------------------------------------------------------------------
(* The network.  With a DISCONNECT pending Paho first fails its token, which *)
(* onFailureDisconnect logs.                                                 *)

LinkBreaks ==
  /\ link = "up" /\ Len(events) <= MaxLag
  /\ link' = "lost" /\ closing' = FALSE
  /\ UNCHANGED <<flags, callback, ui, ghost>>

-------------------------------------------------------------------------------

GuiStep == DisconnectChecks \/ DisconnectSubmits \/ HandleEvent

User ==
  \/ onConnectClicked \/ onDisconnectClicked \/ onCancelClicked
  \/ \E kept \in BOOLEAN : CloseTab(kept)

CallbackStep ==
  \/ onSuccessConnect \/ onFailureConnect \/ onConnected \/ connection_lost
  \/ onSuccessDisconnect \/ onFailureDisconnect
  \/ WaitIsCanceled \/ WaitElapses \/ Attempt

Next == GuiStep \/ User \/ CallbackStep \/ LinkBreaks

Spec == Init /\ [][Next]_vars

\* The event loop runs, Paho answers every request in the end (connect and
\* disconnect have timeouts) and its thread is scheduled.  Users and networks
\* owe nothing.
FairSpec == Spec /\ WF_vars(GuiStep) /\ WF_vars(CallbackStep)

-------------------------------------------------------------------------------
(* Safety *)

\* mClient is in use by the callback thread or by Paho.
InUse == link # "closed" \/ callback # "idle"

\* While the tab offers Connect, whose handler replaces mClient, the old
\* client is at rest and every notification about it has been handled: no
\* late event of an old session can reach the view of a new one.
ConnectReplacesIdleClient ==
  tab = "open" /\ view = "connect" => ~InUse /\ events = <<>>

\* Once the GUI thread has caught up, the button on screen is the one for the
\* true state of the connection; the exception is an error of Paho's that the
\* code only logs.
SettledViewIsTrue ==
  tab = "open" /\ gui = "idle" /\ events = <<>> =>
    /\ link = "up" /\ ~closing => view = "disconnect"
    /\ link \in {"connecting", "acked"} \/ callback # "idle" => view = "cancel"
    /\ ~InUse /\ ~swallowed => view = "connect"

\* Between two connections the application tries again by itself at most
\* MaxRetries times, and not at all unless the profile says so.
RetriesAreBounded == attempts <= IF AutoReconnect THEN MaxRetries ELSE 0

\* A click on Cancel may come after reconnect has read the flag for the last
\* time: one more attempt is made, and never a second one.
CancelStopsRetries == lateAttempts <= 1

-------------------------------------------------------------------------------
(* The observer interface *)

\* The session that Connection is carrying out for the tab.
session ==
  IF tab = "closed" THEN "abandoned"
  ELSE IF swallowed THEN "dead"
  ELSE IF link \in {"up", "lost"} THEN IF closing THEN "closing" ELSE "live"
  ELSE IF link = "closed" /\ callback = "idle" THEN "idle"
  ELSE "trying"

Contract == INSTANCE ConnectionContract WITH
              MayDie <- PahoErrors, posted <- events

\* The notifications of MQTT::Client keep the order its observers rely on:
\* a loss is announced before its outcome, an outcome ends the session, and
\* no session starts over unread notifications of the last one.
KeepsContract == Contract!CSpec

-------------------------------------------------------------------------------
(* Liveness.  swallowed excepts a connect call of Paho that throws and a      *)
(* DISCONNECT that fails: the code logs them and nothing is left to happen.   *)

\* The Cancel button is never the last word: either the connection is made,
\* or the tab offers to connect again.
CancelViewResolves ==
  tab = "open" /\ view = "cancel" ~> tab = "closed" \/ view # "cancel" \/ swallowed

\* Every lost connection is in the end re-established or reported as given up.
LossIsResolved ==
  tab = "open" /\ link = "lost" ~>
    tab = "closed" \/ link = "up" \/ view = "connect" \/ swallowed

===============================================================================
