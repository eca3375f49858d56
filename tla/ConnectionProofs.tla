--------------------------- MODULE ConnectionProofs ---------------------------
(***************************************************************************)
(* The safety properties of Connection for every number of retries, every  *)
(* length of the event queue, and with or without errors of Paho's.        *)
(***************************************************************************)
EXTENDS Connection, TLAPS

Terminal == {"DISCONNECTED", "FAILURE"}

\* The button that will be on screen when the queue has been handled.
FinalView == IF events = <<>> THEN view ELSE ViewAfter(events[Len(events)])

Trying == link \in {"connecting", "acked"} \/ callback # "idle"

\* The callback thread sits in reconnect only while there is no connection,
\* and a DISCONNECT is pending only at a connection.
PhasesInv ==
  /\ callback # "idle" => link = "closed"
  /\ closing => link \in {"acked", "up"}
  /\ gui # "idle" => tab = "open" /\ view = "cancel"

\* An outcome is the last notification of its session.
QueueInv ==
  tab = "open" =>
    /\ view = "connect" => ~InUse /\ events = <<>>
    /\ \A i \in 1..Len(events) :
         events[i] \in Terminal => i = Len(events) /\ ~InUse /\ ~swallowed
    /\ swallowed => ~InUse /\ view # "connect"

\* The notifications under way lead to the right button.
ViewInv ==
  tab = "open" =>
    /\ Trying => FinalView = "cancel"
    /\ ~InUse /\ ~swallowed => FinalView = "connect"
    /\ link = "up" /\ ~closing /\ gui = "idle" => FinalView = "disconnect"

\* mRetries counts the waits, one ahead of the attempts made.
RetryInv ==
  /\ attempts <= IF AutoReconnect THEN MaxRetries ELSE 0
  /\ mRetries > 0 => AutoReconnect
  /\ callback # "idle" => attempts < mRetries /\ mRetries <= MaxRetries
  /\ link = "connecting" => attempts <= mRetries /\ mRetries <= MaxRetries
  /\ link = "acked" => mRetries = 0
  /\ link \in {"up", "lost"} => attempts = 0 /\ mRetries = 0

\* An attempt under a raised flag is the last one.
CancelInv ==
  /\ lateAttempts <= 1
  /\ lateAttempts > 0 => mCanceled /\ callback # "attempt"

IInv == TypeOK /\ PhasesInv /\ QueueInv /\ ViewInv /\ RetryInv /\ CancelInv

-------------------------------------------------------------------------------
(* What posting does to the queue. *)

\* Posting one notification leaves the old ones in place and makes it the last.
LEMMA PostOne ==
  ASSUME events \in Seq(Events), tab = "open", NEW e \in Events, Post(<<e>>)
  PROVE  /\ events' \in Seq(Events) /\ events' # <<>>
         /\ Len(events') = Len(events) + 1
         /\ events'[Len(events')] = e
         /\ \A i \in 1..Len(events) : events'[i] = events[i]
BY DEF Post, Events

\* The same of the two notifications of a loss that is given up at once.
LEMMA PostTwo ==
  ASSUME events \in Seq(Events), tab = "open", Post(<<"LOST">> \o <<"FAILURE">>)
  PROVE  /\ events' \in Seq(Events) /\ events' # <<>>
         /\ Len(events') = Len(events) + 2
         /\ events'[Len(events')] = "FAILURE"
         /\ events'[Len(events) + 1] = "LOST"
         /\ \A i \in 1..Len(events) : events'[i] = events[i]
BY DEF Post, Events

\* A closed tab's queue stays empty or as it was.
LEMMA PostClosed ==
  ASSUME tab # "open", NEW notes, Post(notes)
  PROVE  events' = events
BY DEF Post

\* Handling the first of several notifications does not change the last.
LEMMA HandleFirst ==
  ASSUME events \in Seq(Events), events # <<>>
  PROVE  /\ Head(events) = events[1] /\ Head(events) \in Events
         /\ Tail(events) \in Seq(Events)
         /\ Len(Tail(events)) = Len(events) - 1
         /\ \A i \in 1..Len(Tail(events)) : Tail(events)[i] = events[i + 1]
         /\ Tail(events) = <<>> <=> Len(events) = 1
<1>1. Len(events) \in Nat /\ Len(events) # 0
  OBVIOUS
<1>2. Head(events) = events[1] /\ events[1] \in Events
  BY <1>1
<1>3. Tail(events) \in Seq(Events) /\ Len(Tail(events)) = Len(events) - 1
  BY <1>1
<1>4. \A i \in 1..Len(Tail(events)) : Tail(events)[i] = events[i + 1]
  BY <1>1, <1>3
<1>5. Tail(events) = <<>> <=> Len(events) = 1
  BY <1>1, <1>3
<1>6. QED
  BY <1>2, <1>3, <1>4, <1>5

LEMMA InitIInv == Init => IInv
<1> SUFFICES ASSUME Init PROVE IInv
  OBVIOUS
<1> USE DEF Init
<1>1. TypeOK
  <2>1. swallowed \in BOOLEAN /\ link \in Links
    BY DEF Links
  <2>2. mRetries \in 0..(MaxRetries + 1)
    BY ConnectionAssumption DEF ConnectionAssumption
  <2>3. events \in Seq(Events)
    OBVIOUS
  <2>4. QED
    BY <2>1, <2>2, <2>3 DEF TypeOK
<1>2. PhasesInv /\ QueueInv
  BY DEF PhasesInv, QueueInv, InUse
<1>3. ViewInv
  BY DEF ViewInv, InUse, Trying, FinalView
<1>4. RetryInv /\ CancelInv
  BY ConnectionAssumption DEF ConnectionAssumption, RetryInv, CancelInv
<1>5. QED
  BY <1>1, <1>2, <1>3, <1>4 DEF IInv

-------------------------------------------------------------------------------
(* The step, action by action.  The actions which do not post leave the     *)
(* queue alone, or shorten it.                                              *)

LEMMA StepOnConnectClicked ==
  ASSUME IInv, onConnectClicked
  PROVE  IInv'
<1> USE DEF flags, paho, ui, ghost, IInv
<1>1. TypeOK'
  <2>1. mRetries' \in 0..(MaxRetries + 1) /\ attempts' \in Nat /\ lateAttempts' \in Nat
    BY ConnectionAssumption
       DEF onConnectClicked, ClientConnect, PahoConnect, connected, TypeOK,
       ConnectionAssumption
  <2>2. events' \in Seq(Events) /\ link' \in Links
    BY DEF onConnectClicked, ClientConnect, PahoConnect, connected, TypeOK, Links
  <2>3. /\ callback' \in {"idle", "waiting", "attempt"}
        /\ gui' \in {"idle", "checking", "submitting"}
        /\ view' \in {"connect", "disconnect", "cancel"}
        /\ tab' \in {"open", "closed"}
    BY DEF onConnectClicked, ClientConnect, PahoConnect, connected, TypeOK
  <2>4. /\ mCanceled' \in BOOLEAN /\ mShouldReconnect' \in BOOLEAN
        /\ closing' \in BOOLEAN /\ swallowed' \in BOOLEAN
    BY DEF onConnectClicked, ClientConnect, PahoConnect, connected, TypeOK
  <2>5. QED
    BY <2>1, <2>2, <2>3, <2>4 DEF TypeOK
<1>2. PhasesInv'
  BY DEF onConnectClicked, ClientConnect, PahoConnect, connected, TypeOK, PhasesInv,
     QueueInv, InUse, Links
<1>3. QueueInv'
  BY DEF onConnectClicked, ClientConnect, PahoConnect, connected, TypeOK, PhasesInv,
     QueueInv, ViewInv, InUse, Trying, FinalView, Terminal, Links
<1>4. ViewInv'
  BY DEF onConnectClicked, ClientConnect, PahoConnect, connected, TypeOK, PhasesInv,
     QueueInv, ViewInv, InUse, Trying, FinalView, Terminal, Links
<1>5. RetryInv' /\ CancelInv'
  BY ConnectionAssumption
     DEF onConnectClicked, ClientConnect, PahoConnect, connected, TypeOK, PhasesInv,
     QueueInv, InUse, RetryInv, CancelInv,
     ConnectionAssumption, Links
<1>6. QED
  BY <1>1, <1>2, <1>3, <1>4, <1>5 DEF IInv

LEMMA StepOnDisconnectClicked ==
  ASSUME IInv, onDisconnectClicked
  PROVE  IInv'
<1> USE DEF flags, paho, ui, ghost, IInv
<1>1. TypeOK'
  <2>1. mRetries' \in 0..(MaxRetries + 1) /\ attempts' \in Nat /\ lateAttempts' \in Nat
    BY ConnectionAssumption DEF onDisconnectClicked, connected, TypeOK, ConnectionAssumption
  <2>2. events' \in Seq(Events) /\ link' \in Links
    BY DEF onDisconnectClicked, connected, TypeOK, Links
  <2>3. /\ callback' \in {"idle", "waiting", "attempt"}
        /\ gui' \in {"idle", "checking", "submitting"}
        /\ view' \in {"connect", "disconnect", "cancel"}
        /\ tab' \in {"open", "closed"}
    BY DEF onDisconnectClicked, connected, TypeOK
  <2>4. /\ mCanceled' \in BOOLEAN /\ mShouldReconnect' \in BOOLEAN
        /\ closing' \in BOOLEAN /\ swallowed' \in BOOLEAN
    BY DEF onDisconnectClicked, connected, TypeOK
  <2>5. QED
    BY <2>1, <2>2, <2>3, <2>4 DEF TypeOK
<1>2. PhasesInv'
  BY DEF onDisconnectClicked, connected, TypeOK, PhasesInv, Links
<1>3. QueueInv'
  BY DEF onDisconnectClicked, connected, TypeOK, PhasesInv, QueueInv, ViewInv, InUse,
     Trying, FinalView, Terminal, Links
<1>4. ViewInv'
  BY DEF onDisconnectClicked, connected, TypeOK, PhasesInv, QueueInv, ViewInv, InUse,
     Trying, FinalView, Terminal, Links
<1>5. RetryInv' /\ CancelInv'
  BY ConnectionAssumption
     DEF onDisconnectClicked, connected, TypeOK, PhasesInv, RetryInv, CancelInv,
     ConnectionAssumption, Links
<1>6. QED
  BY <1>1, <1>2, <1>3, <1>4, <1>5 DEF IInv

LEMMA StepDisconnectChecks ==
  ASSUME IInv, DisconnectChecks
  PROVE  IInv'
<1> USE DEF flags, paho, ui, ghost, IInv
<1>1. TypeOK'
  <2>1. mRetries' \in 0..(MaxRetries + 1) /\ attempts' \in Nat /\ lateAttempts' \in Nat
    BY ConnectionAssumption DEF DisconnectChecks, connected, TypeOK, ConnectionAssumption
  <2>2. events' \in Seq(Events) /\ link' \in Links
    BY DEF DisconnectChecks, connected, TypeOK, Links
  <2>3. /\ callback' \in {"idle", "waiting", "attempt"}
        /\ gui' \in {"idle", "checking", "submitting"}
        /\ view' \in {"connect", "disconnect", "cancel"}
        /\ tab' \in {"open", "closed"}
    BY DEF DisconnectChecks, connected, TypeOK
  <2>4. /\ mCanceled' \in BOOLEAN /\ mShouldReconnect' \in BOOLEAN
        /\ closing' \in BOOLEAN /\ swallowed' \in BOOLEAN
    BY DEF DisconnectChecks, connected, TypeOK
  <2>5. QED
    BY <2>1, <2>2, <2>3, <2>4 DEF TypeOK
<1>2. PhasesInv'
  BY DEF DisconnectChecks, connected, TypeOK, PhasesInv, Links
<1>3. QueueInv'
  BY DEF DisconnectChecks, connected, TypeOK, PhasesInv, QueueInv, ViewInv, InUse,
     Trying, FinalView, Terminal, Links
<1>4. ViewInv'
  BY DEF DisconnectChecks, connected, TypeOK, PhasesInv, QueueInv, ViewInv, InUse,
     Trying, FinalView, Terminal, Links
<1>5. RetryInv' /\ CancelInv'
  BY ConnectionAssumption
     DEF DisconnectChecks, connected, TypeOK, PhasesInv, RetryInv, CancelInv,
     ConnectionAssumption, Links
<1>6. QED
  BY <1>1, <1>2, <1>3, <1>4, <1>5 DEF IInv

LEMMA StepDisconnectSubmits ==
  ASSUME IInv, DisconnectSubmits
  PROVE  IInv'
<1> USE DEF flags, paho, ui, ghost, IInv
<1>1. TypeOK'
  <2>1. mRetries' \in 0..(MaxRetries + 1) /\ attempts' \in Nat /\ lateAttempts' \in Nat
    BY ConnectionAssumption DEF DisconnectSubmits, connected, TypeOK, ConnectionAssumption
  <2>2. events' \in Seq(Events) /\ link' \in Links
    BY DEF DisconnectSubmits, connected, TypeOK, Links
  <2>3. /\ callback' \in {"idle", "waiting", "attempt"}
        /\ gui' \in {"idle", "checking", "submitting"}
        /\ view' \in {"connect", "disconnect", "cancel"}
        /\ tab' \in {"open", "closed"}
    BY DEF DisconnectSubmits, connected, TypeOK
  <2>4. /\ mCanceled' \in BOOLEAN /\ mShouldReconnect' \in BOOLEAN
        /\ closing' \in BOOLEAN /\ swallowed' \in BOOLEAN
    BY DEF DisconnectSubmits, connected, TypeOK
  <2>5. QED
    BY <2>1, <2>2, <2>3, <2>4 DEF TypeOK
<1>2. PhasesInv'
  BY DEF DisconnectSubmits, connected, TypeOK, PhasesInv, Links
<1>3. QueueInv'
  BY DEF DisconnectSubmits, connected, TypeOK, PhasesInv, QueueInv, ViewInv, InUse,
     Trying, FinalView, Terminal, Links
<1>4. ViewInv'
  BY DEF DisconnectSubmits, connected, TypeOK, PhasesInv, QueueInv, ViewInv, InUse,
     Trying, FinalView, Terminal, Links
<1>5. RetryInv' /\ CancelInv'
  BY ConnectionAssumption
     DEF DisconnectSubmits, connected, TypeOK, PhasesInv, RetryInv, CancelInv,
     ConnectionAssumption, Links
<1>6. QED
  BY <1>1, <1>2, <1>3, <1>4, <1>5 DEF IInv

LEMMA StepOnCancelClicked ==
  ASSUME IInv, onCancelClicked
  PROVE  IInv'
<1> USE DEF flags, paho, ui, ghost, IInv
<1>1. TypeOK'
  <2>1. mRetries' \in 0..(MaxRetries + 1) /\ attempts' \in Nat /\ lateAttempts' \in Nat
    BY ConnectionAssumption DEF onCancelClicked, TypeOK, ConnectionAssumption
  <2>2. events' \in Seq(Events) /\ link' \in Links
    BY DEF onCancelClicked, TypeOK, Links
  <2>3. /\ callback' \in {"idle", "waiting", "attempt"}
        /\ gui' \in {"idle", "checking", "submitting"}
        /\ view' \in {"connect", "disconnect", "cancel"}
        /\ tab' \in {"open", "closed"}
    BY DEF onCancelClicked, TypeOK
  <2>4. /\ mCanceled' \in BOOLEAN /\ mShouldReconnect' \in BOOLEAN
        /\ closing' \in BOOLEAN /\ swallowed' \in BOOLEAN
    BY DEF onCancelClicked, TypeOK
  <2>5. QED
    BY <2>1, <2>2, <2>3, <2>4 DEF TypeOK
<1>2. PhasesInv'
  BY DEF onCancelClicked, TypeOK, PhasesInv, Links
<1>3. QueueInv'
  BY DEF onCancelClicked, TypeOK, PhasesInv, QueueInv, ViewInv, InUse, Trying,
     FinalView, Terminal, Links
<1>4. ViewInv'
  BY DEF onCancelClicked, TypeOK, PhasesInv, QueueInv, ViewInv, InUse, Trying,
     FinalView, Terminal, Links
<1>5. RetryInv' /\ CancelInv'
  BY ConnectionAssumption DEF onCancelClicked, TypeOK, PhasesInv, RetryInv, CancelInv,
     ConnectionAssumption, Links
<1>6. QED
  BY <1>1, <1>2, <1>3, <1>4, <1>5 DEF IInv

LEMMA StepCloseTab ==
  ASSUME IInv, NEW kept \in BOOLEAN, CloseTab(kept)
  PROVE  IInv'
<1> USE DEF flags, paho, ui, ghost, IInv
<1>1. TypeOK'
  <2>1. mRetries' \in 0..(MaxRetries + 1) /\ attempts' \in Nat /\ lateAttempts' \in Nat
    BY ConnectionAssumption DEF CloseTab, connected, TypeOK, ConnectionAssumption
  <2>2. events' \in Seq(Events) /\ link' \in Links
    BY DEF CloseTab, connected, TypeOK, Links
  <2>3. /\ callback' \in {"idle", "waiting", "attempt"}
        /\ gui' \in {"idle", "checking", "submitting"}
        /\ view' \in {"connect", "disconnect", "cancel"}
        /\ tab' \in {"open", "closed"}
    BY DEF CloseTab, connected, TypeOK
  <2>4. /\ mCanceled' \in BOOLEAN /\ mShouldReconnect' \in BOOLEAN
        /\ closing' \in BOOLEAN /\ swallowed' \in BOOLEAN
    BY DEF CloseTab, connected, TypeOK
  <2>5. QED
    BY <2>1, <2>2, <2>3, <2>4 DEF TypeOK
<1>2. PhasesInv'
  BY DEF CloseTab, connected, TypeOK, PhasesInv, Links
<1>3. QueueInv'
  BY DEF CloseTab, connected, TypeOK, PhasesInv, QueueInv, ViewInv, InUse, Trying,
     FinalView, Terminal, Links
<1>4. ViewInv'
  BY DEF CloseTab, connected, TypeOK, PhasesInv, QueueInv, ViewInv, InUse, Trying,
     FinalView, Terminal, Links
<1>5. RetryInv' /\ CancelInv'
  BY ConnectionAssumption DEF CloseTab, connected, TypeOK, PhasesInv, RetryInv, CancelInv,
     ConnectionAssumption, Links
<1>6. QED
  BY <1>1, <1>2, <1>3, <1>4, <1>5 DEF IInv

LEMMA StepOnSuccessConnect ==
  ASSUME IInv, onSuccessConnect
  PROVE  IInv'
<1> USE DEF flags, paho, ui, ghost, IInv
<1>1. TypeOK'
  <2>1. mRetries' \in 0..(MaxRetries + 1) /\ attempts' \in Nat /\ lateAttempts' \in Nat
    BY ConnectionAssumption DEF onSuccessConnect, TypeOK, ConnectionAssumption
  <2>2. events' \in Seq(Events) /\ link' \in Links
    BY DEF onSuccessConnect, TypeOK, Links
  <2>3. /\ callback' \in {"idle", "waiting", "attempt"}
        /\ gui' \in {"idle", "checking", "submitting"}
        /\ view' \in {"connect", "disconnect", "cancel"}
        /\ tab' \in {"open", "closed"}
    BY DEF onSuccessConnect, TypeOK
  <2>4. /\ mCanceled' \in BOOLEAN /\ mShouldReconnect' \in BOOLEAN
        /\ closing' \in BOOLEAN /\ swallowed' \in BOOLEAN
    BY DEF onSuccessConnect, TypeOK
  <2>5. QED
    BY <2>1, <2>2, <2>3, <2>4 DEF TypeOK
<1>2. PhasesInv'
  BY DEF onSuccessConnect, TypeOK, PhasesInv, Links
<1>3. QueueInv'
  BY DEF onSuccessConnect, TypeOK, PhasesInv, QueueInv, ViewInv, InUse, Trying,
     FinalView, Terminal, Links
<1>4. ViewInv'
  BY DEF onSuccessConnect, TypeOK, PhasesInv, QueueInv, ViewInv, InUse, Trying,
     FinalView, Terminal, Links
<1>5. RetryInv' /\ CancelInv'
  BY ConnectionAssumption DEF onSuccessConnect, TypeOK, PhasesInv, RetryInv, CancelInv,
     ConnectionAssumption, Links
<1>6. QED
  BY <1>1, <1>2, <1>3, <1>4, <1>5 DEF IInv

LEMMA StepOnFailureDisconnect ==
  ASSUME IInv, onFailureDisconnect
  PROVE  IInv'
<1> USE DEF flags, paho, ui, ghost, IInv
<1>1. TypeOK'
  <2>1. mRetries' \in 0..(MaxRetries + 1) /\ attempts' \in Nat /\ lateAttempts' \in Nat
    BY ConnectionAssumption DEF onFailureDisconnect, TypeOK, ConnectionAssumption
  <2>2. events' \in Seq(Events) /\ link' \in Links
    BY DEF onFailureDisconnect, TypeOK, Links
  <2>3. /\ callback' \in {"idle", "waiting", "attempt"}
        /\ gui' \in {"idle", "checking", "submitting"}
        /\ view' \in {"connect", "disconnect", "cancel"}
        /\ tab' \in {"open", "closed"}
    BY DEF onFailureDisconnect, TypeOK
  <2>4. /\ mCanceled' \in BOOLEAN /\ mShouldReconnect' \in BOOLEAN
        /\ closing' \in BOOLEAN /\ swallowed' \in BOOLEAN
    BY DEF onFailureDisconnect, TypeOK
  <2>5. QED
    BY <2>1, <2>2, <2>3, <2>4 DEF TypeOK
<1>2. PhasesInv'
  BY DEF onFailureDisconnect, TypeOK, PhasesInv, Links
<1>3. QueueInv'
  BY DEF onFailureDisconnect, TypeOK, PhasesInv, QueueInv, ViewInv, InUse, Trying,
     FinalView, Terminal, Links
<1>4. ViewInv'
  BY DEF onFailureDisconnect, TypeOK, PhasesInv, QueueInv, ViewInv, InUse, Trying,
     FinalView, Terminal, Links
<1>5. RetryInv' /\ CancelInv'
  BY ConnectionAssumption DEF onFailureDisconnect, TypeOK, PhasesInv, RetryInv, CancelInv,
     ConnectionAssumption, Links
<1>6. QED
  BY <1>1, <1>2, <1>3, <1>4, <1>5 DEF IInv

LEMMA StepWaitElapses ==
  ASSUME IInv, WaitElapses
  PROVE  IInv'
<1> USE DEF flags, paho, ui, ghost, IInv
<1>1. TypeOK'
  <2>1. mRetries' \in 0..(MaxRetries + 1) /\ attempts' \in Nat /\ lateAttempts' \in Nat
    BY ConnectionAssumption DEF WaitElapses, TypeOK, ConnectionAssumption
  <2>2. events' \in Seq(Events) /\ link' \in Links
    BY DEF WaitElapses, TypeOK, Links
  <2>3. /\ callback' \in {"idle", "waiting", "attempt"}
        /\ gui' \in {"idle", "checking", "submitting"}
        /\ view' \in {"connect", "disconnect", "cancel"}
        /\ tab' \in {"open", "closed"}
    BY DEF WaitElapses, TypeOK
  <2>4. /\ mCanceled' \in BOOLEAN /\ mShouldReconnect' \in BOOLEAN
        /\ closing' \in BOOLEAN /\ swallowed' \in BOOLEAN
    BY DEF WaitElapses, TypeOK
  <2>5. QED
    BY <2>1, <2>2, <2>3, <2>4 DEF TypeOK
<1>2. PhasesInv'
  BY DEF WaitElapses, TypeOK, PhasesInv, Links
<1>3. QueueInv'
  BY DEF WaitElapses, TypeOK, PhasesInv, QueueInv, ViewInv, InUse, Trying, FinalView,
     Terminal, Links
<1>4. ViewInv'
  BY DEF WaitElapses, TypeOK, PhasesInv, QueueInv, ViewInv, InUse, Trying, FinalView,
     Terminal, Links
<1>5. RetryInv' /\ CancelInv'
  BY ConnectionAssumption DEF WaitElapses, TypeOK, PhasesInv, RetryInv, CancelInv,
     ConnectionAssumption, Links
<1>6. QED
  BY <1>1, <1>2, <1>3, <1>4, <1>5 DEF IInv

LEMMA StepAttempt ==
  ASSUME IInv, Attempt
  PROVE  IInv'
<1> USE DEF flags, paho, ui, ghost, IInv
<1>1. TypeOK'
  <2>1. mRetries' \in 0..(MaxRetries + 1) /\ attempts' \in Nat /\ lateAttempts' \in Nat
    BY ConnectionAssumption DEF Attempt, PahoConnect, TypeOK, ConnectionAssumption
  <2>2. events' \in Seq(Events) /\ link' \in Links
    BY DEF Attempt, PahoConnect, TypeOK, Links
  <2>3. /\ callback' \in {"idle", "waiting", "attempt"}
        /\ gui' \in {"idle", "checking", "submitting"}
        /\ view' \in {"connect", "disconnect", "cancel"}
        /\ tab' \in {"open", "closed"}
    BY DEF Attempt, PahoConnect, TypeOK
  <2>4. /\ mCanceled' \in BOOLEAN /\ mShouldReconnect' \in BOOLEAN
        /\ closing' \in BOOLEAN /\ swallowed' \in BOOLEAN
    BY DEF Attempt, PahoConnect, TypeOK
  <2>5. QED
    BY <2>1, <2>2, <2>3, <2>4 DEF TypeOK
<1>2. PhasesInv'
  BY DEF Attempt, PahoConnect, TypeOK, PhasesInv, Links
<1>3. QueueInv'
  BY DEF Attempt, PahoConnect, TypeOK, PhasesInv, QueueInv, ViewInv, InUse, Trying,
     FinalView, Terminal, Links
<1>4. ViewInv'
  BY DEF Attempt, PahoConnect, TypeOK, PhasesInv, QueueInv, ViewInv, InUse, Trying,
     FinalView, Terminal, Links
<1>5. RetryInv' /\ CancelInv'
  BY ConnectionAssumption DEF Attempt, PahoConnect, TypeOK, PhasesInv, RetryInv, CancelInv,
     ConnectionAssumption, Links
<1>6. QED
  BY <1>1, <1>2, <1>3, <1>4, <1>5 DEF IInv

LEMMA StepLinkBreaks ==
  ASSUME IInv, LinkBreaks
  PROVE  IInv'
<1> USE DEF flags, paho, ui, ghost, IInv
<1>1. TypeOK'
  <2>1. mRetries' \in 0..(MaxRetries + 1) /\ attempts' \in Nat /\ lateAttempts' \in Nat
    BY ConnectionAssumption DEF LinkBreaks, TypeOK, ConnectionAssumption
  <2>2. events' \in Seq(Events) /\ link' \in Links
    BY DEF LinkBreaks, TypeOK, Links
  <2>3. /\ callback' \in {"idle", "waiting", "attempt"}
        /\ gui' \in {"idle", "checking", "submitting"}
        /\ view' \in {"connect", "disconnect", "cancel"}
        /\ tab' \in {"open", "closed"}
    BY DEF LinkBreaks, TypeOK
  <2>4. /\ mCanceled' \in BOOLEAN /\ mShouldReconnect' \in BOOLEAN
        /\ closing' \in BOOLEAN /\ swallowed' \in BOOLEAN
    BY DEF LinkBreaks, TypeOK
  <2>5. QED
    BY <2>1, <2>2, <2>3, <2>4 DEF TypeOK
<1>2. PhasesInv'
  BY DEF LinkBreaks, TypeOK, PhasesInv, Links
<1>3. QueueInv'
  BY DEF LinkBreaks, TypeOK, PhasesInv, QueueInv, ViewInv, InUse, Trying, FinalView,
     Terminal, Links
<1>4. ViewInv'
  BY DEF LinkBreaks, TypeOK, PhasesInv, QueueInv, ViewInv, InUse, Trying, FinalView,
     Terminal, Links
<1>5. RetryInv' /\ CancelInv'
  BY ConnectionAssumption DEF LinkBreaks, TypeOK, PhasesInv, RetryInv, CancelInv,
     ConnectionAssumption, Links
<1>6. QED
  BY <1>1, <1>2, <1>3, <1>4, <1>5 DEF IInv

-------------------------------------------------------------------------------
(* The steps that post a notification, and the one that handles one.        *)

LEMMA StepHandleEvent ==
  ASSUME IInv, HandleEvent
  PROVE  IInv'
<1> USE DEF flags, paho, ghost, IInv, HandleEvent
<1>0. /\ Head(events) = events[1] /\ Head(events) \in Events
      /\ events' \in Seq(Events) /\ Len(events') = Len(events) - 1
      /\ \A i \in 1..Len(events') : events'[i] = events[i + 1]
      /\ events' = <<>> <=> Len(events) = 1
  BY HandleFirst DEF TypeOK
<1>1. TypeOK'
  BY <1>0 DEF TypeOK, ViewAfter
<1>2. FinalView' = FinalView
  BY <1>0 DEF FinalView, TypeOK
<1>3. PhasesInv'
  BY DEF PhasesInv
<1>4. QueueInv'
  <2>1. view' = "connect" => Head(events) \in Terminal
    BY <1>0 DEF ViewAfter, Terminal, Events
  <2>2. events[1] \in Terminal => Len(events) = 1 /\ ~InUse /\ ~swallowed
    <3>1. 1 \in 1..Len(events) /\ tab = "open"
      BY <1>0 DEF TypeOK
    <3>2. QED
      BY <3>1 DEF QueueInv
  <2>3. ASSUME NEW i \in 1..Len(events'), events'[i] \in Terminal
        PROVE  i = Len(events') /\ ~InUse' /\ ~swallowed'
    <3>1. i + 1 \in 1..Len(events) /\ events[i + 1] \in Terminal /\ tab = "open"
      BY <1>0, <2>3 DEF TypeOK
    <3>2. i + 1 = Len(events) /\ ~InUse /\ ~swallowed
      BY <3>1 DEF QueueInv
    <3>3. Len(events') = Len(events) - 1 /\ Len(events) \in Nat /\ i \in Nat
      BY <1>0 DEF TypeOK
    <3>4. i = Len(events')
      BY <3>2, <3>3
    <3>5. QED
      BY <3>2, <3>4 DEF InUse
  <2>4. view' = "connect" => ~InUse' /\ events' = <<>> /\ ~swallowed'
    BY <1>0, <2>1, <2>2 DEF InUse
  <2>5. QED
    BY <2>3, <2>4 DEF QueueInv, InUse
<1>5. ViewInv'
  BY <1>2 DEF ViewInv, InUse, Trying
<1>6. RetryInv' /\ CancelInv'
  BY DEF RetryInv, CancelInv
<1>7. QED
  BY <1>1, <1>3, <1>4, <1>5, <1>6 DEF IInv

LEMMA StepOnConnected ==
  ASSUME IInv, onConnected
  PROVE  IInv'
<1> USE DEF flags, ghost, IInv
<1>0. ASSUME tab = "open"
      PROVE  events' \in Seq(Events) /\ QueueInv' /\ ViewInv'
  <2>1. /\ events' \in Seq(Events) /\ events' # <<>>
        /\ Len(events') = Len(events) + 1
        /\ events'[Len(events')] = "CONNECTED"
        /\ \A i \in 1..Len(events) : events'[i] = events[i]
    BY <1>0, PostOne DEF onConnected, TypeOK, Events
  <2>2. FinalView' = ViewAfter("CONNECTED")
    BY <2>1 DEF FinalView, ViewAfter
  <2>3. QueueInv'
    <3>1. ASSUME NEW i \in 1..Len(events'), events'[i] \in Terminal
          PROVE  i = Len(events') /\ ~InUse' /\ ~swallowed'
      <4>1. InUse
        BY DEF onConnected, InUse
      <4>2. i = Len(events')
        BY <1>0, <2>1, <3>1, <4>1 DEF QueueInv, TypeOK
      <4>3. QED
        BY <1>0, <2>1, <3>1, <4>1, <4>2
           DEF onConnected, QueueInv, PhasesInv, InUse, Terminal
    <3>2. QED
      BY <1>0, <3>1 DEF onConnected, QueueInv, InUse
  <2>4. ViewInv'
    BY <1>0, <2>2 DEF onConnected, ViewInv, ViewAfter, PhasesInv, InUse, Trying
  <2>5. QED
    BY <2>1, <2>3, <2>4
<1>1. ASSUME tab # "open"
      PROVE  events' \in Seq(Events) /\ QueueInv' /\ ViewInv'
  <2>1. events' = events
    BY <1>1, PostClosed DEF onConnected
  <2>2. QED
    BY <1>1, <2>1 DEF onConnected, QueueInv, ViewInv, TypeOK
<1>2. events' \in Seq(Events) /\ QueueInv' /\ ViewInv'
  BY <1>0, <1>1
<1>3. TypeOK'
  <2>1. mRetries' \in 0..(MaxRetries + 1) /\ attempts' \in Nat /\ lateAttempts' \in Nat
    BY ConnectionAssumption DEF onConnected, TypeOK, ConnectionAssumption
  <2>2. QED
    BY <1>2, <2>1 DEF onConnected, TypeOK, Links
<1>4. PhasesInv'
  BY DEF onConnected, PhasesInv
<1>5. RetryInv' /\ CancelInv'
  BY ConnectionAssumption DEF onConnected, TypeOK, PhasesInv, RetryInv, CancelInv,
     ConnectionAssumption
<1>6. QED
  BY <1>2, <1>3, <1>4, <1>5 DEF IInv

LEMMA StepOnSuccessDisconnect ==
  ASSUME IInv, onSuccessDisconnect
  PROVE  IInv'
<1> USE DEF flags, ghost, IInv
<1>0. ASSUME tab = "open"
      PROVE  events' \in Seq(Events) /\ QueueInv' /\ ViewInv'
  <2>1. /\ events' \in Seq(Events) /\ events' # <<>>
        /\ Len(events') = Len(events) + 1
        /\ events'[Len(events')] = "DISCONNECTED"
        /\ \A i \in 1..Len(events) : events'[i] = events[i]
    BY <1>0, PostOne DEF onSuccessDisconnect, TypeOK, Events
  <2>2. FinalView' = ViewAfter("DISCONNECTED")
    BY <2>1 DEF FinalView, ViewAfter
  <2>3. QueueInv'
    <3>1. ASSUME NEW i \in 1..Len(events'), events'[i] \in Terminal
          PROVE  i = Len(events') /\ ~InUse' /\ ~swallowed'
      <4>1. InUse
        BY DEF onSuccessDisconnect, InUse
      <4>2. i = Len(events')
        BY <1>0, <2>1, <3>1, <4>1 DEF QueueInv, TypeOK
      <4>3. QED
        BY <1>0, <2>1, <3>1, <4>1, <4>2
           DEF onSuccessDisconnect, QueueInv, PhasesInv, InUse, Terminal
    <3>2. QED
      BY <1>0, <3>1 DEF onSuccessDisconnect, QueueInv, InUse
  <2>4. ViewInv'
    BY <1>0, <2>2 DEF onSuccessDisconnect, ViewInv, ViewAfter, PhasesInv, InUse, Trying
  <2>5. QED
    BY <2>1, <2>3, <2>4
<1>1. ASSUME tab # "open"
      PROVE  events' \in Seq(Events) /\ QueueInv' /\ ViewInv'
  <2>1. events' = events
    BY <1>1, PostClosed DEF onSuccessDisconnect
  <2>2. QED
    BY <1>1, <2>1 DEF onSuccessDisconnect, QueueInv, ViewInv, TypeOK
<1>2. events' \in Seq(Events) /\ QueueInv' /\ ViewInv'
  BY <1>0, <1>1
<1>3. TypeOK'
  <2>1. mRetries' \in 0..(MaxRetries + 1) /\ attempts' \in Nat /\ lateAttempts' \in Nat
    BY ConnectionAssumption DEF onSuccessDisconnect, TypeOK, ConnectionAssumption
  <2>2. QED
    BY <1>2, <2>1 DEF onSuccessDisconnect, TypeOK, Links
<1>4. PhasesInv'
  BY DEF onSuccessDisconnect, PhasesInv
<1>5. RetryInv' /\ CancelInv'
  BY ConnectionAssumption DEF onSuccessDisconnect, TypeOK, PhasesInv, RetryInv, CancelInv,
     ConnectionAssumption
<1>6. QED
  BY <1>2, <1>3, <1>4, <1>5 DEF IInv

LEMMA StepWaitIsCanceled ==
  ASSUME IInv, WaitIsCanceled
  PROVE  IInv'
<1> USE DEF flags, ghost, IInv
<1>0. ASSUME tab = "open"
      PROVE  events' \in Seq(Events) /\ QueueInv' /\ ViewInv'
  <2>1. /\ events' \in Seq(Events) /\ events' # <<>>
        /\ Len(events') = Len(events) + 1
        /\ events'[Len(events')] = "DISCONNECTED"
        /\ \A i \in 1..Len(events) : events'[i] = events[i]
    BY <1>0, PostOne DEF WaitIsCanceled, TypeOK, Events
  <2>2. FinalView' = ViewAfter("DISCONNECTED")
    BY <2>1 DEF FinalView, ViewAfter
  <2>3. QueueInv'
    <3>1. ASSUME NEW i \in 1..Len(events'), events'[i] \in Terminal
          PROVE  i = Len(events') /\ ~InUse' /\ ~swallowed'
      <4>1. InUse
        BY DEF WaitIsCanceled, InUse
      <4>2. i = Len(events')
        BY <1>0, <2>1, <3>1, <4>1 DEF QueueInv, TypeOK
      <4>3. QED
        BY <1>0, <2>1, <3>1, <4>1, <4>2
           DEF WaitIsCanceled, QueueInv, PhasesInv, InUse, Terminal
    <3>2. QED
      BY <1>0, <3>1 DEF WaitIsCanceled, QueueInv, InUse
  <2>4. ViewInv'
    BY <1>0, <2>2 DEF WaitIsCanceled, ViewInv, ViewAfter, PhasesInv, InUse, Trying
  <2>5. QED
    BY <2>1, <2>3, <2>4
<1>1. ASSUME tab # "open"
      PROVE  events' \in Seq(Events) /\ QueueInv' /\ ViewInv'
  <2>1. events' = events
    BY <1>1, PostClosed DEF WaitIsCanceled
  <2>2. QED
    BY <1>1, <2>1 DEF WaitIsCanceled, QueueInv, ViewInv, TypeOK
<1>2. events' \in Seq(Events) /\ QueueInv' /\ ViewInv'
  BY <1>0, <1>1
<1>3. TypeOK'
  <2>1. mRetries' \in 0..(MaxRetries + 1) /\ attempts' \in Nat /\ lateAttempts' \in Nat
    BY ConnectionAssumption DEF WaitIsCanceled, TypeOK, ConnectionAssumption
  <2>2. QED
    BY <1>2, <2>1 DEF WaitIsCanceled, TypeOK, Links
<1>4. PhasesInv'
  BY DEF WaitIsCanceled, PhasesInv
<1>5. RetryInv' /\ CancelInv'
  BY ConnectionAssumption DEF WaitIsCanceled, TypeOK, PhasesInv, RetryInv, CancelInv,
     ConnectionAssumption
<1>6. QED
  BY <1>2, <1>3, <1>4, <1>5 DEF IInv

\* reconnect waits, or gives up and says so; either way the counter is right.
LEMMA ReconnectOutcome ==
  ASSUME IInv, link \in {"connecting", "lost"}, NEW notes, reconnect(notes)
  PROVE  /\ mRetries' \in 0..(MaxRetries + 1)
         /\ mRetries' > 0 => AutoReconnect
         /\ \/ /\ callback' = "waiting" /\ Post(notes)
               /\ attempts < mRetries' /\ mRetries' <= MaxRetries
            \/ /\ callback' = "idle" /\ Post(notes \o <<"FAILURE">>)
<1>1. callback = "idle"
  BY DEF IInv, PhasesInv
<1>2. mRetries \in Nat /\ mRetries <= MaxRetries /\ attempts \in Nat /\ attempts <= mRetries
  BY ConnectionAssumption DEF IInv, TypeOK, RetryInv, ConnectionAssumption
<1>3. CASE mShouldReconnect /\ AutoReconnect
  <2>1. mRetries' = mRetries + 1
    BY <1>3 DEF reconnect
  <2>2. CASE OutOfRetries
    BY <1>2, <1>3, <2>1, <2>2, ConnectionAssumption DEF reconnect, ConnectionAssumption
  <2>3. CASE ~OutOfRetries
    BY <1>2, <1>3, <2>1, <2>3, ConnectionAssumption
       DEF reconnect, OutOfRetries, ConnectionAssumption
  <2>4. QED
    BY <2>2, <2>3
<1>4. CASE ~(mShouldReconnect /\ AutoReconnect)
  BY <1>1, <1>2, <1>4, ConnectionAssumption
     DEF reconnect, IInv, RetryInv, ConnectionAssumption
<1>5. QED
  BY <1>3, <1>4

LEMMA StepOnFailureConnect ==
  ASSUME IInv, onFailureConnect
  PROVE  IInv'
<1> USE DEF ghost, IInv
<1>0. /\ link \in {"connecting", "lost"} /\ InUse /\ callback = "idle" /\ closing = FALSE
      /\ link' = "closed" /\ reconnect(<<>>)
  BY DEF onFailureConnect, InUse, PhasesInv, TypeOK
<1>1. /\ mRetries' \in 0..(MaxRetries + 1)
      /\ mRetries' > 0 => AutoReconnect
      /\ \/ /\ callback' = "waiting" /\ Post(<<>>)
            /\ attempts < mRetries' /\ mRetries' <= MaxRetries
         \/ /\ callback' = "idle" /\ Post(<<>> \o <<"FAILURE">>)
  BY <1>0, ReconnectOutcome
<1>2. tab = "open" => \A i \in 1..Len(events) : events[i] \notin Terminal
  BY <1>0 DEF QueueInv
<1>3. ASSUME tab = "open", callback' = "waiting", Post(<<>>)
      PROVE  events' \in Seq(Events) /\ QueueInv' /\ ViewInv'
  <2>1. events' = events
    BY <1>3 DEF Post, TypeOK
  <2>2. FinalView' = FinalView /\ FinalView = "cancel"
    BY <1>0, <1>3, <2>1 DEF onFailureConnect, FinalView, ViewInv, Trying
  <2>3. QueueInv'
    BY <1>0, <1>2, <1>3, <2>1 DEF onFailureConnect, QueueInv, InUse
  <2>4. ViewInv'
    BY <1>0, <1>3, <2>2 DEF onFailureConnect, ViewInv, QueueInv, InUse, Trying
  <2>5. QED
    BY <2>1, <2>3, <2>4 DEF TypeOK
<1>4. ASSUME tab = "open", callback' = "idle", Post(<<>> \o <<"FAILURE">>)
      PROVE  events' \in Seq(Events) /\ QueueInv' /\ ViewInv'
  <2>0. Post(<<"FAILURE">>)
    BY <1>4 DEF Post
  <2>1. /\ events' \in Seq(Events) /\ events' # <<>>
        /\ Len(events') = Len(events) + 1
        /\ events'[Len(events')] = "FAILURE"
        /\ \A i \in 1..Len(events) : events'[i] = events[i]
    BY <1>4, <2>0, PostOne DEF TypeOK, Events
  <2>2. FinalView' = ViewAfter("FAILURE")
    BY <2>1 DEF FinalView
  <2>3. ASSUME NEW i \in 1..Len(events'), events'[i] \in Terminal
        PROVE  i = Len(events') /\ "FAILURE" \in Terminal
    BY <1>2, <1>4, <2>0, <2>1, <2>3 DEF TypeOK
  <2>4. QueueInv'
    BY <1>0, <1>4, <2>0, <2>1, <2>3 DEF onFailureConnect, QueueInv, InUse, Terminal
  <2>5. ViewInv'
    BY <1>0, <1>4, <2>0, <2>2
       DEF onFailureConnect, ViewInv, ViewAfter, QueueInv, InUse, Trying
  <2>6. QED
    BY <2>1, <2>4, <2>5
<1>5. ASSUME tab # "open"
      PROVE  events' \in Seq(Events) /\ QueueInv' /\ ViewInv'
  <2>1. events' = events
    BY <1>1, <1>5, PostClosed
  <2>2. QED
    BY <1>5, <2>1 DEF onFailureConnect, QueueInv, ViewInv, TypeOK
<1>6. events' \in Seq(Events) /\ QueueInv' /\ ViewInv'
  BY <1>1, <1>3, <1>4, <1>5
<1>7. TypeOK'
  BY <1>1, <1>6 DEF onFailureConnect, TypeOK, Links
<1>8. PhasesInv'
  BY <1>0 DEF onFailureConnect, PhasesInv
<1>9. RetryInv' /\ CancelInv'
  <2>1. attempts \in Nat /\ lateAttempts' = lateAttempts /\ attempts' = attempts /\ mCanceled' = mCanceled
    BY DEF onFailureConnect, TypeOK
  <2>2. QED
    BY <1>0, <1>1, <2>1 DEF RetryInv, CancelInv
<1>10. QED
  BY <1>6, <1>7, <1>8, <1>9

LEMMA StepConnection_lost ==
  ASSUME IInv, connection_lost
  PROVE  IInv'
<1> USE DEF ghost, IInv
<1>0. /\ link \in {"connecting", "lost"} /\ InUse /\ callback = "idle" /\ closing = FALSE
      /\ link' = "closed" /\ reconnect(<<"LOST">>)
  BY DEF connection_lost, InUse, PhasesInv, TypeOK
<1>1. /\ mRetries' \in 0..(MaxRetries + 1)
      /\ mRetries' > 0 => AutoReconnect
      /\ \/ /\ callback' = "waiting" /\ Post(<<"LOST">>)
            /\ attempts < mRetries' /\ mRetries' <= MaxRetries
         \/ /\ callback' = "idle" /\ Post(<<"LOST">> \o <<"FAILURE">>)
  BY <1>0, ReconnectOutcome
<1>2. tab = "open" => \A i \in 1..Len(events) : events[i] \notin Terminal
  BY <1>0 DEF QueueInv
<1>3. ASSUME tab = "open", callback' = "waiting", Post(<<"LOST">>)
      PROVE  events' \in Seq(Events) /\ QueueInv' /\ ViewInv'
  <2>1. /\ events' \in Seq(Events) /\ events' # <<>>
        /\ Len(events') = Len(events) + 1
        /\ events'[Len(events')] = "LOST"
        /\ \A i \in 1..Len(events) : events'[i] = events[i]
    BY <1>3, PostOne DEF TypeOK, Events
  <2>2. FinalView' = ViewAfter("LOST")
    BY <2>1 DEF FinalView
  <2>3. ASSUME NEW i \in 1..Len(events'), events'[i] \in Terminal
        PROVE  i = Len(events') /\ "LOST" \in Terminal
    BY <1>2, <1>3, <2>1, <2>3 DEF TypeOK
  <2>4. QueueInv'
    BY <1>0, <1>3, <2>1, <2>3 DEF connection_lost, QueueInv, InUse, Terminal
  <2>5. ViewInv'
    BY <1>0, <1>3, <2>2 DEF connection_lost, ViewInv, ViewAfter, QueueInv, InUse, Trying
  <2>6. QED
    BY <2>1, <2>4, <2>5
<1>4. ASSUME tab = "open", callback' = "idle", Post(<<"LOST">> \o <<"FAILURE">>)
      PROVE  events' \in Seq(Events) /\ QueueInv' /\ ViewInv'
  <2>1. /\ events' \in Seq(Events) /\ events' # <<>>
        /\ Len(events') = Len(events) + 2
        /\ events'[Len(events')] = "FAILURE"
        /\ events'[Len(events) + 1] = "LOST"
        /\ \A i \in 1..Len(events) : events'[i] = events[i]
    BY <1>4, PostTwo DEF TypeOK
  <2>2. FinalView' = ViewAfter("FAILURE")
    BY <2>1 DEF FinalView
  <2>3. ASSUME NEW i \in 1..Len(events'), events'[i] \in Terminal
        PROVE  i = Len(events')
    <3>1. i \in 1..Len(events) \/ i = Len(events) + 1 \/ i = Len(events')
      BY <2>1 DEF TypeOK
    <3>2. QED
      BY <1>2, <1>4, <2>1, <2>3, <3>1 DEF TypeOK, Terminal
  <2>4. QueueInv'
    BY <1>0, <1>4, <2>1, <2>3 DEF connection_lost, QueueInv, InUse
  <2>5. ViewInv'
    BY <1>0, <1>4, <2>2 DEF connection_lost, ViewInv, ViewAfter, QueueInv, InUse, Trying
  <2>6. QED
    BY <2>1, <2>4, <2>5
<1>5. ASSUME tab # "open"
      PROVE  events' \in Seq(Events) /\ QueueInv' /\ ViewInv'
  <2>1. events' = events
    BY <1>1, <1>5, PostClosed
  <2>2. QED
    BY <1>5, <2>1 DEF connection_lost, QueueInv, ViewInv, TypeOK
<1>6. events' \in Seq(Events) /\ QueueInv' /\ ViewInv'
  BY <1>1, <1>3, <1>4, <1>5
<1>7. TypeOK'
  BY <1>1, <1>6 DEF connection_lost, TypeOK, Links
<1>8. PhasesInv'
  BY <1>0 DEF connection_lost, PhasesInv
<1>9. RetryInv' /\ CancelInv'
  <2>1. attempts \in Nat /\ lateAttempts' = lateAttempts /\ attempts' = attempts /\ mCanceled' = mCanceled
    BY DEF connection_lost, TypeOK
  <2>2. QED
    BY <1>0, <1>1, <2>1 DEF RetryInv, CancelInv
<1>10. QED
  BY <1>6, <1>7, <1>8, <1>9

-------------------------------------------------------------------------------
(* The theorems. *)

LEMMA StepIInv == IInv /\ [Next]_vars => IInv'
<1> SUFFICES ASSUME IInv, [Next]_vars PROVE IInv'
  OBVIOUS
<1>1. CASE GuiStep
  BY <1>1, StepDisconnectChecks, StepDisconnectSubmits, StepHandleEvent DEF GuiStep
<1>2. CASE User
  BY <1>2, StepOnConnectClicked, StepOnDisconnectClicked, StepOnCancelClicked,
     StepCloseTab DEF User
<1>3. CASE CallbackStep
  BY <1>3, StepOnSuccessConnect, StepOnFailureConnect, StepOnConnected,
     StepConnection_lost, StepOnSuccessDisconnect, StepOnFailureDisconnect,
     StepWaitIsCanceled, StepWaitElapses, StepAttempt DEF CallbackStep
<1>4. CASE LinkBreaks
  BY <1>4, StepLinkBreaks
<1>5. CASE UNCHANGED vars
  BY <1>5 DEF vars, flags, paho, ui, ghost, IInv, TypeOK, PhasesInv, QueueInv, ViewInv,
     RetryInv, CancelInv, InUse, Trying, FinalView
<1>6. QED
  BY <1>1, <1>2, <1>3, <1>4, <1>5 DEF Next

\* Every reachable state satisfies the inductive invariant.
THEOREM Invariance == Spec => []IInv
BY InitIInv, StepIInv, PTL DEF Spec

\* The variables keep their types; in particular mRetries never runs past the
\* limit by more than the increment that finds it exceeded.
THEOREM TypeCorrect == Spec => []TypeOK
<1>1. IInv => TypeOK
  BY DEF IInv
<1>2. QED
  BY Invariance, <1>1, PTL

\* A click on Connect never replaces an MQTT client that is still in use, nor
\* leaves notifications of the old one in the queue.
THEOREM ConnectIsSafe == Spec => []ConnectReplacesIdleClient
<1>1. IInv => ConnectReplacesIdleClient
  BY DEF IInv, QueueInv, ConnectReplacesIdleClient
<1>2. QED
  BY Invariance, <1>1, PTL

\* With the event queue empty the button on screen is the one for the state
\* of the connection.
THEOREM ViewIsTrue == Spec => []SettledViewIsTrue
<1>1. IInv => SettledViewIsTrue
  BY DEF IInv, ViewInv, SettledViewIsTrue, FinalView, Trying, InUse
<1>2. QED
  BY Invariance, <1>1, PTL

\* The automatic attempts between two connections are within the limit of the
\* profile, and there are none if it does not ask for them.
THEOREM RetryLimit == Spec => []RetriesAreBounded
<1>1. IInv => RetriesAreBounded
  BY DEF IInv, RetryInv, RetriesAreBounded
<1>2. QED
  BY Invariance, <1>1, PTL

\* At most one attempt begins after a click on Cancel.
THEOREM CancelLimit == Spec => []CancelStopsRetries
<1>1. IInv => CancelStopsRetries
  BY DEF IInv, CancelInv, CancelStopsRetries
<1>2. QED
  BY Invariance, <1>1, PTL

-------------------------------------------------------------------------------
(* Connection implements ConnectionContract: the steps of the code map to    *)
(* steps of the contract, under the inductive invariant.                     *)

LEMMA ContractInit == Init => Contract!CInit
BY DEF Init, session, Contract!CInit

\* A step of the GUI thread starts, closes or abandons a session, or handles
\* a notification.
LEMMA ContractGui ==
  ASSUME IInv, GuiStep \/ User
  PROVE  Contract!CNext \/ UNCHANGED Contract!cvars
<1> USE DEF IInv, TypeOK, Links, flags, paho, ui, ghost
<1>1. CASE DisconnectChecks
  BY <1>1 DEF DisconnectChecks, session, Contract!cvars
<1>2. CASE DisconnectSubmits
  <2>1. tab = "open" /\ events' = events
    BY <1>2 DEF DisconnectSubmits, PhasesInv
  <2>2. \/ session' = session
        \/ session = "live" /\ session' = "closing"
    BY <1>2, <2>1 DEF DisconnectSubmits, session, connected
  <2>3. QED
    BY <2>1, <2>2 DEF Contract!cvars, Contract!CNext, Contract!Close
<1>3. CASE HandleEvent
  BY <1>3 DEF HandleEvent, session, Contract!CNext, Contract!Handle
<1>4. CASE onConnectClicked
  <2>1. session = "idle" /\ events = <<>> /\ events' = events
    BY <1>4 DEF onConnectClicked, QueueInv, InUse, session
  <2>2. session' \in IF PahoErrors THEN {"trying", "dead"} ELSE {"trying"}
    BY <1>4, <2>1 DEF onConnectClicked, ClientConnect, PahoConnect, session
  <2>3. QED
    BY <2>1, <2>2 DEF Contract!CNext, Contract!Start
<1>5. CASE onDisconnectClicked
  BY <1>5 DEF onDisconnectClicked, session, Contract!cvars
<1>6. CASE onCancelClicked
  BY <1>6 DEF onCancelClicked, session, Contract!cvars
<1>7. ASSUME NEW kept \in BOOLEAN, CloseTab(kept)
      PROVE  Contract!CNext
  BY <1>7 DEF CloseTab, session, Contract!CNext, Contract!Abandon
<1>8. QED
  BY <1>1, <1>2, <1>3, <1>4, <1>5, <1>6, <1>7 DEF GuiStep, User

\* The callback thread, while the tab is open, moves the session on.
LEMMA ContractCallback ==
  ASSUME IInv, CallbackStep
  PROVE  Contract!CNext \/ UNCHANGED Contract!cvars
<1> USE DEF flags, paho, ui, ghost
<1>0. TypeOK /\ PhasesInv /\ QueueInv
  BY DEF IInv
<1>1. CASE tab # "open"
  <2>1. tab' = tab /\ events' = events
    BY <1>1 DEF CallbackStep, onSuccessConnect, onFailureConnect, onConnected,
       connection_lost, onSuccessDisconnect, onFailureDisconnect, WaitIsCanceled,
       WaitElapses, Attempt, reconnect, Post
  <2>2. QED
    BY <1>0, <1>1, <2>1 DEF TypeOK, session, Contract!cvars
<1>2. CASE tab = "open" /\ onSuccessConnect
  BY <1>0, <1>2 DEF PhasesInv, onSuccessConnect, session, Contract!cvars
<1>3. CASE tab = "open" /\ onFailureConnect
  <2>1. session = "trying" /\ swallowed = FALSE
    BY <1>0, <1>3 DEF onFailureConnect, QueueInv, InUse, TypeOK, session
  <2>2. reconnect(<<>>) /\ link' = "closed" /\ tab' = tab /\ swallowed' = swallowed
    BY <1>3 DEF onFailureConnect
  <2>3. \/ callback' = "waiting" /\ Post(<<>>)
        \/ callback' = "idle" /\ Post(<<>> \o <<"FAILURE">>)
    BY <1>3, <2>2, ReconnectOutcome DEF onFailureConnect
  <2>4. CASE callback' = "waiting" /\ Post(<<>>)
    <3>1. events' = events
      BY <1>0, <1>3, <2>4 DEF Post, TypeOK
    <3>2. session' = "trying"
      BY <1>3, <2>1, <2>2, <2>4 DEF session
    <3>3. QED
      BY <2>1, <3>1, <3>2 DEF Contract!cvars
  <2>5. CASE callback' = "idle" /\ Post(<<>> \o <<"FAILURE">>)
    <3>1. events' = Append(events, "FAILURE")
      BY <1>0, <1>3, <2>5 DEF Post, TypeOK
    <3>2. session' = "idle"
      BY <1>3, <2>1, <2>2, <2>5 DEF session
    <3>3. QED
      BY <2>1, <3>1, <3>2 DEF Contract!CNext, Contract!GiveUp
  <2>6. QED
    BY <2>3, <2>4, <2>5
<1>4. CASE tab = "open" /\ onConnected
  <2>1. events' = Append(events, "CONNECTED")
    BY <1>0, <1>4 DEF onConnected, Post, TypeOK
  <2>2. session = "trying" /\ session' \in {"live", "closing"}
    BY <1>0, <1>4 DEF onConnected, QueueInv, InUse, TypeOK, session
  <2>3. QED
    BY <2>1, <2>2 DEF Contract!CNext, Contract!Establish
<1>5. CASE tab = "open" /\ connection_lost
  <2>1. session = "live" /\ swallowed = FALSE
    BY <1>0, <1>5 DEF connection_lost, QueueInv, PhasesInv, InUse, TypeOK, session
  <2>2. reconnect(<<"LOST">>) /\ link' = "closed" /\ tab' = tab /\ swallowed' = swallowed
    BY <1>5 DEF connection_lost
  <2>3. \/ callback' = "waiting" /\ Post(<<"LOST">>)
        \/ callback' = "idle" /\ Post(<<"LOST">> \o <<"FAILURE">>)
    BY <1>5, <2>2, ReconnectOutcome DEF connection_lost
  <2>4. CASE callback' = "waiting" /\ Post(<<"LOST">>)
    <3>1. events' = Append(events, "LOST")
      BY <1>0, <1>5, <2>4 DEF Post, TypeOK
    <3>2. session' = "trying"
      BY <1>5, <2>1, <2>2, <2>4 DEF session
    <3>3. QED
      BY <2>1, <3>1, <3>2 DEF Contract!CNext, Contract!Drop
  <2>5. CASE callback' = "idle" /\ Post(<<"LOST">> \o <<"FAILURE">>)
    <3>1. events' = events \o <<"LOST", "FAILURE">>
      BY <1>0, <1>5, <2>5 DEF Post, TypeOK
    <3>2. session' = "idle"
      BY <1>5, <2>1, <2>2, <2>5 DEF session
    <3>3. QED
      BY <2>1, <3>1, <3>2 DEF Contract!CNext, Contract!Drop
  <2>6. QED
    BY <2>3, <2>4, <2>5
<1>6. CASE tab = "open" /\ onSuccessDisconnect
  <2>1. events' = Append(events, "DISCONNECTED")
    BY <1>0, <1>6 DEF onSuccessDisconnect, Post, TypeOK
  <2>2. session = "closing" /\ session' = "idle"
    BY <1>0, <1>6 DEF onSuccessDisconnect, QueueInv, PhasesInv, InUse, TypeOK, session
  <2>3. QED
    BY <2>1, <2>2 DEF Contract!CNext, Contract!Closed
<1>7. CASE tab = "open" /\ onFailureDisconnect
  <2>1. session = "closing" /\ session' = "dead" /\ events' = events
    BY <1>0, <1>7 DEF onFailureDisconnect, QueueInv, InUse, TypeOK, session
  <2>2. QED
    BY <1>7, <2>1 DEF onFailureDisconnect, Contract!CNext, Contract!Die
<1>8. CASE tab = "open" /\ WaitIsCanceled
  <2>1. events' = Append(events, "DISCONNECTED")
    BY <1>0, <1>8 DEF WaitIsCanceled, Post, TypeOK
  <2>2. session = "trying" /\ session' = "idle"
    BY <1>0, <1>8 DEF WaitIsCanceled, QueueInv, PhasesInv, InUse, TypeOK, session
  <2>3. QED
    BY <2>1, <2>2 DEF Contract!CNext, Contract!GiveUp
<1>9. CASE tab = "open" /\ WaitElapses
  BY <1>0, <1>9 DEF WaitElapses, PhasesInv, session, Contract!cvars
<1>10. CASE tab = "open" /\ Attempt
  <2>1. session = "trying" /\ events' = events /\ swallowed = FALSE
    BY <1>0, <1>10 DEF Attempt, QueueInv, PhasesInv, InUse, TypeOK, session
  <2>2. session' = "trying" \/ (session' = "dead" /\ PahoErrors)
    BY <1>10, <2>1 DEF Attempt, PahoConnect, session
  <2>3. QED
    BY <2>1, <2>2 DEF Contract!CNext, Contract!Die, Contract!cvars
<1>11. QED
  BY <1>1, <1>2, <1>3, <1>4, <1>5, <1>6, <1>7, <1>8, <1>9, <1>10 DEF CallbackStep

\* The notifications of MQTT::Client follow the contract of its Observer
\* interface: in order, an outcome for every session, none to a closed tab.
THEOREM Implementation == Spec => KeepsContract
<1>1. IInv /\ [Next]_vars => [Contract!CNext]_(Contract!cvars)
  <2> SUFFICES ASSUME IInv, [Next]_vars
               PROVE  Contract!CNext \/ UNCHANGED Contract!cvars
    OBVIOUS
  <2>1. CASE LinkBreaks
    <3>1. events' = events
      BY <2>1 DEF LinkBreaks, ui
    <3>2. \/ session' = session
          \/ session = "closing" /\ session' = "live"
      BY <2>1 DEF LinkBreaks, ui, ghost, session
    <3>3. QED
      BY <3>1, <3>2 DEF Contract!CNext, Contract!CloseAborted, Contract!cvars
  <2>2. CASE UNCHANGED vars
    BY <2>2 DEF vars, paho, ui, ghost, session, Contract!cvars
  <2>3. QED
    BY <2>1, <2>2, ContractGui, ContractCallback DEF Next
<1>2. QED
  BY Invariance, ContractInit, <1>1, PTL DEF Spec, KeepsContract, Contract!CSpec
===============================================================================
