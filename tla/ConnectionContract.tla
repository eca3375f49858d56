-------------------------- MODULE ConnectionContract --------------------------
(***************************************************************************)
(* What MQTT::Client promises the tab that observes it (the interface      *)
(* MQTT::Client::Observer): which notifications a session posts, in which  *)
(* order.  Threads, retries, the cancel flag and Paho are left out;        *)
(* Connection.tla is shown to implement this specification.                *)
(***************************************************************************)
EXTENDS Sequences

CONSTANT MayDie     \* TRUE: an error of the MQTT library may only be logged

VARIABLES
  session,          \* what the MQTT client is doing for the tab
  posted            \* notifications posted to the tab, not yet handled

cvars == <<session, posted>>

Notifications == {"CONNECTED", "DISCONNECTED", "LOST", "FAILURE"}
Sessions == {"idle", "trying", "live", "closing", "dead", "abandoned"}

CTypeOK ==
  /\ session \in Sessions
  /\ posted \in Seq(Notifications)

CInit ==
  /\ session \in IF MayDie THEN {"trying", "dead"} ELSE {"trying"}
  /\ posted = <<>>

\* A session starts only when the tab has handled everything about the last.
Start ==
  /\ session = "idle" /\ posted = <<>>
  /\ session' \in IF MayDie THEN {"trying", "dead"} ELSE {"trying"}
  /\ UNCHANGED posted

\* A pending request to disconnect may be older than the notification.
Establish ==
  /\ session = "trying"
  /\ session' \in {"live", "closing"}
  /\ posted' = Append(posted, "CONNECTED")

GiveUp ==
  /\ session = "trying"
  /\ session' = "idle"
  /\ \E n \in {"DISCONNECTED", "FAILURE"} : posted' = Append(posted, n)

\* The loss of an established connection is always announced, before any
\* other notification.
Drop ==
  /\ session = "live"
  /\ \/ session' = "trying" /\ posted' = Append(posted, "LOST")
     \/ session' = "idle" /\ posted' = posted \o <<"LOST", "FAILURE">>

Close ==
  /\ session = "live"
  /\ session' = "closing"
  /\ UNCHANGED posted

\* The connection breaks before the request to disconnect is carried out.
CloseAborted ==
  /\ session = "closing"
  /\ session' = "live"
  /\ UNCHANGED posted

Closed ==
  /\ session = "closing"
  /\ session' = "idle"
  /\ posted' = Append(posted, "DISCONNECTED")

Die ==
  /\ MayDie /\ session \in {"trying", "closing"}
  /\ session' = "dead"
  /\ UNCHANGED posted

Handle ==
  /\ posted # <<>>
  /\ posted' = Tail(posted)
  /\ UNCHANGED session

\* After the tab is closed nothing is posted to it any more.
Abandon ==
  /\ session # "abandoned"
  /\ session' = "abandoned"
  /\ posted' = <<>>

CNext ==
  \/ Start \/ Establish \/ GiveUp \/ Drop \/ Close \/ CloseAborted \/ Closed
  \/ Die \/ Handle \/ Abandon

CSpec == CInit /\ [][CNext]_cvars
===============================================================================
