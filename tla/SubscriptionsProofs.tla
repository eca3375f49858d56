-------------------------- MODULE SubscriptionsProofs --------------------------
(***************************************************************************)
(* What holds of Subscriptions for every set of filters, every matching    *)
(* relation and every bound: its type invariant and the five invariants    *)
(* its run checks, by one inductive invariant.                             *)
(***************************************************************************)
EXTENDS Subscriptions, TLAPS

\* What was created has a filter; what exists was created.
CreatedInv ==
  /\ registry \cup rows \subseteq 1..mSubscriptionIds
  /\ \A id \in 1..mSubscriptionIds : filter[id] \in Filters

\* While the GUI thread is inside subscribe, its filter has no row yet.
GuiInv ==
  gui # "idle" => /\ cur \in 1..mSubscriptionIds
                  /\ \A id \in rows : filter[id] # filter[cur]

\* A row is told only when its entry is on the way out.
ToldInv ==
  \A id \in told : id \notin registry \/ Dying(id)

\* What is Subscribed when a connection begins is left from a DISCONNECT.
StaleInv ==
  net \in {"down", "acked"} =>
    \A id \in registry : state[id] = "Subscribed" => id \in stale

\* What no exception is made for.
Minded == registry \ (stale \cup spared)

\* Before the client is told of a connection, an entry is one it will ask for,
\* and stays so, or has been asked for already.
AskedInv ==
  net \in {"down", "acked"} =>
    \A id \in Minded : \/ state[id] = "ToSubscribe" /\ ~(gui = "mark" /\ cur = id)
                       \/ inflight[filter[id]] # <<>>

\* doSubscribe does not pass over an entry that nobody else has asked for.
CheckInv ==
  net = "up" /\ ~closing /\ gui = "check" /\ cur \in Minded =>
    \/ state[cur] = "ToSubscribe" \/ Dying(cur)
    \/ filter[cur] \in broker \/ inflight[filter[cur]] # <<>>

\* A DISCONNECT is pending only on a connection that is up.
ClosingInv == closing => net = "up"

IInv ==
  /\ TypeOK /\ CreatedInv /\ GuiInv /\ ToldInv /\ StaleInv /\ ClosingInv
  /\ AskedInv /\ CheckInv
  /\ FiltersAreUnique /\ RegisteredHasRow /\ RowIsBacked
  /\ NothingIsForgotten /\ SubscribedIsHeld

-------------------------------------------------------------------------------
(* What the helpers do to the types. *)

\* A request appended for a filter is one of the two kinds.
LEMMA SendTyped ==
  ASSUME inflight \in [Filters -> Seq({"SUB", "UNSUB"})],
         NEW f \in Filters, NEW request \in {"SUB", "UNSUB"}, Send(f, request)
  PROVE  inflight' \in [Filters -> Seq({"SUB", "UNSUB"})]
BY DEF Send

\* A request sent leaves no filter without one that had one.
LEMMA SendAsks ==
  ASSUME inflight \in [Filters -> Seq({"SUB", "UNSUB"})],
         NEW f \in Filters, NEW request \in {"SUB", "UNSUB"}, Send(f, request)
  PROVE  /\ inflight'[f] # <<>>
         /\ \A g \in Filters : inflight[g] # <<>> => inflight'[g] # <<>>
BY DEF Send

\* Only a row that exists is told, and only of a registered entry.
LEMMA NotifyTyped ==
  ASSUME TypeOK, NEW id \in registry, NotifyUnsubscribed(id)
  PROVE  told' \subseteq rows /\ callback' \in {"idle", "erase"} /\ cid' \in 0..MaxIds
BY SubscriptionsAssumption DEF SubscriptionsAssumption, TypeOK, NotifyUnsubscribed

\* An entry has one of the ids.
LEMMA RegistryIds ==
  ASSUME TypeOK
  PROVE  registry \subseteq Ids
<1>1. mSubscriptionIds \in Nat /\ mSubscriptionIds <= MaxIds /\ MaxIds \in Nat
  BY SubscriptionsAssumption DEF SubscriptionsAssumption, TypeOK
<1>2. 1..mSubscriptionIds \subseteq Ids
  BY <1>1 DEF Ids
<1>3. QED
  BY <1>2 DEF TypeOK

\* What NotifyTyped says, of the first entry that matches, if there is one.
LEMMA RemoveTyped ==
  ASSUME TypeOK, NEW f, RemoveFirstMatch(f)
  PROVE  told' \subseteq rows /\ callback' \in {"idle", "erase"} /\ cid' \in 0..MaxIds
<1>1. CASE UNCHANGED <<told, callback, cid>>
  BY <1>1 DEF TypeOK
<1>2. CASE \E id \in registry : NotifyUnsubscribed(id)
  BY <1>2, NotifyTyped
<1>3. QED
  BY <1>1, <1>2 DEF RemoveFirstMatch

-------------------------------------------------------------------------------
(* The inductive invariant, action by action.  Filters are unique because a *)
(* new entry has a filter none has, and a new row the filter of an entry;   *)
(* ToldInv keeps an entry from losing its row before it is erased itself;   *)
(* AskedInv and CheckInv are NothingIsForgotten before a connection is told *)
(* of and inside subscribe.                                                 *)

\* Nothing exists at first.
LEMMA InitIInv == Init => IInv
<1> SUFFICES ASSUME Init PROVE IInv
  OBVIOUS
<1> USE SubscriptionsAssumption DEF SubscriptionsAssumption, Init
<1>1. TypeOK
  <2>1. inflight \in [Filters -> Seq({"SUB", "UNSUB"})]
    OBVIOUS
  <2>2. filter \in [Ids -> Filters \cup {"none"}] /\ state \in [Ids -> States]
    BY DEF States
  <2>3. 0 \in 0..MaxIds
    OBVIOUS
  <2>4. QED
    BY <2>1, <2>2, <2>3 DEF TypeOK
<1>2. /\ CreatedInv /\ GuiInv /\ ToldInv /\ StaleInv /\ ClosingInv
      /\ AskedInv /\ CheckInv
  BY DEF CreatedInv, GuiInv, ToldInv, StaleInv, ClosingInv, AskedInv, CheckInv,
     Minded
<1>3. FiltersAreUnique /\ RegisteredHasRow /\ RowIsBacked
  BY DEF FiltersAreUnique, RegisteredHasRow, RowIsBacked
<1>4. NothingIsForgotten /\ SubscribedIsHeld
  BY DEF NothingIsForgotten, SubscribedIsHeld
<1>5. QED
  BY <1>1, <1>2, <1>3, <1>4 DEF IInv

LEMMA StepSubscribe ==
  ASSUME IInv, NEW f \in Filters, subscribe(f)
  PROVE  IInv'
<1> USE SubscriptionsAssumption
   DEF SubscriptionsAssumption, IInv, subscribe, Registered, client, model, threads, wire
<1>1. CASE /\ Registered(f) = {} /\ mSubscriptionIds < MaxIds
           /\ mSubscriptionIds' = mSubscriptionIds + 1 /\ gui' = "check"
           /\ cur' = mSubscriptionIds + 1
           /\ registry' = registry \cup {mSubscriptionIds + 1}
           /\ filter' = [filter EXCEPT ![mSubscriptionIds + 1] = f]
           /\ state' = [state EXCEPT ![mSubscriptionIds + 1] = "ToSubscribe"]
  <2> DEFINE new == mSubscriptionIds + 1
  <2>1. /\ new \in Ids /\ new \notin 1..mSubscriptionIds
        /\ 1..mSubscriptionIds' = (1..mSubscriptionIds) \cup {new}
        /\ 1..mSubscriptionIds \subseteq Ids
    BY <1>1 DEF TypeOK, Ids
  <2>2. /\ filter'[new] = f /\ state'[new] = "ToSubscribe"
        /\ \A id \in 1..mSubscriptionIds : filter'[id] = filter[id] /\ state'[id] = state[id]
    BY <1>1, <2>1 DEF TypeOK
  <2>3. registry' = registry \cup {new} /\ rows' = rows /\ cur' = new /\ gui' = "check"
    BY <1>1
  <2> HIDE DEF new
  <2>4. TypeOK'
    <3>1. filter' \in [Ids -> Filters \cup {"none"}] /\ state' \in [Ids -> States]
      BY <1>1, <2>1 DEF TypeOK, States
    <3>2. mSubscriptionIds' \in 0..MaxIds /\ cur' \in 0..MaxIds /\ registry' \subseteq 1..mSubscriptionIds'
      BY <1>1, <2>1 DEF TypeOK, Ids, new
    <3>3. QED
      BY <2>3, <3>1, <3>2 DEF TypeOK
  <2>5. CreatedInv'
    BY <2>1, <2>2, <2>3 DEF CreatedInv
  <2>6. GuiInv'
    BY <2>1, <2>2, <2>3 DEF CreatedInv, GuiInv
  <2>7. ToldInv'
    BY <2>1, <2>2, <2>3 DEF TypeOK, CreatedInv, ToldInv, Dying
  <2>8. StaleInv'
    BY <2>1, <2>2, <2>3 DEF TypeOK, CreatedInv, StaleInv
  <2>9. ClosingInv'
    BY <2>1, <2>2, <2>3 DEF ClosingInv
  <2>10. FiltersAreUnique'
    BY <1>1, <2>1, <2>2, <2>3 DEF CreatedInv, FiltersAreUnique
  <2>11. RegisteredHasRow'
    BY <1>1, <2>1, <2>2, <2>3 DEF CreatedInv, RegisteredHasRow, Dying
  <2>12. RowIsBacked'
    BY <2>1, <2>2, <2>3 DEF TypeOK, CreatedInv, RowIsBacked
  <2>13. NothingIsForgotten'
    BY <2>1, <2>2, <2>3 DEF TypeOK, CreatedInv, GuiInv, AskedInv, CheckInv, Minded, Dying,
       NothingIsForgotten, ClosingInv, Ids
  <2>14. SubscribedIsHeld'
    BY <2>1, <2>2, <2>3 DEF TypeOK, CreatedInv, SubscribedIsHeld
  <2>15. AskedInv'
    BY <2>1, <2>2, <2>3 DEF TypeOK, CreatedInv, GuiInv, AskedInv, CheckInv, Minded, Dying,
       NothingIsForgotten, ClosingInv, Ids
  <2>16. CheckInv'
    BY <2>1, <2>2, <2>3 DEF TypeOK, CreatedInv, GuiInv, AskedInv, CheckInv, Minded, Dying,
       NothingIsForgotten, ClosingInv, Ids
  <2>17. QED
    BY <2>4, <2>5, <2>6, <2>7, <2>8, <2>9, <2>10, <2>11, <2>12, <2>13, <2>14, <2>15, <2>16
<1>2. CASE /\ cur' \in Registered(f) /\ gui' = "attach" /\ UNCHANGED client
  <2>1. TypeOK'
    BY <1>2 DEF TypeOK, Ids
  <2>2. CreatedInv'
    BY <1>2 DEF CreatedInv
  <2>3. GuiInv'
    BY <1>2 DEF TypeOK, CreatedInv, GuiInv
  <2>4. ToldInv'
    BY <1>2 DEF TypeOK, CreatedInv, ToldInv, Dying
  <2>5. StaleInv'
    BY <1>2 DEF TypeOK, CreatedInv, StaleInv
  <2>6. ClosingInv'
    BY <1>2 DEF ClosingInv
  <2>7. FiltersAreUnique'
    BY <1>2 DEF CreatedInv, FiltersAreUnique
  <2>8. RegisteredHasRow'
    BY <1>2 DEF TypeOK, CreatedInv, RegisteredHasRow, Dying
  <2>9. RowIsBacked'
    BY <1>2 DEF TypeOK, CreatedInv, RowIsBacked
  <2>10. NothingIsForgotten'
    BY <1>2 DEF TypeOK, CreatedInv, GuiInv, AskedInv, CheckInv, Minded, Dying,
       NothingIsForgotten, ClosingInv, Ids
  <2>11. SubscribedIsHeld'
    BY <1>2 DEF TypeOK, CreatedInv, SubscribedIsHeld
  <2>12. AskedInv'
    BY <1>2 DEF TypeOK, CreatedInv, GuiInv, AskedInv, CheckInv, Minded, Dying,
       NothingIsForgotten, ClosingInv, Ids
  <2>13. CheckInv'
    BY <1>2 DEF TypeOK, CreatedInv, GuiInv, AskedInv, CheckInv, Minded, Dying,
       NothingIsForgotten, ClosingInv, Ids
  <2>14. QED
    BY <2>1, <2>2, <2>3, <2>4, <2>5, <2>6, <2>7, <2>8, <2>9, <2>10, <2>11, <2>12, <2>13
<1>3. QED
  BY <1>1, <1>2

LEMMA StepDoSubscribe ==
  ASSUME IInv, doSubscribe
  PROVE  IInv'
<1> USE SubscriptionsAssumption
   DEF SubscriptionsAssumption, IInv, doSubscribe, connected, Send, client, model,
   threads, wire
<1>1. TypeOK'
  <2>1. cur \in registry => filter[cur] \in Filters
    BY DEF CreatedInv
  <2>2. inflight' \in [Filters -> Seq({"SUB", "UNSUB"})]
    BY <2>1, SendTyped DEF TypeOK
  <2>3. gui' \in {"idle", "check", "mark", "attach"}
    OBVIOUS
  <2>4. QED
    BY <2>2, <2>3 DEF TypeOK
<1>2. CreatedInv'
  BY DEF TypeOK, CreatedInv, Ids, GuiInv
<1>3. GuiInv'
  BY DEF TypeOK, CreatedInv, GuiInv, Ids
<1>4. ToldInv'
  BY DEF TypeOK, CreatedInv, ToldInv, Dying
<1>5. StaleInv'
  BY DEF TypeOK, CreatedInv, StaleInv, Ids, ClosingInv
<1>6. ClosingInv'
  BY DEF ClosingInv, TypeOK
<1>7. FiltersAreUnique'
  BY DEF TypeOK, CreatedInv, GuiInv, FiltersAreUnique, Ids
<1>8. RegisteredHasRow'
  BY DEF TypeOK, CreatedInv, GuiInv, ToldInv, RegisteredHasRow, Dying
<1>9. RowIsBacked'
  BY DEF TypeOK, CreatedInv, ToldInv, RowIsBacked, Dying
<1>10. NothingIsForgotten'
  BY DEF TypeOK, CreatedInv, GuiInv, AskedInv, CheckInv, Minded, Dying,
     NothingIsForgotten, ClosingInv, Ids
<1>11. SubscribedIsHeld'
  BY DEF TypeOK, CreatedInv, StaleInv, ClosingInv, FiltersAreUnique, SubscribedIsHeld, Ids
<1>12. AskedInv'
  BY DEF TypeOK, CreatedInv, GuiInv, AskedInv, CheckInv, Minded, Dying,
     NothingIsForgotten, ClosingInv, Ids
<1>13. CheckInv'
  BY DEF TypeOK, CreatedInv, GuiInv, AskedInv, CheckInv, Minded, Dying,
     NothingIsForgotten, ClosingInv, Ids
<1>14. QED
  BY <1>1, <1>2, <1>3, <1>4, <1>5, <1>6, <1>7, <1>8, <1>9, <1>10, <1>11, <1>12, <1>13

LEMMA StepSetPending ==
  ASSUME IInv, SetPending
  PROVE  IInv'
<1> USE SubscriptionsAssumption
   DEF SubscriptionsAssumption, IInv, SetPending, client, model, threads, wire
<1>1. TypeOK'
  BY DEF TypeOK, Ids, States
<1>2. CreatedInv'
  BY DEF TypeOK, CreatedInv, Ids, GuiInv
<1>3. GuiInv'
  BY DEF TypeOK, CreatedInv, GuiInv, Ids
<1>4. ToldInv'
  BY DEF TypeOK, CreatedInv, ToldInv, Dying
<1>5. StaleInv'
  BY DEF TypeOK, CreatedInv, StaleInv, Ids, ClosingInv
<1>6. ClosingInv'
  BY DEF ClosingInv, TypeOK
<1>7. FiltersAreUnique'
  BY DEF TypeOK, CreatedInv, GuiInv, FiltersAreUnique, Ids
<1>8. RegisteredHasRow'
  BY DEF TypeOK, CreatedInv, GuiInv, ToldInv, RegisteredHasRow, Dying
<1>9. RowIsBacked'
  BY DEF TypeOK, CreatedInv, ToldInv, RowIsBacked, Dying
<1>10. NothingIsForgotten'
  BY DEF TypeOK, CreatedInv, GuiInv, AskedInv, CheckInv, Minded, Dying,
     NothingIsForgotten, ClosingInv, Ids
<1>11. SubscribedIsHeld'
  BY DEF TypeOK, CreatedInv, StaleInv, ClosingInv, FiltersAreUnique, SubscribedIsHeld, Ids
<1>12. AskedInv'
  BY DEF TypeOK, CreatedInv, GuiInv, AskedInv, CheckInv, Minded, Dying,
     NothingIsForgotten, ClosingInv, Ids
<1>13. CheckInv'
  BY DEF TypeOK, CreatedInv, GuiInv, AskedInv, CheckInv, Minded, Dying,
     NothingIsForgotten, ClosingInv, Ids
<1>14. QED
  BY <1>1, <1>2, <1>3, <1>4, <1>5, <1>6, <1>7, <1>8, <1>9, <1>10, <1>11, <1>12, <1>13

LEMMA StepAttachRow ==
  ASSUME IInv, AttachRow
  PROVE  IInv'
<1> USE SubscriptionsAssumption
   DEF SubscriptionsAssumption, IInv, AttachRow, Dying, client, model, threads, wire
<1>1. TypeOK'
  <2>1. cur \in Ids
    BY DEF GuiInv, TypeOK, Ids
  <2>2. rows' \subseteq Ids /\ told' \subseteq rows' /\ late' \subseteq rows'
    BY <2>1 DEF TypeOK
  <2>3. cur' \in 0..MaxIds /\ gui' \in {"idle", "check", "mark", "attach"}
    OBVIOUS
  <2>4. QED
    BY <2>2, <2>3 DEF TypeOK
<1>2. CreatedInv'
  BY DEF TypeOK, CreatedInv, Ids, GuiInv
<1>3. GuiInv'
  BY DEF TypeOK, CreatedInv, GuiInv, Ids
<1>4. ToldInv'
  BY DEF TypeOK, CreatedInv, ToldInv, Dying
<1>5. StaleInv'
  BY DEF TypeOK, CreatedInv, StaleInv, Ids, ClosingInv
<1>6. ClosingInv'
  BY DEF ClosingInv, TypeOK
<1>7. FiltersAreUnique'
  BY DEF TypeOK, CreatedInv, GuiInv, FiltersAreUnique, Ids
<1>8. RegisteredHasRow'
  BY DEF TypeOK, CreatedInv, GuiInv, ToldInv, RegisteredHasRow, Dying
<1>9. RowIsBacked'
  BY DEF TypeOK, CreatedInv, ToldInv, RowIsBacked, Dying
<1>10. NothingIsForgotten'
  BY DEF TypeOK, CreatedInv, GuiInv, AskedInv, CheckInv, Minded, Dying,
     NothingIsForgotten, ClosingInv, Ids
<1>11. SubscribedIsHeld'
  BY DEF TypeOK, CreatedInv, StaleInv, ClosingInv, FiltersAreUnique, SubscribedIsHeld, Ids
<1>12. AskedInv'
  BY DEF TypeOK, CreatedInv, GuiInv, AskedInv, CheckInv, Minded, Dying,
     NothingIsForgotten, ClosingInv, Ids
<1>13. CheckInv'
  BY DEF TypeOK, CreatedInv, GuiInv, AskedInv, CheckInv, Minded, Dying,
     NothingIsForgotten, ClosingInv, Ids
<1>14. QED
  BY <1>1, <1>2, <1>3, <1>4, <1>5, <1>6, <1>7, <1>8, <1>9, <1>10, <1>11, <1>12, <1>13

LEMMA StepUnsubscribe ==
  ASSUME IInv, NEW id \in Ids, unsubscribe(id)
  PROVE  IInv'
<1> USE SubscriptionsAssumption
   DEF SubscriptionsAssumption, IInv, unsubscribe, client, model, threads, wire
<1>1. CASE /\ connected
           /\ state' = [state EXCEPT ![id] = "PendingUnsubscription"]
           /\ Send(filter[id], "UNSUB")
           /\ UNCHANGED <<registry, told, stale>>
  <2>0. \A other \in Ids : state'[other] # state[other] => state'[other] = "PendingUnsubscription"
    BY <1>1 DEF TypeOK
  <2>a. /\ inflight'[filter[id]] # <<>>
        /\ \A g \in Filters : inflight[g] # <<>> => inflight'[g] # <<>>
    BY <1>1, SendAsks DEF TypeOK, CreatedInv
  <2>b. \A other \in Ids \ {id} : state'[other] = state[other]
    BY <1>1 DEF TypeOK
  <2>1. TypeOK'
    <3>1. inflight' \in [Filters -> Seq({"SUB", "UNSUB"})]
      BY <1>1, SendTyped DEF TypeOK, CreatedInv
    <3>2. state' \in [Ids -> States]
      BY <1>1 DEF TypeOK, States
    <3>3. QED
      BY <1>1, <3>1, <3>2 DEF TypeOK
  <2>2. CreatedInv'
    BY <1>1, <2>0 DEF TypeOK, CreatedInv, Ids, GuiInv
  <2>3. GuiInv'
    BY <1>1, <2>0 DEF TypeOK, CreatedInv, GuiInv, Ids
  <2>4. ToldInv'
    BY <1>1, <2>0 DEF TypeOK, CreatedInv, ToldInv, Dying
  <2>5. StaleInv'
    BY <1>1, <2>0 DEF TypeOK, CreatedInv, StaleInv, Ids, ClosingInv
  <2>6. ClosingInv'
    BY <1>1, <2>0 DEF ClosingInv, TypeOK
  <2>7. FiltersAreUnique'
    BY <1>1, <2>0 DEF TypeOK, CreatedInv, GuiInv, FiltersAreUnique, Ids
  <2>8. RegisteredHasRow'
    BY <1>1, <2>0 DEF TypeOK, CreatedInv, GuiInv, ToldInv, RegisteredHasRow, Dying
  <2>9. RowIsBacked'
    BY <1>1, <2>0 DEF TypeOK, CreatedInv, ToldInv, RowIsBacked, Dying
  <2>10. NothingIsForgotten'
    BY <1>1, <2>0, <2>a DEF TypeOK, CreatedInv, GuiInv, AskedInv, CheckInv, Minded, Dying,
       NothingIsForgotten, ClosingInv, Ids
  <2>11. SubscribedIsHeld'
    BY <1>1, <2>0 DEF TypeOK, CreatedInv, StaleInv, ClosingInv, FiltersAreUnique,
       SubscribedIsHeld, Ids
  <2>12. AskedInv'
    BY <1>1, <2>0, <2>a, <2>b DEF TypeOK, CreatedInv, GuiInv, AskedInv, CheckInv, Minded, Dying,
       NothingIsForgotten, ClosingInv, Ids
  <2>13. CheckInv'
    BY <1>1, <2>0 DEF TypeOK, CreatedInv, GuiInv, AskedInv, CheckInv, Minded, Dying,
       NothingIsForgotten, ClosingInv, Ids
  <2>14. QED
    BY <2>1, <2>2, <2>3, <2>4, <2>5, <2>6, <2>7, <2>8, <2>9, <2>10, <2>11, <2>12, <2>13
<1>2. CASE /\ ~connected
           /\ state' = [state EXCEPT ![id] = "Unsubscribed"]
           /\ told' = told \cup {id}
           /\ registry' = registry \ {id} /\ stale' = stale \ {id}
           /\ UNCHANGED inflight
  <2>0. \A other \in Ids \ {id} : state'[other] = state[other]
    BY <1>2 DEF TypeOK
  <2>1. TypeOK'
    BY <1>2, <2>0 DEF TypeOK, Ids, States
  <2>2. CreatedInv'
    BY <1>2, <2>0 DEF TypeOK, CreatedInv, Ids, GuiInv
  <2>3. GuiInv'
    BY <1>2, <2>0 DEF TypeOK, CreatedInv, GuiInv, Ids
  <2>4. ToldInv'
    BY <1>2, <2>0 DEF TypeOK, CreatedInv, ToldInv, Dying
  <2>5. StaleInv'
    BY <1>2, <2>0 DEF TypeOK, CreatedInv, StaleInv, Ids, ClosingInv
  <2>6. ClosingInv'
    BY <1>2, <2>0 DEF ClosingInv, TypeOK
  <2>7. FiltersAreUnique'
    BY <1>2, <2>0 DEF TypeOK, CreatedInv, GuiInv, FiltersAreUnique, Ids
  <2>8. RegisteredHasRow'
    BY <1>2, <2>0 DEF TypeOK, CreatedInv, GuiInv, ToldInv, RegisteredHasRow, Dying
  <2>9. RowIsBacked'
    BY <1>2, <2>0 DEF TypeOK, CreatedInv, ToldInv, RowIsBacked, Dying
  <2>10. NothingIsForgotten'
    BY <1>2, <2>0 DEF TypeOK, CreatedInv, GuiInv, AskedInv, CheckInv, Minded, Dying,
       NothingIsForgotten, ClosingInv, Ids
  <2>11. SubscribedIsHeld'
    BY <1>2, <2>0 DEF TypeOK, CreatedInv, StaleInv, ClosingInv, FiltersAreUnique,
       SubscribedIsHeld, Ids
  <2>12. AskedInv'
    BY <1>2, <2>0 DEF TypeOK, CreatedInv, GuiInv, AskedInv, CheckInv, Minded, Dying,
       NothingIsForgotten, ClosingInv, Ids
  <2>13. CheckInv'
    BY <1>2, <2>0 DEF TypeOK, CreatedInv, GuiInv, AskedInv, CheckInv, Minded, Dying,
       NothingIsForgotten, ClosingInv, Ids
  <2>14. QED
    BY <2>1, <2>2, <2>3, <2>4, <2>5, <2>6, <2>7, <2>8, <2>9, <2>10, <2>11, <2>12, <2>13
<1>3. QED
  BY <1>1, <1>2

LEMMA StepOnUnsubscribed ==
  ASSUME IInv, NEW id \in Ids, onUnsubscribed(id)
  PROVE  IInv'
<1> USE SubscriptionsAssumption
   DEF SubscriptionsAssumption, IInv, onUnsubscribed, client, model, threads, wire
<1>1. TypeOK'
  BY DEF TypeOK, Ids, States
<1>2. CreatedInv'
  BY DEF TypeOK, CreatedInv, Ids, GuiInv
<1>3. GuiInv'
  BY DEF TypeOK, CreatedInv, GuiInv, Ids
<1>4. ToldInv'
  BY DEF TypeOK, CreatedInv, ToldInv, Dying
<1>5. StaleInv'
  BY DEF TypeOK, CreatedInv, StaleInv, Ids, ClosingInv
<1>6. ClosingInv'
  BY DEF ClosingInv, TypeOK
<1>7. FiltersAreUnique'
  BY DEF TypeOK, CreatedInv, GuiInv, FiltersAreUnique, Ids
<1>8. RegisteredHasRow'
  BY DEF TypeOK, CreatedInv, GuiInv, ToldInv, RegisteredHasRow, Dying
<1>9. RowIsBacked'
  BY DEF TypeOK, CreatedInv, ToldInv, RowIsBacked, Dying
<1>10. NothingIsForgotten'
  BY DEF TypeOK, CreatedInv, GuiInv, AskedInv, CheckInv, Minded, Dying,
     NothingIsForgotten, ClosingInv, Ids
<1>11. SubscribedIsHeld'
  BY DEF TypeOK, CreatedInv, StaleInv, ClosingInv, FiltersAreUnique, SubscribedIsHeld, Ids
<1>12. AskedInv'
  BY DEF TypeOK, CreatedInv, GuiInv, AskedInv, CheckInv, Minded, Dying,
     NothingIsForgotten, ClosingInv, Ids
<1>13. CheckInv'
  BY DEF TypeOK, CreatedInv, GuiInv, AskedInv, CheckInv, Minded, Dying,
     NothingIsForgotten, ClosingInv, Ids
<1>14. QED
  BY <1>1, <1>2, <1>3, <1>4, <1>5, <1>6, <1>7, <1>8, <1>9, <1>10, <1>11, <1>12, <1>13

LEMMA StepDisconnect ==
  ASSUME IInv, disconnect
  PROVE  IInv'
<1> USE SubscriptionsAssumption
   DEF SubscriptionsAssumption, IInv, disconnect, cleanSubscriptions, client, model,
   threads, wire
<1>1. TypeOK'
  BY DEF TypeOK, Ids, States
<1>2. CreatedInv'
  BY DEF TypeOK, CreatedInv, Ids, GuiInv
<1>3. GuiInv'
  BY DEF TypeOK, CreatedInv, GuiInv, Ids
<1>4. ToldInv'
  BY DEF TypeOK, CreatedInv, ToldInv, Dying
<1>5. StaleInv'
  BY DEF TypeOK, CreatedInv, StaleInv, Ids, ClosingInv
<1>6. ClosingInv'
  BY DEF ClosingInv, TypeOK
<1>7. FiltersAreUnique'
  BY DEF TypeOK, CreatedInv, GuiInv, FiltersAreUnique, Ids
<1>8. RegisteredHasRow'
  BY DEF TypeOK, CreatedInv, GuiInv, ToldInv, RegisteredHasRow, Dying
<1>9. RowIsBacked'
  BY DEF TypeOK, CreatedInv, ToldInv, RowIsBacked, Dying
<1>10. NothingIsForgotten'
  BY DEF TypeOK, CreatedInv, GuiInv, AskedInv, CheckInv, Minded, Dying,
     NothingIsForgotten, ClosingInv, Ids
<1>11. SubscribedIsHeld'
  BY DEF TypeOK, CreatedInv, StaleInv, ClosingInv, FiltersAreUnique, SubscribedIsHeld, Ids
<1>12. AskedInv'
  BY DEF TypeOK, CreatedInv, GuiInv, AskedInv, CheckInv, Minded, Dying,
     NothingIsForgotten, ClosingInv, Ids
<1>13. CheckInv'
  BY DEF TypeOK, CreatedInv, GuiInv, AskedInv, CheckInv, Minded, Dying,
     NothingIsForgotten, ClosingInv, Ids
<1>14. QED
  BY <1>1, <1>2, <1>3, <1>4, <1>5, <1>6, <1>7, <1>8, <1>9, <1>10, <1>11, <1>12, <1>13

LEMMA StepConnack ==
  ASSUME IInv, Connack
  PROVE  IInv'
<1> USE SubscriptionsAssumption
   DEF SubscriptionsAssumption, IInv, Connack, client, model, threads, wire
<1>1. TypeOK'
  BY DEF TypeOK, Ids, States
<1>2. CreatedInv'
  BY DEF TypeOK, CreatedInv, Ids, GuiInv
<1>3. GuiInv'
  BY DEF TypeOK, CreatedInv, GuiInv, Ids
<1>4. ToldInv'
  BY DEF TypeOK, CreatedInv, ToldInv, Dying
<1>5. StaleInv'
  BY DEF TypeOK, CreatedInv, StaleInv, Ids, ClosingInv
<1>6. ClosingInv'
  BY DEF ClosingInv, TypeOK
<1>7. FiltersAreUnique'
  BY DEF TypeOK, CreatedInv, GuiInv, FiltersAreUnique, Ids
<1>8. RegisteredHasRow'
  BY DEF TypeOK, CreatedInv, GuiInv, ToldInv, RegisteredHasRow, Dying
<1>9. RowIsBacked'
  BY DEF TypeOK, CreatedInv, ToldInv, RowIsBacked, Dying
<1>10. NothingIsForgotten'
  BY DEF TypeOK, CreatedInv, GuiInv, AskedInv, CheckInv, Minded, Dying,
     NothingIsForgotten, ClosingInv, Ids
<1>11. SubscribedIsHeld'
  BY DEF TypeOK, CreatedInv, StaleInv, ClosingInv, FiltersAreUnique, SubscribedIsHeld, Ids
<1>12. AskedInv'
  BY DEF TypeOK, CreatedInv, GuiInv, AskedInv, CheckInv, Minded, Dying,
     NothingIsForgotten, ClosingInv, Ids
<1>13. CheckInv'
  BY DEF TypeOK, CreatedInv, GuiInv, AskedInv, CheckInv, Minded, Dying,
     NothingIsForgotten, ClosingInv, Ids
<1>14. QED
  BY <1>1, <1>2, <1>3, <1>4, <1>5, <1>6, <1>7, <1>8, <1>9, <1>10, <1>11, <1>12, <1>13

LEMMA StepOnConnected ==
  ASSUME IInv, onConnected
  PROVE  IInv'
<1> USE SubscriptionsAssumption
   DEF SubscriptionsAssumption, IInv, onConnected, client, model, threads, wire
<1>a. /\ \A g \in Filters : inflight[g] # <<>> => inflight'[g] # <<>>
      /\ \A id \in registry : state[id] = "ToSubscribe" /\ filter[id] \in Filters =>
           inflight'[filter[id]] # <<>>
  <2>1. ASSUME NEW g \in Filters PROVE Append(inflight[g], "SUB") # <<>>
    <3>1. inflight[g] \in Seq({"SUB", "UNSUB"})
      BY DEF TypeOK
    <3>2. QED
      BY <3>1
  <2>2. \A g \in Filters :
          inflight'[g] = IF \E id \in registry : state[id] = "ToSubscribe" /\ filter[id] = g
                         THEN Append(inflight[g], "SUB") ELSE inflight[g]
    OBVIOUS
  <2>3. QED
    BY <2>1, <2>2
<1>b. \A id \in registry' : filter'[id] \in Filters
  BY DEF CreatedInv
<1>c. \A id \in registry' : \/ inflight'[filter'[id]] # <<>>
                            \/ id \in stale' \cup spared'
  BY <1>a, <1>b DEF AskedInv, Minded
<1>1. TypeOK'
  <2>1. inflight' \in [Filters -> Seq({"SUB", "UNSUB"})]
    BY DEF TypeOK
  <2>2. state' \in [Ids -> States]
    BY DEF TypeOK, States
  <2>3. QED
    BY <2>1, <2>2 DEF TypeOK
<1>2. CreatedInv'
  BY DEF TypeOK, CreatedInv, Ids, GuiInv
<1>3. GuiInv'
  BY DEF TypeOK, CreatedInv, GuiInv, Ids
<1>4. ToldInv'
  BY DEF TypeOK, CreatedInv, ToldInv, Dying
<1>5. StaleInv'
  BY DEF TypeOK, CreatedInv, StaleInv, Ids, ClosingInv
<1>6. ClosingInv'
  BY DEF ClosingInv, TypeOK
<1>7. FiltersAreUnique'
  BY DEF TypeOK, CreatedInv, GuiInv, FiltersAreUnique, Ids
<1>8. RegisteredHasRow'
  BY DEF TypeOK, CreatedInv, GuiInv, ToldInv, RegisteredHasRow, Dying
<1>9. RowIsBacked'
  BY DEF TypeOK, CreatedInv, ToldInv, RowIsBacked, Dying
<1>10. NothingIsForgotten'
  BY <1>c DEF TypeOK, CreatedInv, GuiInv, AskedInv, CheckInv, Minded, Dying,
     NothingIsForgotten, ClosingInv, Ids
<1>11. SubscribedIsHeld'
  BY DEF TypeOK, CreatedInv, StaleInv, ClosingInv, FiltersAreUnique, SubscribedIsHeld, Ids
<1>12. AskedInv'
  BY DEF TypeOK, CreatedInv, GuiInv, AskedInv, CheckInv, Minded, Dying,
     NothingIsForgotten, ClosingInv, Ids
<1>13. CheckInv'
  BY <1>c DEF CheckInv, Minded
<1>14. QED
  BY <1>1, <1>2, <1>3, <1>4, <1>5, <1>6, <1>7, <1>8, <1>9, <1>10, <1>11, <1>12, <1>13

LEMMA StepSuccessSubscribe ==
  ASSUME IInv, NEW f \in Filters, onSuccessSubscribe(f)
  PROVE  IInv'
<1> USE SubscriptionsAssumption
   DEF SubscriptionsAssumption, IInv, onSuccessSubscribe, Answered, Registered, client,
   model, threads, wire
<1>1. TypeOK'
  <2>1. inflight' \in [Filters -> Seq({"SUB", "UNSUB"})]
    BY DEF TypeOK
  <2>2. state' \in [Ids -> States]
    BY DEF TypeOK, States
  <2>3. stale' \subseteq Ids /\ broker' \subseteq Filters
    <3>1. Registered(f) \subseteq Ids
      BY RegistryIds
    <3>2. QED
      BY <3>1 DEF TypeOK
  <2>4. QED
    BY <2>1, <2>2, <2>3 DEF TypeOK
<1>2. CreatedInv'
  BY DEF TypeOK, CreatedInv, Ids, GuiInv
<1>3. GuiInv'
  BY DEF TypeOK, CreatedInv, GuiInv, Ids
<1>4. ToldInv'
  BY DEF TypeOK, CreatedInv, ToldInv, Dying
<1>5. StaleInv'
  BY DEF TypeOK, CreatedInv, StaleInv, Ids, ClosingInv
<1>6. ClosingInv'
  BY DEF ClosingInv, TypeOK
<1>7. FiltersAreUnique'
  BY DEF TypeOK, CreatedInv, GuiInv, FiltersAreUnique, Ids
<1>8. RegisteredHasRow'
  BY DEF TypeOK, CreatedInv, GuiInv, ToldInv, RegisteredHasRow, Dying
<1>9. RowIsBacked'
  BY DEF TypeOK, CreatedInv, ToldInv, RowIsBacked, Dying
<1>10. NothingIsForgotten'
  BY DEF TypeOK, CreatedInv, GuiInv, AskedInv, CheckInv, Minded, Dying,
     NothingIsForgotten, ClosingInv, Ids
<1>11. SubscribedIsHeld'
  BY DEF TypeOK, CreatedInv, StaleInv, ClosingInv, FiltersAreUnique, SubscribedIsHeld, Ids
<1>12. AskedInv'
  BY DEF TypeOK, CreatedInv, GuiInv, AskedInv, CheckInv, Minded, Dying,
     NothingIsForgotten, ClosingInv, Ids
<1>13. CheckInv'
  BY DEF TypeOK, CreatedInv, GuiInv, AskedInv, CheckInv, Minded, Dying,
     NothingIsForgotten, ClosingInv, Ids
<1>14. QED
  BY <1>1, <1>2, <1>3, <1>4, <1>5, <1>6, <1>7, <1>8, <1>9, <1>10, <1>11, <1>12, <1>13

LEMMA StepFailureSubscribe ==
  ASSUME IInv, NEW f \in Filters, onFailureSubscribe(f)
  PROVE  IInv'
<1> USE SubscriptionsAssumption
   DEF SubscriptionsAssumption, IInv, onFailureSubscribe, Answered, RemoveFirstMatch,
   NotifyUnsubscribed, client, model, threads, wire
<1>a. \A g \in Filters \ {f} : inflight'[g] = inflight[g]
  BY DEF TypeOK
<1>b. \A id \in registry : filter[id] = f => id \in spared' \/ Dying(id)'
  <2>1. SUFFICES ASSUME NEW id \in registry, filter[id] = f, id # cid'
                 PROVE  id \in spared'
    <3>1. <<f, f>> \in Matches
      OBVIOUS
    <3>2. \A id \in registry : filter[id] = f => callback' = "erase"
      BY <3>1
    <3>3. QED
      BY <2>1, <3>2 DEF Dying
  <2>2. QED
    BY <2>1 DEF Registered
<1>c. spared \subseteq spared' /\ \A id \in registry : filter[id] \in Filters
  BY DEF CreatedInv, TypeOK
<1>1. TypeOK'
  <2>1. inflight' \in [Filters -> Seq({"SUB", "UNSUB"})]
    BY DEF TypeOK
  <2>2. told' \subseteq rows /\ callback' \in {"idle", "erase"} /\ cid' \in 0..MaxIds
    BY RemoveTyped DEF TypeOK
  <2>3. spared' \subseteq Ids
    <3>1. Registered(f) \subseteq Ids
      BY RegistryIds DEF Registered
    <3>2. QED
      BY <3>1 DEF TypeOK
  <2>4. QED
    BY <2>1, <2>2, <2>3 DEF TypeOK
<1>2. CreatedInv'
  BY DEF TypeOK, CreatedInv, Ids, GuiInv
<1>3. GuiInv'
  BY DEF TypeOK, CreatedInv, GuiInv, Ids
<1>4. ToldInv'
  BY DEF TypeOK, CreatedInv, ToldInv, Dying
<1>5. StaleInv'
  BY DEF TypeOK, CreatedInv, StaleInv, Ids, ClosingInv
<1>6. ClosingInv'
  BY DEF ClosingInv, TypeOK
<1>7. FiltersAreUnique'
  BY DEF TypeOK, CreatedInv, GuiInv, FiltersAreUnique, Ids
<1>8. RegisteredHasRow'
  BY DEF TypeOK, CreatedInv, GuiInv, ToldInv, RegisteredHasRow, Dying
<1>9. RowIsBacked'
  BY DEF TypeOK, CreatedInv, ToldInv, RowIsBacked, Dying
<1>10. NothingIsForgotten'
  BY <1>a, <1>b, <1>c DEF NothingIsForgotten, Dying
<1>11. SubscribedIsHeld'
  BY DEF TypeOK, CreatedInv, StaleInv, ClosingInv, FiltersAreUnique, SubscribedIsHeld, Ids
<1>12. AskedInv'
  BY DEF TypeOK, CreatedInv, GuiInv, AskedInv, CheckInv, Minded, Dying,
     NothingIsForgotten, ClosingInv, Ids
<1>13. CheckInv'
  BY <1>a, <1>b, <1>c DEF CheckInv, Minded, Dying
<1>14. QED
  BY <1>1, <1>2, <1>3, <1>4, <1>5, <1>6, <1>7, <1>8, <1>9, <1>10, <1>11, <1>12, <1>13

LEMMA StepSuccessUnsubscribe ==
  ASSUME IInv, NEW f \in Filters, onSuccessUnsubscribe(f)
  PROVE  IInv'
<1> USE SubscriptionsAssumption
   DEF SubscriptionsAssumption, IInv, onSuccessUnsubscribe, Answered, Registered,
   NotifyUnsubscribed, client, model, threads, wire
<1>a. \A g \in Filters \ {f} : inflight'[g] = inflight[g]
  BY DEF TypeOK
<1>b. \A id \in registry : filter[id] = f => Dying(id)'
  BY DEF FiltersAreUnique, Dying
<1>c. \A id \in registry : filter[id] \in Filters
  BY DEF CreatedInv
<1>d. \A id \in registry : filter[id] # f => state'[id] = state[id]
  BY DEF TypeOK, CreatedInv, Ids
<1>1. TypeOK'
  <2>1. inflight' \in [Filters -> Seq({"SUB", "UNSUB"})]
    BY DEF TypeOK
  <2>2. /\ told' \subseteq rows /\ callback' \in {"idle", "erase"} /\ cid' \in 0..MaxIds
        /\ state' \in [Ids -> States]
    BY NotifyTyped DEF TypeOK, States
  <2>3. QED
    BY <2>1, <2>2 DEF TypeOK
<1>2. CreatedInv'
  BY DEF TypeOK, CreatedInv, Ids, GuiInv
<1>3. GuiInv'
  BY DEF TypeOK, CreatedInv, GuiInv, Ids
<1>4. ToldInv'
  BY DEF TypeOK, CreatedInv, ToldInv, Dying
<1>5. StaleInv'
  BY DEF TypeOK, CreatedInv, StaleInv, Ids, ClosingInv
<1>6. ClosingInv'
  BY DEF ClosingInv, TypeOK
<1>7. FiltersAreUnique'
  BY DEF TypeOK, CreatedInv, GuiInv, FiltersAreUnique, Ids
<1>8. RegisteredHasRow'
  BY DEF TypeOK, CreatedInv, GuiInv, ToldInv, RegisteredHasRow, Dying
<1>9. RowIsBacked'
  BY DEF TypeOK, CreatedInv, ToldInv, RowIsBacked, Dying
<1>10. NothingIsForgotten'
  BY <1>a, <1>b, <1>c DEF NothingIsForgotten, Dying
<1>11. SubscribedIsHeld'
  <2> SUFFICES ASSUME net = "up", NEW id \in registry \ stale, state'[id] = "Subscribed"
               PROVE  filter[id] \in broker'
    BY DEF SubscribedIsHeld
  <2>1. id \in Ids
    BY DEF TypeOK, CreatedInv, Ids
  <2>2. filter[id] # f
    <3> SUFFICES ASSUME id \in Registered(f) PROVE FALSE
      OBVIOUS
    <3>1. PICK first \in Registered(f) : state' = [state EXCEPT ![first] = "Unsubscribed"]
      OBVIOUS
    <3>2. first = id
      BY <3>1 DEF FiltersAreUnique
    <3>3. QED
      BY <2>1, <3>1, <3>2 DEF TypeOK
  <2>3. state[id] = "Subscribed"
    BY <2>1 DEF TypeOK
  <2>4. QED
    BY <2>2, <2>3 DEF SubscribedIsHeld
<1>12. AskedInv'
  BY DEF TypeOK, CreatedInv, GuiInv, AskedInv, CheckInv, Minded, Dying,
     NothingIsForgotten, ClosingInv, Ids
<1>13. CheckInv'
  BY <1>a, <1>b, <1>c, <1>d DEF CheckInv, Minded, Dying
<1>14. QED
  BY <1>1, <1>2, <1>3, <1>4, <1>5, <1>6, <1>7, <1>8, <1>9, <1>10, <1>11, <1>12, <1>13

LEMMA StepErase ==
  ASSUME IInv, Erase
  PROVE  IInv'
<1> USE SubscriptionsAssumption
   DEF SubscriptionsAssumption, IInv, Erase, client, model, threads, wire
<1>1. TypeOK'
  BY DEF TypeOK, Ids, States
<1>2. CreatedInv'
  BY DEF TypeOK, CreatedInv, Ids, GuiInv
<1>3. GuiInv'
  BY DEF TypeOK, CreatedInv, GuiInv, Ids
<1>4. ToldInv'
  BY DEF TypeOK, CreatedInv, ToldInv, Dying
<1>5. StaleInv'
  BY DEF TypeOK, CreatedInv, StaleInv, Ids, ClosingInv
<1>6. ClosingInv'
  BY DEF ClosingInv, TypeOK
<1>7. FiltersAreUnique'
  BY DEF TypeOK, CreatedInv, GuiInv, FiltersAreUnique, Ids
<1>8. RegisteredHasRow'
  BY DEF TypeOK, CreatedInv, GuiInv, ToldInv, RegisteredHasRow, Dying
<1>9. RowIsBacked'
  BY DEF TypeOK, CreatedInv, ToldInv, RowIsBacked, Dying
<1>10. NothingIsForgotten'
  BY DEF TypeOK, CreatedInv, GuiInv, AskedInv, CheckInv, Minded, Dying,
     NothingIsForgotten, ClosingInv, Ids
<1>11. SubscribedIsHeld'
  BY DEF TypeOK, CreatedInv, StaleInv, ClosingInv, FiltersAreUnique, SubscribedIsHeld, Ids
<1>12. AskedInv'
  BY DEF TypeOK, CreatedInv, GuiInv, AskedInv, CheckInv, Minded, Dying,
     NothingIsForgotten, ClosingInv, Ids
<1>13. CheckInv'
  BY DEF TypeOK, CreatedInv, GuiInv, AskedInv, CheckInv, Minded, Dying,
     NothingIsForgotten, ClosingInv, Ids
<1>14. QED
  BY <1>1, <1>2, <1>3, <1>4, <1>5, <1>6, <1>7, <1>8, <1>9, <1>10, <1>11, <1>12, <1>13

LEMMA StepBreaks ==
  ASSUME IInv, Breaks
  PROVE  IInv'
<1> USE SubscriptionsAssumption
   DEF SubscriptionsAssumption, IInv, Breaks, client, model, threads, wire
<1>1. TypeOK'
  BY DEF TypeOK, Ids, States
<1>2. CreatedInv'
  BY DEF TypeOK, CreatedInv, Ids, GuiInv
<1>3. GuiInv'
  BY DEF TypeOK, CreatedInv, GuiInv, Ids
<1>4. ToldInv'
  BY DEF TypeOK, CreatedInv, ToldInv, Dying
<1>5. StaleInv'
  BY DEF TypeOK, CreatedInv, StaleInv, Ids, ClosingInv
<1>6. ClosingInv'
  BY DEF ClosingInv, TypeOK
<1>7. FiltersAreUnique'
  BY DEF TypeOK, CreatedInv, GuiInv, FiltersAreUnique, Ids
<1>8. RegisteredHasRow'
  BY DEF TypeOK, CreatedInv, GuiInv, ToldInv, RegisteredHasRow, Dying
<1>9. RowIsBacked'
  BY DEF TypeOK, CreatedInv, ToldInv, RowIsBacked, Dying
<1>10. NothingIsForgotten'
  BY DEF TypeOK, CreatedInv, GuiInv, AskedInv, CheckInv, Minded, Dying,
     NothingIsForgotten, ClosingInv, Ids
<1>11. SubscribedIsHeld'
  BY DEF TypeOK, CreatedInv, StaleInv, ClosingInv, FiltersAreUnique, SubscribedIsHeld, Ids
<1>12. AskedInv'
  BY DEF TypeOK, CreatedInv, GuiInv, AskedInv, CheckInv, Minded, Dying,
     NothingIsForgotten, ClosingInv, Ids
<1>13. CheckInv'
  BY DEF TypeOK, CreatedInv, GuiInv, AskedInv, CheckInv, Minded, Dying,
     NothingIsForgotten, ClosingInv, Ids
<1>14. QED
  BY <1>1, <1>2, <1>3, <1>4, <1>5, <1>6, <1>7, <1>8, <1>9, <1>10, <1>11, <1>12, <1>13

LEMMA StepFailRequest ==
  ASSUME IInv, NEW f \in Filters, FailRequest(f)
  PROVE  IInv'
<1> USE SubscriptionsAssumption
   DEF SubscriptionsAssumption, IInv, FailRequest, RemoveFirstMatch,
   NotifyUnsubscribed, client, model, threads, wire
<1>1. TypeOK'
  <2>1. inflight' \in [Filters -> Seq({"SUB", "UNSUB"})]
    BY DEF TypeOK
  <2>2. told' \subseteq rows /\ callback' \in {"idle", "erase"} /\ cid' \in 0..MaxIds
    BY RemoveTyped DEF TypeOK
  <2>3. QED
    BY <2>1, <2>2 DEF TypeOK
<1>2. CreatedInv'
  BY DEF TypeOK, CreatedInv, Ids, GuiInv
<1>3. GuiInv'
  BY DEF TypeOK, CreatedInv, GuiInv, Ids
<1>4. ToldInv'
  BY DEF TypeOK, CreatedInv, ToldInv, Dying
<1>5. StaleInv'
  BY DEF TypeOK, CreatedInv, StaleInv, Ids, ClosingInv
<1>6. ClosingInv'
  BY DEF ClosingInv, TypeOK
<1>7. FiltersAreUnique'
  BY DEF TypeOK, CreatedInv, GuiInv, FiltersAreUnique, Ids
<1>8. RegisteredHasRow'
  BY DEF TypeOK, CreatedInv, GuiInv, ToldInv, RegisteredHasRow, Dying
<1>9. RowIsBacked'
  BY DEF TypeOK, CreatedInv, ToldInv, RowIsBacked, Dying
<1>10. NothingIsForgotten'
  BY DEF TypeOK, CreatedInv, GuiInv, AskedInv, CheckInv, Minded, Dying,
     NothingIsForgotten, ClosingInv, Ids
<1>11. SubscribedIsHeld'
  BY DEF TypeOK, CreatedInv, StaleInv, ClosingInv, FiltersAreUnique, SubscribedIsHeld, Ids
<1>12. AskedInv'
  BY DEF TypeOK, CreatedInv, GuiInv, AskedInv, CheckInv, Minded, Dying,
     NothingIsForgotten, ClosingInv, Ids
<1>13. CheckInv'
  BY DEF TypeOK, CreatedInv, GuiInv, AskedInv, CheckInv, Minded, Dying,
     NothingIsForgotten, ClosingInv, Ids
<1>14. QED
  BY <1>1, <1>2, <1>3, <1>4, <1>5, <1>6, <1>7, <1>8, <1>9, <1>10, <1>11, <1>12, <1>13

LEMMA StepConnectionLost ==
  ASSUME IInv, connection_lost
  PROVE  IInv'
<1> USE SubscriptionsAssumption
   DEF SubscriptionsAssumption, IInv, connection_lost, cleanSubscriptions, client,
   model, threads, wire
<1>1. TypeOK'
  <2>1. stale' \subseteq Ids /\ state' \in [Ids -> States]
    BY RegistryIds DEF TypeOK, States
  <2>2. QED
    BY <2>1 DEF TypeOK
<1>2. CreatedInv'
  BY DEF TypeOK, CreatedInv, Ids, GuiInv
<1>3. GuiInv'
  BY DEF TypeOK, CreatedInv, GuiInv, Ids
<1>4. ToldInv'
  BY DEF TypeOK, CreatedInv, ToldInv, Dying
<1>5. StaleInv'
  BY DEF TypeOK, CreatedInv, StaleInv, Ids, ClosingInv
<1>6. ClosingInv'
  BY DEF ClosingInv, TypeOK
<1>7. FiltersAreUnique'
  BY DEF TypeOK, CreatedInv, GuiInv, FiltersAreUnique, Ids
<1>8. RegisteredHasRow'
  BY DEF TypeOK, CreatedInv, GuiInv, ToldInv, RegisteredHasRow, Dying
<1>9. RowIsBacked'
  BY DEF TypeOK, CreatedInv, ToldInv, RowIsBacked, Dying
<1>10. NothingIsForgotten'
  BY DEF TypeOK, CreatedInv, GuiInv, AskedInv, CheckInv, Minded, Dying,
     NothingIsForgotten, ClosingInv, Ids
<1>11. SubscribedIsHeld'
  BY DEF TypeOK, CreatedInv, StaleInv, ClosingInv, FiltersAreUnique, SubscribedIsHeld, Ids
<1>12. AskedInv'
  BY DEF TypeOK, CreatedInv, GuiInv, AskedInv, CheckInv, Minded, Dying,
     NothingIsForgotten, ClosingInv, Ids
<1>13. CheckInv'
  BY DEF TypeOK, CreatedInv, GuiInv, AskedInv, CheckInv, Minded, Dying,
     NothingIsForgotten, ClosingInv, Ids
<1>14. QED
  BY <1>1, <1>2, <1>3, <1>4, <1>5, <1>6, <1>7, <1>8, <1>9, <1>10, <1>11, <1>12, <1>13

LEMMA StepStutter ==
  ASSUME IInv, UNCHANGED vars
  PROVE  IInv'
<1> USE DEF IInv, vars, client, model, threads, wire
<1>1. /\ TypeOK' /\ CreatedInv' /\ GuiInv' /\ StaleInv' /\ ClosingInv'
      /\ AskedInv' /\ CheckInv'
  BY DEF TypeOK, CreatedInv, GuiInv, StaleInv, ClosingInv, AskedInv, CheckInv, Minded,
     Dying
<1>2. ToldInv' /\ RegisteredHasRow' /\ RowIsBacked'
  BY DEF ToldInv, RegisteredHasRow, RowIsBacked, Dying
<1>3. FiltersAreUnique' /\ NothingIsForgotten' /\ SubscribedIsHeld'
  BY DEF FiltersAreUnique, NothingIsForgotten, SubscribedIsHeld, Dying
<1>4. QED
  BY <1>1, <1>2, <1>3

-------------------------------------------------------------------------------
(* The theorems. *)

\* The inductive invariant holds of every run of the two threads.
THEOREM Invariance == Spec => []IInv
<1>1. IInv /\ [Next]_vars => IInv'
  <2> SUFFICES ASSUME IInv, [Next]_vars PROVE IInv'
    OBVIOUS
  <2>1. CASE User
    BY <2>1, StepSubscribe, StepUnsubscribe, StepDisconnect DEF User
  <2>2. CASE GuiStep
    BY <2>2, StepDoSubscribe, StepSetPending, StepAttachRow, StepOnUnsubscribed
       DEF GuiStep
  <2>3. CASE CallbackStep
    BY <2>3, StepOnConnected, StepErase, StepConnectionLost, StepSuccessSubscribe,
       StepFailureSubscribe, StepSuccessUnsubscribe, StepFailRequest
       DEF CallbackStep
  <2>4. CASE Network
    BY <2>4, StepConnack, StepBreaks DEF Network
  <2>5. CASE UNCHANGED vars
    BY <2>5, StepStutter
  <2>6. QED
    BY <2>1, <2>2, <2>3, <2>4, <2>5 DEF Next
<1>2. QED
  BY InitIInv, <1>1, PTL DEF Spec

\* Every variable keeps its type.
THEOREM TypeCorrect == Spec => []TypeOK
<1>1. IInv => TypeOK
  BY DEF IInv
<1>2. QED
  BY Invariance, <1>1, PTL

\* Client::subscribe and Models::Subscriptions::subscribe never register or show
\* a filter twice, whatever the callback thread does between their steps.
THEOREM UniqueFilters == Spec => []FiltersAreUnique
<1>1. IInv => FiltersAreUnique
  BY DEF IInv
<1>2. QED
  BY Invariance, <1>1, PTL

\* What MQTT::Client holds open can be seen in the tab, so it can be removed.
THEOREM Shown == Spec => []RegisteredHasRow
<1>1. IInv => RegisteredHasRow
  BY DEF IInv
<1>2. QED
  BY Invariance, <1>1, PTL

\* A row without an entry is about to go, unless it was made too late.
THEOREM Backed == Spec => []RowIsBacked
<1>1. IInv => RowIsBacked
  BY DEF IInv
<1>2. QED
  BY Invariance, <1>1, PTL

\* On a connection, every subscription is held by the broker or asked for again
\* (onConnected, doSubscribe), but for those left in the windows that the property
\* names.
THEOREM Resubscribed == Spec => []NothingIsForgotten
<1>1. IInv => NothingIsForgotten
  BY DEF IInv
<1>2. QED
  BY Invariance, <1>1, PTL

\* Across reconnections, Subscribed means that the broker holds the filter, but
\* for what the end of a DISCONNECT left so.
THEOREM Held == Spec => []SubscribedIsHeld
<1>1. IInv => SubscribedIsHeld
  BY DEF IInv
<1>2. QED
  BY Invariance, <1>1, PTL
================================================================================
