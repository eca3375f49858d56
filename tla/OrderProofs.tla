----------------------------- MODULE OrderProofs -----------------------------
(***************************************************************************)
(* What holds of the two lists that show a selection of an ordered whole,  *)
(* and of the texts that are taken apart at positions of theirs: of        *)
(* History for all topics, texts of the filter, rows and messages, of      *)
(* TopicCtrl for all topics, all texts and any number of fields that share *)
(* a set of topics, and of Texts for all letters, bytes and lengths.  All  *)
(* rest on there being one ascending order of a set of positions.          *)
(***************************************************************************)
EXTENDS History, TopicCtrl, Texts, FiniteSetTheorems, WellFoundedInduction, TLAPS

-------------------------------------------------------------------------------
(* History: the parts of its invariant *)

Growing(s) == \A i, j \in 1..Len(s) : i < j => s[i] < s[j]
Shows(s, k) == \E i \in 1..Len(s) : s[i] = k

RowInv ==
  /\ live \in BOOLEAN /\ alive \in BOOLEAN
  /\ mSubscriptionIds \in 0..MaxIds
  /\ rows \subseteq 1..mSubscriptionIds /\ muted \subseteq rows
PendingInv ==
  /\ pending \in [Ids -> Seq(Topics \cup {"UNSUBSCRIBED"})]
  /\ \A id \in Ids \ rows : pending[id] = <<>>

\* Messages are of subscriptions there were, so those of a new one are none yet.
ListInv ==
  /\ mMessages \in Seq(Message) /\ Len(mMessages) <= MaxMessages
  /\ \A i \in 1..Len(mMessages) : mMessages[i].subscriptionId <= mSubscriptionIds
ViewInv ==
  /\ mFilter \in TopicFilters /\ mSelected \in 0..MaxMessages
  /\ mRemap \in Seq(1..(IF alive THEN Len(mMessages) ELSE MaxMessages))

\* RemapIsExact, for any two lines of the table.
ExactInv ==
  alive => /\ Growing(mRemap)
           /\ \A k \in 1..Len(mMessages) : mMessages[k].subscriptionId \in rows =>
                (Shows(mRemap, k) <=> Visible(mMessages[k], muted, mFilter))

IInv == RowInv /\ PendingInv /\ ListInv /\ ViewInv /\ ExactInv

-------------------------------------------------------------------------------
(* The lines of the table *)

\* The positions, each of them, and growing.
LEMMA InOrderIs ==
  ASSUME NEW n \in Nat, NEW S \in SUBSET (1..n), NEW q \in InOrder(S)
  PROVE  /\ q \in Seq(1..n) /\ DOMAIN q = 1..Len(q) /\ Len(q) \in 0..n /\ Len(q) = Cardinality(S)
         /\ \A i \in 1..Len(q) : q[i] \in S
         /\ Growing(q) /\ \A k \in 1..n : Shows(q, k) <=> k \in S
<1>1. /\ IsFiniteSet(1..n) /\ Cardinality(1..n) = n
  <2>1. 1 \in Int /\ n \in Int
    OBVIOUS
  <2>2. Cardinality(1..n) = IF 1 > n THEN 0 ELSE n - 1 + 1
    BY <2>1, FS_Interval
  <2>3. QED
    BY <2>1, <2>2, FS_Interval
<1>2. Cardinality(S) \in Nat /\ Cardinality(S) <= n
  BY <1>1, FS_Subset, FS_CardinalityType
<1> DEFINE m == Cardinality(S)
<1>3. /\ q \in [1..m -> S] /\ \A k \in S : \E i \in 1..m : q[i] = k
      /\ \A i, j \in 1..m : i < j => q[i] < q[j]
  BY DEF InOrder
<1> HIDE DEF m
<1>4. m \in Nat /\ m <= n
  BY <1>2 DEF m
<1>5. q \in Seq(1..n) /\ Len(q) = m
  <2>1. q \in [1..m -> 1..n]
    BY <1>3
  <2>2. QED
    BY <1>4, <2>1
<1>6. \A i \in 1..Len(q) : q[i] \in S
  BY <1>3, <1>5
<1>7. Growing(q)
  BY <1>3, <1>5 DEF Growing
<1>8. \A k \in 1..n : Shows(q, k) <=> k \in S
  BY <1>3, <1>5, <1>6 DEF Shows
<1>9. DOMAIN q = 1..Len(q) /\ Len(q) \in 0..n
  BY <1>3, <1>4, <1>5
<1>10. Len(q) = Cardinality(S)
  BY <1>5 DEF m
<1>11. QED
  BY <1>5, <1>6, <1>7, <1>8, <1>9, <1>10

\* No more than there was, and nothing but what was at one of the positions.
LEMMA PickedIs ==
  ASSUME NEW T, NEW list \in Seq(T), NEW S \in SUBSET (1..Len(list)),
         NEW picked \in Picked(list, S)
  PROVE  /\ picked \in Seq(T) /\ Len(picked) \in 0..Len(list) /\ Len(picked) = Cardinality(S)
         /\ \A i \in 1..Len(picked) : \E k \in S : picked[i] = list[k]
<1>1. PICK q \in InOrder(S) : picked = [i \in DOMAIN q |-> list[q[i]]]
  BY DEF Picked
<1>2. Len(list) \in Nat /\ \A k \in 1..Len(list) : list[k] \in T
  OBVIOUS
<1>3. /\ DOMAIN q = 1..Len(q) /\ Len(q) \in 0..Len(list) /\ Len(q) = Cardinality(S)
      /\ \A i \in 1..Len(q) : q[i] \in S
  BY <1>2, InOrderIs
<1>4. picked = [i \in 1..Len(q) |-> list[q[i]]] /\ Len(q) \in Nat
  BY <1>1, <1>2, <1>3
<1>5. \A i \in 1..Len(q) : list[q[i]] \in T
  <2>1. \A i \in 1..Len(q) : q[i] \in 1..Len(list)
    BY <1>3
  <2>2. QED
    BY <1>2, <2>1
<1>6. picked \in [1..Len(q) -> T]
  BY <1>4, <1>5
<1>7. picked \in Seq(T) /\ Len(picked) = Len(q)
  BY <1>4, <1>6
<1>8. \A i \in 1..Len(picked) : picked[i] = list[q[i]]
  BY <1>4, <1>7
<1>9. QED
  BY <1>3, <1>7, <1>8

LEMMA WiderIs ==
  ASSUME NEW m \in Nat, NEW n \in Nat, m <= n, NEW s \in Seq(1..m)
  PROVE  s \in Seq(1..n) /\ \A i \in 1..Len(s) : s[i] \in 1..m
<1>1. Len(s) \in Nat /\ s \in [1..Len(s) -> 1..m]
  OBVIOUS
<1>2. 1..m \subseteq 1..n
  OBVIOUS
<1>3. s \in [1..Len(s) -> 1..n]
  BY <1>1, <1>2
<1>4. QED
  BY <1>1, <1>3

\* A table has no more lines than there are messages.
LEMMA LinesAreMessages ==
  ASSUME NEW n \in Nat, NEW s \in Seq(1..n), Growing(s)
  PROVE  Len(s) <= n
<1>1. Len(s) \in Nat /\ s \in [1..Len(s) -> 1..n]
  OBVIOUS
<1>2. \A i, j \in 1..Len(s) : s[i] = s[j] => i = j
  <2>1. SUFFICES ASSUME NEW i \in 1..Len(s), NEW j \in 1..Len(s), s[i] = s[j] PROVE i = j
    OBVIOUS
  <2>2. s[i] \in 1..n /\ ~(s[i] < s[i])
    BY <1>1
  <2>3. ~(i < j) /\ ~(j < i)
    BY <2>1, <2>2 DEF Growing
  <2>4. QED
    BY <2>3
<1>3. s \in Injection(1..Len(s), 1..n)
  BY <1>1, <1>2 DEF Injection, IsInjective
<1>4. /\ IsFiniteSet(1..n) /\ Cardinality(1..n) = n /\ Cardinality(1..Len(s)) = Len(s)
  <2>1. \A m \in Nat : IsFiniteSet(1..m) /\ Cardinality(1..m) = m
    <3>1. ASSUME NEW m \in Nat PROVE IsFiniteSet(1..m) /\ Cardinality(1..m) = m
      <4>1. 1 \in Int /\ m \in Int
        OBVIOUS
      <4>2. Cardinality(1..m) = IF 1 > m THEN 0 ELSE m - 1 + 1
        BY <4>1, FS_Interval
      <4>3. QED
        BY <4>1, <4>2, FS_Interval
    <3>2. QED
      BY <3>1
  <2>2. QED
    BY <1>1, <2>1
<1>5. Cardinality(1..Len(s)) <= Cardinality(1..n)
  BY <1>3, <1>4, FS_Injection
<1>6. QED
  BY <1>4, <1>5

-------------------------------------------------------------------------------
(* The list and the table *)

\* What remap leaves behind.
LEMMA RemapIs ==
  ASSUME NEW messages \in Seq(Message), NEW silent, NEW topics,
         remap(messages, silent, topics), alive
  PROVE  \/ /\ alive' /\ mRemap' \in Seq(1..Len(messages)) /\ Growing(mRemap')
            /\ \A k \in 1..Len(messages) :
                 Shows(mRemap', k) <=> Visible(messages[k], silent, topics)
            /\ \A k \in 1..Len(messages) : messages[k].subscriptionId \in rows
         \/ alive' = FALSE /\ mRemap' = mRemap
<1>1. CASE \A i \in 1..Len(messages) : messages[i].subscriptionId \in rows
  <2> DEFINE S == Positions(messages, silent, topics)
  <2>1. mRemap' \in InOrder(S) /\ alive' = alive
    BY <1>1 DEF remap
  <2>2. S \in SUBSET (1..Len(messages)) /\ Len(messages) \in Nat
    BY DEF Positions
  <2>3. \A k \in 1..Len(messages) : k \in S <=> Visible(messages[k], silent, topics)
    BY DEF Positions
  <2> HIDE DEF S
  <2>4. mRemap' \in Seq(1..Len(messages)) /\ Growing(mRemap')
        /\ \A k \in 1..Len(messages) : Shows(mRemap', k) <=> k \in S
    BY <2>1, <2>2, InOrderIs
  <2>5. QED
    BY <1>1, <2>1, <2>3, <2>4
<1>2. CASE ~ \A i \in 1..Len(messages) : messages[i].subscriptionId \in rows
  BY <1>2 DEF remap
<1>3. QED
  BY <1>1, <1>2

LEMMA RemapKeeps ==
  ASSUME IInv, alive, NEW messages \in Seq(Message), Len(messages) <= MaxMessages,
         \A i \in 1..Len(messages) : messages[i].subscriptionId <= mSubscriptionIds,
         NEW silent, NEW topics, remap(messages, silent, topics),
         mMessages' = messages, UNCHANGED mSubscriptionIds,
         mFilter' = topics, topics \in TopicFilters, UNCHANGED mSelected,
         rows' \subseteq rows,
         \A id \in rows' : id \in silent <=> id \in muted'
  PROVE  ListInv' /\ ViewInv' /\ ExactInv' /\ alive' \in BOOLEAN
<1>1. ListInv'
  BY DEF ListInv
<1>2. mSelected' \in 0..MaxMessages /\ mFilter' \in TopicFilters
  BY DEF IInv, ViewInv
<1>3. CASE alive' = FALSE /\ mRemap' = mRemap
  <2>1. mRemap \in Seq(1..Len(mMessages)) /\ Len(mMessages) <= MaxMessages
    BY DEF IInv, ViewInv, ListInv
  <2>2. Len(mMessages) \in Nat /\ MaxMessages \in Nat
    BY HistoryAssumption DEF IInv, ListInv
  <2>3. Len(mMessages) <= MaxMessages
    BY <2>1
  <2>4. mRemap \in Seq(1..MaxMessages)
    BY <2>1, <2>2, <2>3, WiderIs
  <2>5. QED
    BY <1>1, <1>2, <1>3, <2>4 DEF ViewInv, ExactInv
<1>4. CASE /\ alive' /\ mRemap' \in Seq(1..Len(messages)) /\ Growing(mRemap')
           /\ \A k \in 1..Len(messages) :
                Shows(mRemap', k) <=> Visible(messages[k], silent, topics)
           /\ \A k \in 1..Len(messages) : messages[k].subscriptionId \in rows
  <2>1. alive' \in BOOLEAN
    BY DEF IInv, RowInv, remap
  <2>2. ViewInv'
    BY <1>2, <1>4 DEF ViewInv
  <2>3. \A k \in 1..Len(messages) : messages[k].subscriptionId \in rows' =>
          (Visible(messages[k], silent, topics) <=> Visible(messages[k], muted', mFilter'))
    BY DEF Visible
  <2>4. ExactInv'
    BY <1>4, <2>3 DEF ExactInv
  <2>5. QED
    BY <1>1, <2>1, <2>2, <2>4
<1>5. QED
  BY <1>3, <1>4, RemapIs

\* What is kept of the list.
LEMMA WithoutIs ==
  ASSUME ListInv, NEW id, NEW kept \in Without(id)
  PROVE  /\ kept \in Seq(Message) /\ Len(kept) <= MaxMessages
         /\ \A i \in 1..Len(kept) : kept[i].subscriptionId <= mSubscriptionIds
<1> DEFINE S == {i \in 1..Len(mMessages) : mMessages[i].subscriptionId # id}
<1>1. /\ mMessages \in Seq(Message) /\ Len(mMessages) \in Nat /\ Len(mMessages) <= MaxMessages
      /\ \A i \in 1..Len(mMessages) : mMessages[i].subscriptionId <= mSubscriptionIds
      /\ MaxMessages \in Nat /\ S \in SUBSET (1..Len(mMessages))
  BY HistoryAssumption DEF ListInv
<1>2. kept \in Picked(mMessages, S)
  BY DEF Without
<1> HIDE DEF S
<1>3. /\ kept \in Seq(Message) /\ Len(kept) \in 0..Len(mMessages)
      /\ \A i \in 1..Len(kept) : \E k \in S : kept[i] = mMessages[k]
  <2>1. mMessages \in Seq(Message) /\ S \in SUBSET (1..Len(mMessages))
    BY <1>1
  <2>2. QED
    BY <1>2, <2>1, PickedIs
<1>4. \A i \in 1..Len(kept) : kept[i].subscriptionId <= mSubscriptionIds
  BY <1>1, <1>3
<1>5. QED
  BY <1>1, <1>3, <1>4

LEMMA Filters ==
  ASSUME IInv
  PROVE  mFilter \in TopicFilters /\ Topics \in TopicFilters /\ mSubscriptionIds \in Nat
         /\ mSubscriptionIds <= MaxIds /\ MaxIds \in Nat /\ MaxMessages \in Nat
         /\ rows \subseteq Ids /\ Len(mMessages) \in Nat /\ mMessages \in Seq(Message)
<1>1. mSubscriptionIds \in Nat /\ mSubscriptionIds <= MaxIds /\ MaxIds \in Nat
  BY HistoryAssumption DEF IInv, RowInv
<1>2. rows \subseteq Ids
  BY <1>1 DEF IInv, RowInv, Ids
<1>3. QED
  BY <1>1, <1>2, HistoryAssumption DEF IInv, ViewInv, ListInv

-------------------------------------------------------------------------------
(* The steps of History *)

LEMMA QueueKeeps ==
  ASSUME IInv, NEW id \in Ids, NEW event \in Topics \cup {"UNSUBSCRIBED"}, Queue(id, event)
  PROVE  IInv'
<1>1. /\ id \in rows /\ pending' = [pending EXCEPT ![id] = Append(@, event)]
      /\ UNCHANGED <<live, mSubscriptionIds, rows, muted, mMessages, mRemap, mFilter, mSelected, alive>>
  BY DEF Queue, subscriptions
<1>2. PendingInv'
  <2>1. pending[id] \in Seq(Topics \cup {"UNSUBSCRIBED"})
    BY DEF IInv, PendingInv
  <2>2. Append(pending[id], event) \in Seq(Topics \cup {"UNSUBSCRIBED"})
    BY <2>1
  <2>3. QED
    BY <1>1, <2>2 DEF IInv, PendingInv
<1>3. RowInv' /\ ListInv' /\ ViewInv'
  BY <1>1 DEF IInv, RowInv, ListInv, ViewInv
<1>4. ExactInv'
  BY <1>1 DEF IInv, ExactInv
<1>5. QED
  BY <1>2, <1>3, <1>4 DEF IInv

LEMMA SubscribeKeeps ==
  ASSUME IInv, Subscribe
  PROVE  IInv'
<1>1. /\ mSubscriptionIds < MaxIds /\ mSubscriptionIds' = mSubscriptionIds + 1
      /\ rows' = rows \cup {mSubscriptionIds + 1}
      /\ UNCHANGED <<live, muted, pending, mMessages, mRemap, mFilter, mSelected, alive>>
  BY DEF Subscribe
<1>2. RowInv'
  BY <1>1, Filters DEF IInv, RowInv
<1>3. PendingInv'
  BY <1>1 DEF IInv, PendingInv
<1>4. ListInv'
  <2>1. \A i \in 1..Len(mMessages) : mMessages[i].subscriptionId \in Nat
    <3>1. \A i \in 1..Len(mMessages) : mMessages[i] \in Message
      BY Filters
    <3>2. QED
      BY <3>1, Filters DEF Message, Ids
  <2>2. \A i \in 1..Len(mMessages) : mMessages[i].subscriptionId <= mSubscriptionIds + 1
    BY <2>1, Filters DEF IInv, ListInv
  <2>3. QED
    BY <1>1, <2>2 DEF IInv, ListInv
<1>5. ViewInv'
  BY <1>1 DEF IInv, ViewInv
<1>6. ExactInv'
  <2>1. \A k \in 1..Len(mMessages) : mMessages[k].subscriptionId # mSubscriptionIds + 1
    BY Filters DEF IInv, ListInv
  <2>2. QED
    BY <1>1, <2>1 DEF IInv, ExactInv
<1>7. QED
  BY <1>2, <1>3, <1>4, <1>5, <1>6 DEF IInv

LEMMA MessageKeeps ==
  ASSUME IInv, NEW id \in Ids, NEW autoScroll \in BOOLEAN, onMessage(id, autoScroll)
  PROVE  IInv'
<1> DEFINE message == [subscriptionId |-> id, topic |-> Head(pending[id])]
           n == Len(mMessages)
<1>1. /\ alive /\ id \in rows /\ pending[id] # <<>> /\ Head(pending[id]) \in Topics
      /\ n < MaxMessages
      /\ mMessages' = Append(mMessages, message)
      /\ pending' = [pending EXCEPT ![id] = Tail(@)]
      /\ UNCHANGED <<live, mSubscriptionIds, rows, muted, mFilter, alive>>
  BY DEF onMessage, subscriptions
<1>2. \/ /\ Visible(message, muted, mFilter) /\ mRemap' = Append(mRemap, n + 1)
         /\ mSelected' \in {mSelected, Len(mRemap) + 1}
      \/ ~Visible(message, muted, mFilter) /\ UNCHANGED <<mRemap, mSelected>>
  BY DEF onMessage
<1>3. message \in Message /\ message.subscriptionId = id
  BY <1>1 DEF Message
<1> HIDE DEF message
<1>4. /\ n \in Nat /\ mMessages' \in Seq(Message) /\ Len(mMessages') = n + 1
      /\ mMessages'[n + 1] = message
      /\ \A k \in 1..n : mMessages'[k] = mMessages[k]
  BY <1>1, <1>3, Filters
<1> HIDE DEF n
<1>5. /\ mRemap \in Seq(1..n) /\ Growing(mRemap) /\ mSelected \in 0..MaxMessages
      /\ \A k \in 1..n : mMessages[k].subscriptionId \in rows =>
           (Shows(mRemap, k) <=> Visible(mMessages[k], muted, mFilter))
  BY <1>1 DEF IInv, ViewInv, ExactInv, n
<1>6. RowInv'
  BY <1>1 DEF IInv, RowInv
<1>7. PendingInv'
  <2>1. pending[id] \in Seq(Topics \cup {"UNSUBSCRIBED"})
    BY DEF IInv, PendingInv
  <2>2. Tail(pending[id]) \in Seq(Topics \cup {"UNSUBSCRIBED"})
    BY <1>1, <2>1
  <2>3. QED
    BY <1>1, <2>2 DEF IInv, PendingInv
<1>8. ListInv'
  <2>1. id <= mSubscriptionIds
    BY <1>1, Filters DEF IInv, RowInv
  <2>2. \A k \in 1..n : mMessages[k].subscriptionId <= mSubscriptionIds
    BY DEF IInv, ListInv, n
  <2>3. ASSUME NEW k \in 1..(n + 1) PROVE mMessages'[k].subscriptionId <= mSubscriptionIds
    <3>1. CASE k = n + 1
      BY <1>3, <1>4, <2>1, <3>1
    <3>2. CASE k # n + 1
      <4>1. k \in 1..n
        BY <1>4, <3>2
      <4>2. QED
        BY <1>4, <2>2, <4>1
    <3>3. QED
      BY <3>1, <3>2
  <2>4. n + 1 <= MaxMessages
    BY <1>1, <1>4, Filters
  <2>5. QED
    BY <1>1, <1>4, <2>3, <2>4 DEF ListInv
<1>9. CASE ~Visible(message, muted, mFilter) /\ UNCHANGED <<mRemap, mSelected>>
  <2>1. mRemap \in Seq(1..(n + 1))
    <3>1. n + 1 \in Nat /\ n <= n + 1
      BY <1>4
    <3>2. QED
      BY <1>4, <1>5, <3>1, WiderIs
  <2>2. ViewInv'
    BY <1>1, <1>4, <1>5, <1>9, <2>1, Filters DEF ViewInv
  <2>3. ~Shows(mRemap, n + 1)
    BY <1>4, <1>5 DEF Shows
  <2>4. ASSUME NEW k \in 1..(n + 1), mMessages'[k].subscriptionId \in rows
        PROVE  Shows(mRemap, k) <=> Visible(mMessages'[k], muted, mFilter)
    <3>1. CASE k = n + 1
      BY <1>4, <1>9, <2>3, <3>1
    <3>2. CASE k # n + 1
      <4>1. k \in 1..n
        BY <1>4, <3>2
      <4>2. QED
        BY <1>4, <1>5, <2>4, <4>1
    <3>3. QED
      BY <3>1, <3>2
  <2>5. ExactInv'
    BY <1>1, <1>4, <1>5, <1>9, <2>4 DEF ExactInv
  <2>6. QED
    BY <1>6, <1>7, <1>8, <2>2, <2>5 DEF IInv
<1>10. CASE /\ Visible(message, muted, mFilter) /\ mRemap' = Append(mRemap, n + 1)
            /\ mSelected' \in {mSelected, Len(mRemap) + 1}
  <2> DEFINE m == Len(mRemap)
  <2>1. m \in Nat /\ m <= n
    BY <1>4, <1>5, LinesAreMessages
  <2>2. /\ mRemap' \in Seq(1..(n + 1)) /\ Len(mRemap') = m + 1 /\ mRemap'[m + 1] = n + 1
        /\ \A i \in 1..m : mRemap'[i] = mRemap[i] /\ mRemap[i] \in 1..n
    <3>1. n + 1 \in Nat /\ n <= n + 1 /\ n + 1 \in 1..(n + 1)
      BY <1>4
    <3>2. mRemap \in Seq(1..(n + 1)) /\ \A i \in 1..Len(mRemap) : mRemap[i] \in 1..n
      BY <1>4, <1>5, <3>1, WiderIs
    <3>3. \A i \in 1..m : mRemap[i] \in 1..n
      BY <3>2
    <3>4. QED
      BY <1>10, <3>1, <3>2, <3>3
  <2> HIDE DEF m
  <2>3. mSelected' \in 0..MaxMessages
    <3>1. m + 1 \in 0..MaxMessages
      BY <1>1, <1>4, <2>1, Filters
    <3>2. QED
      BY <1>5, <1>10, <3>1 DEF m
  <2>4. ViewInv'
    BY <1>1, <1>4, <2>2, <2>3, Filters DEF ViewInv
  <2>5. Growing(mRemap')
    <3>1. SUFFICES ASSUME NEW i \in 1..(m + 1), NEW j \in 1..(m + 1), i < j
                   PROVE  mRemap'[i] < mRemap'[j]
      BY <2>2 DEF Growing
    <3>2. i \in 1..m
      BY <2>1, <3>1
    <3>3. CASE j = m + 1
      BY <1>4, <2>2, <3>2, <3>3
    <3>4. CASE j # m + 1
      <4>1. j \in 1..m
        BY <2>1, <3>4
      <4>2. mRemap[i] < mRemap[j]
        BY <1>5, <3>1, <3>2, <4>1 DEF Growing, m
      <4>3. QED
        BY <2>2, <3>2, <4>1, <4>2
    <3>5. QED
      BY <3>3, <3>4
  <2>6. Shows(mRemap', n + 1)
    BY <2>1, <2>2 DEF Shows
  <2>7. ASSUME NEW k \in 1..n PROVE Shows(mRemap', k) <=> Shows(mRemap, k)
    <3>1. k # n + 1
      BY <1>4
    <3>2. ASSUME NEW i \in 1..(m + 1), mRemap'[i] = k PROVE Shows(mRemap, k)
      <4>1. i # m + 1
        BY <2>2, <3>1, <3>2
      <4>2. i \in 1..m
        BY <2>1, <4>1
      <4>3. QED
        BY <2>2, <3>2, <4>2 DEF Shows, m
    <3>3. ASSUME NEW i \in 1..m, mRemap[i] = k PROVE Shows(mRemap', k)
      <4>1. i \in 1..(m + 1)
        BY <2>1
      <4>2. QED
        BY <2>2, <3>3, <4>1 DEF Shows
    <3>4. QED
      BY <2>2, <3>2, <3>3 DEF Shows, m
  <2>8. ASSUME NEW k \in 1..(n + 1), mMessages'[k].subscriptionId \in rows
        PROVE  Shows(mRemap', k) <=> Visible(mMessages'[k], muted, mFilter)
    <3>1. CASE k = n + 1
      BY <1>4, <1>10, <2>6, <3>1
    <3>2. CASE k # n + 1
      <4>1. k \in 1..n
        BY <1>4, <3>2
      <4>2. QED
        BY <1>4, <1>5, <2>7, <2>8, <4>1
    <3>3. QED
      BY <3>1, <3>2
  <2>9. ExactInv'
    BY <1>1, <1>4, <2>5, <2>8 DEF ExactInv
  <2>10. QED
    BY <1>6, <1>7, <1>8, <2>4, <2>9 DEF IInv
<1>11. QED
  BY <1>2, <1>9, <1>10

LEMMA UnsubscribedKeeps ==
  ASSUME IInv, NEW id \in Ids, onUnsubscribed(id)
  PROVE  IInv'
<1>1. /\ alive /\ Forget(ObserverId)
      /\ rows' = rows \ {id} /\ muted' = muted \ {id} /\ pending' = [pending EXCEPT ![id] = <<>>]
      /\ UNCHANGED <<live, mSubscriptionIds, mFilter, mSelected>>
  BY DEF onUnsubscribed
<1>2. PICK kept \in Without(ObserverId) : mMessages' = kept /\ remap(kept, muted, mFilter)
  BY <1>1 DEF Forget
<1>3. /\ kept \in Seq(Message) /\ Len(kept) <= MaxMessages
      /\ \A i \in 1..Len(kept) : kept[i].subscriptionId <= mSubscriptionIds
  BY WithoutIs DEF IInv
<1>4. ListInv' /\ ViewInv' /\ ExactInv' /\ alive' \in BOOLEAN
  BY <1>1, <1>2, <1>3, RemapKeeps, Filters
<1>5. RowInv'
  BY <1>1, <1>4 DEF IInv, RowInv
<1>6. PendingInv'
  BY <1>1 DEF IInv, PendingInv
<1>7. QED
  BY <1>4, <1>5, <1>6 DEF IInv

\* The user mutes, filters, or clears.
LEMMA UserKeeps ==
  ASSUME IInv, alive, UNCHANGED <<live, mSubscriptionIds, rows, pending, mSelected>>,
         muted' \subseteq rows, mFilter' \in TopicFilters,
         NEW messages \in Seq(Message), Len(messages) <= MaxMessages,
         \A i \in 1..Len(messages) : messages[i].subscriptionId <= mSubscriptionIds,
         mMessages' = messages, remap(messages, muted', mFilter')
  PROVE  IInv'
<1>1. ListInv' /\ ViewInv' /\ ExactInv' /\ alive' \in BOOLEAN
  BY RemapKeeps
<1>2. RowInv'
  BY <1>1 DEF IInv, RowInv
<1>3. PendingInv'
  BY DEF IInv, PendingInv
<1>4. QED
  BY <1>1, <1>2, <1>3 DEF IInv

LEMMA SameMessages ==
  ASSUME IInv
  PROVE  /\ mMessages \in Seq(Message) /\ Len(mMessages) <= MaxMessages
         /\ \A i \in 1..Len(mMessages) : mMessages[i].subscriptionId <= mSubscriptionIds
BY DEF IInv, ListInv

LEMMA MuteKeeps ==
  ASSUME IInv, NEW id \in Ids, mute(id) \/ unmute(id) \/ solo(id)
  PROVE  IInv'
<1>1. /\ alive /\ muted' \subseteq rows /\ remap(mMessages, muted', mFilter)
      /\ UNCHANGED <<live, mSubscriptionIds, rows, pending, mMessages, mFilter, mSelected>>
  BY DEF mute, unmute, solo, IInv, RowInv
<1>2. remap(mMessages, muted', mFilter') /\ mFilter' \in TopicFilters /\ mMessages' = mMessages
  BY <1>1, Filters
<1>3. QED
  BY <1>1, <1>2, UserKeeps, SameMessages

LEMMA ClearKeeps ==
  ASSUME IInv, clear
  PROVE  IInv'
<1>1. /\ alive /\ mMessages' = <<>> /\ remap(<<>>, muted, mFilter)
      /\ UNCHANGED <<live, mSubscriptionIds, rows, muted, pending, mFilter, mSelected>>
  BY DEF clear, subscriptions
<1>2. /\ <<>> \in Seq(Message) /\ Len(<<>>) = 0
  OBVIOUS
<1>3. muted' \subseteq rows /\ mFilter' \in TopicFilters /\ remap(<<>>, muted', mFilter')
  BY <1>1, Filters DEF IInv, RowInv
<1> DEFINE none == <<>>
<1>4. /\ none \in Seq(Message) /\ Len(none) <= MaxMessages /\ mMessages' = none
      /\ \A i \in 1..Len(none) : none[i].subscriptionId <= mSubscriptionIds
      /\ remap(none, muted', mFilter')
  BY <1>1, <1>2, <1>3, Filters
<1> HIDE DEF none
<1>5. QED
  BY <1>1, <1>3, <1>4, UserKeeps

LEMMA FilterKeeps ==
  ASSUME IInv, NEW topics \in TopicFilters, setFilter(topics)
  PROVE  IInv'
<1>1. /\ alive /\ mFilter' = topics /\ remap(mMessages, muted, topics)
      /\ UNCHANGED <<live, mSubscriptionIds, rows, muted, pending, mMessages, mSelected>>
  BY DEF setFilter, subscriptions
<1>2. muted' \subseteq rows /\ mFilter' \in TopicFilters /\ remap(mMessages, muted', mFilter')
  BY <1>1 DEF IInv, RowInv
<1>3. mMessages' = mMessages
  BY <1>1
<1>4. QED
  BY <1>1, <1>2, <1>3, UserKeeps, SameMessages

LEMMA ClearedKeeps ==
  ASSUME IInv, NEW id \in Ids, clearSubscription(id)
  PROVE  IInv'
<1>1. /\ alive /\ Forget(id)
      /\ UNCHANGED <<live, mSubscriptionIds, rows, muted, pending, mFilter, mSelected>>
  BY DEF clearSubscription, subscriptions
<1>2. PICK kept \in Without(id) : mMessages' = kept /\ remap(kept, muted, mFilter)
  BY <1>1 DEF Forget
<1>3. /\ kept \in Seq(Message) /\ Len(kept) <= MaxMessages
      /\ \A i \in 1..Len(kept) : kept[i].subscriptionId <= mSubscriptionIds
  BY WithoutIs DEF IInv
<1>4. muted' \subseteq rows /\ mFilter' \in TopicFilters /\ remap(kept, muted', mFilter')
  BY <1>1, <1>2, Filters DEF IInv, RowInv
<1>5. QED
  BY <1>1, <1>2, <1>3, <1>4, UserKeeps

\* A table of every message.
LEMMA EverythingIs ==
  ASSUME NEW n \in Nat, NEW s, s = [i \in 1..n |-> i]
  PROVE  s \in Seq(1..n) /\ Growing(s) /\ \A k \in 1..n : Shows(s, k)
<1>1. s \in [1..n -> 1..n] /\ \A i \in 1..n : s[i] = i
  OBVIOUS
<1>2. s \in Seq(1..n) /\ Len(s) = n
  BY <1>1
<1>3. Growing(s)
  BY <1>1, <1>2 DEF Growing
<1>4. \A k \in 1..n : Shows(s, k)
  BY <1>1, <1>2 DEF Shows
<1>5. QED
  BY <1>2, <1>3, <1>4

LEMMA AllVisible ==
  ASSUME mMessages \in Seq(Message)
  PROVE  \A k \in 1..Len(mMessages) : Visible(mMessages[k], {}, Topics)
<1>1. \A k \in 1..Len(mMessages) : mMessages[k] \in Message
  OBVIOUS
<1>2. \A m \in Message : m.topic \in Topics
  BY DEF Message
<1>3. QED
  BY <1>1, <1>2 DEF Visible

LEMMA RecordingKeeps ==
  ASSUME IInv, openRecording
  PROVE  IInv'
<1>1. /\ alive /\ live' = FALSE /\ muted' = {} /\ pending' = [id \in Ids |-> <<>>]
      /\ mRemap' = [i \in 1..Len(mMessages) |-> i]
      /\ mFilter' = Topics /\ mSelected' = 0
      /\ UNCHANGED <<mSubscriptionIds, rows, mMessages, alive>>
  BY DEF openRecording
<1>2. /\ mRemap' \in Seq(1..Len(mMessages)) /\ Growing(mRemap')
      /\ \A k \in 1..Len(mMessages) : Shows(mRemap', k)
  BY <1>1, Filters, EverythingIs
<1>3. \A k \in 1..Len(mMessages) : Visible(mMessages[k], {}, Topics)
  BY Filters, AllVisible
<1>4. RowInv' /\ PendingInv'
  <2>1. RowInv'
    BY <1>1 DEF IInv, RowInv
  <2>2. PendingInv'
    BY <1>1 DEF PendingInv
  <2>3. QED
    BY <2>1, <2>2
<1>5. ListInv'
  BY <1>1 DEF IInv, ListInv
<1>6. ViewInv'
  BY <1>1, <1>2, Filters DEF ViewInv
<1>7. ExactInv'
  BY <1>1, <1>2, <1>3 DEF ExactInv
<1>8. QED
  BY <1>4, <1>5, <1>6, <1>7 DEF IInv

LEMMA SelectKeeps ==
  ASSUME IInv, NEW line \in 1..MaxMessages, onHistorySelected(line)
  PROVE  IInv'
<1>1. /\ mSelected' = line
      /\ UNCHANGED <<live, mSubscriptionIds, rows, muted, pending, mMessages, mRemap, mFilter, alive>>
  BY DEF onHistorySelected, subscriptions
<1>2. RowInv' /\ PendingInv' /\ ListInv'
  BY <1>1 DEF IInv, RowInv, PendingInv, ListInv
<1>3. ViewInv'
  BY <1>1, Filters DEF IInv, ViewInv
<1>4. ExactInv'
  BY <1>1 DEF IInv, ExactInv
<1>5. QED
  BY <1>2, <1>3, <1>4 DEF IInv

LEMMA PaintKeeps ==
  ASSUME IInv, NEW showDt, Paint(showDt)
  PROVE  IInv'
<1>1. /\ alive /\ alive' = FALSE
      /\ UNCHANGED <<live, mSubscriptionIds, rows, muted, pending, mMessages, mRemap, mFilter, mSelected>>
  BY DEF Paint, subscriptions
<1>2. RowInv' /\ PendingInv' /\ ListInv' /\ ExactInv'
  BY <1>1 DEF IInv, RowInv, PendingInv, ListInv, ExactInv
<1>3. mRemap \in Seq(1..MaxMessages)
  BY <1>1, Filters, SameMessages, WiderIs DEF IInv, ViewInv
<1>4. ViewInv'
  BY <1>1, <1>3 DEF IInv, ViewInv
<1>5. QED
  BY <1>2, <1>4 DEF IInv

-------------------------------------------------------------------------------
(* The theorems about History *)

LEMMA InitIInv == Init => IInv
<1> SUFFICES ASSUME Init PROVE IInv
  OBVIOUS
<1>1. /\ live \in BOOLEAN /\ muted = {} /\ pending = [id \in Ids |-> <<>>]
      /\ mRemap = [i \in 1..Len(mMessages) |-> i]
      /\ mFilter = Topics /\ mSelected = 0 /\ alive = TRUE
      /\ rows = 1..mSubscriptionIds
  BY DEF Init
<1>2. mSubscriptionIds \in 0..MaxIds
  BY HistoryAssumption DEF Init, Ids
<1>3. PICK n \in 0..MaxMessages : mMessages \in [1..n -> [subscriptionId : rows, topic : Topics]]
  BY HistoryAssumption, SMTT(30) DEF Init
<1>4. /\ rows \subseteq Ids /\ MaxIds \in Nat /\ MaxMessages \in Nat /\ n \in Nat
      /\ \A id \in rows : id <= mSubscriptionIds
  BY <1>1, <1>2, HistoryAssumption DEF Ids
<1>5. \A m \in [subscriptionId : rows, topic : Topics] :
        m \in Message /\ m.subscriptionId <= mSubscriptionIds
  BY <1>4 DEF Message
<1>6. \A i \in 1..n : mMessages[i] \in [subscriptionId : rows, topic : Topics]
  BY <1>3
<1>7. mMessages \in [1..n -> Message]
  <2>1. DOMAIN mMessages = 1..n /\ mMessages = [i \in 1..n |-> mMessages[i]]
    BY <1>3
  <2>2. \A i \in 1..n : mMessages[i] \in Message
    BY <1>5, <1>6
  <2>3. QED
    BY <2>1, <2>2
<1>8. mMessages \in Seq(Message) /\ Len(mMessages) = n
  BY <1>4, <1>7
<1>9. ListInv
  BY <1>4, <1>5, <1>6, <1>8 DEF ListInv
<1>10. /\ mRemap \in Seq(1..Len(mMessages)) /\ Growing(mRemap)
       /\ \A k \in 1..Len(mMessages) : Shows(mRemap, k)
  BY <1>1, <1>4, <1>8, EverythingIs
<1>11. \A k \in 1..Len(mMessages) : Visible(mMessages[k], {}, Topics)
  BY <1>8, AllVisible
<1>12. RowInv
  BY <1>1, <1>2 DEF RowInv
<1>13. PendingInv
  BY <1>1 DEF PendingInv
<1>14. ViewInv
  BY <1>1, <1>4, <1>10, HistoryAssumption DEF ViewInv
<1>15. ExactInv
  BY <1>1, <1>10, <1>11 DEF ExactInv
<1>16. QED
  BY <1>9, <1>12, <1>13, <1>14, <1>15 DEF IInv

LEMMA StepKeeps ==
  ASSUME IInv, [Next]_vars
  PROVE  IInv'
<1>1. CASE CallbackStep
  BY <1>1, QueueKeeps DEF CallbackStep, EndSubscription, Receive
<1>2. CASE RowStep
  BY <1>2, UnsubscribedKeeps, MessageKeeps DEF RowStep
<1>3. CASE UserStep
  BY <1>3, SubscribeKeeps, ClearKeeps, RecordingKeeps, FilterKeeps, SelectKeeps, MuteKeeps,
     ClearedKeeps DEF UserStep
<1>4. CASE \E showDt \in BOOLEAN : Paint(showDt)
  BY <1>4, PaintKeeps
<1>5. CASE UNCHANGED vars
  <2>1. UNCHANGED <<live, mSubscriptionIds, rows, muted, pending, mMessages, mRemap, mFilter, mSelected, alive>>
    BY <1>5 DEF vars, subscriptions
  <2>2. RowInv' /\ PendingInv' /\ ListInv' /\ ViewInv'
    BY <2>1 DEF IInv, RowInv, PendingInv, ListInv, ViewInv
  <2>3. ExactInv'
    BY <2>1 DEF IInv, ExactInv
  <2>4. QED
    BY <2>2, <2>3 DEF IInv
<1>6. QED
  BY <1>1, <1>2, <1>3, <1>4, <1>5 DEF Next

\* The invariant the theorems rest on.
THEOREM Invariance == Spec => []IInv
<1>1. QED
  BY InitIInv, StepKeeps, PTL DEF Spec

LEMMA IInvExact == IInv => RemapIsExact
<1> SUFFICES ASSUME IInv PROVE RemapIsExact
  OBVIOUS
<1>1. TypeOK
  BY DEF IInv, RowInv, PendingInv, ListInv, ViewInv, TypeOK
<1>2. ASSUME alive
      PROVE  \A i \in 1..Len(mRemap) - 1 : mRemap[i] < mRemap[i + 1]
  <2>1. Len(mRemap) \in Nat
    BY <1>1 DEF TypeOK
  <2>2. ASSUME NEW i \in 1..(Len(mRemap) - 1) PROVE mRemap[i] < mRemap[i + 1]
    <3>1. i \in 1..Len(mRemap) /\ i + 1 \in 1..Len(mRemap) /\ i < i + 1
      BY <2>1
    <3>2. QED
      BY <1>2, <3>1 DEF IInv, ExactInv, Growing
  <2>3. QED
    BY <2>2
<1>3. ASSUME alive, NEW k \in 1..Len(mMessages) \ Orphans
      PROVE  (\E i \in 1..Len(mRemap) : mRemap[i] = k) <=> Visible(mMessages[k], muted, mFilter)
  <2>1. k \in 1..Len(mMessages) /\ mMessages[k].subscriptionId \in rows
    BY DEF Orphans
  <2>2. Shows(mRemap, k) <=> Visible(mMessages[k], muted, mFilter)
    BY <1>3, <2>1 DEF IInv, ExactInv
  <2>3. QED
    BY <2>2 DEF Shows
<1>4. QED
  BY <1>1, <1>2, <1>3 DEF RemapIsExact

\* The table shows exactly the messages that are neither muted nor filtered out,
\* in order and once, through any mix of arrivals, mutes, filters, clearings and
\* recordings (History::remap, onMessage, onCleared, onUnsubscribed).
THEOREM TableIsExact == Spec => []RemapIsExact
<1>1. QED
  BY Invariance, IInvExact, PTL


\* The positions of a subscription's messages.
Of(messages, id) == {i \in 1..Len(messages) : messages[i].subscriptionId = id}

LEMMA OfIs ==
  ASSUME NEW n \in Nat, NEW S \in SUBSET (1..n)
  PROVE  IsFiniteSet(S) /\ Cardinality(S) \in Nat
<1>1. 1 \in Int /\ n \in Int
  OBVIOUS
<1>2. IsFiniteSet(1..n)
  BY <1>1, FS_Interval
<1>3. QED
  BY <1>2, FS_Subset, FS_CardinalityType

LEMMA SameCount ==
  ASSUME IInv, UNCHANGED mMessages, NEW id
  PROVE  CountOf(mMessages', id) >= CountOf(mMessages, id)
<1>1. Of(mMessages, id) \in SUBSET (1..Len(mMessages)) /\ Len(mMessages) \in Nat
  BY Filters DEF Of
<1>2. Cardinality(Of(mMessages, id)) \in Nat
  BY <1>1, OfIs
<1>3. CountOf(mMessages, id) = Cardinality(Of(mMessages, id)) /\ CountOf(mMessages', id) = CountOf(mMessages, id)
  BY DEF CountOf, Of
<1>4. QED
  BY <1>2, <1>3

\* A message more.
LEMMA MoreCount ==
  ASSUME IInv, NEW message \in Message, mMessages' = Append(mMessages, message), NEW id
  PROVE  CountOf(mMessages', id) >= CountOf(mMessages, id)
<1> DEFINE n == Len(mMessages)
           A == Of(mMessages, id)
           B == Of(mMessages', id)
<1>1. /\ n \in Nat /\ n + 1 \in Nat /\ Len(mMessages') = n + 1
      /\ \A k \in 1..n : mMessages'[k] = mMessages[k] /\ k \in 1..(n + 1)
  BY Filters
<1>2. A \subseteq B /\ B \in SUBSET (1..(n + 1)) /\ A \in SUBSET (1..n)
  BY <1>1 DEF Of
<1> HIDE DEF n, A, B
<1>3. IsFiniteSet(B) /\ Cardinality(A) <= Cardinality(B) /\ Cardinality(A) \in Nat /\ Cardinality(B) \in Nat
  BY <1>1, <1>2, OfIs, FS_Subset
<1>4. CountOf(mMessages, id) = Cardinality(A) /\ CountOf(mMessages', id) = Cardinality(B)
  BY DEF CountOf, Of, A, B
<1>5. QED
  BY <1>3, <1>4

\* What is not forgotten is all there; what is, is gone.
LEMMA WithoutCount ==
  ASSUME IInv, NEW gone, NEW kept \in Without(gone), NEW id
  PROVE  \/ CountOf(kept, id) >= CountOf(mMessages, id)
         \/ CountOf(kept, id) = 0
<1> DEFINE S == {i \in 1..Len(mMessages) : mMessages[i].subscriptionId # gone}
           A == Of(mMessages, id)
           B == Of(kept, id)
<1>1. PICK q \in InOrder(S) : kept = [i \in DOMAIN q |-> mMessages[q[i]]]
  BY DEF Without, Picked
<1>2. Len(mMessages) \in Nat /\ S \in SUBSET (1..Len(mMessages))
  BY Filters
<1> HIDE DEF S
<1>3. /\ DOMAIN q = 1..Len(q) /\ Len(q) \in 0..Len(mMessages)
      /\ \A i \in 1..Len(q) : q[i] \in S
      /\ \A k \in 1..Len(mMessages) : Shows(q, k) <=> k \in S
  BY <1>2, InOrderIs
<1>4. kept \in Seq(Message)
  BY WithoutIs DEF IInv
<1>5. Len(kept) = Len(q) /\ \A i \in 1..Len(q) : kept[i] = mMessages[q[i]]
  <2>1. kept = [i \in 1..Len(q) |-> mMessages[q[i]]] /\ Len(q) \in Nat
    BY <1>1, <1>2, <1>3
  <2>2. QED
    BY <2>1
<1>6. CountOf(mMessages, id) = Cardinality(A) /\ CountOf(kept, id) = Cardinality(B)
  BY DEF CountOf, Of
<1>7. A \in SUBSET (1..Len(mMessages)) /\ B \in SUBSET (1..Len(q)) /\ Len(q) \in Nat
  BY <1>2, <1>3, <1>5 DEF Of
<1>8. CASE id = gone
  <2>1. \A i \in 1..Len(q) : mMessages[q[i]].subscriptionId # gone
    BY <1>3 DEF S
  <2>2. B = {}
    BY <1>5, <1>8, <2>1 DEF Of
  <2>3. QED
    BY <1>6, <2>2, FS_EmptySet
<1>9. CASE id # gone
  <2>1. \A k \in A : k \in S
    BY <1>9 DEF Of, S
  <2> DEFINE f == [i \in B |-> q[i]]
  <2>2. \A i \in B : q[i] \in A
    <3>1. \A i \in B : i \in 1..Len(q) /\ mMessages[q[i]].subscriptionId = id
      BY <1>5 DEF Of
    <3>2. \A i \in 1..Len(q) : q[i] \in 1..Len(mMessages)
      BY <1>2, <1>3
    <3>3. QED
      BY <3>1, <3>2 DEF Of
  <2>3. ASSUME NEW k \in A PROVE \E i \in B : q[i] = k
    <3>1. PICK i \in 1..Len(q) : q[i] = k
      BY <1>3, <1>7, <2>1 DEF Shows
    <3>2. k \in 1..Len(mMessages) /\ mMessages[k].subscriptionId = id
      BY DEF Of
    <3>3. i \in B
      BY <1>5, <3>1, <3>2 DEF Of
    <3>4. QED
      BY <3>1, <3>3
  <2> HIDE DEF A, B
  <2>4. f \in Surjection(B, A)
    BY <2>2, <2>3 DEF Surjection
  <2>5. IsFiniteSet(B) /\ Cardinality(B) \in Nat
    BY <1>7, OfIs
  <2>6. Cardinality(A) <= Cardinality(B)
    BY <2>4, <2>5, FS_Surjection
  <2>7. Cardinality(A) \in Nat
    BY <1>2, <1>7, OfIs
  <2>8. QED
    BY <1>6, <2>5, <2>6, <2>7
<1>10. QED
  BY <1>8, <1>9

LEMMA StepCount ==
  ASSUME IInv, Next, NEW id \in Ids
  PROVE  \/ CountOf(mMessages', id) >= CountOf(mMessages, id)
         \/ CountOf(mMessages', id) = 0
<1>1. CASE \E gone : Forget(gone)
  <2>1. PICK gone : \E kept \in Without(gone) : mMessages' = kept
    BY <1>1 DEF Forget
  <2>2. QED
    BY <2>1, WithoutCount
<1>2. CASE mMessages' = <<>>
  <2>1. Of(<<>>, id) = {}
    BY DEF Of
  <2>2. QED
    BY <1>2, <2>1, FS_EmptySet DEF CountOf, Of
<1>3. CASE \E message \in Message : mMessages' = Append(mMessages, message)
  BY <1>3, MoreCount
<1>4. CASE UNCHANGED mMessages
  BY <1>4, SameCount
<1>5. CASE CallbackStep
  BY <1>4, <1>5 DEF CallbackStep, Receive, EndSubscription, Queue
<1>6. CASE RowStep
  <2>1. CASE \E i \in Ids : onUnsubscribed(i)
    BY <1>1, <2>1 DEF onUnsubscribed
  <2>2. CASE \E i \in Ids : \E autoScroll \in BOOLEAN : onMessage(i, autoScroll)
    <3>1. PICK i \in Ids : \E autoScroll \in BOOLEAN : onMessage(i, autoScroll)
      BY <2>2
    <3>2. /\ Head(pending[i]) \in Topics
          /\ mMessages' = Append(mMessages, [subscriptionId |-> i, topic |-> Head(pending[i])])
      BY <3>1 DEF onMessage
    <3>3. [subscriptionId |-> i, topic |-> Head(pending[i])] \in Message
      BY <3>2 DEF Message
    <3>4. QED
      BY <1>3, <3>2, <3>3
  <2>3. QED
    BY <1>6, <2>1, <2>2 DEF RowStep
<1>7. CASE UserStep
  <2>1. CASE clear
    BY <1>2, <2>1 DEF clear
  <2>2. CASE \E i \in Ids : clearSubscription(i)
    BY <1>1, <2>2 DEF clearSubscription
  <2>3. CASE \/ Subscribe \/ openRecording \/ \E topics \in TopicFilters : setFilter(topics)
             \/ \E line \in 1..MaxMessages : onHistorySelected(line)
             \/ \E i \in Ids : mute(i) \/ unmute(i) \/ solo(i)
    BY <1>4, <2>3 DEF Subscribe, openRecording, setFilter, onHistorySelected, mute, unmute, solo
  <2>4. QED
    BY <1>7, <2>1, <2>2, <2>3 DEF UserStep
<1>8. CASE \E showDt \in BOOLEAN : Paint(showDt)
  BY <1>4, <1>8 DEF Paint
<1>9. QED
  BY <1>5, <1>6, <1>7, <1>8 DEF Next

\* What is forgotten of a subscription is forgotten entirely, and of no other
\* (History::onCleared and onUnsubscribed, which erase in a loop).
THEOREM ForgottenTogether == Spec => AllOrNothing
<1>1. IInv /\ [Next]_vars => [Together]_vars
  BY StepCount DEF Together
<1>2. QED
  BY Invariance, <1>1, PTL DEF Spec, AllOrNothing


-------------------------------------------------------------------------------
(* TopicCtrl: the parts of its invariant *)

FieldInv ==
  /\ focus \in Fields \cup {Nobody} /\ text \in [Fields -> Texts]
  /\ popup \in [Fields -> {"none", "open", "gone"}]
  /\ row \in 0..Len(Sorted) /\ returning \subseteq Fields /\ running \in BOOLEAN
FilterInv ==
  /\ known \subseteq AllTopics /\ filter \in Texts /\ filledBy \in Fields \cup {Nobody}
  /\ filledBy # Nobody => filter = text[filledBy] /\ offered \in remapTopics(known, filter)

\* What is offered was so when fewer topics were known, at worst: it can only grow.
OfferInv == \E topics \in SUBSET known : offered \in remapTopics(topics, filter)

CtrlInv == subscribing \in BOOLEAN /\ FieldInv /\ FilterInv /\ OfferInv /\ PopupHasItsRow

-------------------------------------------------------------------------------
(* The set of topics *)

\* The positions remapTopics takes.
At(topics, fragment) == {i \in 1..Len(Sorted) : Sorted[i] \in topics \cap Within[fragment]}

LEMMA SortedIs == Sorted \in Seq(AllTopics) /\ Len(Sorted) \in Nat
<1>1. Sorted \in Seq(AllTopics)
  BY TopicCtrlAssumption
<1>2. QED
  BY <1>1

\* Of more positions there is no less.
LEMMA PickedGrows ==
  ASSUME NEW T, NEW list \in Seq(T), NEW S, NEW R \in SUBSET (1..Len(list)), S \subseteq R,
         NEW fewer \in Picked(list, S), NEW more \in Picked(list, R)
  PROVE  Len(fewer) <= Len(more)
<1>1. Len(list) \in Nat /\ S \in SUBSET (1..Len(list))
  OBVIOUS
<1>2. 1 \in Int /\ Len(list) \in Int
  BY <1>1
<1>3. IsFiniteSet(R)
  BY <1>2, FS_Interval, FS_Subset
<1>4. Cardinality(S) <= Cardinality(R)
  BY <1>3, FS_Subset
<1>5. Len(fewer) = Cardinality(S) /\ Len(more) = Cardinality(R)
  BY <1>1, PickedIs
<1>6. QED
  BY <1>4, <1>5

LEMMA RemapTopicsIs ==
  ASSUME NEW topics, NEW fragment, NEW o \in remapTopics(topics, fragment)
  PROVE  /\ o \in Seq(topics) /\ Len(o) \in 0..Len(Sorted)
<1>1. /\ Sorted \in Seq(AllTopics) /\ Len(Sorted) \in Nat
      /\ At(topics, fragment) \in SUBSET (1..Len(Sorted))
      /\ o \in Picked(Sorted, At(topics, fragment))
  BY SortedIs DEF remapTopics, At
<1>2. /\ o \in Seq(AllTopics) /\ Len(o) \in 0..Len(Sorted)
      /\ \A i \in 1..Len(o) : \E k \in At(topics, fragment) : o[i] = Sorted[k]
  BY <1>1, PickedIs
<1>3. \A i \in 1..Len(o) : o[i] \in topics
  BY <1>2 DEF At
<1>4. o \in Seq(topics)
  BY <1>2, <1>3
<1>5. QED
  BY <1>2, <1>4

LEMMA RemapGrows ==
  ASSUME NEW topics, NEW more, topics \subseteq more, NEW fragment,
         NEW o \in remapTopics(topics, fragment), NEW p \in remapTopics(more, fragment)
  PROVE  Len(o) <= Len(p)
<1>1. /\ Sorted \in Seq(AllTopics) /\ At(more, fragment) \in SUBSET (1..Len(Sorted))
      /\ At(topics, fragment) \subseteq At(more, fragment)
      /\ o \in Picked(Sorted, At(topics, fragment)) /\ p \in Picked(Sorted, At(more, fragment))
  BY SortedIs DEF remapTopics, At
<1>2. QED
  BY <1>1, PickedGrows

LEMMA OfferedIs ==
  ASSUME CtrlInv
  PROVE  offered \in Seq(known) /\ Len(offered) \in 0..Len(Sorted) /\ Len(Sorted) \in Nat
<1>1. PICK topics \in SUBSET known : offered \in remapTopics(topics, filter)
  BY DEF CtrlInv, OfferInv
<1>2. offered \in Seq(topics) /\ Len(offered) \in 0..Len(Sorted)
  BY <1>1, RemapTopicsIs
<1>3. offered \in Seq(known)
  <2>1. Len(offered) \in Nat /\ \A i \in 1..Len(offered) : offered[i] \in known
    BY <1>2
  <2>2. QED
    BY <1>2, <2>1
<1>4. QED
  BY <1>2, <1>3, SortedIs

\* A text given to a field.
LEMMA FillIs ==
  ASSUME CtrlInv, NEW f \in Fields, NEW t \in Texts, Fill(f, t)
  PROVE  /\ text' \in [Fields -> Texts] /\ FilterInv' /\ OfferInv'
         /\ Len(offered') \in 0..Len(Sorted) /\ (offered' # <<>> => Len(offered') # 0)
<1>1. /\ text' = [text EXCEPT ![f] = t] /\ filter' = t /\ filledBy' = f
      /\ offered' \in remapTopics(known, t) /\ known' = known
  BY DEF Fill
<1>2. text' \in [Fields -> Texts] /\ text'[f] = t
  BY <1>1 DEF CtrlInv, FieldInv
<1>3. FilterInv'
  BY <1>1, <1>2 DEF CtrlInv, FilterInv, remapTopics
<1>4. OfferInv'
  BY <1>1 DEF OfferInv, remapTopics
<1>5. offered' \in Seq(known) /\ Len(offered') \in 0..Len(Sorted)
  BY <1>1, RemapTopicsIs
<1>6. QED
  BY <1>2, <1>3, <1>4, <1>5

-------------------------------------------------------------------------------
(* The popups *)

Popups == {"none", "open", "gone"}
NoneOpen(p) == \A f \in Fields : p[f] # "open"

LEMMA ClosedIs ==
  ASSUME CtrlInv, NEW f \in {focus}
  PROVE  Closed(f) \in [Fields -> Popups] /\ NoneOpen(Closed(f))
<1>1. popup \in [Fields -> Popups]
  BY DEF CtrlInv, FieldInv, Popups
<1>2. \A g \in Fields : popup[g] = "open" => g = f
  BY DEF CtrlInv, PopupHasItsRow
<1>3. QED
  BY <1>1, <1>2 DEF Closed, Popups, NoneOpen

LEMMA ShowIs ==
  ASSUME CtrlInv, NEW f \in Fields, popupShow(f), UNCHANGED offered, focus' = f
  PROVE  popup' \in [Fields -> Popups] /\ row' \in 0..Len(Sorted) /\ PopupHasItsRow'
<1>1. offered # <<>> /\ popup' = [Closed(focus) EXCEPT ![f] = "open"] /\ row' = 1
  BY DEF popupShow
<1>2. Closed(focus) \in [Fields -> Popups] /\ NoneOpen(Closed(focus))
  BY ClosedIs
<1>3. popup' \in [Fields -> Popups] /\ \A g \in Fields : popup'[g] = "open" => g = f
  BY <1>1, <1>2 DEF Popups, NoneOpen
<1>4. row' \in 1..Len(offered') /\ row' \in 0..Len(Sorted)
  BY <1>1, OfferedIs
<1>5. QED
  BY <1>3, <1>4 DEF PopupHasItsRow

LEMMA HideIs ==
  ASSUME CtrlInv, popupHide(focus)
  PROVE  popup' \in [Fields -> Popups] /\ row' \in 0..Len(Sorted) /\ PopupHasItsRow'
<1>1. popup' = Closed(focus) /\ row' = 0
  BY DEF popupHide
<1>2. Closed(focus) \in [Fields -> Popups] /\ NoneOpen(Closed(focus))
  BY ClosedIs
<1>3. QED
  BY <1>1, <1>2, OfferedIs DEF PopupHasItsRow, NoneOpen

LEMMA FilledIs ==
  ASSUME CtrlInv, NEW f \in Fields, focus \in {f, Nobody}, NEW t \in Texts, Filled(f, t), UNCHANGED focus
  PROVE  /\ text' \in [Fields -> Texts] /\ FilterInv' /\ OfferInv'
         /\ popup' \in [Fields -> Popups] /\ row' \in 0..Len(Sorted) /\ PopupHasItsRow'
<1>1. /\ text' \in [Fields -> Texts] /\ FilterInv' /\ OfferInv'
      /\ Len(offered') \in 0..Len(Sorted) /\ (offered' # <<>> => Len(offered') # 0)
  BY FillIs DEF Filled
<1>2. popup \in [Fields -> Popups] /\ row \in 0..Len(Sorted) /\ Len(Sorted) \in Nat
  BY OfferedIs DEF CtrlInv, FieldInv, Popups
<1>3. \A g \in Fields : popup[g] = "open" => g = f
  BY TopicCtrlAssumption DEF CtrlInv, PopupHasItsRow
<1>4. CASE offered' = <<>>
  <2>1. popup' = Closed(f) /\ row' \in {row, 0}
    BY <1>4 DEF Filled
  <2>2. Closed(f) \in [Fields -> Popups] /\ NoneOpen(Closed(f))
    BY <1>2, <1>3 DEF Closed, Popups, NoneOpen
  <2>3. QED
    BY <1>1, <1>2, <2>1, <2>2 DEF PopupHasItsRow, NoneOpen
<1>5. CASE offered' # <<>>
  <2>1. popup' = popup /\ row' = IF popup[f] # "open" THEN row ELSE 1
    BY <1>5 DEF Filled
  <2>2. 1 \in 1..Len(offered') /\ 1 \in 0..Len(Sorted)
    BY <1>1, <1>2, <1>5
  <2>3. row' \in 0..Len(Sorted)
    BY <1>2, <2>1, <2>2
  <2>4. ASSUME NEW g \in Fields, popup[g] = "open" PROVE focus' = g /\ row' \in 1..Len(offered')
    <3>1. g = f /\ focus = g
      BY <1>3, <2>4 DEF CtrlInv, PopupHasItsRow
    <3>2. QED
      BY <2>1, <2>2, <2>4, <3>1
  <2>5. QED
    BY <1>1, <1>2, <2>1, <2>3, <2>4 DEF PopupHasItsRow
<1>6. QED
  BY <1>4, <1>5

-------------------------------------------------------------------------------
(* The steps of TopicCtrl *)

\* The set and the texts stay.
LEMMA ModelStays ==
  ASSUME CtrlInv, UNCHANGED <<model, text, subscribing>>,
         focus' \in Fields \cup {Nobody}, popup' \in [Fields -> Popups], row' \in 0..Len(Sorted),
         returning' \subseteq Fields, running' \in BOOLEAN, PopupHasItsRow'
  PROVE  CtrlInv'
<1>1. UNCHANGED <<known, filter, offered, filledBy, text, subscribing>>
  BY DEF model
<1>2. FieldInv'
  BY <1>1 DEF CtrlInv, FieldInv, Popups
<1>3. FilterInv'
  BY <1>1 DEF CtrlInv, FilterInv, remapTopics
<1>4. OfferInv'
  BY <1>1 DEF CtrlInv, OfferInv, remapTopics
<1>5. QED
  BY <1>1, <1>2, <1>3, <1>4 DEF CtrlInv

\* The set and the texts change.
LEMMA ModelMoves ==
  ASSUME CtrlInv, UNCHANGED <<subscribing, focus, running>>, text' \in [Fields -> Texts],
         FilterInv', OfferInv',
         popup' \in [Fields -> Popups], row' \in 0..Len(Sorted), returning' \subseteq Fields,
         PopupHasItsRow'
  PROVE  CtrlInv'
<1>1. FieldInv'
  BY DEF CtrlInv, FieldInv, Popups
<1>2. QED
  BY <1>1 DEF CtrlInv

LEMMA Types ==
  ASSUME CtrlInv
  PROVE  /\ running \in BOOLEAN /\ returning \subseteq Fields /\ focus \in Fields \cup {Nobody}
         /\ popup \in [Fields -> Popups] /\ row \in 0..Len(Sorted) /\ Nobody \notin Fields
         /\ text \in [Fields -> Texts] /\ known \subseteq AllTopics
BY TopicCtrlAssumption DEF CtrlInv, FieldInv, FilterInv, Popups

LEMMA FocusKeeps ==
  ASSUME CtrlInv, UNCHANGED subscribing, (\E f \in Fields : Enter(f)) \/ onLostFocus \/ Show \/ onEscape
  PROVE  CtrlInv'
<1>1. /\ UNCHANGED <<model, text, subscribing, returning, running>>
      /\ focus' \in Fields \cup {Nobody}
      /\ (\E f \in Fields : popupShow(f) /\ focus' = f) \/ popupHide(focus)
  BY Types DEF Enter, onLostFocus, Show, onEscape
<1>2. offered' = offered
  BY <1>1 DEF model
<1>3. popup' \in [Fields -> Popups] /\ row' \in 0..Len(Sorted) /\ PopupHasItsRow'
  BY <1>1, <1>2, ShowIs, HideIs
<1>4. QED
  BY <1>1, <1>3, Types, ModelStays

LEMMA TypeKeeps ==
  ASSUME CtrlInv, UNCHANGED subscribing, NEW t \in Texts, Type(t)
  PROVE  CtrlInv'
<1>1. focus \in Fields /\ Filled(focus, t) /\ UNCHANGED <<focus, returning, running>>
  BY Types DEF Type
<1>2. /\ text' \in [Fields -> Texts] /\ FilterInv' /\ OfferInv'
      /\ popup' \in [Fields -> Popups] /\ row' \in 0..Len(Sorted) /\ PopupHasItsRow'
  BY <1>1, FilledIs
<1>3. QED
  BY <1>1, <1>2, Types, ModelMoves

LEMMA SetTopicKeeps ==
  ASSUME CtrlInv, UNCHANGED subscribing, NEW f \in Fields, NEW t \in Texts, SetTopic(f, t)
  PROVE  CtrlInv'
<1>1. focus = Nobody /\ Filled(f, t) /\ UNCHANGED <<focus, returning, running>>
  BY DEF SetTopic
<1>2. /\ text' \in [Fields -> Texts] /\ FilterInv' /\ OfferInv'
      /\ popup' \in [Fields -> Popups] /\ row' \in 0..Len(Sorted) /\ PopupHasItsRow'
  BY <1>1, FilledIs
<1>3. QED
  BY <1>1, <1>2, Types, ModelMoves

LEMMA ArrowKeeps ==
  ASSUME CtrlInv, UNCHANGED subscribing, autoCompleteUp \/ autoCompleteDown
  PROVE  CtrlInv'
<1>1. /\ focus \in Fields /\ UNCHANGED <<model, text, popup, focus, returning>>
      /\ \/ popup[focus] = "open" /\ row > 1 /\ row' = row - 1 /\ UNCHANGED running
         \/ popup[focus] = "open" /\ row # Len(offered) /\ row' = row + 1 /\ UNCHANGED running
         \/ popup[focus] # "open" /\ running' = FALSE /\ UNCHANGED row
  BY Types DEF autoCompleteUp, autoCompleteDown
<1>2. offered' = offered
  BY <1>1 DEF model
<1>3. popup[focus] = "open" => row \in 1..Len(offered)
  BY <1>1 DEF CtrlInv, PopupHasItsRow
<1>4. popup[focus] = "open" => row' \in 1..Len(offered)
  BY <1>1, <1>3, OfferedIs
<1>5. popup[focus] # "open" => row' = row
  BY <1>1
<1>6. PopupHasItsRow'
  BY <1>1, <1>2, <1>4 DEF CtrlInv, PopupHasItsRow
<1>7. row' \in 0..Len(Sorted)
  BY <1>4, <1>5, OfferedIs, Types
<1>8. running' \in BOOLEAN
  BY <1>1, Types
<1>9. QED
  BY <1>1, <1>6, <1>7, <1>8, Types, ModelStays

LEMMA CompleteKeeps ==
  ASSUME CtrlInv, UNCHANGED subscribing, autoCompleteSelect
  PROVE  CtrlInv'
<1>1. /\ focus \in Fields /\ popup[focus] = "open" /\ Fill(focus, offered[row])
      /\ popupHide(focus) /\ UNCHANGED <<focus, returning, running>>
  BY Types DEF autoCompleteSelect
<1>2. row \in 1..Len(offered)
  BY <1>1 DEF CtrlInv, PopupHasItsRow
<1>3. offered[row] \in known
  BY <1>2, OfferedIs
<1>4. offered[row] \in Texts
  BY <1>3, Types DEF Texts
<1>5. text' \in [Fields -> Texts] /\ FilterInv' /\ OfferInv'
  BY <1>1, <1>4, FillIs
<1>6. popup' \in [Fields -> Popups] /\ row' \in 0..Len(Sorted) /\ PopupHasItsRow'
  BY <1>1, HideIs
<1>7. QED
  BY <1>1, <1>5, <1>6, Types, ModelMoves

LEMMA SubscribeToIs ==
  ASSUME CtrlInv, NEW f \in Fields, SubscribeTo(f)
  PROVE  text' \in [Fields -> Texts] /\ FilterInv' /\ OfferInv'
<1>1. /\ text' = [text EXCEPT ![f] = ""] /\ filter' = "" /\ filledBy' = f
      /\ known' = known \cup ({text[f]} \ Unused) /\ offered' \in remapTopics(known', "")
  BY DEF SubscribeTo
<1>2. "" \in Texts /\ text[f] \in Texts
  BY Types DEF Texts, Unused
<1>3. text' \in [Fields -> Texts] /\ text'[f] = ""
  BY <1>1, <1>2, Types
<1>4. known' \subseteq AllTopics
  BY <1>1, <1>2, Types DEF Texts
<1>5. FilterInv'
  BY <1>1, <1>2, <1>3, <1>4 DEF FilterInv, remapTopics
<1>6. OfferInv'
  BY <1>1 DEF OfferInv, remapTopics
<1>7. QED
  BY <1>3, <1>5, <1>6

LEMMA ReturnKeeps ==
  ASSUME CtrlInv, UNCHANGED subscribing, onReturn
  PROVE  CtrlInv'
<1>1. focus \in Fields /\ popupHide(focus) /\ UNCHANGED <<focus, running>>
  BY Types DEF onReturn
<1>2. popup' \in [Fields -> Popups] /\ row' \in 0..Len(Sorted) /\ PopupHasItsRow'
  BY <1>1, HideIs
<1>3. CASE SubscribeTo(focus) /\ UNCHANGED returning
  <2>1. text' \in [Fields -> Texts] /\ FilterInv' /\ OfferInv'
    BY <1>1, <1>3, SubscribeToIs
  <2>2. QED
    BY <1>1, <1>2, <1>3, <2>1, Types, ModelMoves
<1>4. CASE returning' = returning \cup {f \in {focus} : text[f] # ""} /\ UNCHANGED <<model, text>>
  <2>1. returning' \subseteq Fields
    BY <1>1, <1>4, Types
  <2>2. QED
    BY <1>1, <1>2, <1>4, <2>1, Types, ModelStays
<1>5. QED
  BY <1>3, <1>4 DEF onReturn

LEMMA SubscribeToKeeps ==
  ASSUME CtrlInv, UNCHANGED subscribing, NEW f \in Fields, onSubscribeClicked(f)
  PROVE  CtrlInv'
<1>1. focus = Nobody /\ SubscribeTo(f) /\ UNCHANGED <<popup, row, focus, returning, running>>
  BY DEF onSubscribeClicked
<1>2. text' \in [Fields -> Texts] /\ FilterInv' /\ OfferInv'
  BY <1>1, SubscribeToIs
<1>3. \A g \in Fields : popup[g] # "open"
  BY <1>1, Types DEF CtrlInv, PopupHasItsRow
<1>4. PopupHasItsRow'
  BY <1>1, <1>3 DEF PopupHasItsRow
<1>5. QED
  BY <1>1, <1>2, <1>4, Types, ModelMoves

LEMMA PublishKeeps ==
  ASSUME CtrlInv, UNCHANGED subscribing, NEW f \in Fields, onPublishClicked(f)
  PROVE  CtrlInv'
<1>1. /\ returning' = returning \ {f} /\ append(text[f])
      /\ UNCHANGED <<filter, filledBy, text, popup, row, focus, running>>
  BY DEF onPublishClicked
<1>2. known' = known \cup ({text[f]} \ Unused)
      /\ (known' # known => offered' \in remapTopics(known', filter))
      /\ (known' = known => offered' = offered)
  BY <1>1 DEF append
<1>3. PICK topics \in SUBSET known : offered \in remapTopics(topics, filter)
  BY DEF CtrlInv, OfferInv
<1>4. known' \subseteq AllTopics /\ topics \subseteq known'
  BY <1>2, <1>3, Types DEF Texts
<1>5. FilterInv'
  BY <1>1, <1>2, <1>4 DEF CtrlInv, FilterInv, remapTopics
<1>6. OfferInv'
  BY <1>1, <1>2, <1>3, <1>4 DEF OfferInv, remapTopics
<1>7. Len(offered) <= Len(offered') /\ Len(offered') \in Nat /\ Len(offered) \in Nat
  <2>1. CASE known' = known
    BY <1>2, <2>1, OfferedIs
  <2>2. CASE known' # known
    <3>1. offered' \in remapTopics(known', filter)
      BY <1>2, <2>2
    <3>2. Len(offered) <= Len(offered')
      BY <1>3, <1>4, <3>1, RemapGrows
    <3>3. Len(offered') \in 0..Len(Sorted)
      BY <3>1, RemapTopicsIs
    <3>4. QED
      BY <3>2, <3>3, OfferedIs
  <2>3. QED
    BY <2>1, <2>2
<1>8. PopupHasItsRow'
  <2>1. ASSUME NEW g \in Fields, popup[g] = "open" PROVE focus = g /\ row \in 1..Len(offered')
    <3>1. focus = g /\ row \in 1..Len(offered)
      BY <2>1 DEF CtrlInv, PopupHasItsRow
    <3>2. QED
      BY <1>7, <3>1
  <2>2. QED
    BY <1>1, <2>1 DEF PopupHasItsRow
<1>9. QED
  BY <1>1, <1>5, <1>6, <1>8, Types, ModelMoves

-------------------------------------------------------------------------------
(* The theorems about TopicCtrl *)

LEMMA CtrlStart == CtrlInit => CtrlInv
<1> SUFFICES ASSUME CtrlInit PROVE CtrlInv
  OBVIOUS
<1>1. PICK file \in SUBSET AllTopics : \E messages \in SUBSET AllTopics :
        known = file \cup messages /\ offered \in remapTopics(file, "")
  BY DEF CtrlInit
<1>2. /\ subscribing \in BOOLEAN /\ filter = "" /\ filledBy = Nobody
      /\ text = [f \in Fields |-> ""] /\ popup = [f \in Fields |-> "none"] /\ row = 0
      /\ focus = Nobody /\ returning = {} /\ running = TRUE
  BY DEF CtrlInit
<1>3. "" \in Texts /\ Len(Sorted) \in Nat
  BY SortedIs DEF Texts, Unused
<1>4. FieldInv
  <2> DEFINE n == Len(Sorted)
  <2>0. n \in Nat
    BY SortedIs
  <2> HIDE DEF n
  <2>1. 0 \in 0..n
    BY <2>0
  <2>2. text \in [Fields -> Texts]
    BY <1>2, <1>3
  <2>3. popup \in [Fields -> {"none", "open", "gone"}]
    BY <1>2
  <2>4. returning \subseteq Fields /\ running \in BOOLEAN /\ focus \in Fields \cup {Nobody}
    BY <1>2
  <2>5. QED
    BY <1>2, <2>1, <2>2, <2>3, <2>4 DEF FieldInv, n
<1>5. FilterInv
  BY <1>1, <1>2, <1>3 DEF FilterInv
<1>6. OfferInv
  BY <1>1, <1>2 DEF OfferInv
<1>7. PopupHasItsRow
  BY <1>2 DEF PopupHasItsRow
<1>8. QED
  BY <1>2, <1>4, <1>5, <1>6, <1>7 DEF CtrlInv

LEMMA CtrlStepKeeps ==
  ASSUME CtrlInv, [CtrlNext]_ctrlVars
  PROVE  CtrlInv'
<1>1. CASE FieldStep /\ UNCHANGED subscribing
  BY <1>1, FocusKeeps, TypeKeeps, ArrowKeeps, CompleteKeeps, ReturnKeeps DEF FieldStep
<1>2. CASE TabStep /\ UNCHANGED subscribing
  BY <1>2, PublishKeeps, SubscribeToKeeps, SetTopicKeeps DEF TabStep
<1>3. CASE UNCHANGED ctrlVars
  <2>1. UNCHANGED <<model, text, popup, row, focus, returning, subscribing, running, offered>>
    BY <1>3 DEF ctrlVars, fields, model
  <2>2. PopupHasItsRow'
    BY <2>1 DEF CtrlInv, PopupHasItsRow
  <2>3. QED
    BY <2>1, <2>2, Types, ModelStays
<1>4. QED
  BY <1>1, <1>2, <1>3 DEF CtrlNext

\* The invariant the theorems rest on.
THEOREM CtrlInvariance == CtrlSpec => []CtrlInv
<1>1. QED
  BY CtrlStart, CtrlStepKeeps, PTL DEF CtrlSpec

\* Whatever field was filled last, by whatever key, list or message, what is
\* offered is what is known and contains its text (KnownTopics::setFilter, append
\* and remapTopics, which the fields share).
THEOREM OffersAreRight == CtrlSpec => []OffersAreOfTheText
<1>1. CtrlInv => OffersAreOfTheText
  <2> SUFFICES ASSUME CtrlInv PROVE OffersAreOfTheText
    OBVIOUS
  <2>1. offered \in Seq(known)
    BY OfferedIs
  <2>2. CtrlTypeOK
    BY <2>1 DEF CtrlInv, FieldInv, FilterInv, CtrlTypeOK
  <2>3. QED
    BY <2>2 DEF CtrlInv, FilterInv, OffersAreOfTheText
<1>2. QED
  BY CtrlInvariance, <1>1, PTL

\* KnownTopics::getTopic is asked for rows it has: an open popup is that of the
\* field with the focus, and topics that are added leave it its row.
THEOREM PopupsHaveRows == CtrlSpec => []PopupHasItsRow
<1>1. CtrlInv => PopupHasItsRow
  BY DEF CtrlInv
<1>2. QED
  BY CtrlInvariance, <1>1, PTL

-------------------------------------------------------------------------------
(* Texts: of its sequences *)

LEMMA LeastOf ==
  ASSUME NEW S, S \subseteq Nat, S # {}
  PROVE  \E i \in S : \A j \in S : i <= j
<1>1. PICK x \in S : \A y \in S : ~(<<y, x>> \in OpToRel(<, Nat))
  BY NatLessThanWellFounded, WFMin, Zenon
<1>2. \A y \in S : x <= y
  <2>1. TAKE y \in S
  <2>2. ~(y < x)
    BY <1>1 DEF OpToRel
  <2>3. QED
    BY <2>2
<1>3. QED
  BY <1>2

LEMMA PrefixIs ==
  ASSUME NEW T, NEW s \in Seq(T), NEW t \in Seq(T)
  PROVE  IsPrefix(s, t) <=> Len(s) <= Len(t) /\ \A i \in 1..Len(s) : s[i] = t[i]
<1>1. Len(s) \in Nat /\ Len(t) \in Nat
  OBVIOUS
<1>2. SUFFICES ASSUME Len(s) <= Len(t)
               PROVE  SubSeq(s, 1, Len(s)) = SubSeq(t, 1, Len(s)) <=>
                        \A i \in 1..Len(s) : s[i] = t[i]
  BY DEF IsPrefix
<1> DEFINE a == SubSeq(s, 1, Len(s))
           b == SubSeq(t, 1, Len(s))
<1>3. a \in Seq(T) /\ Len(a) = Len(s) /\ \A i \in 1..Len(s) : a[i] = s[i]
  BY <1>1
<1>4. b \in Seq(T) /\ Len(b) = Len(s) /\ \A i \in 1..Len(s) : b[i] = t[i]
  BY <1>1, <1>2
<1> HIDE DEF a, b
<1>5. (\A i \in 1..Len(s) : a[i] = b[i]) => a = b
  BY <1>3, <1>4
<1>6. QED
  BY <1>3, <1>4, <1>5 DEF a, b

LEMMA FrontIs ==
  ASSUME NEW T, NEW p \in Seq(T), p # <<>>
  PROVE  /\ Front(p) \in Seq(T) /\ Len(p) \in Nat \ {0} /\ Len(Front(p)) = Len(p) - 1
         /\ \A i \in 1..(Len(p) - 1) : Front(p)[i] = p[i]
         /\ Last(p) \in T
<1>1. Len(p) \in Nat /\ Len(p) # 0
  OBVIOUS
<1>2. Last(p) \in T
  BY <1>1 DEF Last
<1>3. Len(p) - 1 \in 0..Len(p)
  BY <1>1
<1>4. Front(p) \in Seq(T) /\ Len(Front(p)) = Len(p) - 1
  BY <1>1, <1>3, SMTT(30) DEF Front
<1>5. \A i \in 1..(Len(p) - 1) : Front(p)[i] = p[i]
  BY <1>1, <1>3 DEF Front
<1>6. QED
  BY <1>1, <1>2, <1>4, <1>5

-------------------------------------------------------------------------------
(* Positions in order *)

LEMMA AscendingIs ==
  ASSUME NEW n \in Nat, NEW S \in SUBSET (1..n)
  PROVE  Ascending(S) \in InOrder(S)
<1> DEFINE m == Cardinality(S)
           before(p) == {q \in S : q < p}
           Nth(k, p) == Cardinality(before(p)) = k - 1
           order == [k \in 1..m |-> CHOOSE p \in S : Nth(k, p)]
<1>1. IsFiniteSet(S) /\ m \in Nat /\ S \subseteq Nat /\ \A p \in S : p \in Nat
  <2>1. IsFiniteSet(1..n)
    BY FS_Interval
  <2>2. IsFiniteSet(S)
    BY <2>1, FS_Subset
  <2>3. QED
    BY <2>2, FS_CardinalityType
<1>2. \A p \in S : /\ IsFiniteSet(before(p)) /\ Cardinality(before(p)) \in Nat
                   /\ IsFiniteSet(before(p) \cup {p})
                   /\ Cardinality(before(p) \cup {p}) = Cardinality(before(p)) + 1
                   /\ Cardinality(before(p) \cup {p}) <= m
  <2>1. SUFFICES ASSUME NEW p \in S
                 PROVE  /\ IsFiniteSet(before(p)) /\ Cardinality(before(p)) \in Nat
                        /\ IsFiniteSet(before(p) \cup {p})
                        /\ Cardinality(before(p) \cup {p}) = Cardinality(before(p)) + 1
                        /\ Cardinality(before(p) \cup {p}) <= m
    OBVIOUS
  <2>2. before(p) \subseteq S /\ before(p) \cup {p} \subseteq S /\ p \notin before(p)
    BY <1>1, <2>1
  <2> HIDE DEF before
  <2>3. IsFiniteSet(before(p)) /\ Cardinality(before(p)) \in Nat
    BY <1>1, <2>2, FS_Subset, FS_CardinalityType
  <2>4. Cardinality(before(p) \cup {p}) = Cardinality(before(p)) + 1
    BY <2>2, <2>3, FS_AddElement
  <2>5. IsFiniteSet(before(p) \cup {p}) /\ Cardinality(before(p) \cup {p}) <= m
    BY <1>1, <2>2, FS_Subset
  <2>6. QED
    BY <2>3, <2>4, <2>5
<1>3. \A p, r \in S : p < r =>
        /\ before(p) \cup {p} \subseteq before(r)
        /\ Cardinality(before(p)) < Cardinality(before(r))
  <2>1. SUFFICES ASSUME NEW p \in S, NEW r \in S, p < r
                 PROVE  /\ before(p) \cup {p} \subseteq before(r)
                        /\ Cardinality(before(p)) < Cardinality(before(r))
    OBVIOUS
  <2>2. before(p) \cup {p} \subseteq before(r)
    <3>1. p \in Nat /\ r \in Nat
      BY <1>1
    <3>2. \A q \in S : q < p => q < r
      BY <1>1, <2>1, <3>1
    <3>3. QED
      BY <2>1, <3>2
  <2>3. /\ Cardinality(before(p)) \in Nat /\ IsFiniteSet(before(r)) /\ Cardinality(before(r)) \in Nat
        /\ Cardinality(before(p) \cup {p}) = Cardinality(before(p)) + 1
    BY <1>2, <2>1
  <2> HIDE DEF before
  <2>4. Cardinality(before(p) \cup {p}) <= Cardinality(before(r))
    BY <2>2, <2>3, FS_Subset
  <2>5. QED
    BY <2>2, <2>3, <2>4
<1>4. \A k \in 1..m : \E p \in S : Nth(k, p)
  <2> DEFINE K == {k \in 1..m : ~\E p \in S : Nth(k, p)}
  <2>1. SUFFICES ASSUME K # {} PROVE FALSE
    OBVIOUS
  <2>2. K \subseteq Nat
    BY <1>1
  <2>3. PICK k \in K : \A j \in K : k <= j
    <3> HIDE DEF K
    <3>1. QED
      BY <2>1, <2>2, LeastOf
  <2>4. k \in 1..m /\ k \in Nat /\ m \in Nat
    BY <1>1, <2>3
  <2>5. \E A \in SUBSET S : /\ IsFiniteSet(A) /\ Cardinality(A) = k - 1
                            /\ \A p \in A, q \in S : q < p => q \in A
    <3>1. CASE k = 1
      <4>1. IsFiniteSet({}) /\ Cardinality({}) = k - 1
        BY <3>1, FS_EmptySet
      <4>2. QED
        BY <4>1
    <3>2. CASE k # 1
      <4>1. k - 1 \in 1..m /\ k - 1 \notin K
        BY <2>3, <2>4, <3>2
      <4>2. PICK p \in S : Nth(k - 1, p)
        BY <4>1
      <4>3. Cardinality(before(p)) = k - 2 /\ Cardinality(before(p) \cup {p}) = k - 1
        BY <1>2, <2>4, <4>2, SMTT(30)
      <4>4. before(p) \cup {p} \in SUBSET S
        OBVIOUS
      <4>5. \A a \in before(p) \cup {p}, q \in S : q < a => q \in before(p) \cup {p}
        BY <1>1
      <4>6. QED
        BY <1>2, <4>3, <4>4, <4>5
    <3>3. QED
      BY <3>1, <3>2
  <2>6. PICK A \in SUBSET S : /\ IsFiniteSet(A) /\ Cardinality(A) = k - 1
                              /\ \A p \in A, q \in S : q < p => q \in A
    BY <2>5
  <2>7. S \ A # {} /\ S \ A \subseteq Nat
    <3>1. ASSUME S \ A = {} PROVE FALSE
      <4>1. A = S
        BY <2>6, <3>1
      <4>2. m = k - 1
        BY <2>6, <4>1
      <4>3. QED
        BY <2>4, <4>2
    <3>2. QED
      BY <1>1, <3>1
  <2>8. PICK r \in S \ A : \A q \in S \ A : r <= q
    BY <2>7, LeastOf
  <2>9. before(r) = A
    <3>1. \A q \in S : q < r => q \in A
      <4>1. \A q \in S \ A : ~(q < r)
        BY <1>1, <2>8
      <4>2. QED
        BY <4>1
    <3>2. \A q \in A : q < r
      <4>1. SUFFICES ASSUME NEW q \in A PROVE q < r
        OBVIOUS
      <4>2. q \in S /\ q \in Nat /\ r \in Nat /\ q # r /\ ~(r < q)
        BY <1>1, <2>6, <2>8
      <4>3. QED
        BY <4>2
    <3>3. QED
      BY <2>6, <3>1, <3>2
  <2>10. Nth(k, r)
    BY <2>6, <2>9
  <2>11. QED
    BY <2>3, <2>10
<1> HIDE DEF before, m
<1>5. \A k \in 1..m : order[k] \in S /\ Cardinality(before(order[k])) = k - 1
  BY <1>4
<1> HIDE DEF order
<1>6. order \in [1..m -> S]
  BY <1>5 DEF order
<1>7. \A i, j \in 1..m : i < j => order[i] < order[j]
  <2>1. SUFFICES ASSUME NEW i \in 1..m, NEW j \in 1..m, i < j, ~(order[i] < order[j]) PROVE FALSE
    OBVIOUS
  <2>2. order[i] \in Nat /\ order[j] \in Nat /\ i \in Nat /\ j \in Nat
    <3>1. order[i] \in S /\ order[j] \in S
      BY <1>5
    <3>2. order[i] \in Nat /\ order[j] \in Nat
      BY <1>1, <3>1
    <3>3. i \in Nat /\ j \in Nat
      BY <1>1
    <3>4. QED
      BY <3>2, <3>3
  <2>3. order[i] = order[j] \/ order[j] < order[i]
    BY <2>1, <2>2
  <2>4. i - 1 < j - 1 /\ ~(j - 1 < i - 1) /\ i - 1 # j - 1
    BY <2>1, <2>2
  <2>5. /\ Cardinality(before(order[i])) = i - 1 /\ Cardinality(before(order[j])) = j - 1
        /\ order[i] \in S /\ order[j] \in S
    BY <1>5
  <2>6. ~(order[j] < order[i])
    BY <1>3, <2>4, <2>5
  <2>7. QED
    BY <2>3, <2>4, <2>5, <2>6
<1>8. \A p \in S : \E i \in 1..m : order[i] = p
  <2>1. SUFFICES ASSUME NEW p \in S PROVE \E i \in 1..m : order[i] = p
    OBVIOUS
  <2> DEFINE i == Cardinality(before(p)) + 1
  <2>2. i \in 1..m /\ i - 1 = Cardinality(before(p)) /\ i - 1 \in Nat
    <3>1. Cardinality(before(p)) \in Nat /\ Cardinality(before(p)) + 1 <= m
      BY <1>2
    <3>2. QED
      BY <1>1, <3>1
  <2> HIDE DEF i
  <2>3. order[i] \in S /\ Cardinality(before(order[i])) = Cardinality(before(p))
    BY <1>5, <2>2
  <2>4. ~(order[i] < p) /\ ~(p < order[i])
    <3>1. ~(Cardinality(before(order[i])) < Cardinality(before(p))) /\
          ~(Cardinality(before(p)) < Cardinality(before(order[i])))
      BY <2>2, <2>3
    <3>2. QED
      BY <1>3, <2>1, <2>3, <3>1
  <2>5. order[i] = p
    <3>1. order[i] \in Nat /\ p \in Nat
      BY <1>1, <2>3
    <3>2. QED
      BY <2>4, <3>1
  <2>6. QED
    BY <2>2, <2>5
<1>9. DOMAIN order = 1..m
  BY <1>6
<1>10. order \in InOrder(S)
  BY <1>6, <1>7, <1>8, <1>9 DEF InOrder, m
<1>11. QED
  BY <1>10 DEF order, Ascending, m, before

\* There is one order.
LEMMA OneOrder ==
  ASSUME NEW n \in Nat, NEW S \in SUBSET (1..n), NEW q \in InOrder(S), NEW r \in InOrder(S)
  PROVE  q = r
<1>1. /\ q \in Seq(1..n) /\ Len(q) = Cardinality(S) /\ Len(q) \in Nat
      /\ \A i \in 1..Len(q) : q[i] \in S
      /\ \A k \in S : \E i \in 1..Len(q) : q[i] = k
      /\ \A i, j \in 1..Len(q) : i < j => q[i] < q[j]
  <2>1. /\ q \in Seq(1..n) /\ Len(q) = Cardinality(S)
        /\ \A i \in 1..Len(q) : q[i] \in S
        /\ Growing(q) /\ \A k \in 1..n : Shows(q, k) <=> k \in S
    BY InOrderIs
  <2>2. QED
    BY <2>1 DEF Growing, Shows
<1>2. /\ r \in Seq(1..n) /\ Len(r) = Cardinality(S) /\ Len(r) \in Nat
      /\ \A i \in 1..Len(r) : r[i] \in S
      /\ \A k \in S : \E i \in 1..Len(r) : r[i] = k
      /\ \A i, j \in 1..Len(r) : i < j => r[i] < r[j]
  <2>1. /\ r \in Seq(1..n) /\ Len(r) = Cardinality(S)
        /\ \A i \in 1..Len(r) : r[i] \in S
        /\ Growing(r) /\ \A k \in 1..n : Shows(r, k) <=> k \in S
    BY InOrderIs
  <2>2. QED
    BY <2>1 DEF Growing, Shows
<1> DEFINE m == Len(q)
           K == {i \in 1..m : q[i] # r[i]}
<1>3. Len(r) = m /\ m \in Nat /\ S \subseteq Nat
  BY <1>1, <1>2
<1>4. K = {}
  <2>1. SUFFICES ASSUME K # {} PROVE FALSE
    OBVIOUS
  <2>2. K \subseteq Nat
    BY <1>1
  <2>3. PICK k \in K : \A j \in K : k <= j
    <3> HIDE DEF K
    <3>1. QED
      BY <2>1, <2>2, LeastOf
  <2>4. k \in 1..m /\ k \in Nat /\ q[k] # r[k] /\ q[k] \in S /\ r[k] \in S
    BY <1>1, <1>2, <1>3, <2>3
  <2>5. \A j \in 1..m : j < k => q[j] = r[j]
    BY <2>3, <2>4
  <2>6. ~(q[k] < r[k])
    <3>1. SUFFICES ASSUME q[k] < r[k] PROVE FALSE
      OBVIOUS
    <3>2. PICK j \in 1..m : r[j] = q[k]
      BY <1>2, <1>3, <2>4
    <3>3. j < k
      <4>1. ~(k < j)
        BY <1>2, <1>3, <2>4, <3>1, <3>2
      <4>2. j # k
        BY <2>4, <3>2
      <4>3. QED
        BY <2>4, <4>1, <4>2
    <3>4. q[j] = q[k] /\ q[j] < q[k] /\ q[k] \in Nat
      BY <1>1, <1>3, <2>4, <2>5, <3>2, <3>3
    <3>5. QED
      BY <3>4
  <2>7. ~(r[k] < q[k])
    <3>1. SUFFICES ASSUME r[k] < q[k] PROVE FALSE
      OBVIOUS
    <3>2. PICK j \in 1..m : q[j] = r[k]
      BY <1>1, <1>3, <2>4
    <3>3. j < k
      <4>1. ~(k < j)
        BY <1>1, <1>3, <2>4, <3>1, <3>2
      <4>2. j # k
        BY <2>4, <3>2
      <4>3. QED
        BY <2>4, <4>1, <4>2
    <3>4. r[j] = r[k] /\ r[j] < r[k] /\ r[k] \in Nat
      BY <1>2, <1>3, <2>4, <2>5, <3>2, <3>3
    <3>5. QED
      BY <3>4
  <2>8. q[k] \in Nat /\ r[k] \in Nat
    BY <1>3, <2>4
  <2>9. QED
    BY <2>4, <2>6, <2>7, <2>8
<1>5. \A i \in 1..m : q[i] = r[i]
  BY <1>4
<1>6. QED
  BY <1>1, <1>2, <1>3, <1>5

-------------------------------------------------------------------------------
(* The levels of a topic or a filter *)

Start(s, k) == IF k = 1 THEN 1 ELSE Ends(s)[k - 1] + 1

LEMMA EndsAre ==
  ASSUME NEW T, NEW s \in Seq(T)
  PROVE  /\ Len(Ends(s)) \in Nat \ {0} /\ Len(s) \in Nat
         /\ \A k \in 1..Len(Ends(s)) : Ends(s)[k] \in 1..(Len(s) + 1)
         /\ \A k \in 1..(Len(Ends(s)) - 1) : Ends(s)[k] \in 1..Len(s) /\ s[Ends(s)[k]] = "/"
         /\ Ends(s)[Len(Ends(s))] = Len(s) + 1
         /\ \A j, k \in 1..Len(Ends(s)) : j < k => Ends(s)[j] < Ends(s)[k]
<1> DEFINE slashes == {i \in 1..Len(s) : s[i] = "/"}
           S == slashes \cup {Len(s) + 1}
           n == Len(s) + 1
           e == Ends(s)
           m == Len(e)
<1>1. Len(s) \in Nat /\ n \in Nat
  OBVIOUS
<1>2. S \in SUBSET (1..n)
  BY <1>1
<1>3. e \in InOrder(S)
  <2> HIDE DEF n
  <2>1. e = Ascending(S)
    BY DEF Ends
  <2> HIDE DEF S, e
  <2>2. QED
    BY <1>1, <1>2, <2>1, AscendingIs
<1> HIDE DEF S, e
<1>4. /\ e \in Seq(1..n) /\ m \in 0..n
      /\ \A i \in 1..m : e[i] \in S
      /\ Growing(e) /\ \A k \in 1..n : Shows(e, k) <=> k \in S
  <2> HIDE DEF n
  <2>1. QED
    BY <1>1, <1>2, <1>3, InOrderIs
<1>5. m \in Nat /\ \A k \in 1..m : e[k] \in 1..n
  BY <1>1, <1>2, <1>4
<1>6. \A j, k \in 1..m : j < k => e[j] < e[k]
  BY <1>4 DEF Growing
<1>7. PICK j \in 1..m : e[j] = n
  <2>1. n \in S /\ n \in 1..n
    BY <1>1 DEF S
  <2>2. QED
    BY <1>4, <2>1 DEF Shows
<1>8. m # 0 /\ e[m] = n
  <2>1. m \in 1..m /\ m # 0
    BY <1>5, <1>7
  <2>2. ~(j < m)
    <3>1. SUFFICES ASSUME j < m PROVE FALSE
      OBVIOUS
    <3>2. n < e[m] /\ e[m] \in 1..n
      BY <1>5, <1>6, <1>7, <2>1, <3>1
    <3>3. QED
      BY <1>1, <3>2
  <2>3. j = m
    BY <1>5, <1>7, <2>2
  <2>4. QED
    BY <1>7, <2>1, <2>3
<1>9. \A k \in 1..(m - 1) : e[k] \in 1..Len(s) /\ s[e[k]] = "/"
  <2>1. SUFFICES ASSUME NEW k \in 1..(m - 1) PROVE e[k] \in 1..Len(s) /\ s[e[k]] = "/"
    OBVIOUS
  <2>2. k \in 1..m /\ m \in 1..m /\ k < m
    BY <1>5, <2>1
  <2>3. e[k] < n /\ e[k] \in S
    BY <1>4, <1>6, <1>8, <2>2
  <2>4. e[k] \in slashes
    BY <1>1, <1>5, <2>2, <2>3 DEF S
  <2>5. QED
    BY <2>4
<1>10. QED
  BY <1>1, <1>5, <1>6, <1>8, <1>9 DEF e

LEMMA LevelsAre ==
  ASSUME NEW T, NEW s \in Seq(T)
  PROVE  /\ Levels(s) \in Seq(Seq(T)) /\ Len(Levels(s)) = Len(Ends(s))
         /\ Len(Levels(s)) \in Nat \ {0} /\ Len(s) \in Nat
         /\ \A k \in 1..Len(Levels(s)) :
              /\ Start(s, k) \in 1..Ends(s)[k] /\ Ends(s)[k] \in 1..(Len(s) + 1)
              /\ Levels(s)[k] \in Seq(T) /\ Len(Levels(s)[k]) = Ends(s)[k] - Start(s, k)
              /\ \A i \in Start(s, k)..(Ends(s)[k] - 1) : Levels(s)[k][(i - Start(s, k)) + 1] = s[i]
<1> DEFINE e == Ends(s)
           m == Len(e)
           l == Levels(s)
<1>1. /\ m \in Nat \ {0} /\ Len(s) \in Nat
      /\ \A k \in 1..m : e[k] \in 1..(Len(s) + 1)
      /\ \A j, k \in 1..m : j < k => e[j] < e[k]
  BY EndsAre
<1>2. l = [k \in 1..m |-> SubSeq(s, Start(s, k), e[k] - 1)]
  BY DEF Levels, Start
<1>3. \A k \in 1..m : Start(s, k) \in 1..e[k]
  <2>1. SUFFICES ASSUME NEW k \in 1..m PROVE Start(s, k) \in 1..e[k]
    OBVIOUS
  <2>2. CASE k = 1
    BY <1>1, <2>2 DEF Start
  <2>3. CASE k # 1
    <3>1. k - 1 \in 1..m /\ k - 1 < k
      BY <1>1, <2>3
    <3>2. e[k - 1] < e[k] /\ e[k - 1] \in 1..(Len(s) + 1) /\ e[k] \in 1..(Len(s) + 1)
      BY <1>1, <3>1
    <3>3. QED
      BY <1>1, <2>3, <3>2 DEF Start
  <2>4. QED
    BY <2>2, <2>3
<1> HIDE DEF e, l, m
<1>4. ASSUME NEW k \in 1..m
      PROVE  /\ SubSeq(s, Start(s, k), e[k] - 1) \in Seq(T)
             /\ Len(SubSeq(s, Start(s, k), e[k] - 1)) = e[k] - Start(s, k)
             /\ \A i \in Start(s, k)..(e[k] - 1) :
                  SubSeq(s, Start(s, k), e[k] - 1)[(i - Start(s, k)) + 1] = s[i]
  <2> DEFINE a == Start(s, k)
             b == e[k] - 1
  <2>1. a \in Nat \ {0} /\ b \in Nat /\ b <= Len(s) /\ a <= b + 1 /\ Len(s) \in Nat /\ e[k] = b + 1
    BY <1>1, <1>3, <1>4
  <2> HIDE DEF a, b
  <2>2. SubSeq(s, a, b) \in Seq(T) /\ Len(SubSeq(s, a, b)) = (b + 1) - a
    BY <2>1
  <2>3. \A i \in a..b : SubSeq(s, a, b)[(i - a) + 1] = s[i]
    BY <2>1, SMTT(30)
  <2>4. QED
    BY <2>1, <2>2, <2>3 DEF a, b
<1>5. l \in Seq(Seq(T)) /\ Len(l) = m
  <2>1. l \in [1..m -> Seq(T)]
    BY <1>2, <1>4
  <2>2. QED
    BY <1>1, <2>1
<1>6. \A k \in 1..m : l[k] = SubSeq(s, Start(s, k), e[k] - 1)
  BY <1>2
<1>7. QED
  BY <1>1, <1>3, <1>4, <1>5, <1>6 DEF e, l, m

LEMMA LevelIs ==
  ASSUME NEW T, NEW s \in Seq(T), NEW k \in 1..Len(Levels(s))
  PROVE  /\ Start(s, k) \in 1..Ends(s)[k] /\ Ends(s)[k] \in 1..(Len(s) + 1)
         /\ Levels(s)[k] \in Seq(T) /\ Len(Levels(s)[k]) = Ends(s)[k] - Start(s, k)
         /\ \A i \in Start(s, k)..(Ends(s)[k] - 1) : Levels(s)[k][(i - Start(s, k)) + 1] = s[i]
<1>1. \A j \in 1..Len(Levels(s)) :
        /\ Start(s, j) \in 1..Ends(s)[j] /\ Ends(s)[j] \in 1..(Len(s) + 1)
        /\ Levels(s)[j] \in Seq(T) /\ Len(Levels(s)[j]) = Ends(s)[j] - Start(s, j)
        /\ \A i \in Start(s, j)..(Ends(s)[j] - 1) : Levels(s)[j][(i - Start(s, j)) + 1] = s[i]
  BY LevelsAre, Zenon
<1>2. QED
  BY <1>1, Zenon

\* The characters of a filter, and among them those of a topic.
Chars == Letters \cup {"/", "+", "#"}

\* Texts whose first levels agree are the same up to where these end.
LEMMA LevelsAgree ==
  ASSUME NEW s \in Seq(Chars), NEW t \in Seq(Chars), NEW n \in Nat,
         n <= Len(Levels(s)), n <= Len(Levels(t)),
         \A k \in 1..n : Levels(s)[k] = Levels(t)[k]
  PROVE  \A k \in 1..n : Ends(s)[k] = Ends(t)[k] /\ \A i \in 1..(Ends(s)[k] - 1) : s[i] = t[i]
<1> DEFINE Same(k) == Ends(s)[k] = Ends(t)[k] /\ \A i \in 1..(Ends(s)[k] - 1) : s[i] = t[i]
           K == {k \in 1..n : ~Same(k)}
<1>1. SUFFICES ASSUME K # {} PROVE FALSE
  OBVIOUS
<1>2. K \subseteq Nat
  OBVIOUS
<1>3. PICK k \in K : \A j \in K : k <= j
  <2> HIDE DEF K
  <2>1. QED
    BY <1>1, <1>2, LeastOf
<1>4. k \in 1..n /\ ~Same(k) /\ \A j \in 1..n : j < k => Same(j)
  BY <1>3
<1>5. /\ k \in 1..Len(Levels(s)) /\ k \in 1..Len(Levels(t)) /\ k \in Nat \ {0}
      /\ Len(Levels(s)) \in Nat /\ Len(Levels(t)) \in Nat
  BY <1>4, LevelsAre
<1> DEFINE a == Start(s, k)
           e == Ends(s)[k]
           f == Ends(t)[k]
           l == Levels(s)[k]
<1>6. /\ a \in 1..e /\ e \in 1..(Len(s) + 1) /\ Len(s) \in Nat /\ Len(l) = e - a
      /\ \A i \in a..(e - 1) : l[(i - a) + 1] = s[i]
  <2>1. Len(s) \in Nat
    OBVIOUS
  <2>2. QED
    BY <1>5, <2>1, LevelIs, Zenon
<1>7. /\ Start(t, k) \in 1..f /\ f \in 1..(Len(t) + 1) /\ Len(t) \in Nat
      /\ Len(Levels(t)[k]) = f - Start(t, k)
      /\ \A i \in Start(t, k)..(f - 1) : Levels(t)[k][(i - Start(t, k)) + 1] = t[i]
  <2>1. Len(t) \in Nat
    OBVIOUS
  <2>2. QED
    BY <1>5, <2>1, LevelIs, Zenon
<1>8. Start(t, k) = a /\ \A i \in 1..(a - 1) : s[i] = t[i]
  <2>1. CASE k = 1
    BY <2>1 DEF Start
  <2>2. CASE k # 1
    <3>1. k - 1 \in 1..n /\ k - 1 < k
      BY <1>4, <1>5, <2>2
    <3>2. Same(k - 1)
      BY <1>4, <3>1
    <3>3. a = Ends(s)[k - 1] + 1 /\ Start(t, k) = a
      BY <2>2, <3>2 DEF Start
    <3>4. k - 1 \in 1..(Len(Ends(s)) - 1) /\ k - 1 \in 1..(Len(Ends(t)) - 1)
      BY <1>5, <2>2, LevelsAre
    <3>5. s[Ends(s)[k - 1]] = "/" /\ t[Ends(t)[k - 1]] = "/" /\ Ends(s)[k - 1] \in Nat
      BY <3>4, EndsAre
    <3>6. \A i \in 1..(a - 1) : i = Ends(s)[k - 1] \/ i \in 1..(Ends(s)[k - 1] - 1)
      BY <3>3, <3>5
    <3>7. QED
      BY <3>2, <3>3, <3>5, <3>6
  <2>3. QED
    BY <2>1, <2>2
<1>9. Levels(t)[k] = l
  BY <1>4
<1> HIDE DEF a, e, f, l
<1>10. f = e
  BY <1>6, <1>7, <1>8, <1>9
<1>11. \A i \in a..(e - 1) : s[i] = t[i]
  BY <1>6, <1>7, <1>8, <1>9, <1>10
<1>12. \A i \in 1..(e - 1) : s[i] = t[i]
  <2>1. \A i \in 1..(e - 1) : i \in 1..(a - 1) \/ i \in a..(e - 1)
    BY <1>6
  <2>2. QED
    BY <1>8, <1>11, <2>1
<1>13. Same(k)
  BY <1>10, <1>12 DEF e, f
<1>14. QED
  BY <1>4, <1>13

LEMMA SplitIs ==
  ASSUME NEW T, NEW s \in Seq(T), ~HasEmptyLevel(s)
  PROVE  split(s) = Levels(s)
<1> DEFINE l == Levels(s)
           n == Len(l)
           S == {k \in 1..n : l[k] # <<>>}
           kept == Ascending(S)
           id == [k \in 1..n |-> k]
<1>1. n \in Nat /\ l \in Seq(Seq(T))
  BY LevelsAre
<1>2. S = 1..n
  BY <1>1 DEF HasEmptyLevel, ToSet
<1> HIDE DEF l
<1>3. Cardinality(1..n) = n
  <2>1. 1 \in Int /\ n \in Int
    BY <1>1
  <2>2. Cardinality(1..n) = IF 1 > n THEN 0 ELSE n - 1 + 1
    BY <2>1, FS_Interval
  <2>3. QED
    BY <1>1, <2>2
<1>4. id \in InOrder(1..n)
  <2>1. id \in [1..n -> 1..n] /\ DOMAIN id = 1..n
    OBVIOUS
  <2>2. /\ \A k \in 1..n : \E i \in 1..n : id[i] = k
        /\ \A i, j \in 1..n : i < j => id[i] < id[j]
    OBVIOUS
  <2> HIDE DEF id
  <2>3. QED
    BY <1>3, <2>1, <2>2 DEF InOrder
<1>5. kept \in InOrder(1..n)
  <2>1. 1..n \in SUBSET (1..n)
    OBVIOUS
  <2> HIDE DEF n
  <2>2. QED
    BY <1>1, <1>2, <2>1, AscendingIs
<1> HIDE DEF kept, S
<1>6. kept = id
  <2>1. 1..n \in SUBSET (1..n)
    OBVIOUS
  <2> HIDE DEF n, id
  <2>2. QED
    BY <1>1, <1>4, <1>5, <2>1, OneOrder
<1>7. split(s) = [k \in 1..Len(kept) |-> l[kept[k]]]
  BY DEF split, kept, S, l
<1>8. Len(kept) = n /\ \A k \in 1..n : kept[k] = k
  BY <1>1, <1>6
<1>9. split(s) = [k \in 1..n |-> l[k]]
  BY <1>7, <1>8
<1>10. QED
  BY <1>1, <1>9 DEF l

LEMMA FiltersAre ==
  ASSUME NEW f \in LegalFilters
  PROVE  /\ f \in Seq(Chars) /\ Len(f) \in Nat \ {0}
         /\ \A k \in 1..Len(Levels(f)) :
              /\ Len(Levels(f)[k]) = 1 \/ {"+", "#"} \cap ToSet(Levels(f)[k]) = {}
              /\ Levels(f)[k] = Hash => k = Len(Levels(f))
<1>1. f \in StringsOf(Letters \cup {"/", "+", "#"}, MaxFilter)
  BY DEF LegalFilters
<1>2. PICK n \in 1..MaxFilter : f \in [1..n -> Chars]
  BY <1>1 DEF StringsOf, Chars
<1>3. f \in Seq(Chars) /\ Len(f) = n
  BY <1>2
<1>4. QED
  BY <1>2, <1>3 DEF LegalFilters

LEMMA TopicsAre ==
  ASSUME NEW t \in TopicTexts
  PROVE  t \in Seq(Chars) /\ Len(t) \in Nat \ {0} /\ \A i \in 1..Len(t) : t[i] \notin {"+", "#"}
<1>1. PICK n \in 1..MaxTopic : t \in [1..n -> Letters \cup {"/"}]
  BY DEF TopicTexts, StringsOf
<1>2. t \in Seq(Letters \cup {"/"}) /\ Len(t) = n /\ \A i \in 1..n : t[i] \in Letters \cup {"/"}
  BY <1>1
<1>3. \A i \in 1..n : t[i] \notin {"+", "#"}
  BY <1>2, TextsAssumption
<1>4. t \in Seq(Chars)
  BY <1>1 DEF Chars
<1>5. QED
  BY <1>2, <1>3, <1>4

\* In the text of a filter what is in its levels.
LEMMA InLevel ==
  ASSUME NEW T, NEW s \in Seq(T), NEW k \in 1..Len(Levels(s)), NEW c, Levels(s)[k] = <<c>>
  PROVE  /\ Start(s, k) \in 1..Len(s) /\ s[Start(s, k)] = c
         /\ Ends(s)[k] = Start(s, k) + 1
<1> DEFINE a == Start(s, k)
           e == Ends(s)[k]
           l == Levels(s)[k]
<1>1. /\ a \in 1..e /\ e \in 1..(Len(s) + 1) /\ Len(l) = e - a /\ Len(s) \in Nat
      /\ \A i \in a..(e - 1) : l[(i - a) + 1] = s[i]
  BY LevelsAre
<1>2. Len(l) = 1 /\ l[1] = c
  OBVIOUS
<1> HIDE DEF a, e, l
<1>3. e = a + 1 /\ a \in a..(e - 1) /\ (a - a) + 1 = 1
  <2>1. e \in Nat /\ a \in Nat
    BY <1>1
  <2>2. e - a = 1
    BY <1>1, <1>2
  <2>3. QED
    BY <2>1, <2>2
<1>4. s[a] = c
  BY <1>1, <1>2, <1>3
<1>5. QED
  BY <1>1, <1>3, <1>4 DEF a, e

LEMMA HashIsLast ==
  ASSUME NEW f \in LegalFilters
  PROVE  EndsInHash(f) <=> Last(Levels(f)) = Hash
<1> DEFINE m == Len(Levels(f))
           a == Start(f, m)
           l == Levels(f)[m]
           n == Len(f)
<1>1. /\ f \in Seq(Chars) /\ n \in Nat \ {0} /\ m \in Nat \ {0} /\ Len(Ends(f)) = m
      /\ Len(l) = 1 \/ {"+", "#"} \cap ToSet(l) = {}
  <2>1. f \in Seq(Chars) /\ n \in Nat \ {0}
    BY FiltersAre
  <2>2. m \in Nat \ {0} /\ Len(Ends(f)) = m
    BY <2>1, LevelsAre
  <2>3. m \in 1..m
    BY <2>2
  <2>4. QED
    BY <2>1, <2>2, <2>3, FiltersAre
<1>2. /\ Ends(f)[m] = n + 1 /\ m \in 1..m
  BY <1>1, EndsAre, LevelsAre
<1>3. /\ a \in 1..(n + 1) /\ l \in Seq(Chars) /\ Len(l) = (n + 1) - a
      /\ \A i \in a..n : l[(i - a) + 1] = f[i]
  <2>1. /\ a \in 1..Ends(f)[m] /\ l \in Seq(Chars) /\ Len(l) = Ends(f)[m] - a
        /\ \A i \in a..(Ends(f)[m] - 1) : l[(i - a) + 1] = f[i]
    <3>1. m \in 1..Len(Levels(f))
      BY <1>2
    <3>2. QED
      BY <1>1, <3>1, LevelIs
  <2> HIDE DEF a, l
  <2>2. (n + 1) - 1 = n
    BY <1>1
  <2>3. QED
    BY <1>2, <2>1, <2>2
<1>4. ASSUME l = Hash PROVE f[n] = "#"
  <2>1. l = <<"#">>
    BY <1>4 DEF Hash
  <2>2. a \in 1..n /\ f[a] = "#" /\ n + 1 = a + 1
    BY <1>1, <1>2, <2>1, InLevel
  <2>3. QED
    BY <1>1, <2>2
<1>5. ASSUME f[n] = "#" PROVE l = Hash
  <2>1. a # n + 1
    <3>1. SUFFICES ASSUME a = n + 1 PROVE FALSE
      OBVIOUS
    <3>2. m # 1
      BY <1>1, <3>1 DEF Start
    <3>3. m - 1 \in 1..(Len(Ends(f)) - 1)
      BY <1>1, <3>2
    <3>4. Ends(f)[m - 1] \in 1..n /\ f[Ends(f)[m - 1]] = "/"
      BY <1>1, <3>3, EndsAre
    <3>5. Ends(f)[m - 1] + 1 = n + 1
      BY <3>1, <3>2 DEF Start
    <3>6. Ends(f)[m - 1] = n
      BY <1>1, <3>4, <3>5
    <3>7. QED
      BY <1>5, <3>4, <3>6
  <2> HIDE DEF a, l
  <2>2. n \in a..n /\ (n - a) + 1 \in 1..Len(l) /\ (n - a) + 1 = Len(l)
    BY <1>1, <1>3, <2>1
  <2>3. l[Len(l)] = "#" /\ Len(l) \in 1..Len(l)
    BY <1>3, <1>5, <2>2
  <2>4. "#" \in ToSet(l)
    BY <1>3, <2>3 DEF ToSet
  <2>5. Len(l) = 1
    BY <1>1, <2>4
  <2>6. l = <<"#">>
    <3>1. l \in Seq(Chars) /\ l[1] = "#"
      BY <1>3, <2>3, <2>5
    <3>2. QED
      BY <2>5, <3>1
  <2>7. QED
    BY <2>6 DEF Hash, l
<1>6. QED
  BY <1>4, <1>5 DEF EndsInHash, Last

LEMMA PlusInLevel ==
  ASSUME NEW T, NEW s \in Seq(T), NEW k \in 1..Len(Levels(s)), Levels(s)[k] = Plus
  PROVE  HasPlus(s)
<1>1. Start(s, k) \in 1..Len(s) /\ s[Start(s, k)] = "+"
  BY InLevel DEF Plus
<1>2. QED
  BY <1>1 DEF HasPlus, ToSet

\* With a plus, and where the levels are as match takes them, match is the standard.
LEMMA PlusIsStandard ==
  ASSUME NEW f \in LegalFilters, NEW t \in TopicTexts, HasPlus(f),
         ~HasEmptyLevel(f), ~HasEmptyLevel(t),
         ~(EndsInHash(f) /\ Len(Levels(t)) < Len(Levels(f)))
  PROVE  match(f, t) <=> Standard(f, t)
<1> DEFINE F == Levels(f)
           G == Levels(t)
           m == Len(F)
           n == Len(G)
           Whole == EndsInHash(f)
<1>1. f \in Seq(Chars) /\ t \in Seq(Chars)
  BY FiltersAre, TopicsAre
<1>2. m \in Nat \ {0} /\ n \in Nat \ {0}
  BY <1>1, LevelsAre
<1>3. split(f) = F /\ split(t) = G
  BY <1>1, SplitIs
<1>4. f # t
  BY <1>1, TopicsAre DEF HasPlus, ToSet
<1>5. /\ Whole <=> Last(F) = Hash
      /\ \A k \in 1..m : F[k] = Hash => k = m
      /\ Last(F) = F[m]
  BY HashIsLast, FiltersAre DEF Last
<1>6. match(f, t) <=>
        /\ m = n \/ Whole
        /\ \A i \in 1..m : F[i] \in {Plus, Hash} \/ (n >= m /\ G[i] = F[i])
  BY <1>3, <1>4 DEF match
<1>7. Standard(f, t) <=>
        /\ \A i \in 1..m : F[i] = Hash \/ (i <= n /\ F[i] \in {Plus, G[i]})
        /\ m = n \/ (Last(F) = Hash /\ n >= m - 1)
  BY DEF Standard
<1>8. ~(Whole /\ n < m)
  OBVIOUS
<1> HIDE DEF F, G, m, n, Whole
<1>9. CASE Whole
  <2>1. n >= m /\ Last(F) = Hash /\ n >= m - 1 /\ \A i \in 1..m : i <= n
    BY <1>2, <1>5, <1>8, <1>9
  <2>2. QED
    BY <1>6, <1>7, <1>9, <2>1
<1>10. CASE ~Whole
  <2>1. \A i \in 1..m : F[i] # Hash
    BY <1>5, <1>10
  <2>2. m = n => n >= m /\ \A i \in 1..m : i <= n
    BY <1>2
  <2>3. QED
    BY <1>5, <1>6, <1>7, <1>10, <2>1, <2>2
<1>11. QED
  BY <1>9, <1>10

LEMMA SameIsStandard ==
  ASSUME NEW f \in LegalFilters
  PROVE  Standard(f, f)
<1>1. Len(Levels(f)) \in Nat
  BY FiltersAre, LevelsAre
<1>2. QED
  BY <1>1 DEF Standard

\* Without a plus, match misses nothing.
LEMMA StandardMatches ==
  ASSUME NEW f \in LegalFilters, NEW t \in TopicTexts, ~HasPlus(f), Standard(f, t)
  PROVE  match(f, t)
<1> DEFINE F == Levels(f)
           G == Levels(t)
           m == Len(F)
           n == Len(G)
<1>1. f \in Seq(Chars) /\ t \in Seq(Chars) /\ Len(f) \in Nat \ {0} /\ Len(t) \in Nat \ {0}
  BY FiltersAre, TopicsAre
<1>2. m \in Nat \ {0} /\ n \in Nat \ {0} /\ Len(Ends(f)) = m /\ Len(Ends(t)) = n
  BY <1>1, LevelsAre
<1>3. \A k \in 1..m : F[k] # Plus
  BY <1>1, PlusInLevel
<1>4. /\ \A i \in 1..m : F[i] = Hash \/ (i <= n /\ F[i] \in {Plus, G[i]})
      /\ m = n \/ (Last(F) = Hash /\ n >= m - 1)
  BY DEF Standard
<1>5. /\ EndsInHash(f) <=> F[m] = Hash
      /\ \A k \in 1..m : F[k] = Hash => k = m
      /\ Last(F) = F[m]
  BY HashIsLast, FiltersAre DEF Last
<1>6. \A i \in 1..m : i # m \/ F[m] # Hash => i <= n /\ F[i] = G[i]
  BY <1>3, <1>4, <1>5
<1>7. CASE F[m] # Hash
  <2>1. m = n /\ \A i \in 1..m : F[i] = G[i]
    BY <1>4, <1>5, <1>6, <1>7
  <2>2. \A k \in 1..m : Ends(f)[k] = Ends(t)[k] /\ \A i \in 1..(Ends(f)[k] - 1) : f[i] = t[i]
    <3>1. /\ m \in Nat /\ m <= Len(Levels(f)) /\ m <= Len(Levels(t))
          /\ \A k \in 1..m : Levels(f)[k] = Levels(t)[k]
      BY <1>2, <2>1
    <3> HIDE DEF m
    <3>2. QED
      BY <1>1, <3>1, LevelsAgree
  <2>3. Ends(f)[m] = Len(f) + 1 /\ Ends(t)[m] = Len(t) + 1
    BY <1>1, <1>2, <2>1, EndsAre
  <2>4. m \in 1..m
    BY <1>2
  <2>5. Len(f) = Len(t) /\ \A i \in 1..Len(f) : f[i] = t[i]
    <3>1. Len(f) + 1 = Len(t) + 1 /\ \A i \in 1..((Len(f) + 1) - 1) : f[i] = t[i]
      BY <2>2, <2>3, <2>4
    <3>2. (Len(f) + 1) - 1 = Len(f)
      BY <1>1
    <3>3. QED
      BY <1>1, <3>1, <3>2
  <2>6. f = t
    BY <1>1, <2>5
  <2>7. QED
    BY <2>6 DEF match
<1>8. CASE F[m] = Hash
  <2>1. EndsInHash(f)
    BY <1>5, <1>8
  <2>2. SUFFICES IsPrefix(Root(f), t)
    BY <2>1 DEF match
  <2>3. F[m] = <<"#">> /\ m \in 1..m
    BY <1>2, <1>8 DEF Hash
  <2>4. Start(f, m) \in 1..Len(f) /\ Ends(f)[m] = Start(f, m) + 1 /\ Ends(f)[m] = Len(f) + 1
    BY <1>1, <1>2, <2>3, InLevel, EndsAre
  <2>5. Start(f, m) = Len(f)
    BY <1>1, <2>4
  <2>6. f # <<>>
    BY <1>1
  <2>7. /\ Front(f) \in Seq(Chars) /\ Len(Front(f)) = Len(f) - 1
        /\ \A i \in 1..(Len(f) - 1) : Front(f)[i] = f[i]
    BY <1>1, <2>6, FrontIs
  <2>8. CASE m = 1
    <3>1. Len(f) = 1
      BY <2>5, <2>8 DEF Start
    <3>2. Front(f) = <<>>
      BY <2>7, <3>1
    <3>3. Root(f) = <<>>
      BY <3>2 DEF Root
    <3>4. <<>> \in Seq(Chars) /\ Len(<<>>) = 0
      OBVIOUS
    <3>5. IsPrefix(<<>>, t)
      <4>1. Len(<<>>) <= Len(t) /\ \A i \in 1..Len(<<>>) : <<>>[i] = t[i]
        BY <1>1, <3>4
      <4>2. QED
        BY <1>1, <3>4, <4>1, PrefixIs
    <3>6. QED
      BY <3>3, <3>5
  <2>9. CASE m # 1
    <3> DEFINE e == Ends(f)[m - 1]
    <3>1. Len(f) = e + 1
      BY <2>5, <2>9 DEF Start
    <3>2. m - 1 \in 1..(Len(Ends(f)) - 1) /\ m - 1 \in Nat
      BY <1>2, <2>9
    <3>3. e \in 1..Len(f) /\ f[e] = "/"
      BY <1>1, <3>2, EndsAre
    <3>4. \A k \in 1..(m - 1) : F[k] = G[k] /\ k <= n
      BY <1>2, <1>6
    <3>5. m - 1 <= m /\ m - 1 <= n /\ m - 1 \in 1..(m - 1)
      BY <1>2, <2>9, <3>2, <3>4
    <3>6. e = Ends(t)[m - 1] /\ \A i \in 1..(e - 1) : f[i] = t[i]
      <4> DEFINE b == m - 1
      <4>1. /\ b \in Nat /\ b <= Len(Levels(f)) /\ b <= Len(Levels(t)) /\ b \in 1..b
            /\ \A k \in 1..b : Levels(f)[k] = Levels(t)[k]
        BY <1>2, <3>2, <3>4, <3>5
      <4> HIDE DEF b
      <4>2. \A k \in 1..b : Ends(f)[k] = Ends(t)[k] /\ \A i \in 1..(Ends(f)[k] - 1) : f[i] = t[i]
        <5>1. f \in Seq(Chars) /\ t \in Seq(Chars)
          BY <1>1
        <5> HIDE DEF e, F, G, m, n
        <5>2. QED
          BY <5>1, <4>1, LevelsAgree
      <4>3. Ends(f)[b] = Ends(t)[b] /\ \A i \in 1..(Ends(f)[b] - 1) : f[i] = t[i]
        BY <4>1, <4>2
      <4>4. QED
        BY <4>3 DEF b
    <3>7. e \in 1..(Len(t) + 1)
      <4>1. m - 1 \in 1..Len(Ends(t))
        BY <1>2, <3>2, <3>5
      <4>2. QED
        BY <1>1, <3>6, <4>1, EndsAre
    <3> HIDE DEF e
    <3> DEFINE r == Front(f)
    <3>8. r \in Seq(Chars) /\ Len(r) = e /\ e \in Nat \ {0} /\ \A i \in 1..e : r[i] = f[i]
      BY <1>1, <2>7, <3>1, <3>3
    <3>9. Root(f) = IF r # <<>> /\ Last(r) = "/" THEN Front(r) ELSE r
      BY DEF Root
    <3> HIDE DEF r
    <3>10. r # <<>> /\ Last(r) = "/"
      BY <3>3, <3>8 DEF Last
    <3>11. /\ Front(r) \in Seq(Chars) /\ Len(Front(r)) = e - 1
           /\ \A i \in 1..(e - 1) : Front(r)[i] = r[i]
      BY <3>8, <3>10, FrontIs
    <3>12. Len(Front(r)) <= Len(t) /\ \A i \in 1..Len(Front(r)) : Front(r)[i] = t[i]
      BY <1>1, <3>6, <3>7, <3>8, <3>11
    <3>13. IsPrefix(Front(r), t)
      BY <1>1, <3>11, <3>12, PrefixIs
    <3>14. QED
      BY <3>9, <3>10, <3>13
  <2>10. QED
    BY <2>8, <2>9
<1>9. QED
  BY <1>7, <1>8

\* So they differ where MatchIsStandard says.
Differ(f, t) ==
  IF HasPlus(f)
  THEN \/ HasEmptyLevel(f) \/ HasEmptyLevel(t)
       \/ EndsInHash(f) /\ Len(Levels(t)) < Len(Levels(f))
  ELSE match(f, t) /\ EndsInHash(f) /\ IsPrefix(Root(f), t)

LEMMA WhereTheyDiffer ==
  ASSUME NEW f \in LegalFilters, NEW t \in TopicTexts, ~(match(f, t) <=> Standard(f, t))
  PROVE  Differ(f, t)
<1>1. CASE HasPlus(f)
  BY <1>1, PlusIsStandard DEF Differ
<1>2. CASE ~HasPlus(f)
  <2>1. match(f, t) /\ ~Standard(f, t)
    BY <1>2, StandardMatches
  <2>2. f # t
    BY <2>1, SameIsStandard
  <2>3. EndsInHash(f) /\ IsPrefix(Root(f), t)
    BY <1>2, <2>1, <2>2 DEF match
  <2>4. QED
    BY <1>2, <2>1, <2>3 DEF Differ
<1>3. QED
  BY <1>1, <1>2

-------------------------------------------------------------------------------
(* The file a name is kept in *)

\* The sequences laid one behind the other, up to the m-th.
Joins(W, F, m) ==
  \A i \in 1..m : F[i] = IF i = 1 THEN W[i] ELSE F[i - 1] \o W[i]

LEMMA JoinsExist ==
  ASSUME NEW T, NEW W \in Seq(Seq(T))
  PROVE  \A m \in 1..Len(W) : \E F \in [1..m -> Seq(T)] : Joins(W, F, m)
<1> DEFINE Has(m) == \E F \in [1..m -> Seq(T)] : Joins(W, F, m)
           K == {m \in 1..Len(W) : ~Has(m)}
<1>1. SUFFICES ASSUME K # {} PROVE FALSE
  OBVIOUS
<1>2. K \subseteq Nat
  OBVIOUS
<1>3. PICK m \in K : \A j \in K : m <= j
  <2> HIDE DEF K
  <2>1. QED
    BY <1>1, <1>2, LeastOf
<1>4. m \in 1..Len(W) /\ ~Has(m) /\ m \in Nat /\ Len(W) \in Nat
  BY <1>3
<1>5. \A i \in 1..Len(W) : W[i] \in Seq(T)
  OBVIOUS
<1>6. CASE m = 1
  <2> DEFINE F == [i \in 1..m |-> W[1]]
  <2>1. F \in [1..m -> Seq(T)] /\ Joins(W, F, m)
    BY <1>4, <1>5, <1>6 DEF Joins
  <2>2. QED
    BY <1>4, <2>1
<1>7. CASE m # 1
  <2>1. m - 1 \in 1..Len(W) /\ m - 1 \notin K
    <3>1. m - 1 \in 1..Len(W) /\ ~(m <= m - 1)
      BY <1>4, <1>7
    <3> HIDE DEF K
    <3>2. QED
      BY <1>3, <3>1
  <2>2. PICK F \in [1..(m - 1) -> Seq(T)] : Joins(W, F, m - 1)
    BY <2>1
  <2> DEFINE G == [i \in 1..m |-> IF i = m THEN F[m - 1] \o W[m] ELSE F[i]]
  <2>3. F[m - 1] \in Seq(T) /\ W[m] \in Seq(T) /\ F[m - 1] \o W[m] \in Seq(T)
    BY <1>4, <1>5, <1>7
  <2>4. G \in [1..m -> Seq(T)]
    BY <1>4, <1>7, <2>3
  <2>5. \A i \in 1..m : G[i] = IF i = 1 THEN W[i] ELSE G[i - 1] \o W[i]
    <3>1. SUFFICES ASSUME NEW i \in 1..m PROVE G[i] = IF i = 1 THEN W[i] ELSE G[i - 1] \o W[i]
      OBVIOUS
    <3>2. G[m] = F[m - 1] \o W[m] /\ \A j \in 1..(m - 1) : G[j] = F[j]
      <4>1. m \in 1..m /\ \A j \in 1..(m - 1) : j \in 1..m /\ j # m
        BY <1>4
      <4>2. QED
        BY <4>1
    <3> HIDE DEF G
    <3>3. CASE i = m
      <4>1. m - 1 \in 1..(m - 1)
        BY <1>4, <1>7
      <4>2. QED
        BY <1>7, <3>2, <3>3, <4>1
    <3>4. CASE i # m
      <4>1. i \in 1..(m - 1) /\ (i # 1 => i - 1 \in 1..(m - 1))
        BY <1>4, <3>1, <3>4
      <4>2. QED
        BY <2>2, <3>2, <4>1 DEF Joins
    <3>5. QED
      BY <3>3, <3>4
  <2>6. QED
    BY <1>4, <2>4, <2>5 DEF Joins
<1>8. QED
  BY <1>6, <1>7

LEMMA FlattenIs ==
  ASSUME NEW T, NEW W \in Seq(Seq(T)), Len(W) # 0
  PROVE  \E F : Joins(W, F, Len(W)) /\ FlattenSeq(W) = F[Len(W)]
<1> DEFINE n == Len(W)
           Is(F) == F = [i \in 1..n |-> IF i = 1 THEN W[i] ELSE F[i - 1] \o W[i]]
           G == CHOOSE F : Is(F)
<1>1. n \in 1..n /\ n \in Nat
  OBVIOUS
<1>2. PICK F \in [1..n -> Seq(T)] : Joins(W, F, n)
  BY <1>1, JoinsExist
<1>3. Is(F)
  BY <1>2 DEF Joins
<1>4. Is(G)
  BY <1>3
<1>5. FlattenSeq(W) = G[n]
  BY DEF FlattenSeq
<1> HIDE DEF G
<1>6. Joins(W, G, n)
  BY <1>4 DEF Joins
<1>7. QED
  BY <1>5, <1>6

\* Where the pieces of a file begin.
Laid(W, m, file, st) ==
  /\ st \in [1..m -> Nat \ {0}]
  /\ \A i \in 1..m : \A k \in 1..Len(W[i]) :
       st[i] + (k - 1) \in 1..Len(file) /\ file[st[i] + (k - 1)] = W[i][k]
  /\ \A p \in 1..Len(file) : \E i \in 1..m : \E k \in 1..Len(W[i]) : p = st[i] + (k - 1)
  /\ \A i, j \in 1..m : i < j => st[i] + Len(W[i]) <= st[j]

LEMMA JoinsLay ==
  ASSUME NEW T, NEW W \in Seq(Seq(T)), NEW F, Joins(W, F, Len(W)),
         \A i \in 1..Len(W) : Len(W[i]) # 0
  PROVE  \A m \in 1..Len(W) : F[m] \in Seq(T) /\ \E st : Laid(W, m, F[m], st)
<1> DEFINE Good(m) == F[m] \in Seq(T) /\ \E st : Laid(W, m, F[m], st)
           K == {m \in 1..Len(W) : ~Good(m)}
<1>1. SUFFICES ASSUME K # {} PROVE FALSE
  OBVIOUS
<1>2. K \subseteq Nat
  OBVIOUS
<1>3. PICK m \in K : \A j \in K : m <= j
  <2> HIDE DEF K
  <2>1. QED
    BY <1>1, <1>2, LeastOf
<1>4. m \in 1..Len(W) /\ ~Good(m) /\ m \in Nat /\ Len(W) \in Nat
  BY <1>3
<1>5. \A i \in 1..Len(W) : W[i] \in Seq(T) /\ Len(W[i]) \in Nat
  OBVIOUS
<1>6. CASE m = 1
  <2>1. F[m] = W[1] /\ W[1] \in Seq(T) /\ Len(W[1]) \in Nat
    BY <1>4, <1>5, <1>6 DEF Joins
  <2> DEFINE st == [i \in 1..m |-> 1]
  <2>2. st \in [1..m -> Nat \ {0}] /\ \A i \in 1..m : i = 1 /\ st[i] = 1
    BY <1>6
  <2> HIDE DEF st
  <2>3. \A i \in 1..m : \A k \in 1..Len(W[i]) :
          st[i] + (k - 1) \in 1..Len(F[m]) /\ F[m][st[i] + (k - 1)] = W[i][k]
    <3>1. SUFFICES ASSUME NEW k \in 1..Len(W[1])
                   PROVE  1 + (k - 1) \in 1..Len(F[m]) /\ F[m][1 + (k - 1)] = W[1][k]
      BY <2>2
    <3>2. 1 + (k - 1) = k
      OBVIOUS
    <3>3. QED
      BY <2>1, <3>2
  <2>4. \A p \in 1..Len(F[m]) : \E i \in 1..m : \E k \in 1..Len(W[i]) : p = st[i] + (k - 1)
    <3>1. SUFFICES ASSUME NEW p \in 1..Len(W[1]) PROVE \E i \in 1..m : \E k \in 1..Len(W[i]) : p = st[i] + (k - 1)
      BY <2>1
    <3>2. 1 \in 1..m /\ p = st[1] + (p - 1)
      BY <1>6, <2>2
    <3>3. QED
      BY <3>2
  <2>5. \A i, j \in 1..m : i < j => st[i] + Len(W[i]) <= st[j]
    BY <2>2
  <2>6. Laid(W, m, F[m], st)
    BY <2>2, <2>3, <2>4, <2>5 DEF Laid
  <2>7. QED
    BY <1>4, <2>1, <2>6
<1>7. CASE m # 1
  <2> DEFINE b == m - 1
             old == F[b]
             new == F[m]
  <2>1. b \in 1..Len(W) /\ b \notin K /\ b \in Nat /\ m = b + 1
    <3>1. b \in 1..Len(W) /\ ~(m <= b) /\ b \in Nat /\ m = b + 1
      BY <1>4, <1>7
    <3> HIDE DEF K
    <3>2. QED
      BY <1>3, <3>1
  <2>2. Good(b)
    BY <2>1
  <2>3. PICK st : Laid(W, b, old, st)
    BY <2>2
  <2>4. new = old \o W[m]
    BY <1>4, <1>7 DEF Joins
  <2>5. old \in Seq(T) /\ W[m] \in Seq(T) /\ Len(old) \in Nat /\ Len(W[m]) \in Nat
    BY <1>4, <1>5, <2>2
  <2> HIDE DEF old, new
  <2>6. /\ new \in Seq(T) /\ Len(new) = Len(old) + Len(W[m])
        /\ \A p \in 1..Len(old) : new[p] = old[p] /\ p \in 1..Len(new)
        /\ \A k \in 1..Len(W[m]) : new[Len(old) + k] = W[m][k] /\ Len(old) + k \in 1..Len(new)
    BY <2>4, <2>5, SMTT(30)
  <2> DEFINE ts == [i \in 1..m |-> IF i = m THEN Len(old) + 1 ELSE st[i]]
  <2>7. st \in [1..b -> Nat \ {0}]
    BY <2>3 DEF Laid
  <2> HIDE DEF b
  <2>8. /\ ts \in [1..m -> Nat \ {0}] /\ ts[m] = Len(old) + 1 /\ \A i \in 1..b : ts[i] = st[i]
        /\ \A i \in 1..m : i = m \/ i \in 1..b
    <3>1. \A i \in 1..m : i = m \/ i \in 1..b
      BY <2>1
    <3>2. \A i \in 1..b : i \in 1..m /\ i # m
      BY <2>1
    <3>3. m \in 1..m /\ Len(old) + 1 \in Nat \ {0}
      BY <1>4, <2>5
    <3>4. ts \in [1..m -> Nat \ {0}]
      BY <2>7, <3>1, <3>3
    <3>5. ts[m] = Len(old) + 1 /\ \A i \in 1..b : ts[i] = st[i]
      BY <3>2, <3>3
    <3>6. QED
      BY <3>1, <3>4, <3>5
  <2> HIDE DEF ts
  <2>9. \A i \in 1..m : \A k \in 1..Len(W[i]) :
          ts[i] + (k - 1) \in 1..Len(new) /\ new[ts[i] + (k - 1)] = W[i][k]
    <3>1. SUFFICES ASSUME NEW i \in 1..m, NEW k \in 1..Len(W[i])
                   PROVE  ts[i] + (k - 1) \in 1..Len(new) /\ new[ts[i] + (k - 1)] = W[i][k]
      OBVIOUS
    <3>2. CASE i = m
      <4>1. ts[i] + (k - 1) = Len(old) + k
        BY <2>5, <2>8, <3>2
      <4>2. QED
        BY <2>6, <3>2, <4>1
    <3>3. CASE i \in 1..b
      <4>1. ts[i] = st[i] /\ st[i] + (k - 1) \in 1..Len(old) /\ old[st[i] + (k - 1)] = W[i][k]
        BY <2>3, <2>8, <3>3 DEF Laid
      <4>2. QED
        BY <2>6, <4>1
    <3>4. QED
      BY <2>8, <3>2, <3>3
  <2>10. \A p \in 1..Len(new) : \E i \in 1..m : \E k \in 1..Len(W[i]) : p = ts[i] + (k - 1)
    <3>1. SUFFICES ASSUME NEW p \in 1..Len(new)
                   PROVE  \E i \in 1..m : \E k \in 1..Len(W[i]) : p = ts[i] + (k - 1)
      OBVIOUS
    <3>2. CASE p <= Len(old)
      <4>1. p \in 1..Len(old)
        BY <2>5, <3>2
      <4>2. PICK i \in 1..b : \E k \in 1..Len(W[i]) : p = st[i] + (k - 1)
        BY <2>3, <4>1 DEF Laid
      <4>3. i \in 1..m /\ ts[i] = st[i]
        BY <2>1, <2>8
      <4>4. QED
        BY <4>2, <4>3
    <3>3. CASE ~(p <= Len(old))
      <4> DEFINE k == p - Len(old)
      <4>1. k \in 1..Len(W[m]) /\ p = ts[m] + (k - 1) /\ m \in 1..m
        BY <1>4, <2>5, <2>6, <2>8, <3>3
      <4>2. QED
        BY <4>1
    <3>4. QED
      BY <3>2, <3>3
  <2>11. \A i, j \in 1..m : i < j => ts[i] + Len(W[i]) <= ts[j]
    <3>1. SUFFICES ASSUME NEW i \in 1..m, NEW j \in 1..m, i < j PROVE ts[i] + Len(W[i]) <= ts[j]
      OBVIOUS
    <3>2. i \in 1..b
      BY <2>1, <3>1
    <3>3. CASE j \in 1..b
      BY <2>3, <2>8, <3>1, <3>2, <3>3 DEF Laid
    <3>4. CASE j = m
      <4>1. ts[i] = st[i] /\ ts[j] = Len(old) + 1 /\ st[i] \in Nat \ {0} /\ Len(W[i]) \in Nat
        BY <1>4, <1>5, <2>1, <2>7, <2>8, <3>2, <3>4
      <4>2. Len(W[i]) \in 1..Len(W[i])
        BY <1>4, <4>1
      <4>3. st[i] + (Len(W[i]) - 1) \in 1..Len(old)
        BY <2>3, <3>2, <4>2 DEF Laid
      <4>4. QED
        BY <2>5, <4>1, <4>3, SMTT(30)
    <3>5. QED
      BY <2>8, <3>3, <3>4
  <2>12. Laid(W, m, new, ts)
    BY <2>8, <2>9, <2>10, <2>11 DEF Laid
  <2>13. QED
    BY <1>4, <2>6, <2>12 DEF new
<1>8. QED
  BY <1>6, <1>7

Piece(b) ==
  IF ~encodable(b) THEN <<b>> ELSE <<Percent, HexChar(b \div 16), HexChar(b % 16)>>

LEMMA HexIs ==
  ASSUME NEW n \in 0..15
  PROVE  /\ HexChar(n) \in Nat /\ isHexChar(HexChar(n)) /\ charToNibble(HexChar(n)) = n
         /\ HexChar(n) \notin {Percent, Slash, Dot}
<1>1. CASE n <= 9
  <2>1. HexChar(n) = n + 48 /\ n + 48 \in 48..57 /\ (n + 48) - 48 = n
    BY <1>1 DEF HexChar
  <2>2. QED
    BY <2>1 DEF isHexChar, charToNibble, Digits, Percent, Slash, Dot
<1>2. CASE ~(n <= 9)
  <2>1. HexChar(n) = n + 55 /\ n + 55 \in 65..70 /\ (n + 55) - 55 = n
    BY <1>2 DEF HexChar
  <2>2. n + 55 \notin 48..57 /\ n + 55 \in Nat /\ n + 55 # 37 /\ n + 55 # 47 /\ n + 55 # 46
    BY <1>2
  <2>3. QED
    BY <2>1, <2>2 DEF isHexChar, charToNibble, Digits, Percent, Slash, Dot
<1>3. QED
  BY <1>1, <1>2

LEMMA PieceIs ==
  ASSUME NEW b \in 0..255
  PROVE  /\ Piece(b) \in Seq(Nat) /\ Len(Piece(b)) \in Nat \ {0}
         /\ ~encodable(b) => /\ Len(Piece(b)) = 1 /\ Piece(b)[1] = b
                             /\ b \notin {Percent, Slash}
         /\ encodable(b) =>
              /\ Len(Piece(b)) = 3 /\ Piece(b)[1] = Percent
              /\ isHexChar(Piece(b)[2]) /\ isHexChar(Piece(b)[3])
              /\ Piece(b)[2] \notin {Percent, Slash, Dot} /\ Piece(b)[3] \notin {Percent, Slash, Dot}
              /\ b # Dot
              /\ 16 * charToNibble(Piece(b)[2]) + charToNibble(Piece(b)[3]) = b
<1>1. CASE ~encodable(b)
  <2>1. Piece(b) = <<b>> /\ b \in Nat
    BY <1>1 DEF Piece
  <2>2. b \in Digits \cup Capitals \cup (97..122) \cup {45, 95, 44, Dot}
    BY <1>1 DEF encodable
  <2>3. b # 37 /\ b # 47
    BY <2>2 DEF Digits, Capitals, Dot
  <2>4. QED
    BY <1>1, <2>1, <2>3 DEF Percent, Slash
<1>2. CASE encodable(b)
  <2> DEFINE high == b \div 16
             low == b % 16
             x == HexChar(high)
             y == HexChar(low)
  <2>1. high \in 0..15 /\ low \in 0..15 /\ 16 * high + low = b
    OBVIOUS
  <2>2. Piece(b) = <<Percent, x, y>>
    BY <1>2 DEF Piece
  <2> HIDE DEF high, low
  <2>3. /\ x \in Nat /\ isHexChar(x) /\ charToNibble(x) = high /\ x \notin {Percent, Slash, Dot}
        /\ y \in Nat /\ isHexChar(y) /\ charToNibble(y) = low /\ y \notin {Percent, Slash, Dot}
    BY <2>1, HexIs
  <2> HIDE DEF x, y
  <2>4. /\ Piece(b) \in Seq(Nat) /\ Len(Piece(b)) = 3 /\ Piece(b)[1] = Percent
        /\ Piece(b)[2] = x /\ Piece(b)[3] = y
    <3>1. Percent \in Nat
      BY DEF Percent
    <3>2. QED
      BY <2>2, <2>3, <3>1
  <2>5. b # Dot
    BY <1>2 DEF encodable
  <2>6. QED
    BY <1>2, <2>1, <2>3, <2>4, <2>5
<1>3. QED
  BY <1>1, <1>2

Pieces(name) == [i \in 1..Len(name) |-> Piece(name[i])]

\* A name of no characters is not among the calls.
LEMMA PiecesAre ==
  ASSUME NEW name \in Seq(0..255), Len(name) # 0
  PROVE  /\ Pieces(name) \in Seq(Seq(Nat)) /\ Len(Pieces(name)) = Len(name)
         /\ Len(name) \in Nat /\ \A i \in 1..Len(name) : name[i] \in 0..255
         /\ \A i \in 1..Len(name) : /\ Pieces(name)[i] = Piece(name[i])
                                   /\ Len(Pieces(name)[i]) \in Nat \ {0}
<1> DEFINE n == Len(name)
           W == Pieces(name)
<1>1. n \in Nat /\ n # 0 /\ \A i \in 1..n : name[i] \in 0..255
  <2> DEFINE T == 0..255
  <2>1. name \in Seq(T)
    OBVIOUS
  <2> HIDE DEF T
  <2>2. n \in Nat /\ \A i \in 1..n : name[i] \in T
    BY <2>1
  <2>3. QED
    BY <2>2 DEF T
<1>2. /\ W \in Seq(Seq(Nat)) /\ Len(W) = n /\ \A i \in 1..n : W[i] = Piece(name[i])
  <2>1. \A i \in 1..n : Piece(name[i]) \in Seq(Nat)
    BY <1>1, PieceIs
  <2>2. W \in [1..n -> Seq(Nat)] /\ W = [i \in 1..n |-> Piece(name[i])]
    BY <2>1 DEF Pieces
  <2>3. QED
    BY <1>1, <2>2
<1>3. \A i \in 1..n : Len(Piece(name[i])) \in Nat \ {0}
  BY <1>1, PieceIs
<1>4. QED
  BY <1>1, <1>2, <1>3

LEMMA EncodeIs ==
  ASSUME NEW name \in Seq(0..255), Len(name) # 0
  PROVE  encode(name) \in Seq(Nat) /\ \E st : Laid(Pieces(name), Len(name), encode(name), st)
<1> DEFINE n == Len(name)
           W == Pieces(name)
           file == encode(name)
<1>1. /\ W \in Seq(Seq(Nat)) /\ Len(W) = n /\ n \in Nat
      /\ \A i \in 1..n : Len(W[i]) # 0
  BY PiecesAre
<1>2. file = FlattenSeq(W)
  BY DEF encode, Piece, Pieces
<1> HIDE DEF W, file
<1>3. PICK F : Joins(W, F, Len(W)) /\ file = F[n]
  <2>1. \E F : Joins(W, F, Len(W)) /\ FlattenSeq(W) = F[Len(W)]
    BY <1>1, FlattenIs
  <2>2. QED
    BY <1>1, <1>2, <2>1
<1>4. file \in Seq(Nat) /\ \E st : Laid(W, n, file, st)
  <2>1. \A m \in 1..Len(W) : F[m] \in Seq(Nat) /\ \E st : Laid(W, m, F[m], st)
    BY <1>1, <1>3, JoinsLay
  <2>2. n \in 1..Len(W)
    BY <1>1
  <2>3. QED
    BY <1>3, <2>1, <2>2
<1>5. QED
  BY <1>4 DEF W, file

\* What is read from a file of pieces, and where it has its dots.
LEMMA LaidIs ==
  ASSUME NEW name \in Seq(0..255), Len(name) # 0, NEW file \in Seq(Nat), NEW st,
         Laid(Pieces(name), Len(name), file, st)
  PROVE  /\ decode(file) = name /\ Slash \notin ToSet(file)
         /\ \A p \in 1..Len(file) :
              file[p] = Dot <=> \E i \in 1..Len(name) : p = st[i] /\ name[i] = Dot
<1> DEFINE n == Len(name)
           W == Pieces(name)
<1>1. n \in Nat /\ n # 0 /\ \A i \in 1..n : name[i] \in 0..255
  BY PiecesAre
<1>2. /\ W \in Seq(Seq(Nat)) /\ Len(W) = n /\ \A i \in 1..n : W[i] = Piece(name[i])
  BY PiecesAre
<1>3. Laid(W, n, file, st)
  OBVIOUS
<1>4. \A i \in 1..n : Len(W[i]) # 0 /\ Len(W[i]) \in Nat
  BY PiecesAre
<1> HIDE DEF W
<1> DEFINE z == Len(file)
<1>7. /\ z \in Nat /\ st \in [1..n -> Nat \ {0}]
      /\ \A i \in 1..n : \A k \in 1..Len(W[i]) :
           st[i] + (k - 1) \in 1..z /\ file[st[i] + (k - 1)] = W[i][k]
      /\ \A p \in 1..z : \E i \in 1..n : \E k \in 1..Len(W[i]) : p = st[i] + (k - 1)
      /\ \A i, j \in 1..n : i < j => st[i] + Len(W[i]) <= st[j]
  <2>1. z \in Nat
    OBVIOUS
  <2>2. QED
    BY <1>3, <2>1 DEF Laid
<1> HIDE DEF z
<1> DEFINE Coded(i) == encodable(name[i])
<1>8. \A i \in 1..n : ~Coded(i) =>
        /\ Len(W[i]) = 1 /\ st[i] \in 1..z /\ file[st[i]] = name[i]
        /\ name[i] \notin {Percent, Slash}
  <2>1. SUFFICES ASSUME NEW i \in 1..n, ~Coded(i)
                 PROVE  /\ Len(W[i]) = 1 /\ st[i] \in 1..z /\ file[st[i]] = name[i]
                        /\ name[i] \notin {Percent, Slash}
    OBVIOUS
  <2>2. Len(W[i]) = 1 /\ W[i][1] = name[i] /\ name[i] \notin {Percent, Slash}
    <3> DEFINE b == name[i]
    <3>1. b \in 0..255 /\ W[i] = Piece(b) /\ ~encodable(b)
      BY <1>1, <1>2, <2>1
    <3> HIDE DEF b
    <3>2. Len(Piece(b)) = 1 /\ Piece(b)[1] = b /\ b \notin {Percent, Slash}
      BY <3>1, PieceIs
    <3>3. QED
      BY <3>1, <3>2 DEF b
  <2>3. 1 \in 1..Len(W[i]) /\ st[i] + (1 - 1) = st[i]
    <3>1. st[i] \in Nat
      BY <1>7
    <3>2. QED
      BY <2>2, <3>1
  <2>4. st[i] \in 1..z /\ file[st[i]] = W[i][1]
    BY <1>7, <2>3
  <2>5. QED
    BY <2>2, <2>4
<1>9. \A i \in 1..n : Coded(i) =>
        /\ Len(W[i]) = 3 /\ st[i] \in 1..z /\ file[st[i]] = Percent
        /\ st[i] + 1 \in 1..z /\ st[i] + 2 \in 1..z
        /\ isHexChar(file[st[i] + 1]) /\ isHexChar(file[st[i] + 2])
        /\ file[st[i] + 1] \notin {Percent, Slash, Dot}
        /\ file[st[i] + 2] \notin {Percent, Slash, Dot}
        /\ 16 * charToNibble(file[st[i] + 1]) + charToNibble(file[st[i] + 2]) = name[i]
        /\ name[i] # Dot
  <2>1. SUFFICES ASSUME NEW i \in 1..n, Coded(i)
                 PROVE  /\ Len(W[i]) = 3 /\ st[i] \in 1..z /\ file[st[i]] = Percent
                        /\ st[i] + 1 \in 1..z /\ st[i] + 2 \in 1..z
                        /\ isHexChar(file[st[i] + 1]) /\ isHexChar(file[st[i] + 2])
                        /\ file[st[i] + 1] \notin {Percent, Slash, Dot}
                        /\ file[st[i] + 2] \notin {Percent, Slash, Dot}
                        /\ 16 * charToNibble(file[st[i] + 1]) + charToNibble(file[st[i] + 2])
                             = name[i]
                        /\ name[i] # Dot
    OBVIOUS
  <2>2. /\ Len(W[i]) = 3 /\ W[i][1] = Percent
        /\ isHexChar(W[i][2]) /\ isHexChar(W[i][3])
        /\ W[i][2] \notin {Percent, Slash, Dot} /\ W[i][3] \notin {Percent, Slash, Dot}
        /\ 16 * charToNibble(W[i][2]) + charToNibble(W[i][3]) = name[i]
        /\ name[i] # Dot
    <3> DEFINE b == name[i]
    <3>1. b \in 0..255 /\ W[i] = Piece(b) /\ encodable(b)
      BY <1>1, <1>2, <2>1
    <3> HIDE DEF b
    <3>2. /\ Len(Piece(b)) = 3 /\ Piece(b)[1] = Percent
          /\ isHexChar(Piece(b)[2]) /\ isHexChar(Piece(b)[3])
          /\ Piece(b)[2] \notin {Percent, Slash, Dot} /\ Piece(b)[3] \notin {Percent, Slash, Dot}
          /\ 16 * charToNibble(Piece(b)[2]) + charToNibble(Piece(b)[3]) = b
          /\ b # Dot
      BY <3>1, PieceIs
    <3>3. QED
      BY <3>1, <3>2 DEF b
  <2>3. /\ st[i] + (1 - 1) = st[i] /\ st[i] + (2 - 1) = st[i] + 1 /\ st[i] + (3 - 1) = st[i] + 2
        /\ 1 \in 1..3 /\ 2 \in 1..3 /\ 3 \in 1..3
    <3>1. st[i] \in Nat
      BY <1>7
    <3>2. QED
      BY <3>1
  <2>4. /\ st[i] \in 1..z /\ file[st[i]] = W[i][1] /\ st[i] + 1 \in 1..z
        /\ file[st[i] + 1] = W[i][2] /\ st[i] + 2 \in 1..z /\ file[st[i] + 2] = W[i][3]
    <3>1. \A k \in 1..3 :
            st[i] + (k - 1) \in 1..z /\ file[st[i] + (k - 1)] = W[i][k]
      BY <1>7, <2>2
    <3>2. /\ st[i] + (1 - 1) \in 1..z /\ file[st[i] + (1 - 1)] = W[i][1]
          /\ st[i] + (2 - 1) \in 1..z /\ file[st[i] + (2 - 1)] = W[i][2]
          /\ st[i] + (3 - 1) \in 1..z /\ file[st[i] + (3 - 1)] = W[i][3]
      BY <2>3, <3>1, Zenon
    <3>3. QED
      BY <2>3, <3>2, Zenon
  <2>5. QED
    BY <2>2, <2>4
\* Each character of the file is the one of a name's, or one of the three for it.
<1>10. \A p \in 1..z : \E i \in 1..n :
         \/ p = st[i]
         \/ Coded(i) /\ (p = st[i] + 1 \/ p = st[i] + 2)
  <2>1. SUFFICES ASSUME NEW p \in 1..z
                 PROVE  \E i \in 1..n : \/ p = st[i]
                                        \/ Coded(i) /\ (p = st[i] + 1 \/ p = st[i] + 2)
    OBVIOUS
  <2>2. PICK i \in 1..n : \E k \in 1..Len(W[i]) : p = st[i] + (k - 1)
    BY <1>7
  <2>3. PICK k \in 1..Len(W[i]) : p = st[i] + (k - 1)
    BY <2>2
  <2>4. st[i] \in Nat
    BY <1>7
  <2>5. CASE ~Coded(i)
    <3>1. k = 1
      <4>1. Len(W[i]) = 1
        BY <1>8, <2>5
      <4>2. QED
        BY <2>3, <4>1
    <3>2. p = st[i]
      BY <2>3, <2>4, <3>1
    <3>3. QED
      BY <3>2
  <2>6. CASE Coded(i)
    <3>1. k \in 1..3
      BY <1>9, <2>3, <2>6
    <3>2. p = st[i] \/ p = st[i] + 1 \/ p = st[i] + 2
      BY <2>3, <2>4, <3>1
    <3>3. QED
      BY <2>6, <3>2
  <2>7. QED
    BY <2>5, <2>6
<1>11. Slash \notin ToSet(file)
  <2>1. SUFFICES ASSUME Slash \in ToSet(file) PROVE FALSE
    OBVIOUS
  <2>2. PICK p \in 1..z : file[p] = Slash
    BY <2>1 DEF ToSet, z
  <2>3. Percent # Slash
    BY DEF Percent, Slash
  <2>4. \A i \in 1..n : p # st[i]
    BY <1>8, <1>9, <2>2, <2>3
  <2>5. QED
    BY <1>9, <1>10, <2>2, <2>4, SMTT(30)
<1> DEFINE escapes == {i \in 1..z : file[i] = Percent}
           free == {i \in 1..z : {i - 1, i - 2} \cap escapes = {}}
<1>12. \A p : p \in escapes <=> \E i \in 1..n : Coded(i) /\ p = st[i]
  <2>1. ASSUME NEW p \in escapes PROVE \E i \in 1..n : Coded(i) /\ p = st[i]
    <3>1. p \in 1..z /\ file[p] = Percent
      OBVIOUS
    <3>2. PICK i \in 1..n : p = st[i] \/ (Coded(i) /\ (p = st[i] + 1 \/ p = st[i] + 2))
      BY <1>10, <3>1
    <3>3. p = st[i]
      BY <1>9, <3>1, <3>2
    <3>4. Coded(i)
      BY <1>8, <3>1, <3>3
    <3>5. QED
      BY <3>3, <3>4
  <2>2. ASSUME NEW i \in 1..n, Coded(i) PROVE st[i] \in escapes
    BY <1>9, <2>2
  <2>3. QED
    BY <2>1, <2>2
<1>13. \A i \in 1..n : st[i] \in 1..z /\ st[i] \in Nat
  BY <1>7, <1>8, <1>9
<1>14. \A p : p \in free <=> \E i \in 1..n : p = st[i]
  <2> HIDE DEF escapes
  <2>1. ASSUME NEW p \in free PROVE \E i \in 1..n : p = st[i]
    <3>1. p \in 1..z /\ p - 1 \notin escapes /\ p - 2 \notin escapes
      OBVIOUS
    <3>2. PICK i \in 1..n : p = st[i] \/ (Coded(i) /\ (p = st[i] + 1 \/ p = st[i] + 2))
      BY <1>10, <3>1
    <3>3. ASSUME p # st[i] PROVE FALSE
      <4>1. st[i] \in escapes
        BY <1>12, <3>2, <3>3
      <4>2. st[i] = p - 1 \/ st[i] = p - 2
        <5>1. p = st[i] + 1 \/ p = st[i] + 2
          BY <3>2, <3>3
        <5>2. st[i] \in Nat /\ p \in Nat
          BY <1>7, <1>13, <3>1
        <5>3. QED
          BY <5>1, <5>2
      <4>3. QED
        BY <3>1, <4>1, <4>2
    <3>4. QED
      BY <3>3
  <2>2. ASSUME NEW i \in 1..n PROVE st[i] \in free
    <3>1. ASSUME NEW q \in escapes, q = st[i] - 1 \/ q = st[i] - 2 PROVE FALSE
      <4>1. PICK j \in 1..n : Coded(j) /\ q = st[j]
        BY <1>12, <3>1
      <4>2. Len(W[j]) = 3 /\ st[j] \in Nat /\ st[i] \in Nat /\ Len(W[i]) \in Nat /\ st[j] < st[i]
        BY <1>4, <1>9, <1>13, <2>2, <3>1, <4>1
      <4>3. i = j \/ i < j \/ j < i
        BY <1>1
      <4>4. ~(i < j)
        BY <1>7, <4>2
      <4>5. ~(j < i)
        <5>1. ~(st[j] + Len(W[j]) <= st[i])
          BY <3>1, <4>1, <4>2
        <5>2. QED
          BY <1>7, <5>1
      <4>6. QED
        BY <4>2, <4>3, <4>4, <4>5
    <3>2. st[i] \in 1..z
      BY <1>13
    <3>3. QED
      BY <3>1, <3>2
  <2>3. QED
    BY <2>1, <2>2
<1> DEFINE kept == Ascending(free)
<1>15. free \in SUBSET (1..z)
  OBVIOUS
<1> HIDE DEF escapes, free
<1>16. st \in InOrder(free)
  <2>1. \A i, j \in 1..n : i < j => st[i] < st[j]
    <3>1. SUFFICES ASSUME NEW i \in 1..n, NEW j \in 1..n, i < j PROVE st[i] < st[j]
      OBVIOUS
    <3>2. st[i] + Len(W[i]) <= st[j]
      BY <1>7, <3>1
    <3>3. Len(W[i]) \in Nat \ {0} /\ st[i] \in Nat /\ st[j] \in Nat
      BY <1>4, <1>13
    <3>4. QED
      BY <3>2, <3>3
  <2>2. st \in [1..n -> free]
    BY <1>7, <1>14
  <2>3. Cardinality(free) = n
    <3>1. \A i, j \in 1..n : st[i] = st[j] => i = j
      <4>1. SUFFICES ASSUME NEW i \in 1..n, NEW j \in 1..n, st[i] = st[j], i # j PROVE FALSE
        OBVIOUS
      <4>2. (i < j \/ j < i) /\ st[i] \in Nat /\ st[j] \in Nat
        BY <1>1, <1>13, <4>1
      <4>3. QED
        BY <2>1, <4>1, <4>2
    <3>2. st \in Injection(1..n, free)
      BY <2>2, <3>1 DEF Injection, IsInjective
    <3>3. st \in Surjection(1..n, free)
      BY <1>14, <2>2 DEF Surjection
    <3>4. IsFiniteSet(1..n) /\ Cardinality(1..n) = n
      <4>1. 1 \in Int /\ n \in Int
        BY <1>1
      <4>2. Cardinality(1..n) = IF 1 > n THEN 0 ELSE n - 1 + 1
        BY <4>1, FS_Interval
      <4>3. QED
        BY <1>1, <4>1, <4>2, FS_Interval
    <3>5. QED
      BY <3>2, <3>3, <3>4, FS_Surjection
  <2>4. DOMAIN st = 1..n
    BY <2>2
  <2>5. \A p \in free : \E i \in DOMAIN st : st[i] = p
    BY <1>14, <2>4
  <2>6. QED
    BY <2>1, <2>2, <2>3, <2>4, <2>5 DEF InOrder
<1>17. kept = st
  <2>1. kept \in InOrder(free)
    BY <1>7, <1>15, AscendingIs
  <2>2. QED
    BY <1>7, <1>15, <1>16, <2>1, OneOrder
<1>18. Len(st) = n
  BY <1>1, <1>7
<1>19. \A i \in escapes : i + 2 <= z /\ isHexChar(file[i + 1]) /\ isHexChar(file[i + 2])
  <2>1. SUFFICES ASSUME NEW p \in escapes
                 PROVE  p + 2 <= z /\ isHexChar(file[p + 1]) /\ isHexChar(file[p + 2])
    OBVIOUS
  <2>2. PICK i \in 1..n : Coded(i) /\ p = st[i]
    BY <1>12, <2>1
  <2>3. QED
    BY <1>9, <2>2
<1>20. decode(file) =
         [k \in 1..Len(kept) |->
            IF kept[k] \notin escapes THEN file[kept[k]]
            ELSE 16 * charToNibble(file[kept[k] + 1]) + charToNibble(file[kept[k] + 2])]
  <2>1. \A i \in escapes : i + 2 <= Len(file) /\ isHexChar(file[i + 1]) /\ isHexChar(file[i + 2])
    BY <1>19 DEF z
  <2>2. QED
    BY <2>1 DEF decode, escapes, free, z
<1> HIDE DEF kept
<1>21. \A k \in 1..n :
         (IF st[k] \notin escapes THEN file[st[k]]
          ELSE 16 * charToNibble(file[st[k] + 1]) + charToNibble(file[st[k] + 2])) = name[k]
  <2>1. SUFFICES ASSUME NEW k \in 1..n
                 PROVE  (IF st[k] \notin escapes THEN file[st[k]]
                         ELSE 16 * charToNibble(file[st[k] + 1])
                                + charToNibble(file[st[k] + 2])) = name[k]
    OBVIOUS
  <2>2. CASE Coded(k)
    <3>1. st[k] \in escapes
      BY <1>12, <2>2
    <3>2. QED
      BY <1>9, <2>2, <3>1
  <2>3. CASE ~Coded(k)
    <3>1. file[st[k]] = name[k] /\ name[k] # Percent
      BY <1>8, <2>3
    <3>2. st[k] \notin escapes
      BY <3>1 DEF escapes
    <3>3. QED
      BY <3>1, <3>2
  <2>4. QED
    BY <2>2, <2>3
<1>22. decode(file) = [k \in 1..n |-> name[k]]
  BY <1>17, <1>18, <1>20, <1>21
<1>23. name = [k \in 1..n |-> name[k]]
  OBVIOUS
<1>24. decode(file) = name
  BY <1>22, <1>23
<1>25. ASSUME NEW p \in 1..z
       PROVE  file[p] = Dot <=> \E i \in 1..n : p = st[i] /\ name[i] = Dot
  <2>1. ASSUME file[p] = Dot PROVE \E i \in 1..n : p = st[i] /\ name[i] = Dot
    <3>1. PICK i \in 1..n : p = st[i] \/ (Coded(i) /\ (p = st[i] + 1 \/ p = st[i] + 2))
      BY <1>10
    <3>2. p = st[i] /\ ~Coded(i)
      <4>1. Percent # Dot
        BY DEF Percent, Dot
      <4>2. QED
        BY <1>9, <2>1, <3>1, <4>1
    <3>3. QED
      BY <1>8, <2>1, <3>2
  <2>2. ASSUME NEW i \in 1..n, p = st[i], name[i] = Dot PROVE file[p] = Dot
    BY <1>8, <1>9, <2>2
  <2>3. QED
    BY <2>1, <2>2
<1>26. QED
  BY <1>11, <1>24, <1>25 DEF z

\* Where no character is encoded, each has its position in the file.
LEMMA PlainIs ==
  ASSUME NEW name \in Seq(0..255), Len(name) # 0, NEW file \in Seq(Nat), NEW st,
         Laid(Pieces(name), Len(name), file, st), \A i \in 1..Len(name) : ~encodable(name[i])
  PROVE  file = name
<1> DEFINE n == Len(name)
           z == Len(file)
           K == {i \in 1..n : st[i] # i}
<1>1. n \in Nat /\ z \in Nat /\ st \in [1..n -> Nat \ {0}]
  BY PiecesAre DEF Laid
<1>2. \A i \in 1..n : Len(Pieces(name)[i]) = 1 /\ Pieces(name)[i][1] = name[i]
  <2>1. SUFFICES ASSUME NEW i \in 1..n
                 PROVE  Len(Pieces(name)[i]) = 1 /\ Pieces(name)[i][1] = name[i]
    OBVIOUS
  <2> DEFINE b == name[i]
  <2>2. b \in 0..255 /\ ~encodable(b) /\ Pieces(name)[i] = Piece(b)
    BY PiecesAre
  <2> HIDE DEF b
  <2>3. Len(Piece(b)) = 1 /\ Piece(b)[1] = b
    BY <2>2, PieceIs
  <2>4. QED
    BY <2>2, <2>3 DEF b
<1>3. \A i \in 1..n : st[i] \in 1..z /\ file[st[i]] = name[i]
  <2>1. SUFFICES ASSUME NEW i \in 1..n PROVE st[i] \in 1..z /\ file[st[i]] = name[i]
    OBVIOUS
  <2>2. 1 \in 1..Len(Pieces(name)[i]) /\ st[i] + (1 - 1) = st[i]
    BY <1>1, <1>2
  <2>3. st[i] + (1 - 1) \in 1..z /\ file[st[i] + (1 - 1)] = Pieces(name)[i][1]
    BY <2>2 DEF Laid
  <2>4. QED
    BY <1>2, <2>2, <2>3
<1>4. \A p \in 1..z : \E i \in 1..n : p = st[i]
  <2>1. SUFFICES ASSUME NEW p \in 1..z PROVE \E i \in 1..n : p = st[i]
    OBVIOUS
  <2>2. PICK i \in 1..n : \E k \in 1..Len(Pieces(name)[i]) : p = st[i] + (k - 1)
    BY DEF Laid
  <2>3. Len(Pieces(name)[i]) = 1 /\ st[i] \in Nat
    BY <1>1, <1>2
  <2>4. PICK k \in 1..1 : p = st[i] + (k - 1)
    BY <2>2, <2>3
  <2>5. p = st[i]
    BY <2>3, <2>4
  <2>6. QED
    BY <2>5
<1>5. \A i, j \in 1..n : i < j => st[i] < st[j]
  <2>1. SUFFICES ASSUME NEW i \in 1..n, NEW j \in 1..n, i < j PROVE st[i] < st[j]
    OBVIOUS
  <2>2. st[i] + 1 <= st[j] /\ st[i] \in Nat /\ st[j] \in Nat
    BY <1>1, <1>2, <2>1 DEF Laid
  <2>3. QED
    BY <2>2
<1>6. \A i \in 1..n : st[i] = i
  <2>1. SUFFICES ASSUME K # {} PROVE FALSE
    OBVIOUS
  <2>2. K \subseteq Nat
    OBVIOUS
  <2>3. PICK k \in K : \A j \in K : k <= j
    <3> HIDE DEF K
    <3>1. QED
      BY <2>1, <2>2, LeastOf
  <2>4. k \in 1..n /\ st[k] # k /\ k \in Nat /\ st[k] \in 1..z
    BY <1>1, <1>3, <2>3
  <2>5. \A j \in 1..n : j < k => st[j] = j
    <3>1. \A j \in 1..n : j < k => j \notin K
      <4> HIDE DEF K
      <4>1. QED
        BY <1>1, <2>3, <2>4
    <3>2. QED
      BY <3>1
  <2>6. ~(st[k] < k)
    <3>1. ASSUME st[k] < k PROVE FALSE
      <4> DEFINE j == st[k]
      <4>1. j \in 1..n /\ j < k /\ j \in Nat
        BY <1>1, <2>4, <3>1
      <4>2. st[j] = j /\ st[j] < st[k]
        BY <1>5, <2>4, <2>5, <4>1
      <4>3. QED
        BY <4>1, <4>2
    <3>2. QED
      BY <3>1
  <2>7. k \in 1..z /\ k < st[k]
    BY <1>1, <2>4, <2>6
  <2>8. PICK i \in 1..n : k = st[i]
    BY <1>4, <2>7
  <2>9. ~(i < k) /\ i # k /\ ~(k < i)
    <3>1. i < k => st[i] = i
      BY <2>5, <2>8
    <3>2. k < i => st[k] < st[i]
      BY <1>5, <2>4, <2>8
    <3>3. st[i] \in Nat /\ i \in Nat
      BY <1>1, <2>8
    <3>4. QED
      BY <2>4, <2>7, <2>8, <3>1, <3>2, <3>3
  <2>10. QED
    BY <1>1, <2>4, <2>8, <2>9
<1>7. n = z
  <2>1. n = 0 \/ n \in 1..z
    <3>1. n = 0 \/ n \in 1..n
      BY <1>1
    <3>2. QED
      BY <1>3, <1>6, <3>1
  <2>2. z = 0 \/ z \in 1..n
    <3>1. z = 0 \/ z \in 1..z
      BY <1>1
    <3>2. QED
      BY <1>4, <1>6, <3>1
  <2>3. QED
    BY <1>1, <2>1, <2>2
<1>8. \A i \in 1..n : file[i] = name[i]
  BY <1>3, <1>6
<1>9. QED
  BY <1>7, <1>8

LEMMA PlainDecodes ==
  ASSUME NEW name \in Seq(0..255), Len(name) # 0, \A i \in 1..Len(name) : ~encodable(name[i])
  PROVE  decode(name) = name
<1> DEFINE n == Len(name)
           st == [i \in 1..n |-> i]
<1>1. n \in Nat /\ \A i \in 1..n : st[i] = i /\ i \in Nat \ {0}
  BY PiecesAre
<1>2. \A i \in 1..n : Len(Pieces(name)[i]) = 1 /\ Pieces(name)[i][1] = name[i]
  <2>1. SUFFICES ASSUME NEW i \in 1..n
                 PROVE  Len(Pieces(name)[i]) = 1 /\ Pieces(name)[i][1] = name[i]
    OBVIOUS
  <2> DEFINE b == name[i]
  <2>2. b \in 0..255 /\ ~encodable(b) /\ Pieces(name)[i] = Piece(b)
    BY PiecesAre
  <2> HIDE DEF b
  <2>3. Len(Piece(b)) = 1 /\ Piece(b)[1] = b
    BY <2>2, PieceIs
  <2>4. QED
    BY <2>2, <2>3 DEF b
<1>3. st \in [1..n -> Nat \ {0}]
  BY <1>1
<1> HIDE DEF st
<1>4. \A i \in 1..n : \A k \in 1..Len(Pieces(name)[i]) :
        st[i] + (k - 1) \in 1..n /\ name[st[i] + (k - 1)] = Pieces(name)[i][k]
  <2>1. SUFFICES ASSUME NEW i \in 1..n, NEW k \in 1..1
                 PROVE  st[i] + (k - 1) \in 1..n /\ name[st[i] + (k - 1)] = Pieces(name)[i][k]
    BY <1>2
  <2>2. k = 1 /\ st[i] + (k - 1) = i
    BY <1>1, <2>1
  <2>3. QED
    BY <1>2, <2>2
<1>5. \A p \in 1..n : \E i \in 1..n : \E k \in 1..Len(Pieces(name)[i]) : p = st[i] + (k - 1)
  <2>1. SUFFICES ASSUME NEW p \in 1..n
                 PROVE  p = st[p] + (1 - 1) /\ 1 \in 1..Len(Pieces(name)[p])
    OBVIOUS
  <2>2. QED
    BY <1>1, <1>2
<1>6. \A i, j \in 1..n : i < j => st[i] + Len(Pieces(name)[i]) <= st[j]
  <2>1. SUFFICES ASSUME NEW i \in 1..n, NEW j \in 1..n, i < j
                 PROVE  st[i] + Len(Pieces(name)[i]) <= st[j]
    OBVIOUS
  <2>2. st[i] = i /\ st[j] = j /\ Len(Pieces(name)[i]) = 1 /\ i \in Nat /\ j \in Nat
    BY <1>1, <1>2
  <2>3. QED
    BY <2>1, <2>2
<1>7. Laid(Pieces(name), n, name, st)
  BY <1>3, <1>4, <1>5, <1>6 DEF Laid
<1>8. name \in Seq(Nat)
  <2> DEFINE T == 0..255
  <2>1. name \in Seq(T) /\ T \subseteq Nat
    OBVIOUS
  <2> HIDE DEF T
  <2>2. name = [i \in 1..n |-> name[i]] /\ \A i \in 1..n : name[i] \in T
    BY <2>1
  <2>3. \A i \in 1..n : name[i] \in Nat
    BY <2>1, <2>2
  <2>4. QED
    BY <1>1, <2>2, <2>3
<1>9. QED
  BY <1>7, <1>8, LaidIs

\* What is laid before a piece is laid by the pieces before it.
LEMMA CutIsLaid ==
  ASSUME NEW name \in Seq(0..255), Len(name) # 0, NEW file \in Seq(Nat), NEW st,
         Laid(Pieces(name), Len(name), file, st), NEW k \in 2..Len(name)
  PROVE  LET pre == SubSeq(name, 1, k - 1) cut == SubSeq(file, 1, st[k] - 1) IN
         /\ pre \in Seq(0..255) /\ Len(pre) = k - 1 /\ Len(pre) # 0 /\ cut \in Seq(Nat)
         /\ \E ts : Laid(Pieces(pre), Len(pre), cut, ts)
<1> DEFINE n == Len(name)
           z == Len(file)
           pre == SubSeq(name, 1, k - 1)
           cut == SubSeq(file, 1, st[k] - 1)
           m == k - 1
           W == Pieces(name)
           V == Pieces(pre)
           ts == [i \in 1..m |-> st[i]]
<1>1. n \in Nat /\ z \in Nat /\ st \in [1..n -> Nat \ {0}] /\ k \in 1..n /\ m \in 1..n
  BY PiecesAre DEF Laid
<1>2. k \in Nat /\ m \in Nat /\ m # 0 /\ k = m + 1 /\ \A i \in 1..m : i \in 1..n /\ i < k
  BY <1>1
<1>3. pre \in Seq(0..255) /\ Len(pre) = m /\ \A i \in 1..m : pre[i] = name[i]
  <2> DEFINE T == 0..255
  <2>1. name \in Seq(T) /\ 1 \in 1..n /\ m \in 1..n
    BY <1>1
  <2> HIDE DEF T
  <2>2. pre \in Seq(T) /\ Len(pre) = m /\ \A i \in 1..m : pre[i] = name[i]
    BY <1>1, <2>1
  <2>3. QED
    BY <2>2 DEF T
<1>4. \A i \in 1..m : V[i] = W[i]
  <2>1. \A i \in 1..m : V[i] = Piece(pre[i]) /\ W[i] = Piece(name[i])
    BY <1>2, <1>3, PiecesAre
  <2>2. QED
    BY <1>3, <2>1
<1>5. /\ \A i \in 1..n : Len(W[i]) \in Nat \ {0} /\ st[i] \in Nat \ {0}
      /\ \A i \in 1..n : \A x \in 1..Len(W[i]) :
           st[i] + (x - 1) \in 1..z /\ file[st[i] + (x - 1)] = W[i][x]
      /\ \A p \in 1..z : \E i \in 1..n : \E x \in 1..Len(W[i]) : p = st[i] + (x - 1)
      /\ \A i, j \in 1..n : i < j => st[i] + Len(W[i]) <= st[j]
  <2>1. \A i \in 1..n : Len(W[i]) \in Nat \ {0}
    BY PiecesAre
  <2>2. QED
    BY <1>1, <2>1 DEF Laid
<1> HIDE DEF pre, W, V
<1> DEFINE last == st[k] - 1
<1>6. st[k] \in 1..z /\ last \in 0..z /\ last \in Nat /\ st[k] = last + 1
  <2>1. 1 \in 1..Len(W[k]) /\ st[k] + (1 - 1) = st[k]
    BY <1>1, <1>5
  <2>2. st[k] \in 1..z
    BY <1>1, <1>5, <2>1
  <2>3. QED
    BY <1>1, <2>2
<1> HIDE DEF last
<1>7. cut \in Seq(Nat) /\ Len(cut) = last /\ \A p \in 1..last : cut[p] = file[p]
  <2>1. cut = SubSeq(file, 1, last)
    BY DEF last
  <2> HIDE DEF cut
  <2>2. QED
    BY <1>1, <1>6, <2>1
<1> HIDE DEF cut
<1>8. ts \in [1..m -> Nat \ {0}] /\ \A i \in 1..m : ts[i] = st[i]
  BY <1>2, <1>5
<1> HIDE DEF ts
<1>9. \A i \in 1..m : \A x \in 1..Len(V[i]) :
        ts[i] + (x - 1) \in 1..last /\ cut[ts[i] + (x - 1)] = V[i][x]
  <2>1. SUFFICES ASSUME NEW i \in 1..m, NEW x \in 1..Len(W[i])
                 PROVE  st[i] + (x - 1) \in 1..last /\ cut[st[i] + (x - 1)] = W[i][x]
    BY <1>4, <1>8
  <2>2. i \in 1..n /\ i < k
    BY <1>2
  <2>3. st[i] + (x - 1) \in 1..z /\ file[st[i] + (x - 1)] = W[i][x]
    BY <1>5, <2>2
  <2>4. st[i] + Len(W[i]) <= st[k]
    BY <1>1, <1>5, <2>2
  <2>5. Len(W[i]) \in Nat /\ st[i] \in Nat /\ x \in Nat /\ x <= Len(W[i])
    BY <1>5, <2>2
  <2>6. st[i] + (x - 1) \in 1..last
    BY <1>6, <2>3, <2>4, <2>5
  <2>7. QED
    BY <1>7, <2>3, <2>6
<1>10. \A p \in 1..last : \E i \in 1..m : \E x \in 1..Len(V[i]) : p = ts[i] + (x - 1)
  <2>1. TAKE p \in 1..last
  <2>2. p \in 1..z /\ p < st[k]
    BY <1>1, <1>6
  <2>3. PICK i \in 1..n : \E x \in 1..Len(W[i]) : p = st[i] + (x - 1)
    BY <1>5, <2>2
  <2>4. PICK x \in 1..Len(W[i]) : p = st[i] + (x - 1)
    BY <2>3
  <2>5. st[i] <= p /\ st[i] \in Nat /\ st[k] \in Nat /\ Len(W[k]) \in Nat
    <3>1. st[i] \in Nat /\ st[k] \in Nat /\ Len(W[k]) \in Nat /\ Len(W[i]) \in Nat
      BY <1>1, <1>5
    <3>2. x \in Nat /\ 1 <= x /\ p \in Nat
      BY <1>6, <2>4, <3>1
    <3>3. QED
      BY <2>4, <3>1, <3>2
  <2>6. i # k /\ ~(k < i)
    <3>1. k < i => st[k] + Len(W[k]) <= st[i]
      BY <1>1, <1>5, <2>3
    <3>2. QED
      BY <2>2, <2>5, <3>1
  <2>7. i \in 1..m
    BY <1>1, <1>2, <2>3, <2>6
  <2>8. V[i] = W[i] /\ ts[i] = st[i]
    BY <1>4, <1>8, <2>7
  <2>9. x \in 1..Len(V[i]) /\ p = ts[i] + (x - 1)
    BY <2>4, <2>8
  <2>10. QED
    BY <2>7, <2>9
<1>11. \A i, j \in 1..m : i < j => ts[i] + Len(V[i]) <= ts[j]
  <2>1. SUFFICES ASSUME NEW i \in 1..m, NEW j \in 1..m, i < j
                 PROVE  st[i] + Len(W[i]) <= st[j]
    BY <1>4, <1>8
  <2>2. QED
    BY <1>2, <1>5, <2>1
<1>12. Laid(V, m, cut, ts)
  BY <1>7, <1>8, <1>9, <1>10, <1>11 DEF Laid
<1>13. QED
  BY <1>2, <1>3, <1>7, <1>12 DEF pre, cut, V

LEMMA LastOf ==
  ASSUME NEW n \in Nat, NEW S \in SUBSET (1..n), S # {}
  PROVE  Max(S) \in S /\ \A i \in S : i <= Max(S)
<1> DEFINE U == {u \in Nat : \A i \in S : i <= u}
<1>1. U \subseteq Nat /\ n \in U
  OBVIOUS
<1>2. PICK u \in U : \A v \in U : u <= v
  BY <1>1, LeastOf
<1>3. u \in S
  <2>1. SUFFICES ASSUME u \notin S PROVE FALSE
    OBVIOUS
  <2>2. u \in Nat /\ \A i \in S : i <= u /\ i \in Nat /\ i # u /\ i # 0
    BY <1>2, <2>1
  <2>3. u # 0
    <3>1. PICK i \in S : TRUE
      OBVIOUS
    <3>2. i <= u /\ i \in Nat /\ i # 0
      BY <2>2, <3>1
    <3>3. QED
      BY <2>2, <3>2
  <2>4. u - 1 \in Nat /\ \A i \in S : i <= u - 1
    BY <2>2, <2>3
  <2>5. u <= u - 1
    BY <1>2, <2>4
  <2>6. QED
    BY <2>2, <2>5
<1>4. \A i \in S : i <= u /\ i \in Nat
  BY <1>2
<1>5. \E x \in S : \A y \in S : x >= y
  <2>1. \A y \in S : u >= y
    BY <1>3, <1>4
  <2>2. QED
    BY <1>3, <2>1
<1>6. Max(S) \in S /\ \A y \in S : Max(S) >= y
  BY <1>5 DEF Max
<1>7. QED
  BY <1>4, <1>6

Plain(name) ==
  /\ name \in Seq(0..255) /\ Len(name) # 0
  /\ \A i \in 1..Len(name) : ~encodable(name[i])

LEMMA SameIfPlain ==
  ASSUME NEW name \in Seq(0..255), Len(name) # 0, NEW file \in Seq(Nat), NEW st,
         Laid(Pieces(name), Len(name), file, st), NEW x, Plain(x)
  PROVE  file = x <=> name = x
<1>1. x \in Seq(0..255) /\ Len(x) # 0 /\ \A i \in 1..Len(x) : ~encodable(x[i])
  BY DEF Plain
<1>2. decode(file) = name /\ decode(x) = x
  BY <1>1, LaidIs, PlainDecodes
<1>3. ASSUME name = x PROVE file = x
  <2>1. \A i \in 1..Len(name) : ~encodable(name[i])
    BY <1>1, <1>3
  <2>2. file = name
    BY <2>1, PlainIs
  <2>3. QED
    BY <1>3, <2>2
<1>4. QED
  BY <1>2, <1>3

LEMMA PlainNames == Plain(<<Dot>>) /\ Plain(<<Dot, Dot>>) /\ Plain(Index)
<1>1. Dot = 46 /\ Dot \in 0..255 /\ ~encodable(Dot)
  BY DEF Dot, encodable
<1>2. \A b \in 97..122 : b \in 0..255 /\ ~encodable(b)
  BY DEF encodable
<1>3. Plain(<<Dot>>)
  BY <1>1 DEF Plain
<1>4. Plain(<<Dot, Dot>>)
  BY <1>1 DEF Plain
<1>5. Plain(Index)
  <2>1. 105 \in 97..122 /\ 110 \in 97..122 /\ 100 \in 97..122 /\ 101 \in 97..122 /\ 120 \in 97..122
    OBVIOUS
  <2>2. /\ Index = <<Dot, 105, 110, 100, 101, 120>>
        /\ Index \in Seq(0..255) /\ Len(Index) = 6
    BY <1>1 DEF Index
  <2>3. \A i \in 1..6 : Index[i] = Dot \/ Index[i] \in 97..122
    BY <2>1, <2>2
  <2>4. QED
    BY <1>1, <1>2, <2>2, <2>3 DEF Plain
<1>6. QED
  BY <1>3, <1>4, <1>5

\* A name that is taken for a file loses what the file loses.
LEMMA StemIs ==
  ASSUME NEW name \in Seq(0..255), Len(name) # 0
  PROVE  /\ encode(name) \in Seq(Nat) /\ Len(encode(name)) # 0
         /\ Slash \notin ToSet(encode(name)) /\ decode(encode(name)) = name
         /\ decode(stem(encode(name))) = stem(name)
         /\ Passed(encode(name)) <=> Passed(name)
<1> DEFINE n == Len(name)
           file == encode(name)
           z == Len(file)
           D == Extensions(name)
           E == Extensions(file)
           W == Pieces(name)
<1>1. PICK st : file \in Seq(Nat) /\ Laid(W, n, file, st)
  BY EncodeIs
<1> HIDE DEF file
<1>2. /\ n \in Nat /\ n # 0 /\ z \in Nat
      /\ \A i \in 1..n : Len(W[i]) \in Nat \ {0}
  BY <1>1, PiecesAre
<1>3. /\ decode(file) = name /\ Slash \notin ToSet(file)
      /\ \A p \in 1..z : file[p] = Dot <=> \E i \in 1..n : p = st[i] /\ name[i] = Dot
  BY <1>1, LaidIs
<1>4. \A i \in 1..n : st[i] \in 1..z /\ st[i] \in Nat
  <2>1. SUFFICES ASSUME NEW i \in 1..n PROVE st[i] \in 1..z /\ st[i] \in Nat
    OBVIOUS
  <2>2. st[i] \in Nat /\ 1 \in 1..Len(W[i]) /\ st[i] + (1 - 1) = st[i]
    <3>1. st[i] \in Nat /\ Len(W[i]) \in Nat \ {0}
      BY <1>1, <1>2 DEF Laid
    <3>2. QED
      BY <3>1
  <2>3. st[i] + (1 - 1) \in 1..z
    BY <1>1, <2>2 DEF Laid
  <2>4. QED
    BY <2>2, <2>3
<1>5. \A i, j \in 1..n : i < j => st[i] < st[j]
  <2>1. SUFFICES ASSUME NEW i \in 1..n, NEW j \in 1..n, i < j PROVE st[i] < st[j]
    OBVIOUS
  <2>2. st[i] + Len(W[i]) <= st[j]
    BY <1>1, <2>1 DEF Laid
  <2>3. st[i] \in Nat /\ st[j] \in Nat /\ Len(W[i]) \in Nat \ {0}
    BY <1>2, <1>4
  <2>4. QED
    BY <2>2, <2>3
<1>6. 1 \in 1..n /\ st[1] = 1
  <2>1. 1 \in 1..n /\ st[1] \in 1..z /\ 1 \in 1..z
    <3>1. 1 \in 1..n
      BY <1>2
    <3>2. st[1] \in 1..z
      BY <1>4, <3>1
    <3>3. QED
      BY <1>2, <3>1, <3>2
  <2>2. PICK i \in 1..n : \E x \in 1..Len(W[i]) : 1 = st[i] + (x - 1)
    BY <1>1, <2>1 DEF Laid
  <2>3. PICK x \in 1..Len(W[i]) : 1 = st[i] + (x - 1)
    BY <2>2
  <2>4. st[i] = 1
    <3>1. st[i] \in 1..z /\ x \in Nat /\ x >= 1
      BY <1>2, <1>4, <2>3
    <3>2. QED
      BY <1>2, <2>3, <3>1
  <2>5. i = 1
    <3>1. i # 1 => st[1] < st[i]
      BY <1>2, <1>5, <2>1
    <3>2. QED
      BY <1>2, <2>1, <2>4, <3>1
  <2>6. QED
    BY <2>1, <2>4, <2>5
<1>7. \A p : p \in E <=> \E k \in D : p = st[k]
  <2>1. ASSUME NEW p \in E PROVE \E k \in D : p = st[k]
    <3>1. p \in 1..z /\ p # 1 /\ file[p] = Dot
      BY <1>2 DEF Extensions
    <3>2. PICK i \in 1..n : p = st[i] /\ name[i] = Dot
      BY <1>3, <3>1
    <3>3. i # 1
      BY <1>6, <3>1, <3>2
    <3>4. i \in D
      BY <1>2, <3>2, <3>3 DEF Extensions
    <3>5. QED
      BY <3>2, <3>4
  <2>2. ASSUME NEW k \in D PROVE st[k] \in E
    <3>1. k \in 1..n /\ 1 < k /\ name[k] = Dot
      BY <1>2 DEF Extensions
    <3>2. st[1] < st[k] /\ st[k] \in 1..z
      BY <1>4, <1>5, <1>6, <3>1
    <3>3. file[st[k]] = Dot
      BY <1>3, <3>1, <3>2
    <3>4. st[k] \in 2..z
      BY <1>2, <1>6, <3>2
    <3>5. QED
      BY <3>3, <3>4 DEF Extensions
  <2>3. QED
    BY <2>1, <2>2
<1>8. (file = <<Dot, Dot>> <=> name = <<Dot, Dot>>) /\ (file = <<Dot>> <=> name = <<Dot>>)
  BY <1>1, PlainNames, SameIfPlain
<1>9. /\ stem(name) \in Seq(0..255) /\ Len(stem(name)) # 0 /\ stem(file) \in Seq(Nat)
      /\ \E ts : Laid(Pieces(stem(name)), Len(stem(name)), stem(file), ts)
  <2>1. CASE D = {} \/ name = <<Dot, Dot>>
    <3>1. stem(name) = name
      BY <2>1 DEF stem
    <3>2. E = {} \/ file = <<Dot, Dot>>
      BY <1>7, <1>8, <2>1
    <3>3. stem(file) = file
      BY <3>2 DEF stem
    <3>4. QED
      BY <1>1, <3>1, <3>3
  <2>2. CASE ~(D = {} \/ name = <<Dot, Dot>>)
    <3> DEFINE k == Max(D)
    <3>1. D \in SUBSET (1..n) /\ E \in SUBSET (1..z) /\ D # {} /\ E # {}
      <4>1. D \in SUBSET (1..n) /\ E \in SUBSET (1..z)
        BY <1>2 DEF Extensions
      <4> HIDE DEF D, E
      <4>2. QED
        BY <1>7, <2>2, <4>1
    <3>2. k \in D /\ \A i \in D : i <= k
      BY <1>2, <3>1, LastOf
    <3>3. Max(E) \in E /\ \A p \in E : p <= Max(E)
      BY <1>2, <3>1, LastOf
    <3> HIDE DEF D, E, k
    <3>4. PICK j \in D : Max(E) = st[j]
      BY <1>7, <3>3
    <3>5. st[k] <= st[j] /\ j <= k
      BY <1>7, <3>2, <3>3, <3>4
    <3>6. j = k
      <4>1. j \in 1..n /\ k \in 1..n /\ (j < k => st[j] < st[k])
        BY <1>5, <3>1, <3>2, <3>4
      <4>2. st[j] \in Nat /\ st[k] \in Nat
        BY <1>4, <4>1
      <4>3. QED
        BY <3>5, <4>1, <4>2
    <3>7. stem(name) = SubSeq(name, 1, k - 1)
      BY <2>2 DEF stem, D, k
    <3>8. stem(file) = SubSeq(file, 1, st[k] - 1)
      <4>1. E # {} /\ file # <<Dot, Dot>>
        BY <1>8, <2>2, <3>1
      <4>2. Max(E) = st[k]
        BY <3>4, <3>6
      <4>3. QED
        BY <4>1, <4>2 DEF stem, E
    <3>9. k \in 2..n
      BY <3>2 DEF Extensions, D
    <3>10. LET pre == SubSeq(name, 1, k - 1) cut == SubSeq(file, 1, st[k] - 1) IN
           /\ pre \in Seq(0..255) /\ Len(pre) = k - 1 /\ Len(pre) # 0 /\ cut \in Seq(Nat)
           /\ \E ts : Laid(Pieces(pre), Len(pre), cut, ts)
      BY <1>1, <3>9, CutIsLaid
    <3>11. QED
      BY <3>7, <3>8, <3>10
  <2>3. QED
    BY <2>1, <2>2
<1>10. decode(stem(file)) = stem(name) /\ (stem(file) = Index <=> stem(name) = Index)
  <2>1. PICK ts : Laid(Pieces(stem(name)), Len(stem(name)), stem(file), ts)
    BY <1>9
  <2>2. decode(stem(file)) = stem(name)
    BY <1>9, <2>1, LaidIs
  <2>3. stem(file) = Index <=> stem(name) = Index
    BY <1>9, <2>1, PlainNames, SameIfPlain
  <2>4. QED
    BY <2>2, <2>3
<1>11. z # 0
  BY <1>2, <1>4, <1>6
<1>12. Passed(file) <=> Passed(name)
  BY <1>8, <1>10 DEF Passed
<1>13. QED
  BY <1>1, <1>3, <1>10, <1>11, <1>12 DEF file

\* A sequence, and another behind it.
IsBehind(T, s, t, st) ==
  /\ st \in Seq(T) /\ Len(st) = Len(s) + Len(t)
  /\ \A p \in 1..Len(s) : st[p] = s[p]
  /\ \A i \in 1..Len(t) : st[Len(s) + i] = t[i]

LEMMA BehindIs ==
  ASSUME NEW T, NEW s \in Seq(T), NEW t \in Seq(T)
  PROVE  IsBehind(T, s, t, s \o t)
<1>1. Len(s) \in Nat /\ Len(t) \in Nat
  OBVIOUS
<1>2. s \o t \in Seq(T) /\ Len(s \o t) = Len(s) + Len(t)
  BY <1>1
<1>3. \A p \in 1..Len(s) : (s \o t)[p] = s[p]
  BY <1>1
<1>4. \A i \in 1..Len(t) : (s \o t)[Len(s) + i] = t[i]
  BY <1>1
<1>5. QED
  BY <1>2, <1>3, <1>4 DEF IsBehind

LEMMA JsonIs ==
  ASSUME NEW file \in Seq(Nat), Len(file) # 0
  PROVE  stem(file \o Json) = file /\ (Slash \in ToSet(file \o Json) => Slash \in ToSet(file))
<1> DEFINE g == file \o Json
           z == Len(file)
<1>1. z \in Nat /\ z # 0 /\ Dot = 46 /\ Slash = 47
  BY DEF Dot, Slash
<1>2. /\ Json \in Seq(Nat) /\ Len(Json) = 5 /\ Json[1] = Dot
      /\ \A i \in 2..5 : Json[i] # Dot
      /\ \A i \in 1..5 : Json[i] # Slash
  <2>1. Json = <<46, 106, 115, 111, 110>>
    BY <1>1 DEF Json
  <2>2. QED
    BY <1>1, <2>1
<1>3. /\ g \in Seq(Nat) /\ Len(g) = z + 5 /\ \A p \in 1..z : g[p] = file[p]
      /\ \A i \in 1..5 : g[z + i] = Json[i]
  <2>1. Json \in Seq(Nat) /\ file \in Seq(Nat)
    BY <1>2
  <2>2. IsBehind(Nat, file, Json, g)
    BY <2>1, BehindIs, Zenon
  <2>3. QED
    BY <1>2, <2>2 DEF IsBehind
<1> HIDE DEF g
<1>4. \A p \in 1..(z + 5) : p \in 1..z \/ \E i \in 1..5 : p = z + i
  <2>1. SUFFICES ASSUME NEW p \in 1..(z + 5), p \notin 1..z PROVE p - z \in 1..5 /\ p = z + (p - z)
    OBVIOUS
  <2>2. QED
    BY <1>1, <2>1
<1>5. z + 1 \in Extensions(g) /\ \A p \in Extensions(g) : p <= z + 1
  <2>1. z + 1 \in Extensions(g)
    BY <1>1, <1>2, <1>3 DEF Extensions
  <2>2. SUFFICES ASSUME NEW p \in Extensions(g) PROVE p <= z + 1
    BY <2>1
  <2>3. p \in 1..(z + 5) /\ g[p] = Dot
    BY <1>1, <1>3 DEF Extensions
  <2>4. CASE p \in 1..z
    BY <1>1, <2>4
  <2>5. CASE \E i \in 1..5 : p = z + i
    <3>1. PICK i \in 1..5 : p = z + i
      BY <2>5
    <3>2. Json[i] = Dot
      BY <1>3, <2>3, <3>1
    <3>3. i = 1
      <4>1. i \notin 2..5
        BY <1>2, <3>2
      <4>2. QED
        BY <3>1, <4>1
    <3>4. QED
      BY <1>1, <3>1, <3>3
  <2>6. QED
    BY <1>4, <2>3, <2>4, <2>5
<1>6. Max(Extensions(g)) = z + 1
  <2>1. Extensions(g) \in SUBSET (1..(z + 5)) /\ z + 5 \in Nat
    BY <1>1, <1>3 DEF Extensions
  <2>2. /\ Max(Extensions(g)) \in Extensions(g)
        /\ \A p \in Extensions(g) : p <= Max(Extensions(g))
    BY <1>5, <2>1, LastOf
  <2>3. Max(Extensions(g)) <= z + 1 /\ z + 1 <= Max(Extensions(g)) /\ Max(Extensions(g)) \in Nat
    BY <1>5, <2>1, <2>2
  <2>4. QED
    BY <1>1, <2>3
<1>7. stem(g) = SubSeq(g, 1, z)
  <2>1. g # <<Dot, Dot>>
    <3>1. Len(g) # 2
      BY <1>1, <1>3
    <3>2. QED
      BY <3>1
  <2>2. z + 1 - 1 = z
    BY <1>1
  <2>3. QED
    BY <1>5, <1>6, <2>1, <2>2 DEF stem
<1>8. SubSeq(g, 1, z) = file
  BY <1>1, <1>3
<1>9. ASSUME Slash \in ToSet(g) PROVE Slash \in ToSet(file)
  <2>1. PICK p \in 1..(z + 5) : g[p] = Slash
    BY <1>3, <1>9 DEF ToSet
  <2>2. p \in 1..z
    BY <1>2, <1>3, <1>4, <2>1
  <2>3. file[p] = Slash
    BY <1>3, <2>1, <2>2
  <2>4. QED
    BY <2>2, <2>3 DEF ToSet
<1>10. QED
  BY <1>7, <1>8, <1>9 DEF g

-------------------------------------------------------------------------------
(* The calls and their results *)

MatchCall ==
  \E f \in LegalFilters, t \in TopicTexts :
    call = <<"match", f, t>> /\ result = <<match(f, t)>>
FileCall ==
  \E kind \in FileKinds, name \in Names :
    /\ call = <<"file", kind, name>>
    /\ result = <<FileOf(kind, name), Load(kind, FileOf(kind, name))>>
DtCall == \E d \in Durations : call = <<"dt", d>> /\ result = <<durationToString(d)>>
TextsInv == call = <<"none">> \/ MatchCall \/ FileCall \/ DtCall

LEMMA Kinds ==
  /\ call = <<"none">> => call[1] = "none"
  /\ MatchCall => call[1] = "match"
  /\ FileCall => call[1] = "file"
  /\ DtCall => call[1] = "dt"
<1>1. call = <<"none">> => call[1] = "none"
  OBVIOUS
<1>2. MatchCall => call[1] = "match"
  BY DEF MatchCall
<1>3. FileCall => call[1] = "file"
  BY DEF FileCall
<1>4. DtCall => call[1] = "dt"
  BY DEF DtCall
<1>5. QED
  BY <1>1, <1>2, <1>3, <1>4

\* Whatever the letters, names, durations and bounds, a state of Texts is a call
\* of match, encode and decode, or durationToString, with its result.
THEOREM TextsInvariance == TextsSpec => []TextsInv
<1>1. TextsInit => TextsInv
  BY DEF TextsInit, TextsInv
<1>2. TextsInv /\ [TextsNext]_<<call, result>> => TextsInv'
  <2>1. SUFFICES ASSUME TextsInv, [TextsNext]_<<call, result>> PROVE TextsInv'
    OBVIOUS
  <2>2. CASE UNCHANGED <<call, result>>
    BY <2>1, <2>2 DEF TextsInv, MatchCall, FileCall, DtCall
  <2>3. ASSUME NEW d \in Durations, ShowDt(d) PROVE TextsInv'
    BY <2>3 DEF ShowDt, TextsInv, DtCall
  <2>4. ASSUME NEW kind \in FileKinds, NEW name \in Names, SaveAndLoad(kind, name)
        PROVE  TextsInv'
    BY <2>4 DEF SaveAndLoad, TextsInv, FileCall
  <2>5. ASSUME NEW f \in LegalFilters, NEW t \in TopicTexts, Match(f, t) PROVE TextsInv'
    BY <2>5 DEF Match, TextsInv, MatchCall
  <2>6. QED
    BY <2>1, <2>2, <2>3, <2>4, <2>5 DEF TextsNext
<1>3. QED
  BY <1>1, <1>2, PTL DEF TextsSpec

\* A message is shown under the subscriptions whose filters match its topic, with
\* the exceptions that MatchIsStandard names and no others: for topics and filters
\* of any letters and any length (MQTT::Client::match).
THEOREM MatchesAsTheStandard == TextsSpec => []MatchIsStandard
<1>1. TextsInv => MatchIsStandard
  <2>1. SUFFICES ASSUME TextsInv, call[1] = "match", result[1] # Standard(call[2], call[3])
                 PROVE  Differ(call[2], call[3]) /\ (HasPlus(call[2]) \/ result[1])
    BY DEF MatchIsStandard, Differ
  <2>2. MatchCall
    BY <2>1, Kinds DEF TextsInv
  <2>3. PICK f \in LegalFilters, t \in TopicTexts :
          call = <<"match", f, t>> /\ result = <<match(f, t)>>
    BY <2>2 DEF MatchCall
  <2>4. call[2] = f /\ call[3] = t /\ result[1] = match(f, t)
    BY <2>3
  <2>5. match(f, t) # Standard(f, t)
    BY <2>1, <2>4
  <2>6. ~(match(f, t) <=> Standard(f, t))
    BY <2>5 DEF match, Standard
  <2>7. Differ(f, t)
    BY <2>6, WhereTheyDiffer
  <2>8. HasPlus(f) \/ match(f, t)
    BY <2>7 DEF Differ
  <2>9. QED
    BY <2>4, <2>7, <2>8
<1>2. QED
  BY <1>1, TextsInvariance, PTL

\* What is read back from the file of a name, of any length and of any bytes, is
\* the name, but for messages, which lose it from the last dot on, and for the names
\* that a directory does not list; and the file lies in the directory it was saved
\* to (Common::Url, FsTree::loadLeaf, Layouts::loadLayoutFile).
THEOREM NamesSurvive == TextsSpec => []NamesSurviveAsFiles
<1>1. TextsInv => NamesSurviveAsFiles
  <2>1. SUFFICES ASSUME TextsInv, call[1] = "file" PROVE NamesSurviveAsFiles
    BY DEF NamesSurviveAsFiles
  <2>2. PICK kind \in FileKinds, name \in Names :
          /\ call = <<"file", kind, name>>
          /\ result = <<FileOf(kind, name), Load(kind, FileOf(kind, name))>>
    BY <2>1, Kinds DEF TextsInv, FileCall
  <2>3. name \in Seq(0..255) /\ Len(name) # 0
    <3>1. name \in Seq(0..255) /\ name # <<>>
      BY <2>2, TextsAssumption
    <3> DEFINE T == 0..255
    <3> HIDE DEF T
    <3>2. name \in Seq(T)
      BY <3>1 DEF T
    <3>3. Len(name) # 0
      BY <3>1, <3>2
    <3>4. QED
      BY <3>1, <3>3
  <2> DEFINE file == encode(name)
  <2>4. /\ file \in Seq(Nat) /\ Len(file) # 0 /\ Slash \notin ToSet(file)
        /\ decode(file) = name /\ decode(stem(file)) = stem(name)
        /\ Passed(file) <=> Passed(name)
    BY <2>3, StemIs
  <2> HIDE DEF file
  <2>5. stem(file \o Json) = file /\ Slash \notin ToSet(file \o Json)
    BY <2>4, JsonIs
  <2>6. FileOf(kind, name) = IF kind = "layout" THEN file \o Json ELSE file
    BY DEF FileOf, file
  <2>7. Slash \notin ToSet(FileOf(kind, name))
    BY <2>4, <2>5, <2>6
  <2>8. Load(kind, FileOf(kind, name)) =
          IF kind # "layout" /\ Passed(name) THEN Unlisted
          ELSE IF kind = "message" THEN stem(name) ELSE name
    <3>1. CASE kind = "layout"
      BY <2>4, <2>5, <2>6, <3>1 DEF Load
    <3>2. CASE kind = "directory"
      BY <2>4, <2>6, <3>2 DEF Load
    <3>3. CASE kind = "message"
      BY <2>4, <2>6, <3>3 DEF Load
    <3>4. QED
      BY <2>2, <3>1, <3>2, <3>3 DEF FileKinds
  <2>9. /\ call[2] = kind /\ call[3] = name /\ result[1] = FileOf(kind, name)
        /\ result[2] = Load(kind, FileOf(kind, name))
    BY <2>2
  <2>10. QED
    BY <2>7, <2>8, <2>9 DEF NamesSurviveAsFiles
<1>2. QED
  BY <1>1, TextsInvariance, PTL

\* The digits of every duration are those of the time it is, and where they are
\* not is said: full seconds and less than a tenth (Helpers::durationToString).
THEOREM DurationsReadBack == TextsSpec => []DurationReadsBack
<1>1. TextsInv => DurationReadsBack
  <2>1. SUFFICES ASSUME TextsInv, call[1] = "dt" PROVE DurationReadsBack
    BY DEF DurationReadsBack
  <2>2. PICK d \in Durations : call = <<"dt", d>> /\ result = <<durationToString(d)>>
    BY <2>1, Kinds DEF TextsInv, DtCall
  <2> DEFINE r == durationToString(d)
             abs == Magnitude(d)
  <2>3. d \in Int
    BY TextsAssumption
  <2>4. result[1] = r /\ call[2] = d
    BY <2>2
  <2>5. \/ /\ (r.negative) = (d < 0)
           /\ r.minutes < 60 /\ r.seconds < 60
           /\ 3600000 * r.hours + 60000 * r.minutes + 1000 * r.seconds + r.ms = abs
        \/ abs >= 1000 /\ abs % 1000 \in 1..99
    BY <2>3 DEF durationToString, Magnitude, PaddedBehind
  <2> HIDE DEF r, abs
  <2>6. QED
    BY <2>4, <2>5 DEF DurationReadsBack, r, abs
<1>2. QED
  BY <1>1, TextsInvariance, PTL
===============================================================================
