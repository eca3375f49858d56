---------------------------- MODULE LayoutsProofs ----------------------------
(***************************************************************************)
(* What holds of Layouts for every number of tabs, listeners, names and    *)
(* layouts: the four invariants its run checks, by one inductive           *)
(* invariant in five parts.  And what holds of SettingsForm, for all       *)
(* profiles and options too: its three invariants, by a second inductive   *)
(* invariant in seven parts that rests on the first one's ModelInv.        *)
(***************************************************************************)
EXTENDS SettingsForm, FiniteSetTheorems, WellFoundedInduction, TLAPS

-------------------------------------------------------------------------------
(* The parts of the invariant *)

\* The types, apart: those of the model and those of everybody else.
ModelOK ==
  /\ name \in [Ids -> AllNames] /\ Ids \subseteq 1..(next - 1)
  /\ path \in [Ids -> AllNames \cup {Blank}]
  /\ next \in 1..(MaxId + 1) /\ files \subseteq AllNames
WidgetsOK ==
  /\ queue \in [Listeners -> Seq(Events)]
  /\ current \in [Tabs -> Nat] /\ shown \in [Tabs -> AllNames \cup {Blank}]
  /\ offered \in [Tabs -> SUBSET AllNames]
  /\ edit \in [Tabs -> {"hidden", "focused", "leaving"}]
  /\ missed \subseteq Tabs /\ alive \in BOOLEAN /\ orphaned \in BOOLEAN

\* The built-in layouts stay as they are, and names identify layouts.
NameInv ==
  /\ Builtin \subseteq Ids
  /\ \A i \in Builtin : name[i] = Defaults[i] /\ path[i] = Blank
  /\ \A i, j \in Ids : name[i] = name[j] => i = j

\* The other layouts have their name in their path, and the files are theirs.
FileInv ==
  /\ \A i \in Ids \ Builtin : path[i] = name[i]
  /\ \A n \in files : \E i \in Ids \ Builtin : name[i] = n

\* What a tab has selected was made before, and only an open tab is edited in.
CurrentInv ==
  \A t \in Tabs : current[t] < next /\ (edit[t] # "hidden" => current[t] # 0)

\* As long as nothing was removed that somebody meant, every reference is good.
OrphanInv ==
  orphaned \/
    /\ alive
    /\ \A t \in Tabs : current[t] = 0 \/ current[t] \in Ids
    /\ \A l \in Listeners : \A k \in 1..Len(queue[l]) :
         queue[l][k].type = "removed" \/ queue[l][k].item \in Ids

\* An event that will make the tab show its layout is on the way.
Coming(t) ==
  \E k \in 1..Len(queue[t]) :
    \/ queue[t][k].type = "changed"
    \/ queue[t][k].type = "added" /\ queue[t][k].item = current[t]
ShowInv ==
  \A t \in Tabs :
    current[t] \in Ids /\ edit[t] = "hidden" /\ t \notin missed =>
      shown[t] \in {name[current[t]], Blank} \/ Coming(t)

ModelInv == ModelOK /\ NameInv /\ FileInv
IInv == ModelInv /\ WidgetsOK /\ CurrentInv /\ OrphanInv /\ ShowInv

-------------------------------------------------------------------------------
(* The helpers of the model *)

\* Least finds the least element, as mLayouts is ordered by its ids.
LEMMA LeastOf ==
  ASSUME NEW S, S \subseteq Nat, S # {}
  PROVE  Least(S) \in S /\ \A j \in S : Least(S) <= j
<1>1. PICK x \in S : \A y \in S : ~(<<y, x>> \in OpToRel(<, Nat))
  BY NatLessThanWellFounded, WFMin, Zenon
<1>2. \A y \in S : x <= y
  <2>1. TAKE y \in S
  <2>2. ~(y < x)
    BY <1>1 DEF OpToRel
  <2>3. QED
    BY <2>2
<1>3. QED
  BY <1>2 DEF Least

\* findItemByName finds a layout of that name.
LEMMA FoundIt ==
  ASSUME ModelOK, NEW n \in Taken
  PROVE  Found(n) \in Ids /\ name[Found(n)] = n
<1> DEFINE S == {i \in Ids : name[i] = n}
<1>1. S \subseteq Nat /\ S # {}
  BY DEF ModelOK, Taken
<1>2. Least(S) \in S
  BY <1>1, LeastOf
<1>3. QED
  BY <1>2 DEF Found

\* The constants have their types.
LEMMA Constants ==
  /\ Len(Defaults) \in Nat /\ Len(Defaults) > 0 /\ 1 \in Builtin
  /\ \A i \in Builtin : Defaults[i] \in AllNames
  /\ \A k \in 1..Len(NewNames) : NewNames[k] \in AllNames /\ NewNames[k] \notin DefaultNames
  /\ MaxId \in Nat /\ Len(NewNames) \in Nat
BY LayoutsAssumption, SMTT(30) DEF LayoutsAssumption, Builtin, AllNames, NewNamesSet, DefaultNames

\* While another layout can be made, getUniqueName finds a name nobody has:
\* more names are tried than layouts can exist beside the built-in ones.
LEMMA UniqueName ==
  ASSUME ModelOK, NameInv, next <= MaxId
  PROVE  getUniqueName \in AllNames /\ getUniqueName \notin Taken
<1> DEFINE N == Len(NewNames)
           D == Len(Defaults)
           Rest == (D + 1)..(next - 1)
           Free == {k \in 1..N : NewNames[k] \notin Taken}
<1>1. N \in Nat /\ D \in Nat /\ next \in Nat /\ MaxId <= D + N /\ MaxId \in Nat
  BY LayoutsAssumption, Constants DEF LayoutsAssumption, ModelOK
<1>2. Free # {}
  <2> SUFFICES ASSUME \A k \in 1..N : NewNames[k] \in Taken PROVE FALSE
    OBVIOUS
  <2> DEFINE h == [k \in 1..N |-> CHOOSE i \in Ids : name[i] = NewNames[k]]
  <2>1. \A k \in 1..N : h[k] \in Ids /\ name[h[k]] = NewNames[k]
    BY DEF Taken
  <2>2. \A k \in 1..N : h[k] \in Rest
    <3>1. TAKE k \in 1..N
    <3>2. h[k] \notin Builtin
      BY <2>1, Constants DEF NameInv, DefaultNames
    <3>3. h[k] \in 1..(next - 1)
      BY <2>1 DEF ModelOK
    <3> HIDE DEF h
    <3>4. QED
      BY <3>2, <3>3, <1>1 DEF Builtin
  <2>3. h \in Injection(1..N, Rest)
    <3>1. \A i, j \in 1..N : h[i] = h[j] => i = j
      BY <2>1, LayoutsAssumption DEF LayoutsAssumption
    <3>2. h \in [1..N -> Rest]
      BY <2>2
    <3> HIDE DEF h
    <3>3. QED
      BY <3>1, <3>2 DEF Injection, IsInjective
  <2>4. Cardinality(1..N) = N
    <3>1. 1 \in Int /\ N \in Int
      BY <1>1
    <3>2. Cardinality(1..N) = IF 1 > N THEN 0 ELSE N - 1 + 1
      BY <3>1, FS_Interval, Zenon
    <3>3. QED
      BY <3>2, <1>1
  <2>5. IsFiniteSet(Rest) /\ Cardinality(Rest) = IF D + 1 > next - 1 THEN 0 ELSE (next - 1) - (D + 1) + 1
    <3>1. D + 1 \in Int /\ next - 1 \in Int
      BY <1>1
    <3>2. QED
      BY <3>1, FS_Interval, Zenon
  <2>6. Cardinality(1..N) <= Cardinality(Rest)
    BY <2>3, <2>5, FS_Injection
  <2>7. D < next /\ D > 0
    <3>1. D \in Ids
      BY Constants DEF NameInv, Builtin
    <3>2. QED
      BY <3>1, <1>1, Constants DEF ModelOK
  <2>8. QED
    BY <2>4, <2>5, <2>6, <2>7, <1>1
<1>3. Free \subseteq Nat
  BY <1>1
<1>4. Least(Free) \in Free
  BY <1>2, <1>3, LeastOf
<1>5. QED
  BY <1>4, Constants DEF getUniqueName

-------------------------------------------------------------------------------
(* The model: mLayouts and its directory *)

\* create
LEMMA CreateKeeps ==
  ASSUME ModelInv, next <= MaxId, NEW saved \in BOOLEAN, create(saved)
  PROVE  /\ ModelInv'
         /\ Ids' = Ids \cup {next} /\ next \notin Ids /\ next \in Nat \ {0}
         /\ next' = next + 1
         /\ \A i \in Ids : name'[i] = name[i]
<1> DEFINE n == getUniqueName
<1>1. n \in AllNames /\ n \notin Taken
  BY UniqueName DEF ModelInv
<1> HIDE DEF n
<1>2. next \in Nat \ {0} /\ MaxId \in Nat /\ next' = next + 1
  BY Constants DEF ModelInv, ModelOK, create
<1>3. /\ name' = [i \in Ids \cup {next} |-> IF i = next THEN n ELSE name[i]]
      /\ path' = [i \in Ids \cup {next} |-> IF i = next THEN n ELSE path[i]]
      /\ files' = (IF saved THEN files \cup {n} ELSE files)
  BY DEF create, n
<1>4. Ids' = Ids \cup {next}
  BY <1>3 DEF Ids
<1>5. next \notin Ids /\ Ids \subseteq 1..(next - 1)
  BY <1>2 DEF ModelInv, ModelOK
<1>6. ModelOK'
  <2>1. Ids' \subseteq 1..(next' - 1)
    BY <1>2, <1>4, <1>5
  <2>2. next' \in 1..(MaxId + 1)
    BY <1>2
  <2>3. name' \in [Ids' -> AllNames] /\ path' \in [Ids' -> AllNames \cup {Blank}]
    BY <1>1, <1>3, <1>4 DEF ModelInv, ModelOK
  <2>4. files' \subseteq AllNames
    BY <1>1, <1>3 DEF ModelInv, ModelOK
  <2>5. QED
    BY <2>1, <2>2, <2>3, <2>4 DEF ModelOK
<1>7. NameInv'
  <2>1. Builtin \subseteq Ids
    BY DEF ModelInv, NameInv
  <2>2. \A i \in Builtin : name'[i] = Defaults[i] /\ path'[i] = Blank
    BY <2>1, <1>3, <1>5 DEF ModelInv, NameInv
  <2>3. \A i, j \in Ids' : name'[i] = name'[j] => i = j
    BY <1>1, <1>3, <1>4, <1>5 DEF ModelInv, NameInv, Taken
  <2>4. QED
    BY <2>1, <2>2, <2>3, <1>4 DEF NameInv
<1>8. FileInv'
  <2>1. next \notin Builtin
    BY <1>5 DEF ModelInv, NameInv
  <2>2. QED
    BY <2>1, <1>3, <1>4, <1>5 DEF ModelInv, FileInv
<1>9. \A i \in Ids : name'[i] = name[i]
  BY <1>3, <1>5
<1>10. QED
  BY <1>2, <1>4, <1>5, <1>6, <1>7, <1>8, <1>9 DEF ModelInv

\* SetValue: its file is there, so the layout is not built in.
LEMMA SetValueKeeps ==
  ASSUME ModelInv, NEW i, NEW v \in AllNames, SetValue(i, v)
  PROVE  ModelInv' /\ Ids' = Ids /\ next' = next /\ i \in Ids
<1>1. /\ name' = [name EXCEPT ![i] = v] /\ path' = [path EXCEPT ![i] = v]
      /\ files' = (files \ {path[i]}) \cup {v} /\ next' = next
      /\ i \in Ids /\ v \notin Taken /\ path[i] \in files
  BY DEF SetValue
<1>2. Ids' = Ids
  BY <1>1 DEF Ids
<1>3. i \in Ids \ Builtin
  BY <1>1, LayoutsAssumption DEF ModelInv, ModelOK, NameInv, LayoutsAssumption
<1>4. ModelOK'
  BY <1>1, <1>2 DEF ModelInv, ModelOK
<1>5. NameInv'
  <2>1. \A j \in Ids : name'[j] = (IF j = i THEN v ELSE name[j])
    BY <1>1 DEF ModelInv, ModelOK
  <2>2. \A j \in Ids : path'[j] = (IF j = i THEN v ELSE path[j])
    BY <1>1 DEF ModelInv, ModelOK
  <2>3. \A j, k \in Ids' : name'[j] = name'[k] => j = k
    BY <2>1, <1>1, <1>2 DEF ModelInv, NameInv, Taken
  <2>4. QED
    BY <2>1, <2>2, <2>3, <1>2, <1>3 DEF ModelInv, NameInv
<1>6. FileInv'
  <2>1. \A j \in Ids : name'[j] = (IF j = i THEN v ELSE name[j])
    BY <1>1 DEF ModelInv, ModelOK
  <2>2. \A j \in Ids : path'[j] = (IF j = i THEN v ELSE path[j])
    BY <1>1 DEF ModelInv, ModelOK
  <2>3. \A n \in files' : \E j \in Ids \ Builtin : name'[j] = n
    <3>1. TAKE n \in files'
    <3>2. CASE n = v
      BY <3>2, <2>1, <1>3
    <3>3. CASE n # v
      <4>1. n \in files /\ n # path[i]
        BY <3>3, <1>1
      <4>2. PICK j \in Ids \ Builtin : name[j] = n
        BY <4>1 DEF ModelInv, FileInv
      <4>3. j # i
        BY <4>1, <4>2, <1>3 DEF ModelInv, FileInv
      <4>4. QED
        BY <4>2, <4>3, <2>1
    <3>4. QED
      BY <3>2, <3>3
  <2>4. QED
    BY <2>1, <2>2, <2>3, <1>2 DEF ModelInv, FileInv
<1>7. QED
  BY <1>1, <1>2, <1>4, <1>5, <1>6 DEF ModelInv

\* remove
LEMMA RemoveKeeps ==
  ASSUME ModelInv, NEW i \in Ids, isDeletable(i), NEW used, remove(i, used)
  PROVE  /\ ModelInv' /\ Ids' = Ids \ {i} /\ next' = next
         /\ \A j \in Ids' : name'[j] = name[j]
<1>1. /\ name' = [j \in Ids \ {i} |-> name[j]] /\ path' = [j \in Ids \ {i} |-> path[j]]
      /\ files' = files \ {path[i]} /\ next' = next
  BY DEF remove
<1>2. Ids' = Ids \ {i}
  BY <1>1 DEF Ids
<1>3. i \notin Builtin
  BY Constants DEF isDeletable, Builtin
<1>4. ModelOK'
  BY <1>1, <1>2 DEF ModelInv, ModelOK
<1>5. NameInv'
  BY <1>1, <1>2, <1>3 DEF ModelInv, NameInv
<1>6. FileInv'
  BY <1>1, <1>2, <1>3 DEF ModelInv, FileInv
<1>7. QED
  BY <1>1, <1>2, <1>4, <1>5, <1>6 DEF ModelInv

\* The model is left as it is.
LEMMA SameModel ==
  ASSUME ModelInv, UNCHANGED model
  PROVE  ModelInv' /\ Ids' = Ids /\ name' = name /\ next' = next
BY DEF ModelInv, ModelOK, NameInv, FileInv, model, Ids

-------------------------------------------------------------------------------
(* The queues of the notifiers *)

\* A notification leaves what is queued, and puts the event behind it for every
\* tab that is open.
LEMMA NotifiedIs ==
  ASSUME WidgetsOK, NEW type \in EventTypes, NEW i \in Nat,
         queue' = Notified(type, i)
  PROVE  /\ queue' \in [Listeners -> Seq(Events)]
         /\ \A l \in Listeners :
              /\ \A k \in 1..Len(queue[l]) : k \in 1..Len(queue'[l]) /\ queue'[l][k] = queue[l][k]
              /\ \A k \in 1..Len(queue'[l]) :
                   \/ k \in 1..Len(queue[l]) /\ queue'[l][k] = queue[l][k]
                   \/ /\ queue'[l][k].type = type
                      /\ queue'[l][k].item = IF type = "removed" THEN 0 ELSE i
              /\ l \in Open =>
                   \E k \in 1..Len(queue'[l]) :
                     /\ queue'[l][k].type = type
                     /\ queue'[l][k].item = IF type = "removed" THEN 0 ELSE i
<1> DEFINE event == [type |-> type, item |-> IF type = "removed" THEN 0 ELSE i]
<1>1. event \in Events
  BY DEF Events
<1>2. \A l \in Listeners :
        queue'[l] = IF l \in Tabs \ Open \/ (l \in Deaf /\ type = "added")
                    THEN queue[l] ELSE Append(queue[l], event)
  BY DEF Notified
<1>3. \A l \in Listeners : queue[l] \in Seq(Events)
  BY DEF WidgetsOK
<1>4. event.type = type /\ event.item = IF type = "removed" THEN 0 ELSE i
  OBVIOUS
<1> HIDE DEF event
<1>5. ASSUME NEW l \in Listeners PROVE queue'[l] \in Seq(Events)
  <2>1. Append(queue[l], event) \in Seq(Events)
    BY <1>1, <1>3
  <2>2. QED
    BY <2>1, <1>2, <1>3
<1>6. queue' \in [Listeners -> Seq(Events)]
  <2>1. queue' = [l \in Listeners |-> queue'[l]]
    BY DEF Notified
  <2>2. QED
    BY <1>5, <2>1
<1>7. ASSUME NEW l \in Listeners
      PROVE  /\ \A k \in 1..Len(queue[l]) : k \in 1..Len(queue'[l]) /\ queue'[l][k] = queue[l][k]
             /\ \A k \in 1..Len(queue'[l]) :
                  (k \in 1..Len(queue[l]) /\ queue'[l][k] = queue[l][k]) \/ queue'[l][k] = event
             /\ l \in Open => \E k \in 1..Len(queue'[l]) : queue'[l][k] = event
  <2>1. CASE l \in Tabs \ Open \/ (l \in Deaf /\ type = "added")
    <3>1. queue'[l] = queue[l]
      BY <2>1, <1>2
    <3>2. l \notin Open
      BY <2>1, LayoutsAssumption DEF LayoutsAssumption, Open
    <3>3. QED
      BY <3>1, <3>2
  <2>2. CASE ~(l \in Tabs \ Open \/ (l \in Deaf /\ type = "added"))
    <3>1. queue'[l] = Append(queue[l], event) /\ queue[l] \in Seq(Events)
      BY <2>2, <1>2, <1>3
    <3>2. /\ Len(queue[l]) \in Nat /\ Len(queue'[l]) = Len(queue[l]) + 1
          /\ queue'[l][Len(queue[l]) + 1] = event
          /\ \A k \in 1..Len(queue[l]) : queue'[l][k] = queue[l][k]
      BY <3>1, <1>1
    <3>3. QED
      BY <3>2
  <2>3. QED
    BY <2>1, <2>2
<1>8. QED
  BY <1>4, <1>6, <1>7

\* Handling an event takes the first one of one queue.
LEMMA HandlesIs ==
  ASSUME WidgetsOK, NEW l \in Listeners, NEW type, Handles(l, type)
  PROVE  /\ queue' \in [Listeners -> Seq(Events)]
         /\ 1 \in 1..Len(queue[l]) /\ queue[l][1].type = type /\ Head(queue[l]) = queue[l][1]
         /\ \A k \in 2..Len(queue[l]) : k - 1 \in 1..Len(queue'[l]) /\ queue'[l][k - 1] = queue[l][k]
         /\ \A k \in 1..Len(queue'[l]) : k + 1 \in 1..Len(queue[l]) /\ queue'[l][k] = queue[l][k + 1]
         /\ \A m \in Listeners \ {l} : queue'[m] = queue[m]
<1>1. queue[l] \in Seq(Events) /\ queue[l] # <<>>
  BY DEF WidgetsOK, Handles
<1>2. queue'[l] = Tail(queue[l]) /\ Head(queue[l]).type = type
      /\ \A m \in Listeners \ {l} : queue'[m] = queue[m]
  BY DEF WidgetsOK, Handles
<1>3. /\ Len(queue[l]) \in Nat /\ Len(queue[l]) >= 1 /\ Head(queue[l]) = queue[l][1]
      /\ Tail(queue[l]) \in Seq(Events) /\ Len(Tail(queue[l])) = Len(queue[l]) - 1
      /\ \A k \in 1..(Len(queue[l]) - 1) : Tail(queue[l])[k] = queue[l][k + 1]
  BY <1>1
<1>4. queue' \in [Listeners -> Seq(Events)]
  BY <1>2, <1>3 DEF WidgetsOK, Handles
<1>5. /\ \A k \in 2..Len(queue[l]) : k - 1 \in 1..Len(queue'[l]) /\ queue'[l][k - 1] = queue[l][k]
      /\ \A k \in 1..Len(queue'[l]) : k + 1 \in 1..Len(queue[l]) /\ queue'[l][k] = queue[l][k + 1]
  <2>1. \A k \in 2..Len(queue[l]) : k - 1 \in 1..(Len(queue[l]) - 1) /\ (k - 1) + 1 = k
    BY <1>3
  <2>2. \A k \in 1..(Len(queue[l]) - 1) : k + 1 \in 1..Len(queue[l])
    BY <1>3
  <2>3. QED
    BY <1>2, <1>3, <2>1, <2>2
<1>6. QED
  BY <1>2, <1>3, <1>4, <1>5

-------------------------------------------------------------------------------
(* The actions of a tab *)

\* A tab gets one layout selected, or none, and shows its name or is closed; or
\* it shows something else and remembers that its user missed.
LEMMA OneTabKeeps ==
  ASSUME IInv, UNCHANGED <<model, orphaned>>, alive' = alive,
         queue' \in [Listeners -> Seq(Events)],
         \A l \in Listeners : queue'[l] = queue[l] \/ queue'[l] = <<>>,
         NEW t \in Tabs, \A u \in Tabs \ {t} : queue'[u] = queue[u],
         NEW c \in Ids \cup {0, current[t]}, NEW n \in AllNames \cup {Blank},
         current' = [current EXCEPT ![t] = c], shown' = [shown EXCEPT ![t] = n],
         offered' \in [Tabs -> SUBSET AllNames],
         edit' \in [Tabs -> {"hidden", "focused", "leaving"}],
         edit'[t] = "hidden" \/ c # 0,
         \A u \in Tabs \ {t} : edit'[u] = edit[u],
         missed' \subseteq Tabs, \A u \in Tabs \ {t} : u \in missed' <=> u \in missed,
         c \in Ids => n = name[c] \/ t \in missed' \/ edit'[t] # "hidden"
  PROVE  IInv'
<1>1. ModelInv' /\ Ids' = Ids /\ name' = name /\ next' = next
  BY SameModel DEF IInv
<1>2. WidgetsOK'
  <2>1. c \in Nat
    BY DEF IInv, ModelInv, ModelOK, WidgetsOK
  <2>2. QED
    BY <2>1 DEF IInv, WidgetsOK
<1>3. CurrentInv'
  <2>1. c < next /\ next \in Nat
    BY DEF IInv, ModelInv, ModelOK, WidgetsOK, CurrentInv
  <2>2. \A u \in Tabs : current'[u] = IF u = t THEN c ELSE current[u]
    BY DEF IInv, WidgetsOK
  <2>3. QED
    BY <2>1, <2>2, <1>1 DEF IInv, CurrentInv
<1>4. OrphanInv'
  <2>1. \A u \in Tabs : current'[u] = IF u = t THEN c ELSE current[u]
    BY DEF IInv, WidgetsOK
  <2>2. \A l \in Listeners : \A k \in 1..Len(queue'[l]) :
          k \in 1..Len(queue[l]) /\ queue'[l][k] = queue[l][k]
    OBVIOUS
  <2>3. QED
    BY <2>1, <2>2, <1>1 DEF IInv, OrphanInv
<1>5. ShowInv'
  <2>1. \A u \in Tabs : /\ current'[u] = (IF u = t THEN c ELSE current[u])
                        /\ shown'[u] = (IF u = t THEN n ELSE shown[u])
    BY DEF IInv, WidgetsOK
  <2>2. \A u \in Tabs \ {t} : Coming(u) => Coming(u)'
    BY <2>1 DEF Coming
  <2>3. QED
    BY <2>1, <2>2, <1>1 DEF IInv, ShowInv
<1>6. QED
  BY <1>1, <1>2, <1>3, <1>4, <1>5 DEF IInv

\* The combo box offers names of the list.
LEMMA NamesTyped ==
  ASSUME IInv
  PROVE  /\ Taken \subseteq AllNames
         /\ \A i \in Ids : name[i] \in AllNames /\ i \in Nat \ {0}
         /\ 1 \in Ids
BY Constants DEF IInv, ModelInv, ModelOK, NameInv, Taken

LEMMA OpenTabKeeps ==
  ASSUME IInv, NEW t \in Tabs, NEW n \in AllNames, OpenTab(t, n)
  PROVE  IInv'
<1> DEFINE c == IF n \in Taken THEN Found(n) ELSE 1
           m == IF n \in Taken THEN n ELSE name[1]
<1>1. c \in Ids /\ m = name[c] /\ m \in AllNames
  BY FoundIt, NamesTyped DEF IInv, ModelInv
<1>2. current' = [current EXCEPT ![t] = c] /\ shown' = [shown EXCEPT ![t] = m]
  BY DEF OpenTab, Show
<1>3. edit[t] = "hidden"
  BY DEF OpenTab, Open, IInv, CurrentInv, WidgetsOK
<1> HIDE DEF c, m
<1>4. offered' \in [Tabs -> SUBSET AllNames]
  BY NamesTyped DEF OpenTab, Refill, IInv, WidgetsOK
<1>5. UNCHANGED <<model, orphaned, alive, queue, edit, missed>>
  BY DEF OpenTab
<1>6. QED
  BY <1>1, <1>2, <1>3, <1>4, <1>5, OneTabKeeps DEF IInv, WidgetsOK

LEMMA CloseTabKeeps ==
  ASSUME IInv, NEW t \in Tabs, CloseTab(t)
  PROVE  IInv'
<1>1. /\ current' = [current EXCEPT ![t] = 0] /\ shown' = [shown EXCEPT ![t] = Blank]
      /\ queue' = [queue EXCEPT ![t] = <<>>] /\ edit' = [edit EXCEPT ![t] = "hidden"]
      /\ offered' = [offered EXCEPT ![t] = {}] /\ missed' = missed \ {t}
      /\ UNCHANGED <<model, alive, orphaned>>
  BY DEF CloseTab, Show
<1>2. t \in Listeners /\ 0 \notin Ids /\ Tabs \subseteq Listeners
  BY NamesTyped DEF Listeners
<1>3. /\ queue' \in [Listeners -> Seq(Events)] /\ offered' \in [Tabs -> SUBSET AllNames]
      /\ edit' \in [Tabs -> {"hidden", "focused", "leaving"}] /\ edit'[t] = "hidden"
      /\ \A u \in Tabs \ {t} : edit'[u] = edit[u] /\ queue'[u] = queue[u]
      /\ \A l \in Listeners : queue'[l] = queue[l] \/ queue'[l] = <<>>
      /\ missed' \subseteq Tabs
  BY <1>1, <1>2 DEF IInv, WidgetsOK
<1>4. QED
  BY <1>1, <1>2, <1>3, OneTabKeeps

LEMMA LostFocusKeeps ==
  ASSUME IInv, NEW t \in Tabs, onLayoutEditLostFocus(t), current[t] \in Ids
  PROVE  IInv'
<1>1. /\ shown' = [shown EXCEPT ![t] = name[current[t]]]
      /\ edit' = [edit EXCEPT ![t] = "hidden"]
      /\ UNCHANGED <<model, queue, current, offered, missed, alive, orphaned>>
  BY DEF onLayoutEditLostFocus, Show
<1>2. name[current[t]] \in AllNames /\ current' = [current EXCEPT ![t] = current[t]]
  BY <1>1, NamesTyped DEF IInv, WidgetsOK
<1>3. QED
  BY <1>1, <1>2, OneTabKeeps DEF IInv, WidgetsOK

LEMMA LockedSelectedKeeps ==
  ASSUME IInv, NEW t \in Tabs, NEW n \in AllNames, onLayoutLockedSelected(t, n)
  PROVE  IInv'
<1> DEFINE c == IF n \in Taken THEN Found(n) ELSE current[t]
<1>1. /\ shown' = [shown EXCEPT ![t] = n] /\ edit[t] = "hidden"
      /\ missed' = (IF n \in Taken THEN missed ELSE missed \cup {t})
      /\ UNCHANGED <<model, queue, offered, edit, alive, orphaned>>
  BY DEF onLayoutLockedSelected, Show
<1>2. current' = [current EXCEPT ![t] = c]
  BY DEF onLayoutLockedSelected, IInv, WidgetsOK
<1>3. c \in Ids \cup {0, current[t]} /\ (n \in Taken => n = name[c])
  BY FoundIt DEF IInv, ModelInv
<1> HIDE DEF c
<1>4. QED
  BY <1>1, <1>2, <1>3, OneTabKeeps DEF IInv, WidgetsOK

LEMMA EditSelectedKeeps ==
  ASSUME IInv, NEW t \in Tabs, NEW n \in AllNames, onLayoutEditSelected(t, n)
  PROVE  IInv'
<1> DEFINE c == IF n \in Taken THEN Found(n) ELSE current[t]
<1>1. /\ edit[t] = "focused"
      /\ UNCHANGED <<model, queue, shown, offered, edit, missed, alive, orphaned>>
  BY DEF onLayoutEditSelected
<1>2. current' = [current EXCEPT ![t] = c]
  BY DEF onLayoutEditSelected, IInv, WidgetsOK
<1>3. c \in Ids \cup {0, current[t]} /\ c # 0
  BY FoundIt, NamesTyped, <1>1 DEF IInv, ModelInv, CurrentInv
<1> HIDE DEF c
<1>4. shown' = [shown EXCEPT ![t] = shown[t]] /\ shown[t] \in AllNames \cup {Blank}
  BY <1>1 DEF IInv, WidgetsOK
<1>5. QED
  BY <1>1, <1>2, <1>3, <1>4, OneTabKeeps DEF IInv, WidgetsOK

\* An exception leaves everything as it was; it takes a reference to a layout
\* that is gone.
LEMMA CrashKeeps ==
  ASSUME IInv, NEW t \in Tabs, current[t] # 0, current[t] \notin Ids, Crash
  PROVE  IInv'
<1>1. /\ alive' = FALSE /\ UNCHANGED <<model, queue, orphaned>>
      /\ UNCHANGED <<current, shown, offered, edit, missed>>
  BY DEF Crash, widgets
<1>2. ModelInv' /\ Ids' = Ids /\ name' = name /\ next' = next
  BY <1>1, SameModel DEF IInv
<1>3. WidgetsOK' /\ CurrentInv'
  BY <1>1, <1>2 DEF IInv, WidgetsOK, CurrentInv
<1>4. OrphanInv'
  BY <1>1 DEF IInv, OrphanInv
<1>5. ShowInv'
  BY <1>1, <1>2 DEF IInv, ShowInv, Coming
<1>6. QED
  BY <1>2, <1>3, <1>4, <1>5 DEF IInv

\* An addition, which names the layout.
LEMMA AddedIs ==
  ASSUME WidgetsOK, NEW i \in Nat, queue' = Notified("added", i)
  PROVE  /\ queue' \in [Listeners -> Seq(Events)]
         /\ \A l \in Listeners :
              /\ \A k \in 1..Len(queue[l]) : k \in 1..Len(queue'[l]) /\ queue'[l][k] = queue[l][k]
              /\ \A k \in 1..Len(queue'[l]) :
                   \/ k \in 1..Len(queue[l]) /\ queue'[l][k] = queue[l][k]
                   \/ queue'[l][k].type = "added" /\ queue'[l][k].item = i
              /\ l \in Open => \E k \in 1..Len(queue'[l]) :
                                 queue'[l][k].type = "added" /\ queue'[l][k].item = i
<1>1. "added" \in EventTypes
  BY DEF EventTypes
<1>2. (IF "added" = "removed" THEN 0 ELSE i) = i
  OBVIOUS
<1>3. QED
  BY <1>1, <1>2, NotifiedIs

\* A tab makes a layout and selects it, or somebody without a combo box does.
LEMMA MadeKeeps ==
  ASSUME IInv, next <= MaxId, NEW saved \in BOOLEAN, create(saved),
         NEW T \in SUBSET Open,
         current' = [t \in Tabs |-> IF t \in T THEN next ELSE current[t]],
         UNCHANGED <<shown, offered, edit, missed, alive, orphaned>>
  PROVE  IInv'
<1>1. /\ ModelInv' /\ Ids' = Ids \cup {next} /\ next \notin Ids /\ next \in Nat \ {0}
      /\ next' = next + 1 /\ \A i \in Ids : name'[i] = name[i]
  BY CreateKeeps DEF IInv
<1>2. queue' = Notified("added", next) /\ next \in Nat
  BY <1>1 DEF create
<1>3. /\ queue' \in [Listeners -> Seq(Events)]
      /\ \A l \in Listeners :
           /\ \A k \in 1..Len(queue[l]) : k \in 1..Len(queue'[l]) /\ queue'[l][k] = queue[l][k]
           /\ \A k \in 1..Len(queue'[l]) :
                \/ k \in 1..Len(queue[l]) /\ queue'[l][k] = queue[l][k]
                \/ queue'[l][k].type = "added" /\ queue'[l][k].item = next
           /\ l \in Open => \E k \in 1..Len(queue'[l]) :
                              queue'[l][k].type = "added" /\ queue'[l][k].item = next
  <2>1. WidgetsOK /\ "added" \in EventTypes /\ "added" # "removed"
    BY DEF IInv, EventTypes
  <2>2. QED
    BY <1>2, <2>1, AddedIs
<1>4. T \subseteq Tabs /\ Tabs \subseteq Listeners /\ T \subseteq Open
  BY DEF Open, Listeners
<1>5. WidgetsOK'
  BY <1>1, <1>3 DEF IInv, WidgetsOK
<1>6. CurrentInv'
  <2>1. \A t \in Tabs : current[t] \in Nat
    BY DEF IInv, WidgetsOK
  <2>2. QED
    BY <1>1, <2>1 DEF IInv, CurrentInv
<1>7. OrphanInv'
  BY <1>1, <1>3 DEF IInv, OrphanInv
<1>8. ShowInv'
  <2> SUFFICES ASSUME NEW t \in Tabs,
                      current'[t] \in Ids', edit'[t] = "hidden", t \notin missed'
               PROVE  shown'[t] \in {name'[current'[t]], Blank} \/ Coming(t)'
    BY DEF ShowInv
  <2>1. CASE t \in T
    BY <2>1, <1>3, <1>4 DEF Coming
  <2>2. CASE t \notin T
    <3>1. current'[t] = current[t] /\ current[t] # next
      BY <2>2, <1>1 DEF IInv, CurrentInv, WidgetsOK
    <3>2. current[t] \in Ids /\ name'[current[t]] = name[current[t]]
      BY <3>1, <1>1
    <3>3. Coming(t) => Coming(t)'
      BY <3>1, <1>3, <1>4 DEF Coming
    <3>4. QED
      BY <3>1, <3>2, <3>3 DEF IInv, ShowInv
  <2>3. QED
    BY <2>1, <2>2
<1>9. QED
  BY <1>1, <1>5, <1>6, <1>7, <1>8 DEF IInv

\* A rename tells every open tab; a tab that did it itself stays in the edit box.
LEMMA RenamedKeeps ==
  ASSUME IInv, NEW i \in Ids, NEW v \in AllNames, SetValue(i, v),
         UNCHANGED <<current, offered, missed, alive, orphaned>>,
         shown' \in [Tabs -> AllNames \cup {Blank}],
         edit' \in [Tabs -> {"hidden", "focused", "leaving"}],
         \A t \in Tabs : edit'[t] # "hidden" => edit[t] # "hidden"
  PROVE  IInv'
<1>1. ModelInv' /\ Ids' = Ids /\ next' = next
  BY SetValueKeeps DEF IInv
<1>2. queue' = Notified("changed", i) /\ i \in Nat
  BY NamesTyped DEF SetValue
<1>3. /\ queue' \in [Listeners -> Seq(Events)]
      /\ \A l \in Listeners :
           /\ \A k \in 1..Len(queue'[l]) :
                \/ k \in 1..Len(queue[l]) /\ queue'[l][k] = queue[l][k]
                \/ queue'[l][k].type = "changed" /\ queue'[l][k].item = i
           /\ l \in Open => \E k \in 1..Len(queue'[l]) : queue'[l][k].type = "changed"
  BY <1>2, NotifiedIs DEF IInv, EventTypes
<1>4. WidgetsOK'
  BY <1>1, <1>3 DEF IInv, WidgetsOK
<1>5. CurrentInv'
  BY <1>1 DEF IInv, CurrentInv
<1>6. OrphanInv'
  BY <1>1, <1>3 DEF IInv, OrphanInv
<1>7. ShowInv'
  <2>1. \A t \in Tabs : current'[t] \in Ids => t \in Open
    BY NamesTyped DEF Open
  <2>2. QED
    BY <2>1, <1>1, <1>3 DEF ShowInv, Coming, Listeners
<1>8. QED
  BY <1>1, <1>4, <1>5, <1>6, <1>7 DEF IInv

LEMMA SaveClickedKeeps ==
  ASSUME IInv, NEW t \in Tabs, onLayoutSaveClicked(t)
  PROVE  IInv'
<1>1. t \in Open /\ next <= MaxId /\ current' = [current EXCEPT ![t] = next]
      /\ UNCHANGED <<shown, offered, edit, missed, alive, orphaned>>
  BY DEF onLayoutSaveClicked
<1>2. PICK saved \in BOOLEAN : create(saved)
  BY DEF onLayoutSaveClicked
<1>3. current' = [u \in Tabs |-> IF u \in {t} THEN next ELSE current[u]]
  BY <1>1 DEF IInv, WidgetsOK
<1>4. {t} \in SUBSET Open
  BY <1>1
<1>5. QED
  BY <1>1, <1>2, <1>3, <1>4, MadeKeeps

LEMMA EditEnterKeeps ==
  ASSUME IInv, NEW t \in Tabs, NEW v \in AllNames, onLayoutEditEnter(t, v)
  PROVE  IInv'
<1>1. edit[t] = "focused" /\ current[t] # 0
  BY DEF onLayoutEditEnter, IInv, CurrentInv
<1>2. CASE current[t] \notin Ids
  BY <1>1, <1>2, CrashKeeps DEF onLayoutEditEnter
<1>3. CASE current[t] \in Ids
  <2>1. /\ shown' = [shown EXCEPT ![t] = v] /\ edit' = [edit EXCEPT ![t] = "leaving"]
        /\ UNCHANGED <<current, offered, missed, alive, orphaned>>
    BY <1>1, <1>3 DEF onLayoutEditEnter, Show, Hide, IInv, WidgetsOK
  <2>2. shown' \in [Tabs -> AllNames \cup {Blank}]
        /\ edit' \in [Tabs -> {"hidden", "focused", "leaving"}]
    BY <2>1 DEF IInv, WidgetsOK
  <2>3. CASE SetValue(current[t], v)
    <3>1. \A u \in Tabs : edit'[u] # "hidden" => edit[u] # "hidden"
      BY <1>1, <2>1 DEF IInv, WidgetsOK
    <3>2. QED
      BY <1>3, <2>1, <2>2, <2>3, <3>1, RenamedKeeps
  <2>4. CASE UNCHANGED <<model, queue>>
    <3>1. current' = [current EXCEPT ![t] = current[t]]
      BY <2>1 DEF IInv, WidgetsOK
    <3>2. edit'[t] = "leaving" /\ \A u \in Tabs \ {t} : edit'[u] = edit[u]
      BY <2>1 DEF IInv, WidgetsOK
    <3>3. QED
      BY <1>1, <1>3, <2>1, <2>2, <2>4, <3>1, <3>2, OneTabKeeps DEF IInv, WidgetsOK
  <2>5. QED
    BY <1>3, <2>3, <2>4 DEF onLayoutEditEnter
<1>4. QED
  BY <1>2, <1>3

\* A tab hears of a change.  What it shows from then on is its layout, or it
\* shows what it showed, or it is edited in, or its layout is gone.
LEMMA HeardKeeps ==
  ASSUME IInv, NEW t \in Tabs, NEW type \in EventTypes, t \in Open, Handles(t, type),
         UNCHANGED <<model, current, missed, orphaned>>,
         alive' \in BOOLEAN, orphaned \/ alive' = alive,
         shown' \in [Tabs -> AllNames \cup {Blank}],
         offered' \in [Tabs -> SUBSET AllNames],
         edit' \in [Tabs -> {"hidden", "focused", "leaving"}],
         \A u \in Tabs \ {t} : shown'[u] = shown[u] /\ edit'[u] = edit[u],
         \/ edit'[t] # "hidden" \/ current[t] \notin Ids \/ shown'[t] = name[current[t]]
         \/ /\ edit'[t] = edit[t] /\ shown'[t] = IfListed(shown[t])
            /\ type # "changed" /\ (type = "added" => Head(queue[t]).item # current[t])
  PROVE  IInv'
<1>1. ModelInv' /\ Ids' = Ids /\ name' = name /\ next' = next
  BY SameModel DEF IInv
<1>2. t \in Listeners /\ Tabs \subseteq Listeners
  BY DEF Listeners
<1>3. /\ queue' \in [Listeners -> Seq(Events)]
      /\ 1 \in 1..Len(queue[t]) /\ queue[t][1].type = type /\ Head(queue[t]) = queue[t][1]
      /\ \A k \in 2..Len(queue[t]) : k - 1 \in 1..Len(queue'[t]) /\ queue'[t][k - 1] = queue[t][k]
      /\ \A k \in 1..Len(queue'[t]) : k + 1 \in 1..Len(queue[t]) /\ queue'[t][k] = queue[t][k + 1]
      /\ \A m \in Listeners \ {t} : queue'[m] = queue[m]
  BY <1>2, HandlesIs DEF IInv
<1>4. WidgetsOK'
  BY <1>3 DEF IInv, WidgetsOK
<1>5. CurrentInv'
  BY <1>1 DEF IInv, CurrentInv, Open
<1>6. OrphanInv'
  <2>1. CASE orphaned
    BY <2>1 DEF OrphanInv
  <2>2. CASE ~orphaned
    <3>1. \A l \in Listeners : \A k \in 1..Len(queue'[l]) :
            \E j \in 1..Len(queue[l]) : queue'[l][k] = queue[l][j]
      BY <1>3
    <3>2. alive' /\ UNCHANGED current
      BY <2>2 DEF IInv, OrphanInv
    <3>3. QED
      BY <2>2, <3>1, <3>2, <1>1 DEF IInv, OrphanInv
  <2>3. QED
    BY <2>1, <2>2
<1>7. ShowInv'
  <2>1. \A u \in Tabs \ {t} : Coming(u) => Coming(u)'
    BY <1>2, <1>3 DEF Coming
  <2>2. CASE edit'[t] # "hidden" \/ current[t] \notin Ids \/ shown'[t] = name[current[t]]
    BY <2>1, <2>2, <1>1 DEF IInv, ShowInv
  <2>3. CASE /\ edit'[t] = edit[t] /\ shown'[t] = IfListed(shown[t])
             /\ type # "changed" /\ (type = "added" => Head(queue[t]).item # current[t])
    <3>1. Coming(t) => Coming(t)'
      <4> SUFFICES ASSUME NEW k \in 1..Len(queue[t]),
                          \/ queue[t][k].type = "changed"
                          \/ queue[t][k].type = "added" /\ queue[t][k].item = current[t]
                   PROVE  Coming(t)'
        BY DEF Coming
      <4>1. k # 1
        BY <2>3, <1>3
      <4>2. k - 1 \in 1..Len(queue'[t]) /\ queue'[t][k - 1] = queue[t][k]
        <5>1. k \in 2..Len(queue[t])
          BY <4>1
        <5>2. QED
          BY <5>1, <1>3
      <4>3. current' = current
        OBVIOUS
      <4>4. QED
        BY <4>2, <4>3 DEF Coming
    <3>2. /\ current[t] \in Ids => IfListed(name[current[t]]) = name[current[t]]
          /\ IfListed(Blank) = Blank
      BY DEF IfListed, Taken
    <3>3. ASSUME NEW u \in Tabs,
                 current'[u] \in Ids', edit'[u] = "hidden", u \notin missed'
          PROVE  shown'[u] \in {name'[current'[u]], Blank} \/ Coming(u)'
      <4>1. CASE u = t
        <5>1. current[t] \in Ids /\ edit[t] = "hidden" /\ t \notin missed
          BY <3>3, <4>1, <2>3, <1>1
        <5>2. shown[t] \in {name[current[t]], Blank} \/ Coming(t)
          BY <5>1 DEF IInv, ShowInv
        <5>3. shown[t] \in {name[current[t]], Blank} =>
                shown'[t] \in {name[current[t]], Blank}
          BY <5>1, <2>3, <3>2
        <5>4. QED
          BY <4>1, <5>2, <5>3, <3>1, <1>1
      <4>2. CASE u # t
        BY <3>3, <4>2, <2>1, <1>1 DEF IInv, ShowInv
      <4>3. QED
        BY <4>1, <4>2
    <3>4. QED
      BY <3>3 DEF ShowInv
  <2>4. QED
    BY <2>2, <2>3
<1>8. QED
  BY <1>1, <1>4, <1>5, <1>6, <1>7 DEF IInv

\* resize, and a new text for the combo box, keep the types and other tabs.
LEMMA HideIs ==
  ASSUME IInv, NEW t \in Tabs, Hide(t)
  PROVE  /\ edit' \in [Tabs -> {"hidden", "focused", "leaving"}]
         /\ \A u \in Tabs \ {t} : edit'[u] = edit[u]
         /\ edit'[t] # "hidden" \/ edit'[t] = edit[t]
BY DEF Hide, IInv, WidgetsOK

LEMMA ShowIs ==
  ASSUME IInv, NEW t \in Tabs, NEW n \in AllNames \cup {Blank}, Show(t, n)
  PROVE  /\ shown' \in [Tabs -> AllNames \cup {Blank}] /\ shown'[t] = n
         /\ \A u \in Tabs \ {t} : shown'[u] = shown[u]
BY DEF Show, IInv, WidgetsOK

LEMMA RefillIs ==
  ASSUME IInv, NEW t \in Tabs, Refill(t)
  PROVE  offered' \in [Tabs -> SUBSET AllNames]
BY NamesTyped DEF Refill, IInv, WidgetsOK

\* A tab that follows a reference to a layout that is gone ends the program.
LEMMA DangleKeeps ==
  ASSUME IInv, NEW t \in Tabs, NEW type \in EventTypes, t \in Open, Handles(t, type),
         \/ current[t] \notin Ids
         \/ Head(queue[t]).item \notin Ids /\ type = "added",
         alive' = FALSE, UNCHANGED <<model, widgets, orphaned>>
  PROVE  IInv'
<1>1. t \in Listeners /\ current[t] # 0
  BY DEF Listeners, Open
<1>2. 1 \in 1..Len(queue[t]) /\ queue[t][1].type = type /\ Head(queue[t]) = queue[t][1]
  BY <1>1, HandlesIs DEF IInv
<1>3. orphaned
  BY <1>1, <1>2 DEF IInv, OrphanInv
<1>4. IfListed(shown[t]) \in {shown[t], Blank} /\ UNCHANGED <<current, shown, offered, edit, missed>>
  BY DEF IfListed, widgets
<1>5. ModelInv' /\ Ids' = Ids /\ name' = name /\ next' = next
  BY SameModel DEF IInv
<1>6. /\ queue' \in [Listeners -> Seq(Events)]
      /\ \A k \in 2..Len(queue[t]) : k - 1 \in 1..Len(queue'[t]) /\ queue'[t][k - 1] = queue[t][k]
      /\ \A m \in Listeners \ {t} : queue'[m] = queue[m]
  BY <1>1, HandlesIs DEF IInv
<1>7. WidgetsOK' /\ CurrentInv' /\ OrphanInv'
  BY <1>3, <1>4, <1>5, <1>6 DEF IInv, WidgetsOK, CurrentInv, OrphanInv
<1>8. ShowInv'
  <2>1. \A u \in Tabs : current[u] \in Ids /\ Coming(u) => Coming(u)'
    <3> SUFFICES ASSUME NEW u \in Tabs, current[u] \in Ids, NEW k \in 1..Len(queue[u]),
                        \/ queue[u][k].type = "changed"
                        \/ queue[u][k].type = "added" /\ queue[u][k].item = current[u]
                 PROVE  Coming(u)'
      BY DEF Coming
    <3>1. CASE u # t
      BY <3>1, <1>4, <1>6 DEF Coming, Listeners
    <3>2. CASE u = t
      <4>1. k # 1
        BY <3>2, <1>2
      <4>2. k \in 2..Len(queue[t])
        BY <4>1, <3>2
      <4>3. QED
        BY <4>2, <3>2, <1>4, <1>6 DEF Coming
    <3>3. QED
      BY <3>1, <3>2
  <2>2. QED
    BY <2>1, <1>4, <1>5 DEF IInv, ShowInv
<1>9. QED
  BY <1>5, <1>7, <1>8 DEF IInv

LEMMA AddedKeeps ==
  ASSUME IInv, NEW t \in Tabs, onLayoutAdded(t)
  PROVE  IInv'
<1> DEFINE i == Head(queue[t]).item
<1>1. t \in Open /\ Handles(t, "added") /\ UNCHANGED <<model, orphaned>> /\ "added" \in EventTypes
  BY DEF onLayoutAdded, EventTypes
<1>2. CASE i \notin Ids
  <2>1. alive' = FALSE /\ UNCHANGED widgets
    BY <1>2 DEF onLayoutAdded
  <2>2. QED
    BY <1>1, <1>2, <2>1, DangleKeeps
<1>3. CASE i \in Ids
  <2>1. Refill(t) /\ UNCHANGED <<current, missed, alive>>
    BY <1>3 DEF onLayoutAdded
  <2>2. alive' \in BOOLEAN /\ offered' \in [Tabs -> SUBSET AllNames]
    BY <2>1, RefillIs DEF IInv, WidgetsOK
  <2>3. CASE i = current[t]
    <3>1. Show(t, name[i]) /\ edit' = [edit EXCEPT ![t] = "focused"] /\ name[i] \in AllNames
      BY <1>3, <2>3, NamesTyped DEF onLayoutAdded
    <3>2. /\ edit' \in [Tabs -> {"hidden", "focused", "leaving"}] /\ edit'[t] = "focused"
          /\ \A u \in Tabs \ {t} : edit'[u] = edit[u]
      BY <3>1 DEF IInv, WidgetsOK
    <3> HIDE DEF i
    <3>3. /\ shown' \in [Tabs -> AllNames \cup {Blank}]
          /\ \A u \in Tabs \ {t} : shown'[u] = shown[u]
      BY <3>1, ShowIs
    <3>4. QED
      BY <1>1, <2>1, <2>2, <3>2, <3>3, HeardKeeps
  <2>4. CASE i # current[t]
    <3>1. Show(t, IfListed(shown[t])) /\ Hide(t)
      BY <1>3, <2>4 DEF onLayoutAdded
    <3>2. IfListed(shown[t]) \in AllNames \cup {Blank}
      BY DEF IfListed, IInv, WidgetsOK
    <3>3. QED
      BY <1>1, <2>1, <2>2, <2>4, <3>1, <3>2, HideIs, ShowIs, HeardKeeps
  <2>5. QED
    BY <2>3, <2>4
<1>4. QED
  BY <1>2, <1>3

LEMMA RemovedKeeps ==
  ASSUME IInv, NEW t \in Tabs, onLayoutRemoved(t)
  PROVE  IInv'
<1>1. /\ t \in Open /\ Handles(t, "removed") /\ "removed" \in EventTypes
      /\ Show(t, IfListed(shown[t])) /\ Hide(t) /\ Refill(t)
      /\ UNCHANGED <<model, current, missed, alive, orphaned>>
  BY DEF onLayoutRemoved, EventTypes
<1>2. IfListed(shown[t]) \in AllNames \cup {Blank} /\ alive' \in BOOLEAN
  BY <1>1 DEF IfListed, IInv, WidgetsOK
<1>3. QED
  BY <1>1, <1>2, HideIs, ShowIs, RefillIs, HeardKeeps

LEMMA ChangedKeeps ==
  ASSUME IInv, NEW t \in Tabs, onLayoutChanged(t)
  PROVE  IInv'
<1>1. t \in Open /\ Handles(t, "changed") /\ UNCHANGED <<model, orphaned>> /\ "changed" \in EventTypes
  BY DEF onLayoutChanged, EventTypes
<1>2. CASE current[t] \notin Ids
  <2>1. alive' = FALSE /\ UNCHANGED widgets
    BY <1>2 DEF onLayoutChanged
  <2>2. QED
    BY <1>1, <1>2, <2>1, DangleKeeps
<1>3. CASE current[t] \in Ids
  <2>1. /\ Show(t, name[current[t]]) /\ Hide(t) /\ Refill(t) /\ UNCHANGED <<current, missed, alive>>
        /\ name[current[t]] \in AllNames \cup {Blank}
    BY <1>3, NamesTyped DEF onLayoutChanged
  <2>2. alive' \in BOOLEAN
    BY <2>1 DEF IInv, WidgetsOK
  <2>3. QED
    BY <1>1, <2>1, <2>2, HideIs, ShowIs, RefillIs, HeardKeeps
<1>4. QED
  BY <1>2, <1>3

-------------------------------------------------------------------------------
(* The list of the settings *)

LEMMA DeleteKeeps ==
  ASSUME IInv, NEW i \in Ids, onLayoutsDelete(i, FALSE)
  PROVE  IInv'
<1>1. /\ isDeletable(i) /\ remove(i, FALSE) /\ UNCHANGED <<widgets, alive>>
      /\ UNCHANGED <<current, shown, offered, edit, missed>>
  BY DEF onLayoutsDelete, widgets
<1>2. /\ ModelInv' /\ Ids' = Ids \ {i} /\ next' = next
      /\ \A j \in Ids' : name'[j] = name[j]
  BY <1>1, RemoveKeeps DEF IInv
<1>3. queue' = Notified("removed", i) /\ i \in Nat /\ "removed" \in EventTypes
  BY <1>1, NamesTyped DEF remove, EventTypes
<1>4. /\ queue' \in [Listeners -> Seq(Events)]
      /\ \A l \in Listeners :
           /\ \A k \in 1..Len(queue[l]) : k \in 1..Len(queue'[l]) /\ queue'[l][k] = queue[l][k]
           /\ \A k \in 1..Len(queue'[l]) :
                \/ k \in 1..Len(queue[l]) /\ queue'[l][k] = queue[l][k]
                \/ queue'[l][k].type = "removed"
  BY <1>3, NotifiedIs DEF IInv
<1>5. orphaned' = (orphaned \/ Meant(i))
  BY <1>1 DEF remove
<1>6. WidgetsOK'
  <2>1. orphaned' \in BOOLEAN
    BY <1>5 DEF IInv, WidgetsOK, Meant
  <2>2. QED
    BY <2>1, <1>1, <1>4 DEF IInv, WidgetsOK
<1>7. CurrentInv'
  BY <1>1, <1>2 DEF IInv, CurrentInv
<1>8. OrphanInv'
  <2>1. CASE orphaned'
    BY <2>1 DEF OrphanInv
  <2>2. CASE ~orphaned'
    <3>1. ~orphaned /\ ~Meant(i)
      BY <2>2, <1>5
    <3>2. \A t \in Tabs : current[t] # i
      BY <3>1, NamesTyped DEF Meant, Open
    <3>3. \A l \in Listeners : \A k \in 1..Len(queue[l]) : queue[l][k].item # i
      BY <3>1 DEF Meant
    <3>4. QED
      BY <3>1, <3>2, <3>3, <1>1, <1>2, <1>4 DEF IInv, OrphanInv
  <2>3. QED
    BY <2>1, <2>2
<1>9. ShowInv'
  <2>1. \A t \in Tabs : Coming(t) => Coming(t)'
    BY <1>1, <1>4 DEF Coming, Listeners
  <2>2. QED
    BY <2>1, <1>1, <1>2 DEF IInv, ShowInv
<1>10. QED
  BY <1>2, <1>6, <1>7, <1>8, <1>9 DEF IInv

LEMMA RenameInListKeeps ==
  ASSUME IInv, NEW i \in Ids, NEW v \in Texts, onLayoutsRename(i, v)
  PROVE  IInv'
<1>1. SetValue(i, v) /\ UNCHANGED <<current, shown, offered, edit, missed, alive, orphaned>>
  BY DEF onLayoutsRename, widgets
<1>2. v \in AllNames
  BY DEF AllNames
<1>3. QED
  BY <1>1, <1>2, RenamedKeeps DEF IInv, WidgetsOK

-------------------------------------------------------------------------------
(* The first state *)

\* The built-in layouts and the files found, one layout for each.
LEMMA InitHolds == Init => IInv
<1> SUFFICES ASSUME Init PROVE IInv
  OBVIOUS
<1> DEFINE D == Len(Defaults)
<1>1. PICK saved \in SUBSET (AllNames \ DefaultNames) :
        \E order \in [1..Cardinality(saved) -> saved] :
          /\ \A a \in saved : \E k \in DOMAIN order : order[k] = a
          /\ D + Cardinality(saved) <= MaxId
          /\ name = [i \in 1..(D + Cardinality(saved)) |->
                       IF i \in Builtin THEN Defaults[i] ELSE order[i - D]]
          /\ path = [i \in 1..(D + Cardinality(saved)) |->
                       IF i \in Builtin THEN Blank ELSE name[i]]
          /\ next = D + Cardinality(saved) + 1 /\ files = saved
  BY Zenon DEF Init
<1> DEFINE c == Cardinality(saved)
<1>2. PICK order \in [1..c -> saved] :
        /\ \A a \in saved : \E k \in DOMAIN order : order[k] = a
        /\ D + c <= MaxId
        /\ name = [i \in 1..(D + c) |-> IF i \in Builtin THEN Defaults[i] ELSE order[i - D]]
        /\ path = [i \in 1..(D + c) |-> IF i \in Builtin THEN Blank ELSE name[i]]
        /\ next = D + c + 1 /\ files = saved
  BY <1>1, Zenon
<1>3. /\ queue = [l \in Listeners |-> <<>>]
      /\ current = [t \in Tabs |-> 0] /\ shown = [t \in Tabs |-> Blank]
      /\ offered = [t \in Tabs |-> {}] /\ edit = [t \in Tabs |-> "hidden"]
      /\ missed = {} /\ alive = TRUE /\ orphaned = FALSE
  BY DEF Init
<1>4. IsFiniteSet(saved)
  <2>1. IsFiniteSet(DefaultNames) /\ IsFiniteSet(NewNamesSet)
    <3>1. ASSUME NEW s, Len(s) \in Nat
          PROVE  IsFiniteSet({s[k] : k \in 1..Len(s)})
      <4>1. IsFiniteSet(1..Len(s))
        BY <3>1, FS_Interval
      <4> DEFINE f == [k \in 1..Len(s) |-> s[k]]
      <4>2. f \in Surjection(1..Len(s), {s[k] : k \in 1..Len(s)})
        BY DEF Surjection
      <4>3. QED
        BY <4>1, <4>2, FS_Surjection
    <3>2. QED
      BY <3>1, Constants DEF DefaultNames, NewNamesSet, Builtin
  <2>2. IsFiniteSet(AllNames)
    BY <2>1, LayoutsAssumption, FS_Union DEF LayoutsAssumption, AllNames
  <2>3. QED
    BY <2>2, FS_Subset
<1>5. c \in Nat /\ D \in Nat /\ D > 0
  BY <1>4, FS_CardinalityType, Constants
<1>6. \A i, j \in 1..c : order[i] = order[j] => i = j
  <2>1. IsFiniteSet(1..c) /\ Cardinality(1..c) = c
    <3>1. 1 \in Int /\ c \in Int
      BY <1>5
    <3>2. IsFiniteSet(1..c) /\ Cardinality(1..c) = IF 1 > c THEN 0 ELSE c - 1 + 1
      BY <3>1, FS_Interval, Zenon
    <3>3. QED
      BY <3>2, <1>5
  <2>2. order \in Surjection(1..c, saved)
    BY <1>2 DEF Surjection
  <2>3. order \in Injection(1..c, saved)
    BY <2>1, <2>2, FS_SurjSameCardinalityImpliesInj
  <2>4. QED
    BY <2>3 DEF Injection, IsInjective
<1> HIDE DEF c, D
<1>7. Ids = 1..(D + c) /\ Builtin = 1..D
  BY <1>2 DEF Ids, Builtin, D
<1>8. \A i \in Ids : /\ name[i] = (IF i \in Builtin THEN Defaults[i] ELSE order[i - D])
                     /\ path[i] = (IF i \in Builtin THEN Blank ELSE name[i])
  BY <1>2, <1>7
<1>9. \A i \in Ids \ Builtin : i - D \in 1..c /\ order[i - D] \in saved
  BY <1>2, <1>5, <1>7
<1>10. Builtin \subseteq Ids
  BY <1>5, <1>7
<1>11. ModelOK
  <2>1. \A i \in Ids : name[i] \in AllNames
    BY <1>8, <1>9, Constants
  <2>2. name = [i \in Ids |-> name[i]] /\ path = [i \in Ids |-> path[i]]
    BY <1>2, <1>7
  <2>3. name \in [Ids -> AllNames] /\ path \in [Ids -> AllNames \cup {Blank}]
    BY <2>1, <2>2, <1>8
  <2>4. next = D + c + 1 /\ D + c <= MaxId /\ files = saved /\ MaxId \in Nat
    BY <1>2, Constants
  <2>5. QED
    BY <2>3, <2>4, <1>5, <1>7 DEF ModelOK
<1>12. NameInv
  <2>1. \A i \in Builtin : name[i] \in DefaultNames
    BY <1>8, <1>10 DEF DefaultNames
  <2>2. \A i \in Ids \ Builtin : name[i] = order[i - D] /\ name[i] \notin DefaultNames
    BY <1>8, <1>9
  <2>3. \A i, j \in Ids : name[i] = name[j] => i = j
    <3> SUFFICES ASSUME NEW i \in Ids, NEW j \in Ids, name[i] = name[j] PROVE i = j
      OBVIOUS
    <3>1. CASE i \in Builtin /\ j \in Builtin
      BY <3>1, <1>8, LayoutsAssumption DEF LayoutsAssumption
    <3>2. CASE i \notin Builtin /\ j \notin Builtin
      <4>1. i - D = j - D
        BY <3>2, <2>2, <1>6, <1>9
      <4>2. QED
        BY <4>1, <1>5, <1>7
    <3>3. QED
      BY <2>1, <2>2, <3>1, <3>2
  <2>4. QED
    BY <2>3, <1>8, <1>10 DEF NameInv
<1>13. FileInv
  <2>1. ASSUME NEW n \in files PROVE \E i \in Ids \ Builtin : name[i] = n
    <3>1. PICK k \in 1..c : order[k] = n
      BY <1>2
    <3>2. D + k \in Ids \ Builtin /\ (D + k) - D = k
      BY <1>5, <1>7
    <3>3. QED
      BY <3>1, <3>2, <1>8
  <2>2. QED
    BY <2>1, <1>8 DEF FileInv
<1>14. WidgetsOK
  <2>1. queue \in [Listeners -> Seq(Events)]
    <3>1. <<>> \in Seq(Events)
      OBVIOUS
    <3>2. QED
      BY <3>1, <1>3
  <2>2. current \in [Tabs -> Nat] /\ shown \in [Tabs -> AllNames \cup {Blank}]
    BY <1>3
  <2>3. offered \in [Tabs -> SUBSET AllNames]
    BY <1>3
  <2>4. edit \in [Tabs -> {"hidden", "focused", "leaving"}]
    BY <1>3
  <2>5. QED
    BY <2>1, <2>2, <2>3, <2>4, <1>3 DEF WidgetsOK
<1>15. CurrentInv /\ OrphanInv /\ ShowInv
  <2>1. \A t \in Tabs : current[t] = 0 /\ 0 \notin Ids /\ edit[t] = "hidden"
    BY <1>3, <1>7, <1>5
  <2>2. \A l \in Listeners : 1..Len(queue[l]) = {}
    BY <1>3
  <2>3. 0 < next
    BY <1>2, <1>5
  <2>4. QED
    BY <2>1, <2>2, <2>3, <1>3 DEF CurrentInv, OrphanInv, ShowInv
<1>16. QED
  BY <1>11, <1>12, <1>13, <1>14, <1>15 DEF IInv, ModelInv

-------------------------------------------------------------------------------
(* Every step *)

LEMMA StepKeeps == IInv /\ [Next]_vars => IInv'
<1> SUFFICES ASSUME IInv, [Next]_vars PROVE IInv'
  OBVIOUS
<1>1. CASE UNCHANGED vars
  <2>1. UNCHANGED model /\ UNCHANGED <<queue, current, shown, offered, edit, missed, alive, orphaned>>
    BY <1>1 DEF vars, widgets
  <2>2. ModelInv' /\ Ids' = Ids /\ name' = name /\ next' = next
    BY <2>1, SameModel DEF IInv
  <2>3. QED
    BY <2>1, <2>2 DEF IInv, WidgetsOK, CurrentInv, OrphanInv, ShowInv, Coming
<1>2. ASSUME NEW t \in Tabs, NEW n \in AllNames, OpenTab(t, n) PROVE IInv'
  BY <1>2, OpenTabKeeps
<1>3. CASE TabStep
  <2>1. PICK t \in Tabs :
          \/ CloseTab(t) \/ onLayoutSaveClicked(t) \/ onLayoutEditLostFocus(t)
          \/ \E n \in AllNames : \/ onLayoutEditEnter(t, n)
                                 \/ onLayoutLockedSelected(t, n)
                                 \/ onLayoutEditSelected(t, n)
          \/ onLayoutAdded(t) \/ onLayoutRemoved(t) \/ onLayoutChanged(t)
    BY <1>3 DEF TabStep
  <2>2. CASE onLayoutEditLostFocus(t)
    <3>1. CASE current[t] \in Ids
      BY <2>2, <3>1, LostFocusKeeps
    <3>2. CASE current[t] \notin Ids
      <4>1. Crash /\ current[t] # 0
        BY <2>2, <3>2 DEF onLayoutEditLostFocus, IInv, CurrentInv
      <4>2. QED
        BY <3>2, <4>1, CrashKeeps
    <3>3. QED
      BY <3>1, <3>2
  <2>3. CASE CloseTab(t) \/ onLayoutSaveClicked(t)
    BY <2>3, CloseTabKeeps, SaveClickedKeeps
  <2>4. ASSUME NEW n \in AllNames,
               onLayoutEditEnter(t, n) \/ onLayoutLockedSelected(t, n) \/ onLayoutEditSelected(t, n)
        PROVE  IInv'
    BY <2>4, EditEnterKeeps, LockedSelectedKeeps, EditSelectedKeeps
  <2>5. CASE onLayoutAdded(t) \/ onLayoutRemoved(t) \/ onLayoutChanged(t)
    BY <2>5, AddedKeeps, RemovedKeeps, ChangedKeeps
  <2>6. QED
    BY <2>1, <2>2, <2>3, <2>4, <2>5
<1>4. CASE ListStep
  BY <1>4, DeleteKeeps, RenameInListKeeps DEF ListStep
<1>5. QED
  BY <1>1, <1>2, <1>3, <1>4 DEF Next

\* Nothing but the steps of Layouts changes what the invariant speaks of.
THEOREM Invariance == Spec => []IInv
<1>1. Init => IInv
  BY InitHolds
<1>2. IInv /\ [Next]_vars => IInv'
  BY StepKeeps
<1>3. QED
  BY <1>1, <1>2, PTL DEF Spec

\* getUniqueName and SetValue never give two layouts one name.
THEOREM Names == Spec => []NamesAreUnique
<1>1. IInv => NamesAreUnique
  BY DEF IInv, ModelInv, ModelOK, NameInv, WidgetsOK, NamesAreUnique, TypeOK
<1>2. QED
  BY Invariance, <1>1, PTL

\* create, SetValue and remove keep the directory of the layouts to them.
THEOREM Files == Spec => []FilesAreLayouts
<1>1. IInv => FilesAreLayouts
  <2>1. ASSUME IInv PROVE \A i \in Ids : isDeletable(i) <=> i \notin Builtin
    BY <2>1, NamesTyped, Constants DEF isDeletable, Builtin
  <2>2. QED
    BY <2>1 DEF IInv, ModelInv, FileInv, FilesAreLayouts
<1>2. QED
  BY Invariance, <1>1, PTL

\* A tab that has handled its queue shows the layout its next rename is about,
\* or nothing.
THEOREM Showing == Spec => []TabShowsItsLayout
<1>1. IInv => TabShowsItsLayout
  <2>1. \A t \in Tabs : queue[t] = <<>> => ~Coming(t)
    BY DEF Coming
  <2>2. QED
    BY <2>1 DEF IInv, ShowInv, TabShowsItsLayout, Open
<1>2. QED
  BY Invariance, <1>1, PTL

\* mLayouts.at throws only for a layout that was removed while it was meant.
THEOREM Fatal == Spec => []OnlyOrphansAreFatal
<1>1. IInv => OnlyOrphansAreFatal
  BY DEF IInv, OrphanInv, OnlyOrphansAreFatal
<1>2. QED
  BY Invariance, <1>1, PTL

-------------------------------------------------------------------------------
(* The labels of the form *)

\* How many of these ids are no greater; the id of which there are so many.
Rank(S, i) == Cardinality({j \in S : j <= i})
AtRank(S, k) == CHOOSE i \in S : Rank(S, i) = k

\* The ids can be counted through in their order, and a built-in id is where it
\* always was.
LEMMA RankIs ==
  ASSUME NEW n \in Nat, NEW S \in SUBSET (1..n)
  PROVE  /\ IsFiniteSet(S) /\ Cardinality(S) \in Nat
         /\ \A i \in S : Rank(S, i) \in 1..Cardinality(S)
         /\ \A i, j \in S : Rank(S, i) = Rank(S, j) => i = j
         /\ \A k \in 1..Cardinality(S) : \E i \in S : Rank(S, i) = k
<1> DEFINE Upto(i) == {j \in S : j <= i}
           c == Cardinality(S)
           r == [i \in S |-> Rank(S, i)]
<1>1. IsFiniteSet(1..n)
  <2>1. 1 \in Int /\ n \in Int
    OBVIOUS
  <2>2. QED
    BY <2>1, FS_Interval
<1>2. IsFiniteSet(S) /\ c \in Nat
  BY <1>1, FS_Subset, FS_CardinalityType
<1>3. \A i \in S : i \in Nat /\ Upto(i) \subseteq S /\ i \in Upto(i)
  OBVIOUS
<1>4. ASSUME NEW T \in SUBSET S PROVE IsFiniteSet(T) /\ Cardinality(T) \in Nat
  <2>1. IsFiniteSet(T)
    BY <1>2, FS_Subset
  <2>2. QED
    BY <2>1, FS_CardinalityType
<1>5. ASSUME NEW i \in S PROVE Rank(S, i) \in 1..c
  <2>1. Cardinality(Upto(i)) <= c
    BY <1>2, <1>3, FS_Subset
  <2>2. Cardinality(Upto(i)) \in Nat
    BY <1>3, <1>4
  <2>3. IsFiniteSet(Upto(i)) /\ Upto(i) # {}
    BY <1>3, <1>4
  <2>4. Cardinality(Upto(i)) # 0
    BY <2>3, FS_EmptySet
  <2>5. QED
    BY <1>2, <2>1, <2>2, <2>4 DEF Rank
<1>6. ASSUME NEW i \in S, NEW j \in S, i < j PROVE Rank(S, i) # Rank(S, j)
  <2>1. Upto(i) \subseteq Upto(j) /\ j \in Upto(j) /\ j \notin Upto(i)
    <3>1. \A k \in S : k \in Nat
      OBVIOUS
    <3>2. \A k \in S : k <= i => k <= j
      BY <1>6, <3>1
    <3>3. ~(j <= i) /\ j <= j
      BY <1>6, <3>1
    <3>4. QED
      BY <3>2, <3>3
  <2>2. IsFiniteSet(Upto(j)) /\ Upto(i) # Upto(j)
    BY <1>4, <2>1
  <2>3. Cardinality(Upto(i)) # Cardinality(Upto(j))
    BY <2>1, <2>2, FS_Subset
  <2>4. QED
    BY <2>3 DEF Rank
<1>7. \A i, j \in S : Rank(S, i) = Rank(S, j) => i = j
  <2>1. \A i, j \in S : i < j \/ j < i \/ i = j
    BY <1>3
  <2>2. QED
    BY <1>6, <2>1
<1> HIDE DEF c
<1>8. r \in Injection(S, 1..c)
  <2>1. r \in [S -> 1..c]
    BY <1>5
  <2>2. QED
    BY <1>7, <2>1 DEF Injection, IsInjective
<1>9. IsFiniteSet(1..c) /\ Cardinality(1..c) = c
  <2>1. 1 \in Int /\ c \in Int
    BY <1>2
  <2>2. Cardinality(1..c) = IF 1 > c THEN 0 ELSE c - 1 + 1
    BY <2>1, FS_Interval
  <2>3. IsFiniteSet(1..c)
    BY <2>1, FS_Interval
  <2>4. QED
    BY <1>2, <2>2, <2>3
<1>10. r \in Surjection(S, 1..c)
  <2>1. Cardinality(S) = Cardinality(1..c)
    BY <1>9 DEF c
  <2>2. QED
    BY <1>8, <1>9, <2>1, FS_Injection
<1>11. \A k \in 1..c : \E i \in S : Rank(S, i) = k
  BY <1>10 DEF Surjection
<1>12. QED
  BY <1>2, <1>5, <1>7, <1>11 DEF c

\* So AtRank finds each id, at its rank, and 1 first.
LEMMA AtRankIs ==
  ASSUME NEW n \in Nat, NEW S \in SUBSET (1..n)
  PROVE  /\ Cardinality(S) \in Nat
         /\ \A k \in 1..Cardinality(S) : AtRank(S, k) \in S /\ Rank(S, AtRank(S, k)) = k
         /\ \A i \in S : Rank(S, i) \in 1..Cardinality(S) /\ AtRank(S, Rank(S, i)) = i
         /\ 1 \in S => 1 \in 1..Cardinality(S) /\ AtRank(S, 1) = 1
<1>1. \A k \in 1..Cardinality(S) : AtRank(S, k) \in S /\ Rank(S, AtRank(S, k)) = k
  BY RankIs DEF AtRank
<1>2. \A i \in S : Rank(S, i) \in 1..Cardinality(S) /\ AtRank(S, Rank(S, i)) = i
  <2> SUFFICES ASSUME NEW i \in S
               PROVE  Rank(S, i) \in 1..Cardinality(S) /\ AtRank(S, Rank(S, i)) = i
    OBVIOUS
  <2>1. Rank(S, i) \in 1..Cardinality(S)
    BY RankIs
  <2>2. AtRank(S, Rank(S, i)) \in S /\ Rank(S, AtRank(S, Rank(S, i))) = Rank(S, i)
    BY <1>1, <2>1
  <2>3. QED
    BY <2>1, <2>2, RankIs
<1>3. ASSUME 1 \in S PROVE Rank(S, 1) = 1
  <2>1. {j \in S : j <= 1} = {1}
    <3>1. \A j \in S : j <= 1 <=> j = 1
      OBVIOUS
    <3>2. {j \in S : j <= 1} = {j \in S : j = 1}
      BY <3>1
    <3>3. {j \in S : j = 1} = {1}
      BY <1>3
    <3>4. QED
      BY <3>2, <3>3
  <2>2. Cardinality({1}) = 1
    BY FS_Singleton
  <2>3. QED
    BY <2>1, <2>2 DEF Rank
<1>4. QED
  BY <1>1, <1>2, <1>3, RankIs

\* getLabelArray has the name of each layout, that of the default first.
LEMMA ArrayIs ==
  ASSUME ModelInv
  PROVE  /\ getLabelArray \in Seq(AllNames) /\ Len(getLabelArray) = Cardinality(Ids)
         /\ Cardinality(Ids) \in Nat /\ DOMAIN getLabelArray = 1..Cardinality(Ids)
         /\ \A k \in 1..Cardinality(Ids) : /\ AtRank(Ids, k) \in Ids
                                           /\ getLabelArray[k] = name[AtRank(Ids, k)]
         /\ \A n \in Taken : \E k \in 1..Cardinality(Ids) : getLabelArray[k] = n
         /\ 1 \in 1..Cardinality(Ids) /\ getLabelArray[1] = Defaults[1]
         /\ 1 \in Ids /\ name[1] = Defaults[1] /\ Defaults[1] \in AllNames
<1>1. next - 1 \in Nat /\ Ids \in SUBSET (1..(next - 1))
  BY Constants DEF ModelInv, ModelOK
<1>2. 1 \in Ids /\ name[1] = Defaults[1] /\ Defaults[1] \in AllNames
  BY Constants DEF ModelInv, NameInv
<1> DEFINE c == Cardinality(Ids)
<1>3. /\ c \in Nat /\ \A k \in 1..c : AtRank(Ids, k) \in Ids
      /\ \A i \in Ids : Rank(Ids, i) \in 1..c /\ AtRank(Ids, Rank(Ids, i)) = i
      /\ 1 \in 1..c /\ AtRank(Ids, 1) = 1
  BY <1>1, <1>2, AtRankIs
<1>4. getLabelArray = [k \in 1..c |-> name[AtRank(Ids, k)]]
  BY DEF getLabelArray, AtRank, Rank
<1> HIDE DEF c
<1>5. \A k \in 1..c : name[AtRank(Ids, k)] \in AllNames
  BY <1>3 DEF ModelInv, ModelOK
<1>6. getLabelArray \in [1..c -> AllNames]
  BY <1>4, <1>5
<1>7. getLabelArray \in Seq(AllNames) /\ Len(getLabelArray) = c
  BY <1>3, <1>6
<1>8. \A n \in Taken : \E k \in 1..c : getLabelArray[k] = n
  BY <1>3, <1>4 DEF Taken
<1>9. QED
  BY <1>2, <1>3, <1>4, <1>6, <1>7, <1>8 DEF c

\* IndexOf finds a label where there is one, and is 0 otherwise.
LEMMA IndexIs ==
  ASSUME NEW labels \in Seq(AllNames), NEW n
  PROVE  /\ IndexOf(labels, n) \in Nat
         /\ IF \E k \in 1..Len(labels) : labels[k] = n
            THEN IndexOf(labels, n) \in 1..Len(labels) /\ labels[IndexOf(labels, n)] = n
            ELSE IndexOf(labels, n) = 0
<1> DEFINE S == {k \in 1..Len(labels) : labels[k] = n}
<1>1. DOMAIN labels = 1..Len(labels) /\ Len(labels) \in Nat
  OBVIOUS
<1>2. IndexOf(labels, n) = IF \E k \in 1..Len(labels) : labels[k] = n THEN Least(S) ELSE 0
  BY <1>1 DEF IndexOf
<1>3. CASE \E k \in 1..Len(labels) : labels[k] = n
  <2>1. S \subseteq Nat /\ S # {}
    BY <1>3
  <2>2. Least(S) \in S
    BY <2>1, LeastOf
  <2>3. QED
    BY <1>2, <1>3, <2>2
<1>4. CASE ~ \E k \in 1..Len(labels) : labels[k] = n
  BY <1>2, <1>4
<1>5. QED
  BY <1>3, <1>4

\* Some profile has the greatest number.
LEMMA GreatestIs ==
  ASSUME NEW S, S \subseteq 1..MaxProfiles, S # {}
  PROVE  \E i \in S : \A j \in S : j <= i
<1> DEFINE Bounds == {b \in Nat : \A j \in S : j <= b}
<1>1. MaxProfiles \in Bounds /\ Bounds \subseteq Nat
  BY SettingsAssumption
<1>2. Least(Bounds) \in Bounds /\ \A b \in Bounds : Least(Bounds) <= b
  BY <1>1, LeastOf
<1>3. PICK b \in Nat : (\A j \in S : j <= b) /\ \A a \in Bounds : b <= a
  BY <1>2
<1>4. CASE b \in S
  BY <1>3, <1>4
<1>5. CASE b \notin S
  <2>1. b > 0
    <3>1. PICK j \in S : j \in Nat /\ 1 <= j
      <4>1. MaxProfiles \in Nat
        BY SettingsAssumption
      <4>2. PICK j \in S : j \in 1..MaxProfiles
        OBVIOUS
      <4>3. QED
        BY <4>1, <4>2
    <3>2. j <= b /\ b \in Nat
      BY <1>3, <3>1
    <3>3. QED
      BY <3>1, <3>2
  <2>2. b - 1 \in Nat /\ \A j \in S : j <= b - 1
    BY <1>3, <1>5, <2>1
  <2>3. QED
    BY <1>3, <2>2
<1>6. QED
  BY <1>4, <1>5

-------------------------------------------------------------------------------
(* The parts of the invariant of the form *)

FormOK ==
  /\ ModelInv /\ WidgetsOK /\ \A t \in Tabs : current[t] = 0
  /\ stored \in [ProfileIds -> [options : Options, layout : AllNames \cup {Blank}]]
  /\ ProfileIds \subseteq 1..MaxProfiles
  /\ selected \in ProfileIds \cup {None, Folder} /\ visible \in BOOLEAN
  /\ grid \in Grid /\ buttons \in {"connect", "save"} /\ enabled \in BOOLEAN
  /\ filledFor \in (1..MaxProfiles) \cup {None, Folder} /\ hasty \in BOOLEAN
  /\ unshown \subseteq ProfileIds
  /\ enabled => grid.options \in Options

\* A form is shown for a row of the list, and with what was stored of it if it
\* offers Connect, unless the row was selected unheard.
SelectedInv ==
  visible => /\ selected # None
             /\ selected \in ProfileIds \ unshown =>
                  /\ filledFor = selected
                  /\ enabled /\ buttons = "connect" => grid.options = stored[selected].options

\* A layout that a profile was given is there, for its removal gives it another.
RefInv == ref \in [ProfileIds -> Nat] /\ \A p \in ProfileIds : ref[p] = 0 \/ ref[p] \in Ids

\* As long as the user waits there is one change to hear of, at most.
PendingInv ==
  ~hasty => /\ Len(queue[SettingsTab]) <= 1 /\ Len(queue[ProfileList]) <= 1
            /\ queue[ProfileList] # <<>> /\ queue[ProfileList][1].type = "changed" =>
                 queue[ProfileList][1].item \in Ids
LabelsInv == ~hasty /\ queue[SettingsTab] = <<>> => grid.labels = getLabelArray

\* As long as the user waits no Save reads past the labels.
IndexInv ==
  ~hasty => /\ \A p \in ProfileIds : ref[p] # 0
            /\ grid.index \in 0..Len(grid.labels)
            /\ queue[SettingsTab] # <<>> /\ queue[SettingsTab][1].type = "changed" =>
                 Len(grid.labels) = Cardinality(Ids)

\* The layout a profile will have when the profiles have heard of the change.
FinalLayout(p) ==
  IF queue[ProfileList] = <<>> \/ stored[p].layout \in Taken THEN stored[p].layout
  ELSE IF queue[ProfileList][1].type = "removed" THEN Defaults[1]
  ELSE name[queue[ProfileList][1].item]
LayoutInv == ~hasty => \A p \in ProfileIds : ref[p] # 0 => FinalLayout(p) = name[ref[p]]

\* The label, or labels, the form may show when it has heard of the change.
FinalLabels ==
  IF queue[SettingsTab] = <<>> THEN {Label}
  ELSE IF queue[SettingsTab][1].type = "changed"
  THEN {IF grid.index \in 1..Cardinality(Ids) THEN getLabelArray[grid.index] ELSE Blank}
  ELSE IF Label \in Taken THEN {Label} ELSE {Blank, Defaults[1]}
Agrees(label, n) == label = n \/ (label = Blank /\ n = Defaults[1])
OnOffer == visible /\ enabled /\ buttons = "connect" /\ selected \in ProfileIds \ unshown
LabelInv == ~hasty /\ OnOffer => \A label \in FinalLabels : Agrees(label, FinalLayout(selected))

FormInv ==
  /\ FormOK /\ SelectedInv /\ RefInv /\ PendingInv /\ LabelsInv /\ IndexInv
  /\ LayoutInv /\ LabelInv

\* The two listeners, and the numbers of profiles.
LEMMA FormConstants ==
  /\ SettingsTab \in Listeners /\ ProfileList \in Listeners /\ SettingsTab # ProfileList
  /\ SettingsTab \notin Tabs /\ ProfileList \notin Tabs
  /\ ProfileList \in Deaf /\ SettingsTab \notin Deaf
  /\ DefaultOptions \in Options /\ MaxProfiles \in Nat \ {0}
  /\ None \notin 1..MaxProfiles /\ Folder \notin 1..MaxProfiles /\ None # Folder
  /\ Blank \notin AllNames
<1>1. Blank \notin AllNames /\ Others \cap Tabs = {}
  BY LayoutsAssumption
<1>2. QED
  BY <1>1, SettingsAssumption DEF Listeners

\* What the form shows as the layout.
LEMMA LabelIs ==
  ASSUME FormOK
  PROVE  /\ grid.options \in Options \cup {None} /\ grid.index \in Nat
         /\ grid.labels \in Seq(AllNames) /\ DOMAIN grid.labels = 1..Len(grid.labels)
         /\ Label \in AllNames \cup {Blank}
         /\ IF grid.index \in 1..Len(grid.labels) THEN Label = grid.labels[grid.index]
            ELSE Label = Blank
<1>1. /\ grid.options \in Options \cup {None} /\ grid.index \in Nat
      /\ grid.labels \in Seq(AllNames)
  BY DEF FormOK, Grid
<1>2. DOMAIN grid.labels = 1..Len(grid.labels)
      /\ \A k \in 1..Len(grid.labels) : grid.labels[k] \in AllNames
  BY <1>1
<1>3. QED
  BY <1>1, <1>2 DEF Label

-------------------------------------------------------------------------------
(* The user of the form *)

\* What the user sees who has waited.
LEMMA QuietIs ==
  ASSUME FormInv, ~hasty, Quiet
  PROVE  /\ grid.labels = getLabelArray /\ grid.index \in 0..Len(grid.labels)
         /\ \A p \in ProfileIds : /\ ref[p] # 0 /\ ref[p] \in Ids
                                  /\ stored[p].layout = name[ref[p]]
                                  /\ stored[p].layout \in Taken
         /\ OnOffer => Agrees(Label, stored[selected].layout)
<1>1. /\ grid.labels = getLabelArray /\ grid.index \in 0..Len(grid.labels)
      /\ \A p \in ProfileIds : /\ ref[p] # 0 /\ ref[p] \in Ids
                               /\ stored[p].layout = name[ref[p]]
  BY DEF FormInv, LabelsInv, IndexInv, RefInv, LayoutInv, FinalLayout, Quiet
<1>2. \A p \in ProfileIds : stored[p].layout \in Taken
  BY <1>1 DEF Taken
<1>3. OnOffer => Agrees(Label, stored[selected].layout)
  BY DEF FormInv, LabelInv, FinalLayout, FinalLabels, Quiet
<1>4. QED
  BY <1>1, <1>2, <1>3

\* A step of the user, who hears of no change and makes none to the layouts.
LEMMA UserKeeps ==
  ASSUME FormInv, Hurry, UNCHANGED <<model, queue, widgets, orphaned>>, alive' \in BOOLEAN,
         stored' \in [ProfileIds' -> [options : Options, layout : AllNames \cup {Blank}]],
         ProfileIds' \subseteq 1..MaxProfiles,
         selected' \in ProfileIds' \cup {None, Folder}, visible' \in BOOLEAN,
         grid' \in Grid, grid'.labels = grid.labels,
         buttons' \in {"connect", "save"}, enabled' \in BOOLEAN,
         filledFor' \in (1..MaxProfiles) \cup {None, Folder},
         unshown' \subseteq ProfileIds',
         enabled' => grid'.options \in Options,
         SelectedInv', RefInv',
         ~hasty /\ Quiet =>
           /\ \A p \in ProfileIds' : ref'[p] # 0 /\ stored'[p].layout = name[ref'[p]]
           /\ grid'.index \in 0..Len(grid.labels),
         ~hasty /\ Quiet /\ OnOffer' => Agrees(Label', stored'[selected'].layout)
  PROVE  FormInv'
<1>1. /\ FormOK /\ PendingInv /\ LabelsInv /\ ModelInv /\ WidgetsOK /\ hasty \in BOOLEAN
      /\ \A t \in Tabs : current[t] = 0
  BY DEF FormInv, FormOK
<1>2. /\ UNCHANGED <<name, path, next, files, queue, orphaned>> /\ Ids' = Ids /\ Taken' = Taken
      /\ UNCHANGED <<current, shown, offered, edit, missed>>
  BY DEF model, widgets, Ids, Taken
<1>3. ModelInv'
  BY <1>1, SameModel
<1>4. WidgetsOK'
  BY <1>1, <1>2 DEF WidgetsOK
<1>5. hasty' \in BOOLEAN /\ (~hasty' => ~hasty /\ Quiet)
  BY <1>1 DEF Hurry, Quiet
<1>6. FormOK'
  BY <1>1, <1>2, <1>3, <1>4, <1>5 DEF FormOK, Grid
<1>7. PendingInv'
  BY <1>1, <1>2, <1>5 DEF PendingInv
<1>8. getLabelArray' = getLabelArray
  BY <1>2 DEF getLabelArray
<1>9. LabelsInv'
  BY <1>1, <1>2, <1>5, <1>8 DEF LabelsInv
<1>10. IndexInv'
  BY <1>2, <1>5 DEF IndexInv, Quiet
<1>11. LayoutInv'
  BY <1>2, <1>5 DEF LayoutInv, FinalLayout, Quiet
<1>12. LabelInv'
  <2> SUFFICES ASSUME ~hasty', OnOffer', NEW label \in FinalLabels'
               PROVE  Agrees(label, FinalLayout(selected)')
    BY DEF LabelInv
  <2>1. Agrees(Label', stored'[selected'].layout)
    BY <1>5
  <2>2. label = Label'
    BY <1>2, <1>5 DEF FinalLabels, Quiet
  <2>3. FinalLayout(selected)' = stored'[selected'].layout
    BY <1>2, <1>5 DEF FinalLayout, Quiet
  <2>4. QED
    BY <2>1, <2>2, <2>3
<1>13. QED
  BY <1>6, <1>7, <1>9, <1>10, <1>11, <1>12 DEF FormInv

\* A form that is filled shows what it is filled with, the layout if it knows it.
LEMMA FillIs ==
  ASSUME FormOK, NEW o \in Options, NEW n \in AllNames \cup {Blank}, NEW left \in Nat,
         NEW v, v.options = o, v.layout = n, Fill(v, left)
  PROVE  /\ grid' \in Grid /\ grid'.labels = grid.labels /\ grid'.options = o
         /\ left \in 0..Len(grid.labels) => grid'.index \in 0..Len(grid.labels)
         /\ (\E k \in 1..Len(grid.labels) : grid.labels[k] = n) => Label' = n
<1>1. grid \in Grid /\ grid.labels \in Seq(AllNames)
  BY LabelIs DEF FormOK
<1> DEFINE i == IndexOf(grid.labels, n)
           j == IF i = 0 THEN left ELSE i
<1>2. grid' = [grid EXCEPT !.options = o, !.index = j]
  BY DEF Fill
<1>3. i \in Nat /\ IF \E k \in 1..Len(grid.labels) : grid.labels[k] = n
                   THEN i \in 1..Len(grid.labels) /\ grid.labels[i] = n
                   ELSE i = 0
  BY <1>1, IndexIs
<1> HIDE DEF i
<1>4. Len(grid.labels) \in Nat /\ DOMAIN grid.labels = 1..Len(grid.labels)
  BY <1>1
<1>5. j \in Nat /\ (left \in 0..Len(grid.labels) => j \in 0..Len(grid.labels))
  BY <1>3, <1>4
<1>6. (\E k \in 1..Len(grid.labels) : grid.labels[k] = n) =>
        j \in 1..Len(grid.labels) /\ grid.labels[j] = n
  BY <1>3, <1>4
<1> HIDE DEF j
<1>7. grid' \in Grid /\ grid'.labels = grid.labels /\ grid'.options = o /\ grid'.index = j
  BY <1>1, <1>2, <1>5 DEF Grid
<1>8. Label' = IF j \in DOMAIN grid.labels THEN grid.labels[j] ELSE Blank
  BY <1>7 DEF Label
<1>9. QED
  BY <1>4, <1>5, <1>6, <1>7, <1>8

LEMMA ClearIs ==
  ASSUME FormOK, propertyGridClear
  PROVE  /\ grid' \in Grid /\ grid'.labels = grid.labels /\ enabled' = FALSE
         /\ grid'.options = None /\ grid'.index \in 0..Len(grid.labels)
<1>1. grid \in Grid
  BY DEF FormOK
<1>2. grid' = [grid EXCEPT !.options = None, !.index = 0] /\ enabled' = FALSE
  BY DEF propertyGridClear
<1>3. Len(grid.labels) \in Nat
  BY LabelIs
<1>4. grid' \in Grid /\ grid'.labels = grid.labels /\ grid'.options = None /\ grid'.index = 0
  BY <1>1, <1>2 DEF Grid
<1>5. QED
  BY <1>2, <1>3, <1>4

\* What the state tells of a profile.
LEMMA ProfileIs ==
  ASSUME FormInv
  PROVE  /\ FormOK /\ SelectedInv /\ RefInv
         /\ \A p \in ProfileIds : /\ stored[p].options \in Options
                                  /\ stored[p].layout \in AllNames \cup {Blank}
                                  /\ p \in 1..MaxProfiles /\ p # None /\ p # Folder
         /\ alive \in BOOLEAN /\ None \notin ProfileIds /\ Folder \notin ProfileIds
<1>1. FormOK /\ SelectedInv /\ RefInv
  BY DEF FormInv
<1>2. None \notin 1..MaxProfiles /\ Folder \notin 1..MaxProfiles
  BY FormConstants
<1>3. QED
  BY <1>1, <1>2 DEF FormOK, WidgetsOK

\* What a row is filled with; its layout is there, if the user waited.
LEMMA OptionsIs ==
  ASSUME FormInv, NEW x \in ProfileIds \cup {Folder}
  PROVE  /\ OptionsOf(x).options \in Options /\ OptionsOf(x).layout \in AllNames \cup {Blank}
         /\ x \in ProfileIds => OptionsOf(x) = stored[x]
         /\ ~hasty /\ Quiet => OptionsOf(x).layout \in Taken
         /\ Fresh.options = DefaultOptions /\ Fresh.layout = Defaults[1]
         /\ Fresh \in [options : Options, layout : AllNames \cup {Blank}]
         /\ Defaults[1] \in Taken
<1>1. ModelInv
  BY DEF FormInv, FormOK
<1>2. 1 \in Ids /\ name[1] = Defaults[1] /\ Defaults[1] \in AllNames /\ DefaultOptions \in Options
  BY <1>1, ArrayIs, FormConstants
<1>3. Defaults[1] \in Taken
  BY <1>2 DEF Taken
<1>4. /\ Fresh.options = DefaultOptions /\ Fresh.layout = Defaults[1]
      /\ Fresh \in [options : Options, layout : AllNames \cup {Blank}]
  BY <1>2 DEF Fresh
<1>5. CASE x \in ProfileIds
  BY <1>3, <1>4, <1>5, ProfileIs, QuietIs DEF OptionsOf
<1>6. CASE x \notin ProfileIds
  BY <1>2, <1>3, <1>4, <1>6 DEF OptionsOf
<1>7. QED
  BY <1>5, <1>6

\* A layout that is there is among the labels, if the user waited.
LEMMA KnownLabel ==
  ASSUME FormInv, ~hasty, Quiet, NEW n \in Taken
  PROVE  \E k \in 1..Len(grid.labels) : grid.labels[k] = n
<1>1. ModelInv
  BY DEF FormInv, FormOK
<1>2. Len(getLabelArray) = Cardinality(Ids)
      /\ \E k \in 1..Cardinality(Ids) : getLabelArray[k] = n
  BY <1>1, ArrayIs
<1>3. QED
  BY <1>2, QuietIs

LEMMA FillsIn ==
  ASSUME FormInv, NEW x \in ProfileIds \cup {Folder}, NEW left \in {0, grid.index},
         propertyGridFill(x, left)
  PROVE  /\ grid' \in Grid /\ grid'.labels = grid.labels /\ grid'.options \in Options
         /\ x \in ProfileIds => grid'.options = stored[x].options
         /\ enabled' = TRUE /\ filledFor' = x /\ unshown' = unshown \ {x}
         /\ ~hasty /\ Quiet => /\ grid'.index \in 0..Len(grid.labels)
                               /\ x \in ProfileIds => Label' = stored[x].layout
<1>1. Fill(OptionsOf(x), left) /\ enabled' = TRUE /\ filledFor' = x /\ unshown' = unshown \ {x}
  BY DEF propertyGridFill
<1>2. FormOK /\ grid.index \in Nat /\ Len(grid.labels) \in Nat
  BY LabelIs, ProfileIs
<1>3. /\ OptionsOf(x).options \in Options /\ OptionsOf(x).layout \in AllNames \cup {Blank}
      /\ x \in ProfileIds => OptionsOf(x) = stored[x]
      /\ ~hasty /\ Quiet => OptionsOf(x).layout \in Taken
  BY OptionsIs
<1>4. left \in Nat /\ (~hasty /\ Quiet => left \in 0..Len(grid.labels))
  BY <1>2, QuietIs
<1>5. /\ grid' \in Grid /\ grid'.labels = grid.labels /\ grid'.options = OptionsOf(x).options
      /\ left \in 0..Len(grid.labels) => grid'.index \in 0..Len(grid.labels)
      /\ (\E k \in 1..Len(grid.labels) : grid.labels[k] = OptionsOf(x).layout) =>
           Label' = OptionsOf(x).layout
  BY <1>1, <1>2, <1>3, <1>4, FillIs
<1>6. ASSUME ~hasty, Quiet
      PROVE  grid'.index \in 0..Len(grid.labels) /\ Label' = OptionsOf(x).layout
  BY <1>3, <1>4, <1>5, <1>6, KnownLabel
<1>7. QED
  BY <1>1, <1>3, <1>5, <1>6

\* Nothing about the profiles changes.
LEMMA SameProfiles ==
  ASSUME FormInv, UNCHANGED <<model, stored, ref>>
  PROVE  /\ RefInv' /\ ProfileIds' = ProfileIds
         /\ stored' \in [ProfileIds' -> [options : Options, layout : AllNames \cup {Blank}]]
         /\ ProfileIds' \subseteq 1..MaxProfiles
         /\ ~hasty /\ Quiet =>
              \A p \in ProfileIds' : ref'[p] # 0 /\ stored'[p].layout = name[ref'[p]]
<1>1. Ids' = Ids /\ ProfileIds' = ProfileIds
  BY DEF model, Ids, ProfileIds
<1>2. FormOK /\ RefInv
  BY ProfileIs
<1>3. RefInv'
  BY <1>1, <1>2 DEF RefInv
<1>4. ~hasty /\ Quiet =>
        \A p \in ProfileIds' : ref'[p] # 0 /\ stored'[p].layout = name[ref'[p]]
  BY <1>1, QuietIs
<1>5. QED
  BY <1>1, <1>2, <1>3, <1>4 DEF FormOK

LEMMA SelectedKeeps ==
  ASSUME FormInv, NEW x \in ProfileIds \cup {None, Folder}, onProfileSelected(x)
  PROVE  FormInv'
<1>1. /\ selected' = x /\ visible' = (x \in ProfileIds) /\ UNCHANGED vars /\ Hurry
      /\ UNCHANGED <<buttons, stored, ref>>
      /\ IF x \in ProfileIds THEN propertyGridFill(x, grid.index)
         ELSE UNCHANGED <<grid, enabled, filledFor, unshown>>
  BY DEF onProfileSelected, UserOfForm
<1>2. FormOK /\ SelectedInv /\ alive \in BOOLEAN /\ None \notin ProfileIds
  BY ProfileIs
<1>3. UNCHANGED <<model, queue, widgets, orphaned>> /\ alive' \in BOOLEAN
  BY <1>1, <1>2 DEF vars
<1>4. /\ RefInv' /\ ProfileIds' = ProfileIds
      /\ stored' \in [ProfileIds' -> [options : Options, layout : AllNames \cup {Blank}]]
      /\ ProfileIds' \subseteq 1..MaxProfiles
      /\ ~hasty /\ Quiet =>
           \A p \in ProfileIds' : ref'[p] # 0 /\ stored'[p].layout = name[ref'[p]]
  BY <1>1, <1>3, SameProfiles
<1>5. CASE x \in ProfileIds
  <2>1. /\ grid' \in Grid /\ grid'.labels = grid.labels /\ grid'.options \in Options
        /\ grid'.options = stored[x].options
        /\ enabled' = TRUE /\ filledFor' = x /\ unshown' = unshown \ {x}
        /\ ~hasty /\ Quiet => /\ grid'.index \in 0..Len(grid.labels)
                              /\ Label' = stored[x].layout
    BY <1>1, <1>5, FillsIn
  <2>2. x \in 1..MaxProfiles
    BY <1>5, ProfileIs
  <2>3. SelectedInv'
    BY <1>1, <1>2, <1>4, <1>5, <2>1 DEF SelectedInv
  <2>4. ~hasty /\ Quiet => Agrees(Label', stored'[selected'].layout)
    BY <1>1, <2>1 DEF Agrees
  <2>5. /\ selected' \in ProfileIds' \cup {None, Folder} /\ visible' \in BOOLEAN
        /\ buttons' \in {"connect", "save"} /\ enabled' \in BOOLEAN
        /\ filledFor' \in (1..MaxProfiles) \cup {None, Folder} /\ unshown' \subseteq ProfileIds'
    BY <1>1, <1>2, <1>4, <2>1, <2>2 DEF FormOK
  <2>6. QED
    BY <1>1, <1>3, <1>4, <2>1, <2>3, <2>4, <2>5, UserKeeps
<1>6. CASE x \notin ProfileIds
  <2>1. ~visible' /\ visible' \in BOOLEAN /\ UNCHANGED <<grid, enabled, filledFor, unshown>>
    <3>1. visible' = (x \in ProfileIds)
      BY <1>1
    <3>2. ~visible'
      BY <1>6, <3>1, Zenon
    <3>3. (x \in ProfileIds) \in BOOLEAN
      OBVIOUS
    <3>4. visible' \in BOOLEAN
      BY <3>1, <3>3, Zenon
    <3>5. QED
      BY <1>1, <1>6, <3>2, <3>4
  <2>2. SelectedInv' /\ ~OnOffer'
    BY <2>1 DEF SelectedInv, OnOffer
  <2>3. /\ selected' \in ProfileIds' \cup {None, Folder}
        /\ grid' \in Grid /\ grid'.labels = grid.labels
        /\ buttons' \in {"connect", "save"} /\ enabled' \in BOOLEAN
        /\ filledFor' \in (1..MaxProfiles) \cup {None, Folder} /\ unshown' \subseteq ProfileIds'
        /\ enabled' => grid'.options \in Options
    BY <1>1, <1>2, <1>4, <2>1 DEF FormOK
  <2>4. ~hasty /\ Quiet => grid'.index \in 0..Len(grid.labels)
    BY <2>1, QuietIs
  <2>5. QED
    BY <1>1, <1>3, <1>4, <2>1, <2>2, <2>3, <2>4, UserKeeps
<1>7. QED
  BY <1>5, <1>6

LEMMA EditKeeps ==
  ASSUME FormInv, NEW p \in ProfileIds, onProfileEdit(p)
  PROVE  FormInv'
<1>1. /\ selected' = p /\ visible' = TRUE /\ buttons' = "save" /\ UNCHANGED vars /\ Hurry
      /\ UNCHANGED <<stored, ref>> /\ propertyGridFill(p, grid.index)
  BY DEF onProfileEdit, selectProfile, UserOfForm
<1>2. FormOK /\ alive \in BOOLEAN /\ None \notin ProfileIds
  BY ProfileIs
<1>3. UNCHANGED <<model, queue, widgets, orphaned>> /\ alive' \in BOOLEAN
  BY <1>1, <1>2 DEF vars
<1>4. /\ RefInv' /\ ProfileIds' = ProfileIds
      /\ stored' \in [ProfileIds' -> [options : Options, layout : AllNames \cup {Blank}]]
      /\ ProfileIds' \subseteq 1..MaxProfiles
      /\ ~hasty /\ Quiet =>
           \A q \in ProfileIds' : ref'[q] # 0 /\ stored'[q].layout = name[ref'[q]]
  BY <1>1, <1>3, SameProfiles
<1>5. /\ grid' \in Grid /\ grid'.labels = grid.labels /\ grid'.options \in Options
      /\ enabled' = TRUE /\ filledFor' = p /\ unshown' = unshown \ {p}
      /\ ~hasty /\ Quiet => grid'.index \in 0..Len(grid.labels)
  BY <1>1, FillsIn
<1>6. p \in 1..MaxProfiles
  BY ProfileIs
<1>7. SelectedInv' /\ ~OnOffer'
  BY <1>1, <1>2, <1>4, <1>5 DEF SelectedInv, OnOffer
<1>8. /\ selected' \in ProfileIds' \cup {None, Folder} /\ visible' \in BOOLEAN
      /\ buttons' \in {"connect", "save"} /\ enabled' \in BOOLEAN
      /\ filledFor' \in (1..MaxProfiles) \cup {None, Folder} /\ unshown' \subseteq ProfileIds'
  BY <1>1, <1>2, <1>4, <1>5, <1>6 DEF FormOK
<1>9. QED
  BY <1>1, <1>3, <1>4, <1>5, <1>7, <1>8, UserKeeps

\* A new profile has a number of its own and the default layout.
LEMMA NewIs ==
  ASSUME FormInv, NewProfile, UNCHANGED model
  PROVE  /\ selected' \in ProfileIds' /\ selected' \in 1..MaxProfiles /\ selected' # None
         /\ stored' \in [ProfileIds' -> [options : Options, layout : AllNames \cup {Blank}]]
         /\ ProfileIds' \subseteq 1..MaxProfiles /\ ProfileIds \subseteq ProfileIds'
         /\ RefInv'
         /\ ~hasty /\ Quiet =>
              \A p \in ProfileIds' : ref'[p] # 0 /\ stored'[p].layout = name[ref'[p]]
<1> DEFINE p == IF ProfileIds = {} THEN 1
                ELSE 1 + CHOOSE i \in ProfileIds : \A j \in ProfileIds : j <= i
<1>1. /\ p <= MaxProfiles
      /\ stored' = [q \in ProfileIds \cup {p} |-> IF q = p THEN Fresh ELSE stored[q]]
      /\ ref' = [q \in ProfileIds \cup {p} |-> IF q = p THEN 1 ELSE ref[q]]
      /\ selected' = p
  BY DEF NewProfile
<1>2. FormOK /\ RefInv /\ ModelInv /\ ProfileIds \subseteq 1..MaxProfiles
      /\ stored \in [ProfileIds -> [options : Options, layout : AllNames \cup {Blank}]]
  BY DEF FormInv, FormOK
<1>3. MaxProfiles \in Nat /\ DefaultOptions \in Options
  BY FormConstants
<1>4. p \in 1..MaxProfiles /\ p \notin ProfileIds
  <2>1. CASE ProfileIds = {}
    BY <1>1, <1>3, <2>1
  <2>2. CASE ProfileIds # {}
    <3>1. PICK i \in ProfileIds : \A j \in ProfileIds : j <= i
      BY <1>2, <2>2, GreatestIs
    <3> DEFINE m == CHOOSE x \in ProfileIds : \A j \in ProfileIds : j <= x
    <3>2. m \in ProfileIds /\ \A j \in ProfileIds : j <= m
      BY <3>1
    <3>3. p = 1 + m
      BY <2>2
    <3> HIDE DEF m, p
    <3>4. m \in 1..MaxProfiles
      BY <1>2, <3>2
    <3>5. QED
      BY <1>1, <1>3, <3>2, <3>3, <3>4
  <2>3. QED
    BY <2>1, <2>2
<1> HIDE DEF p
<1>5. 1 \in Ids /\ name[1] = Defaults[1] /\ Defaults[1] \in AllNames
  BY <1>2, ArrayIs
<1>6. Fresh \in [options : Options, layout : AllNames \cup {Blank}]
      /\ Fresh.layout = Defaults[1]
  BY OptionsIs
<1>7. ProfileIds' = ProfileIds \cup {p} /\ stored'[p] = Fresh
      /\ \A q \in ProfileIds : stored'[q] = stored[q]
  BY <1>1, <1>4 DEF ProfileIds
<1>8. stored' \in [ProfileIds' -> [options : Options, layout : AllNames \cup {Blank}]]
  BY <1>1, <1>2, <1>6, <1>7
<1>9. ref'[p] = 1 /\ \A q \in ProfileIds : ref'[q] = ref[q]
  BY <1>1, <1>4
<1>10. RefInv'
  <2>1. Ids' = Ids
    BY DEF model, Ids
  <2>2. ref' \in [ProfileIds' -> Nat]
    BY <1>1, <1>2, <1>7 DEF RefInv
  <2>3. QED
    BY <1>2, <1>5, <1>7, <1>9, <2>1, <2>2 DEF RefInv
<1>11. ~hasty /\ Quiet =>
         \A q \in ProfileIds' : ref'[q] # 0 /\ stored'[q].layout = name[ref'[q]]
  BY <1>5, <1>6, <1>7, <1>9, QuietIs
<1>12. p # None
  BY <1>4, FormConstants
<1>13. QED
  BY <1>1, <1>2, <1>4, <1>7, <1>8, <1>10, <1>11, <1>12

LEMMA CreateProfileKeeps ==
  ASSUME FormInv, createProfile
  PROVE  FormInv'
<1>1. /\ NewProfile /\ visible' = TRUE /\ buttons' = "save" /\ enabled' = TRUE
      /\ Fill(Fresh, grid.index) /\ filledFor' = selected' /\ UNCHANGED unshown
      /\ UNCHANGED vars /\ Hurry
  BY DEF createProfile, UserOfForm
<1>2. FormOK /\ alive \in BOOLEAN
  BY ProfileIs
<1>3. UNCHANGED <<model, queue, widgets, orphaned>> /\ alive' \in BOOLEAN
  BY <1>1, <1>2 DEF vars
<1>4. /\ selected' \in ProfileIds' /\ selected' \in 1..MaxProfiles /\ selected' # None
      /\ stored' \in [ProfileIds' -> [options : Options, layout : AllNames \cup {Blank}]]
      /\ ProfileIds' \subseteq 1..MaxProfiles /\ ProfileIds \subseteq ProfileIds'
      /\ RefInv'
      /\ ~hasty /\ Quiet =>
           \A p \in ProfileIds' : ref'[p] # 0 /\ stored'[p].layout = name[ref'[p]]
  BY <1>1, <1>3, NewIs
<1>5. /\ Fresh.options = DefaultOptions /\ Fresh.layout = Defaults[1]
      /\ DefaultOptions \in Options /\ Defaults[1] \in AllNames
  BY OptionsIs, FormConstants, Constants
<1>6. /\ grid' \in Grid /\ grid'.labels = grid.labels /\ grid'.options \in Options
      /\ grid.index \in 0..Len(grid.labels) => grid'.index \in 0..Len(grid.labels)
  <2>1. grid.index \in Nat
    BY <1>2, LabelIs
  <2>2. QED
    BY <1>1, <1>2, <1>5, <2>1, FillIs
<1>7. SelectedInv' /\ ~OnOffer'
  BY <1>1, <1>4 DEF SelectedInv, OnOffer
<1>8. /\ selected' \in ProfileIds' \cup {None, Folder} /\ visible' \in BOOLEAN
      /\ buttons' \in {"connect", "save"} /\ enabled' \in BOOLEAN
      /\ filledFor' \in (1..MaxProfiles) \cup {None, Folder} /\ unshown' \subseteq ProfileIds'
  BY <1>1, <1>2, <1>4 DEF FormOK
<1>9. ~hasty /\ Quiet => grid'.index \in 0..Len(grid.labels)
  BY <1>6, QuietIs
<1>10. QED
  BY <1>1, <1>3, <1>4, <1>6, <1>7, <1>8, <1>9, UserKeeps

\* What the context menu selects unheard counts as not shown.
LEMMA NewProfileKeeps ==
  ASSUME FormInv, onProfileNewProfile
  PROVE  FormInv'
<1>1. /\ NewProfile /\ unshown' = unshown \cup {selected'} /\ UNCHANGED vars /\ Hurry
      /\ UNCHANGED <<visible, grid, buttons, enabled, filledFor>>
  BY DEF onProfileNewProfile, UserOfForm
<1>2. FormOK /\ alive \in BOOLEAN
  BY ProfileIs
<1>3. UNCHANGED <<model, queue, widgets, orphaned>> /\ alive' \in BOOLEAN
  BY <1>1, <1>2 DEF vars
<1>4. /\ selected' \in ProfileIds' /\ selected' # None
      /\ stored' \in [ProfileIds' -> [options : Options, layout : AllNames \cup {Blank}]]
      /\ ProfileIds' \subseteq 1..MaxProfiles /\ ProfileIds \subseteq ProfileIds'
      /\ RefInv'
      /\ ~hasty /\ Quiet =>
           \A p \in ProfileIds' : ref'[p] # 0 /\ stored'[p].layout = name[ref'[p]]
  BY <1>1, <1>3, NewIs
<1>5. SelectedInv' /\ ~OnOffer'
  BY <1>1, <1>4 DEF SelectedInv, OnOffer
<1>6. /\ selected' \in ProfileIds' \cup {None, Folder} /\ visible' \in BOOLEAN
      /\ grid' \in Grid /\ grid'.labels = grid.labels
      /\ buttons' \in {"connect", "save"} /\ enabled' \in BOOLEAN
      /\ filledFor' \in (1..MaxProfiles) \cup {None, Folder} /\ unshown' \subseteq ProfileIds'
      /\ (enabled' => grid'.options \in Options)
  BY <1>1, <1>2, <1>4 DEF FormOK
<1>7. ~hasty /\ Quiet => grid'.index \in 0..Len(grid.labels)
  BY <1>1, QuietIs
<1>8. QED
  BY <1>1, <1>3, <1>4, <1>5, <1>6, <1>7, UserKeeps

\* A folder is no profile.
LEMMA NewFolderKeeps ==
  ASSUME FormInv, onProfileNewFolder
  PROVE  FormInv'
<1>1. /\ selected' = Folder /\ UNCHANGED vars /\ Hurry
      /\ UNCHANGED <<visible, grid, buttons, enabled, filledFor, unshown, stored, ref>>
  BY DEF onProfileNewFolder, UserOfForm
<1>2. FormOK /\ alive \in BOOLEAN /\ Folder \notin ProfileIds /\ Folder # None
  BY ProfileIs, FormConstants
<1>3. UNCHANGED <<model, queue, widgets, orphaned>> /\ alive' \in BOOLEAN
  BY <1>1, <1>2 DEF vars
<1>4. /\ RefInv' /\ ProfileIds' = ProfileIds
      /\ stored' \in [ProfileIds' -> [options : Options, layout : AllNames \cup {Blank}]]
      /\ ProfileIds' \subseteq 1..MaxProfiles
      /\ ~hasty /\ Quiet =>
           \A p \in ProfileIds' : ref'[p] # 0 /\ stored'[p].layout = name[ref'[p]]
  BY <1>1, <1>3, SameProfiles
<1>5. SelectedInv' /\ ~OnOffer'
  BY <1>1, <1>2, <1>4 DEF SelectedInv, OnOffer
<1>6. /\ selected' \in ProfileIds' \cup {None, Folder} /\ visible' \in BOOLEAN
      /\ grid' \in Grid /\ grid'.labels = grid.labels
      /\ buttons' \in {"connect", "save"} /\ enabled' \in BOOLEAN
      /\ filledFor' \in (1..MaxProfiles) \cup {None, Folder} /\ unshown' \subseteq ProfileIds'
      /\ (enabled' => grid'.options \in Options)
  BY <1>1, <1>2, <1>4 DEF FormOK
<1>7. ~hasty /\ Quiet => grid'.index \in 0..Len(grid.labels)
  BY <1>1, QuietIs
<1>8. QED
  BY <1>1, <1>3, <1>4, <1>5, <1>6, <1>7, UserKeeps

LEMMA DeleteProfileKeeps ==
  ASSUME FormInv, onProfileDelete
  PROVE  FormInv'
<1>1. PICK gone \in SUBSET (ProfileIds \cup {selected}) :
        /\ stored' = [p \in ProfileIds \ gone |-> stored[p]]
        /\ ref' = [p \in ProfileIds \ gone |-> ref[p]]
        /\ unshown' = unshown \ gone
  BY DEF onProfileDelete
<1>2. /\ selected' = None /\ visible' = FALSE /\ propertyGridClear /\ filledFor' = None
      /\ UNCHANGED vars /\ Hurry /\ UNCHANGED buttons
  BY DEF onProfileDelete, UserOfForm
<1>3. FormOK /\ RefInv /\ alive \in BOOLEAN
  BY ProfileIs
<1>4. UNCHANGED <<model, queue, widgets, orphaned>> /\ alive' \in BOOLEAN
  BY <1>2, <1>3 DEF vars
<1>5. /\ grid' \in Grid /\ grid'.labels = grid.labels /\ enabled' = FALSE
      /\ grid'.index \in 0..Len(grid.labels)
  BY <1>2, <1>3, ClearIs
<1>6. ProfileIds' = ProfileIds \ gone
  BY <1>1 DEF ProfileIds
<1>7. RefInv'
  <2>1. Ids' = Ids
    BY <1>4 DEF model, Ids
  <2>2. QED
    BY <1>1, <1>3, <1>6, <2>1 DEF RefInv
<1>8. stored' \in [ProfileIds' -> [options : Options, layout : AllNames \cup {Blank}]]
      /\ ProfileIds' \subseteq 1..MaxProfiles /\ unshown' \subseteq ProfileIds'
  BY <1>1, <1>3, <1>6 DEF FormOK
<1>9. ~hasty /\ Quiet =>
        \A p \in ProfileIds' : ref'[p] # 0 /\ stored'[p].layout = name[ref'[p]]
  BY <1>1, <1>6, QuietIs
<1>10. SelectedInv' /\ ~OnOffer'
  BY <1>2 DEF SelectedInv, OnOffer
<1>11. /\ selected' \in ProfileIds' \cup {None, Folder} /\ visible' \in BOOLEAN
       /\ buttons' \in {"connect", "save"} /\ enabled' \in BOOLEAN
       /\ filledFor' \in (1..MaxProfiles) \cup {None, Folder} /\ ~enabled'
  BY <1>2, <1>3, <1>5 DEF FormOK
<1>12. QED
  BY <1>2, <1>4, <1>5, <1>7, <1>8, <1>9, <1>10, <1>11, UserKeeps

\* A change in the form, or none of the form that matters, offers Save.
LEMMA GridChangedKeeps ==
  ASSUME FormInv, NEW o \in Options, NEW k \in DOMAIN grid.labels, onProfileGridChanged(o, k)
  PROVE  FormInv'
<1>1. /\ visible /\ grid' = [grid EXCEPT !.options = o, !.index = k] /\ buttons' = "save"
      /\ UNCHANGED <<selected, visible, enabled, filledFor, unshown, stored, ref>>
      /\ UNCHANGED vars /\ Hurry
  BY DEF onProfileGridChanged, UserOfForm
<1>2. FormOK /\ SelectedInv /\ alive \in BOOLEAN
  BY ProfileIs
<1>3. UNCHANGED <<model, queue, widgets, orphaned>> /\ alive' \in BOOLEAN
  BY <1>1, <1>2 DEF vars
<1>4. /\ RefInv' /\ ProfileIds' = ProfileIds
      /\ stored' \in [ProfileIds' -> [options : Options, layout : AllNames \cup {Blank}]]
      /\ ProfileIds' \subseteq 1..MaxProfiles
      /\ ~hasty /\ Quiet =>
           \A p \in ProfileIds' : ref'[p] # 0 /\ stored'[p].layout = name[ref'[p]]
  BY <1>1, <1>3, SameProfiles
<1>5. /\ grid' \in Grid /\ grid'.labels = grid.labels /\ grid'.options \in Options
      /\ grid'.index \in 0..Len(grid.labels)
  <2>1. grid \in Grid /\ k \in Nat /\ k \in 0..Len(grid.labels)
    BY <1>2, LabelIs DEF FormOK
  <2>2. QED
    BY <1>1, <2>1 DEF Grid
<1>6. SelectedInv' /\ ~OnOffer'
  BY <1>1, <1>2, <1>4 DEF SelectedInv, OnOffer
<1>7. /\ selected' \in ProfileIds' \cup {None, Folder} /\ visible' \in BOOLEAN
      /\ buttons' \in {"connect", "save"} /\ enabled' \in BOOLEAN
      /\ filledFor' \in (1..MaxProfiles) \cup {None, Folder} /\ unshown' \subseteq ProfileIds'
  BY <1>1, <1>2, <1>4 DEF FormOK
<1>8. QED
  BY <1>1, <1>3, <1>4, <1>5, <1>6, <1>7, UserKeeps

LEMMA CancelKeeps ==
  ASSUME FormInv, onButtonClickedCancel
  PROVE  FormInv'
<1>1. /\ visible /\ UNCHANGED <<selected, visible, stored, ref>> /\ UNCHANGED vars /\ Hurry
      /\ selected # None => propertyGridFill(selected, 0) /\ buttons' = "connect"
  BY DEF onButtonClickedCancel, UserOfForm
<1>2. FormOK /\ SelectedInv /\ alive \in BOOLEAN /\ \A p \in ProfileIds : p \in 1..MaxProfiles
  BY ProfileIs
<1>3. UNCHANGED <<model, queue, widgets, orphaned>> /\ alive' \in BOOLEAN
  BY <1>1, <1>2 DEF vars
<1>4. /\ RefInv' /\ ProfileIds' = ProfileIds
      /\ stored' \in [ProfileIds' -> [options : Options, layout : AllNames \cup {Blank}]]
      /\ ProfileIds' \subseteq 1..MaxProfiles
      /\ ~hasty /\ Quiet =>
           \A p \in ProfileIds' : ref'[p] # 0 /\ stored'[p].layout = name[ref'[p]]
  BY <1>1, <1>3, SameProfiles
<1>5. selected \in ProfileIds \cup {Folder} /\ selected # None
  BY <1>1, <1>2 DEF SelectedInv, FormOK
<1>6. /\ grid' \in Grid /\ grid'.labels = grid.labels /\ grid'.options \in Options
      /\ selected \in ProfileIds => grid'.options = stored[selected].options
      /\ enabled' = TRUE /\ filledFor' = selected /\ unshown' = unshown \ {selected}
      /\ ~hasty /\ Quiet => /\ grid'.index \in 0..Len(grid.labels)
                            /\ selected \in ProfileIds => Label' = stored[selected].layout
  BY <1>1, <1>5, FillsIn
<1>7. SelectedInv'
  BY <1>1, <1>4, <1>5, <1>6 DEF SelectedInv
<1>8. /\ selected' \in ProfileIds' \cup {None, Folder} /\ visible' \in BOOLEAN
      /\ buttons' \in {"connect", "save"} /\ enabled' \in BOOLEAN
      /\ filledFor' \in (1..MaxProfiles) \cup {None, Folder} /\ unshown' \subseteq ProfileIds'
  BY <1>1, <1>2, <1>4, <1>5, <1>6 DEF FormOK
<1>9. ~hasty /\ Quiet /\ OnOffer' => Agrees(Label', stored'[selected'].layout)
  BY <1>1, <1>4, <1>6 DEF Agrees, OnOffer
<1>10. QED
  BY <1>1, <1>3, <1>4, <1>6, <1>7, <1>8, <1>9, UserKeeps

\* Of the label that is stored the form has the index, if the user waited.
LEMMA SaveKeeps ==
  ASSUME FormInv, onButtonClickedSave
  PROVE  FormInv'
<1>1. /\ visible /\ enabled /\ selected # None /\ Hurry
      /\ UNCHANGED <<model, queue, widgets, orphaned, selected, visible, grid, enabled,
                     filledFor, unshown>>
  BY DEF onButtonClickedSave
<1> DEFINE c == Cardinality(Ids)
           i == grid.index
<1>2. \/ \E n \in LabelsAt(i) :
           /\ IF selected \in ProfileIds
              THEN /\ stored' = [stored EXCEPT ![selected] = [options |-> grid.options, layout |-> n]]
                   /\ ref' = [ref EXCEPT ![selected] = IF i \in 0..c THEN Found(n) ELSE 0]
              ELSE UNCHANGED <<stored, ref>>
           /\ buttons' = "connect" /\ UNCHANGED alive
      \/ alive' = FALSE /\ i \notin 0..c /\ UNCHANGED <<stored, ref, buttons>>
  BY DEF onButtonClickedSave, Readable
<1>3. FormOK /\ SelectedInv /\ RefInv /\ ModelInv /\ ModelOK /\ alive \in BOOLEAN
  BY ProfileIs DEF FormInv, FormOK, ModelInv
<1>4. /\ grid \in Grid /\ grid.options \in Options /\ grid.index \in Nat
  BY <1>1, <1>3, ProfileIs, LabelIs DEF FormOK
<1>5. Ids' = Ids
  BY <1>1 DEF model, Ids
<1>6. /\ selected' \in ProfileIds \cup {None, Folder} /\ visible' \in BOOLEAN
      /\ grid' \in Grid /\ grid'.labels = grid.labels /\ enabled' \in BOOLEAN
      /\ filledFor' \in (1..MaxProfiles) \cup {None, Folder} /\ (enabled' => grid'.options \in Options)
      /\ unshown' \subseteq ProfileIds
      /\ Label' = Label /\ (~hasty /\ Quiet => grid'.index \in 0..Len(grid.labels))
  BY <1>1, <1>3, <1>4, QuietIs DEF FormOK, Label
<1>7. ASSUME UNCHANGED <<stored, ref>>
      PROVE  /\ RefInv' /\ ProfileIds' = ProfileIds
             /\ stored' \in [ProfileIds' -> [options : Options, layout : AllNames \cup {Blank}]]
             /\ ProfileIds' \subseteq 1..MaxProfiles
             /\ ~hasty /\ Quiet =>
                  \A q \in ProfileIds' : ref'[q] # 0 /\ stored'[q].layout = name[ref'[q]]
  BY <1>1, <1>7, SameProfiles
<1>8. CASE alive' = FALSE /\ UNCHANGED <<stored, ref, buttons>>
  <2>1. SelectedInv' /\ (OnOffer' => OnOffer)
    BY <1>1, <1>3, <1>7, <1>8 DEF SelectedInv, OnOffer
  <2>2. ~hasty /\ Quiet /\ OnOffer' => Agrees(Label', stored'[selected'].layout)
    BY <1>1, <1>6, <1>8, <2>1, QuietIs
  <2>3. buttons' \in {"connect", "save"} /\ alive' \in BOOLEAN
    BY <1>3, <1>8 DEF FormOK
  <2>4. QED
    BY <1>1, <1>6, <1>7, <1>8, <2>1, <2>2, <2>3, UserKeeps
<1>9. CASE selected \notin ProfileIds /\ UNCHANGED <<stored, ref, alive>> /\ buttons' = "connect"
  <2>1. SelectedInv' /\ ~OnOffer'
    BY <1>1, <1>3, <1>7, <1>9 DEF SelectedInv, OnOffer
  <2>2. buttons' \in {"connect", "save"} /\ alive' \in BOOLEAN
    BY <1>3, <1>9
  <2>3. QED
    BY <1>1, <1>6, <1>7, <1>9, <2>1, <2>2, UserKeeps
<1>10. ASSUME NEW n \in LabelsAt(i), selected \in ProfileIds,
             stored' = [stored EXCEPT ![selected] = [options |-> grid.options, layout |-> n]],
             ref' = [ref EXCEPT ![selected] = IF i \in 0..c THEN Found(n) ELSE 0],
             buttons' = "connect", UNCHANGED alive
      PROVE  FormInv'
  <2>1. /\ getLabelArray \in Seq(AllNames) /\ Len(getLabelArray) = c
        /\ \A k \in 1..c : AtRank(Ids, k) \in Ids /\ getLabelArray[k] = name[AtRank(Ids, k)]
        /\ Defaults[1] \in AllNames /\ c \in Nat /\ 1 \in Ids /\ name[1] = Defaults[1]
    BY <1>3, ArrayIs
  <2>2. IF i \in 1..c THEN n = getLabelArray[i]
        ELSE IF i = 0 THEN n = Defaults[1] ELSE n \in {Defaults[1], Blank}
    BY <1>10 DEF LabelsAt
  <2> HIDE DEF c, i
  <2>3. i \in 0..c => n \in Taken /\ n \in AllNames
    <3>1. CASE i = 0
      BY <2>1, <2>2, <3>1 DEF Taken
    <3>2. CASE i \in 1..c
      BY <2>1, <2>2, <3>2 DEF Taken
    <3>3. QED
      BY <2>1, <3>1, <3>2
  <2>4. n \in AllNames \cup {Blank}
    <3>1. i \in 1..c => i \in 0..c
      BY <2>1
    <3>2. QED
      BY <2>1, <2>2, <2>3, <3>1
  <2>5. i \in 0..c => Found(n) \in Ids /\ name[Found(n)] = n
    BY <1>3, <2>3, FoundIt
  <2>6. ProfileIds' = ProfileIds
    BY <1>10 DEF ProfileIds
  <2>7. stored \in [ProfileIds -> [options : Options, layout : AllNames \cup {Blank}]]
        /\ ProfileIds \subseteq 1..MaxProfiles
    BY <1>3 DEF FormOK
  <2>8. /\ stored'[selected] = [options |-> grid.options, layout |-> n]
        /\ \A q \in ProfileIds : q # selected => stored'[q] = stored[q]
        /\ stored' \in [ProfileIds' -> [options : Options, layout : AllNames \cup {Blank}]]
    BY <1>4, <1>10, <2>4, <2>6, <2>7
  <2>9. /\ ref'[selected] = IF i \in 0..c THEN Found(n) ELSE 0
        /\ \A q \in ProfileIds : q # selected => ref'[q] = ref[q]
        /\ ref' = [q \in ProfileIds |-> ref'[q]]
    BY <1>3, <1>10 DEF RefInv
  <2>10. \A j \in Ids : j \in Nat /\ j # 0
    BY <1>3 DEF ModelOK
  <2>11. ref'[selected] = 0 \/ ref'[selected] \in Ids
    BY <2>5, <2>9
  <2>12. RefInv'
    <3>1. \A q \in ProfileIds : ref'[q] \in Nat /\ (ref'[q] = 0 \/ ref'[q] \in Ids)
      BY <1>3, <2>9, <2>10, <2>11 DEF RefInv
    <3>2. QED
      BY <1>5, <2>6, <2>9, <3>1 DEF RefInv
  <2>13. SelectedInv'
    BY <1>1, <1>3, <1>4, <1>10, <2>6, <2>8 DEF SelectedInv
  <2>14. ~hasty /\ Quiet =>
           \A q \in ProfileIds' : ref'[q] # 0 /\ stored'[q].layout = name[ref'[q]]
    <3> SUFFICES ASSUME ~hasty, Quiet, NEW q \in ProfileIds
                 PROVE  ref'[q] # 0 /\ stored'[q].layout = name[ref'[q]]
      BY <2>6
    <3>1. i \in 0..c
      BY <2>1, QuietIs DEF i
    <3>2. CASE q = selected
      BY <2>5, <2>8, <2>9, <2>10, <3>1, <3>2
    <3>3. CASE q # selected
      BY <2>8, <2>9, <3>3, QuietIs
    <3>4. QED
      BY <3>2, <3>3
  <2>15. ~hasty /\ Quiet => Agrees(Label', stored'[selected'].layout)
    <3> SUFFICES ASSUME ~hasty, Quiet PROVE Agrees(Label, n)
      BY <1>1, <1>6, <2>8
    <3>1. grid.labels = getLabelArray /\ i \in 0..c
      BY <2>1, QuietIs DEF i
    <3>2. IF i \in 1..c THEN Label = grid.labels[i] ELSE Label = Blank
      BY <1>3, <2>1, <3>1, LabelIs DEF i
    <3>3. i \in 1..c \/ i = 0
      BY <2>1, <3>1
    <3>4. 0 \notin 1..c
      BY <2>1
    <3>5. QED
      BY <2>2, <3>1, <3>2, <3>3, <3>4 DEF Agrees
  <2>16. buttons' \in {"connect", "save"} /\ alive' \in BOOLEAN
    BY <1>3, <1>10
  <2>17. unshown' \subseteq ProfileIds' /\ selected' \in ProfileIds' \cup {None, Folder}
         /\ ProfileIds' \subseteq 1..MaxProfiles
    BY <1>6, <2>6, <2>7
  <2>18. QED
    BY <1>1, <1>6, <2>8, <2>12, <2>13, <2>14, <2>15, <2>16, <2>17, UserKeeps
<1>11. QED
  BY <1>2, <1>8, <1>9, <1>10

-------------------------------------------------------------------------------
(* The layouts change *)

\* The list hears of every change, the profiles of all but the additions.
LEMMA ToldIs ==
  ASSUME WidgetsOK, Quiet, NEW type \in EventTypes, NEW i, queue' = Notified(type, i)
  PROVE  /\ Len(queue'[SettingsTab]) = 1 /\ queue'[SettingsTab] # <<>>
         /\ queue'[SettingsTab][1].type = type
         /\ IF type = "added" THEN queue'[ProfileList] = <<>>
            ELSE /\ Len(queue'[ProfileList]) = 1 /\ queue'[ProfileList] # <<>>
                 /\ queue'[ProfileList][1].type = type
                 /\ type = "changed" => queue'[ProfileList][1].item = i
<1> DEFINE event == [type |-> type, item |-> IF type = "removed" THEN 0 ELSE i]
<1>1. event.type = type /\ (type = "changed" => event.item = i)
  OBVIOUS
<1> HIDE DEF event
<1>2. /\ queue[SettingsTab] = <<>> /\ queue[ProfileList] = <<>>
      /\ Append(<<>>, event) = <<event>> /\ Len(<<event>>) = 1 /\ <<event>>[1] = event
      /\ <<event>> # <<>>
  BY DEF Quiet
<1>3. queue' = [l \in Listeners |->
        IF l \in Tabs \ Open \/ (l \in Deaf /\ type = "added") THEN queue[l]
        ELSE Append(queue[l], event)]
  BY DEF Notified, event
<1>4. queue'[SettingsTab] = <<event>>
  BY <1>2, <1>3, FormConstants
<1>5. queue'[ProfileList] = IF type = "added" THEN <<>> ELSE <<event>>
  BY <1>2, <1>3, FormConstants
<1>6. QED
  BY <1>1, <1>2, <1>4, <1>5

\* A change of the layouts, which neither the form nor the profiles have heard
\* of yet.
LEMMA ChangeKeeps ==
  ASSUME FormInv, Hurry, NEW type \in EventTypes, NEW i \in Nat, queue' = Notified(type, i),
         UNCHANGED <<stored, form, widgets, alive>>, orphaned' \in BOOLEAN,
         ModelInv', RefInv', type = "changed" => i \in Ids',
         ~hasty /\ Quiet =>
           /\ \A p \in ProfileIds : ref'[p] # 0 /\ FinalLayout(p)' = name'[ref'[p]]
           /\ type = "changed" => Cardinality(Ids') = Cardinality(Ids)
           /\ OnOffer => \A label \in FinalLabels' : Agrees(label, FinalLayout(selected)')
  PROVE  FormInv'
<1>1. /\ FormOK /\ SelectedInv /\ WidgetsOK /\ hasty \in BOOLEAN
  BY DEF FormInv, FormOK
<1>2. /\ UNCHANGED <<selected, visible, grid, buttons, enabled, filledFor, unshown>>
      /\ UNCHANGED <<current, shown, offered, edit, missed, alive>> /\ ProfileIds' = ProfileIds
  BY DEF form, widgets, ProfileIds
<1>3. hasty' \in BOOLEAN /\ (~hasty' => ~hasty /\ Quiet)
  BY <1>1 DEF Hurry, Quiet
<1>4. queue' \in [Listeners -> Seq(Events)]
  BY <1>1, NotifiedIs
<1>5. WidgetsOK'
  BY <1>1, <1>2, <1>4 DEF WidgetsOK
<1>6. FormOK'
  BY <1>1, <1>2, <1>3, <1>5 DEF FormOK
<1>7. SelectedInv'
  BY <1>1, <1>2 DEF SelectedInv
<1>8. ~hasty' => /\ Len(queue'[SettingsTab]) = 1 /\ queue'[SettingsTab] # <<>>
                 /\ IF type = "added" THEN queue'[ProfileList] = <<>>
                    ELSE /\ Len(queue'[ProfileList]) = 1
                         /\ queue'[ProfileList][1].type = type
                         /\ type = "changed" => queue'[ProfileList][1].item = i
  BY <1>1, <1>3, ToldIs
<1>9. PendingInv'
  <2> SUFFICES ASSUME ~hasty'
               PROVE  /\ Len(queue'[SettingsTab]) <= 1 /\ Len(queue'[ProfileList]) <= 1
                      /\ queue'[ProfileList] # <<>> /\ queue'[ProfileList][1].type = "changed" =>
                           queue'[ProfileList][1].item \in Ids'
    BY DEF PendingInv
  <2>1. CASE type = "added"
    <3>1. Len(queue'[SettingsTab]) = 1 /\ queue'[ProfileList] = <<>>
      BY <1>8, <2>1
    <3>2. Len(queue'[ProfileList]) = 0
      BY <3>1
    <3>3. QED
      BY <3>1, <3>2
  <2>2. CASE type # "added"
    <3>1. /\ Len(queue'[SettingsTab]) = 1 /\ Len(queue'[ProfileList]) = 1
          /\ queue'[ProfileList][1].type = type
          /\ type = "changed" => queue'[ProfileList][1].item \in Ids'
      BY <1>8, <2>2
    <3>2. Len(queue'[SettingsTab]) <= 1 /\ Len(queue'[ProfileList]) <= 1
      BY <3>1
    <3>3. QED
      BY <3>1, <3>2
  <2>3. QED
    BY <2>1, <2>2
<1>10. LabelsInv'
  BY <1>8 DEF LabelsInv
<1>11. LayoutInv'
  BY <1>2, <1>3 DEF LayoutInv
<1>12. OnOffer' = OnOffer
  BY <1>2 DEF OnOffer
<1>13. LabelInv'
  <2> SUFFICES ASSUME ~hasty', OnOffer', NEW label \in FinalLabels'
               PROVE  Agrees(label, FinalLayout(selected)')
    BY DEF LabelInv
  <2>1. ~hasty /\ Quiet /\ OnOffer
    BY <1>3, <1>12
  <2>2. QED
    BY <2>1
<1>14. IndexInv'
  <2> SUFFICES ASSUME ~hasty'
               PROVE  /\ \A p \in ProfileIds : ref'[p] # 0
                      /\ grid.index \in 0..Len(grid.labels)
                      /\ queue'[SettingsTab][1].type = "changed" =>
                           Len(grid.labels) = Cardinality(Ids')
    BY <1>2 DEF IndexInv
  <2>1. ~hasty /\ Quiet
    BY <1>3
  <2>2. grid.labels = getLabelArray /\ grid.index \in 0..Len(grid.labels)
    BY <2>1, QuietIs
  <2>3. Len(getLabelArray) = Cardinality(Ids)
    BY <1>1, ArrayIs DEF FormOK
  <2>4. queue'[SettingsTab][1].type = type
    BY <1>1, <2>1, ToldIs
  <2>5. QED
    BY <2>1, <2>2, <2>3, <2>4
<1>15. QED
  BY <1>6, <1>7, <1>9, <1>10, <1>11, <1>13, <1>14 DEF FormInv

\* The name of a layout that is gone, or that has another name now, is nobody's.
LEMMA DeleteInListKeeps ==
  ASSUME FormInv, NEW i \in Ids, DeleteInList(i)
  PROVE  FormInv'
<1>1. /\ isDeletable(i) /\ remove(i, visible /\ Label = name[i]) /\ UNCHANGED <<widgets, alive>>
      /\ ref' = [p \in ProfileIds |-> IF ref[p] = i THEN 1 ELSE ref[p]]
      /\ Hurry /\ UNCHANGED <<stored, form>>
  BY DEF DeleteInList, onLayoutsDelete
<1>2. /\ FormOK /\ RefInv /\ ModelInv /\ WidgetsOK /\ visible \in BOOLEAN
      /\ \A j, k \in Ids : name[j] = name[k] => j = k
  BY DEF FormInv, FormOK, ModelInv, NameInv
<1>3. ModelInv' /\ Ids' = Ids \ {i} /\ \A j \in Ids' : name'[j] = name[j]
  BY <1>1, <1>2, RemoveKeeps
<1>4. queue' = Notified("removed", i) /\ "removed" \in EventTypes /\ i \in Nat
  BY <1>1, <1>2 DEF remove, EventTypes, ModelInv, ModelOK
<1>5. 1 \in Ids' /\ name'[1] = Defaults[1] /\ 1 \in Nat
  BY <1>3, Constants DEF ModelInv, NameInv
<1>6. orphaned' \in BOOLEAN
  BY <1>1, <1>2 DEF remove, WidgetsOK, Meant
<1>7. ProfileIds' = ProfileIds /\ UNCHANGED grid
  BY <1>1 DEF ProfileIds, form
<1>8. RefInv'
  BY <1>1, <1>2, <1>3, <1>5, <1>7 DEF RefInv
<1>9. Taken' = {name[j] : j \in Ids \ {i}} /\ name[i] \notin Taken'
  BY <1>2, <1>3 DEF Taken
<1>10. ASSUME ~hasty, Quiet
       PROVE  /\ \A p \in ProfileIds : ref'[p] # 0 /\ FinalLayout(p)' = name'[ref'[p]]
              /\ OnOffer => \A label \in FinalLabels' : Agrees(label, FinalLayout(selected)')
  <2>1. queue'[SettingsTab] # <<>> /\ queue'[SettingsTab][1].type = "removed"
        /\ queue'[ProfileList] # <<>> /\ queue'[ProfileList][1].type = "removed"
    BY <1>2, <1>4, <1>10, ToldIs
  <2>2. ASSUME NEW p
        PROVE  FinalLayout(p)' = IF stored[p].layout \in Taken' THEN stored[p].layout ELSE Defaults[1]
    BY <1>1, <2>1 DEF FinalLayout
  <2>3. ASSUME NEW p \in ProfileIds PROVE ref'[p] # 0 /\ FinalLayout(p)' = name'[ref'[p]]
    <3>1. CASE ref[p] = i
      <4>1. stored[p].layout = name[i] /\ ref'[p] = 1
        BY <1>1, <1>10, <3>1, QuietIs
      <4>2. QED
        BY <1>5, <1>9, <2>2, <4>1
    <3>2. CASE ref[p] # i
      <4>1. /\ ref'[p] = ref[p] /\ stored[p].layout = name[ref[p]] /\ ref[p] \in Ids \ {i}
            /\ ref[p] # 0
        BY <1>1, <1>10, <3>2, QuietIs
      <4>2. QED
        BY <1>3, <1>9, <2>2, <4>1
    <3>3. QED
      BY <3>1, <3>2
  <2>4. FinalLabels' = IF Label \in Taken' THEN {Label} ELSE {Blank, Defaults[1]}
    BY <1>7, <2>1 DEF FinalLabels, Label
  <2>5. FinalLayout(selected)' = IF stored[selected].layout \in Taken'
                                 THEN stored[selected].layout ELSE Defaults[1]
    BY <1>1, <2>1 DEF FinalLayout, form
  <2>6. ASSUME OnOffer, NEW label \in FinalLabels'
        PROVE  Agrees(label, FinalLayout(selected)')
    <3>1. Label = stored[selected].layout \/ (Label = Blank /\ stored[selected].layout = Defaults[1])
      BY <1>10, <2>6, QuietIs DEF Agrees
    <3>2. Defaults[1] \in Taken'
      BY <1>5 DEF Taken
    <3>3. QED
      BY <2>4, <2>5, <2>6, <3>1, <3>2 DEF Agrees
  <2>7. QED
    BY <2>3, <2>6
<1>11. QED
  BY <1>1, <1>3, <1>4, <1>6, <1>8, <1>10, ChangeKeeps

LEMMA FormRenameKeeps ==
  ASSUME FormInv, NEW i \in Ids, NEW v \in Texts, RenameInList(i, v)
  PROVE  FormInv'
<1>1. /\ isDeletable(i) /\ SetValue(i, v) /\ UNCHANGED <<widgets, alive, orphaned>>
      /\ Hurry /\ UNCHANGED <<stored, form, ref>>
  BY DEF RenameInList, onLayoutsRename, UnchangedForm
<1>2. /\ FormOK /\ RefInv /\ ModelInv /\ WidgetsOK /\ orphaned \in BOOLEAN
      /\ name \in [Ids -> AllNames]
      /\ \A j, k \in Ids : name[j] = name[k] => j = k
  BY DEF FormInv, FormOK, ModelInv, ModelOK, NameInv, WidgetsOK
<1>3. ModelInv' /\ Ids' = Ids
  <2>1. v \in AllNames
    BY DEF AllNames
  <2>2. QED
    BY <1>1, <1>2, <2>1, SetValueKeeps
<1>4. queue' = Notified("changed", i) /\ "changed" \in EventTypes /\ i \in Nat
  BY <1>1, <1>2 DEF SetValue, EventTypes, ModelInv, ModelOK
<1>5. name' = [name EXCEPT ![i] = v] /\ v \notin Taken
  BY <1>1 DEF SetValue
<1>6. name'[i] = v /\ \A j \in Ids : j # i => name'[j] = name[j]
  BY <1>2, <1>5
<1>7. ProfileIds' = ProfileIds /\ UNCHANGED <<grid, selected>>
  BY <1>1 DEF ProfileIds, form
<1>8. RefInv'
  BY <1>1, <1>2, <1>3, <1>7 DEF RefInv
<1>9. Taken' = {name'[j] : j \in Ids} /\ name[i] \notin Taken'
  <2>1. name[i] # v
    BY <1>5 DEF Taken
  <2>2. QED
    BY <1>2, <1>3, <1>6, <2>1 DEF Taken
<1>10. ASSUME ~hasty, Quiet
       PROVE  /\ \A p \in ProfileIds : ref'[p] # 0 /\ FinalLayout(p)' = name'[ref'[p]]
              /\ OnOffer => \A label \in FinalLabels' : Agrees(label, FinalLayout(selected)')
  <2>1. queue'[SettingsTab] # <<>> /\ queue'[SettingsTab][1].type = "changed"
        /\ queue'[ProfileList] # <<>> /\ queue'[ProfileList][1].type = "changed"
        /\ queue'[ProfileList][1].item = i
    BY <1>2, <1>4, <1>10, ToldIs
  <2>2. ASSUME NEW p
        PROVE  FinalLayout(p)' = IF stored[p].layout \in Taken' THEN stored[p].layout ELSE v
    BY <1>1, <1>6, <2>1 DEF FinalLayout
  <2>3. ASSUME NEW p \in ProfileIds PROVE ref'[p] # 0 /\ FinalLayout(p)' = name'[ref'[p]]
    <3>1. ref'[p] = ref[p] /\ ref[p] # 0 /\ ref[p] \in Ids /\ stored[p].layout = name[ref[p]]
      BY <1>1, <1>10, QuietIs
    <3>2. CASE ref[p] = i
      BY <1>6, <1>9, <2>2, <3>1, <3>2
    <3>3. CASE ref[p] # i
      BY <1>6, <1>9, <2>2, <3>1, <3>3
    <3>4. QED
      BY <3>2, <3>3
  <2>4. /\ FinalLabels' = {IF grid.index \in 1..Cardinality(Ids) THEN getLabelArray'[grid.index] ELSE Blank}
    BY <1>3, <1>7, <2>1 DEF FinalLabels
  <2>5. FinalLayout(selected)' = IF stored[selected].layout \in Taken'
                                 THEN stored[selected].layout ELSE v
    BY <1>1, <1>6, <1>7, <2>1 DEF FinalLayout
  <2>6. ASSUME OnOffer, NEW label \in FinalLabels'
        PROVE  Agrees(label, FinalLayout(selected)')
    <3> DEFINE k == grid.index
               c == Cardinality(Ids)
               a == AtRank(Ids, k)
    <3>1. Label = stored[selected].layout \/ (Label = Blank /\ stored[selected].layout = Defaults[1])
      BY <1>10, <2>6, QuietIs DEF Agrees
    <3>2. /\ grid.labels = getLabelArray /\ Len(getLabelArray) = c /\ k \in 0..c /\ c \in Nat
          /\ 1 \in Ids /\ name[1] = Defaults[1] /\ i # 1
      BY <1>1, <1>2, <1>10, QuietIs, ArrayIs, Constants DEF isDeletable
    <3>3. CASE k \notin 1..c
      <4>1. Label = Blank /\ label = Blank
        BY <1>2, <2>4, <2>6, <3>2, <3>3, LabelIs
      <4>2. stored[selected].layout = Defaults[1]
        <5>1. stored[selected].layout \in Taken
          BY <1>10, <2>6, QuietIs DEF OnOffer
        <5>2. stored[selected].layout # Blank
          BY <1>2, <5>1, FormConstants DEF Taken
        <5>3. QED
          BY <3>1, <4>1, <5>2
      <4>3. Defaults[1] \in Taken'
        BY <1>6, <1>9, <3>2
      <4>4. QED
        BY <2>5, <4>1, <4>2, <4>3 DEF Agrees
    <3>4. CASE k \in 1..c
      <4>1. a \in Ids /\ getLabelArray[k] = name[a]
        BY <1>2, <3>4, ArrayIs
      <4>2. getLabelArray'[k] = name'[a]
        <5>1. \A j \in 1..Cardinality(Ids') : getLabelArray'[j] = name'[AtRank(Ids', j)]
          BY DEF getLabelArray, AtRank, Rank
        <5>2. QED
          BY <1>3, <3>4, <5>1
      <4>3. Label = name[a]
        BY <1>2, <3>2, <3>4, <4>1, LabelIs
      <4> HIDE DEF a, k, c
      <4>4. label = name'[a]
        BY <2>4, <2>6, <3>4, <4>2 DEF k, c
      <4>5. name[a] = stored[selected].layout
        <5>1. name[a] \in AllNames /\ Blank \notin AllNames
          BY <1>2, <4>1, FormConstants
        <5>2. QED
          BY <3>1, <4>3, <5>1
      <4>6. CASE a = i
        BY <1>6, <1>9, <2>5, <4>4, <4>5, <4>6 DEF Agrees
      <4>7. CASE a # i
        <5>1. name'[a] = name[a] /\ name[a] \in Taken'
          BY <1>6, <1>9, <4>1, <4>7
        <5>2. QED
          BY <2>5, <4>4, <4>5, <5>1 DEF Agrees
      <4>8. QED
        BY <4>6, <4>7
    <3>5. QED
      BY <3>3, <3>4
  <2>7. QED
    BY <2>3, <2>6
<1>11. orphaned' \in BOOLEAN
  BY <1>1, <1>2
<1>12. QED
  BY <1>1, <1>3, <1>4, <1>8, <1>10, <1>11, ChangeKeeps

LEMMA SaveInTabKeeps ==
  ASSUME FormInv, SaveInTab
  PROVE  FormInv'
<1>1. /\ next <= MaxId /\ create(TRUE) /\ Hurry
      /\ UNCHANGED <<stored, form, ref>> /\ UNCHANGED <<widgets, alive, orphaned>>
  BY DEF SaveInTab, UnchangedForm
<1>2. FormOK /\ RefInv /\ ModelInv /\ WidgetsOK /\ orphaned \in BOOLEAN
  BY DEF FormInv, FormOK, WidgetsOK
<1>3. ModelInv' /\ Ids' = Ids \cup {next} /\ next \in Nat /\ \A i \in Ids : name'[i] = name[i]
  BY <1>1, <1>2, CreateKeeps
<1>4. queue' = Notified("added", next) /\ "added" \in EventTypes
  BY <1>1 DEF create, EventTypes
<1>5. ProfileIds' = ProfileIds /\ UNCHANGED <<grid, selected>>
  BY <1>1 DEF ProfileIds, form
<1>6. RefInv'
  BY <1>1, <1>2, <1>3, <1>5 DEF RefInv
<1>7. ASSUME ~hasty, Quiet
      PROVE  /\ \A p \in ProfileIds : ref'[p] # 0 /\ FinalLayout(p)' = name'[ref'[p]]
             /\ OnOffer => \A label \in FinalLabels' : Agrees(label, FinalLayout(selected)')
  <2>1. queue'[SettingsTab] # <<>> /\ queue'[SettingsTab][1].type = "added"
        /\ queue'[ProfileList] = <<>>
    BY <1>2, <1>4, <1>7, ToldIs
  <2>2. ASSUME NEW p PROVE FinalLayout(p)' = stored[p].layout
    BY <1>1, <2>1 DEF FinalLayout
  <2>3. FinalLayout(selected)' = stored[selected].layout
    BY <1>1, <1>5, <2>1 DEF FinalLayout
  <2>4. \A p \in ProfileIds : ref'[p] # 0 /\ FinalLayout(p)' = name'[ref'[p]]
    BY <1>1, <1>3, <1>7, <2>2, QuietIs
  <2>5. FinalLabels' = IF Label \in Taken' THEN {Label} ELSE {Blank, Defaults[1]}
    BY <1>5, <2>1 DEF FinalLabels, Label
  <2>6. ASSUME OnOffer, NEW label \in FinalLabels'
        PROVE  Agrees(label, FinalLayout(selected)')
    <3>1. Label = stored[selected].layout \/ (Label = Blank /\ stored[selected].layout = Defaults[1])
      BY <1>7, <2>6, QuietIs DEF Agrees
    <3>2. stored[selected].layout \in Taken'
      <4>1. stored[selected].layout \in Taken
        BY <1>7, <2>6, QuietIs DEF OnOffer
      <4>2. QED
        BY <1>3, <4>1 DEF Taken
    <3>3. QED
      BY <2>3, <2>5, <2>6, <3>1, <3>2 DEF Agrees
  <2>7. QED
    BY <2>3, <2>4, <2>6
<1>8. orphaned' \in BOOLEAN
  BY <1>1, <1>2
<1>9. QED
  BY <1>1, <1>3, <1>4, <1>6, <1>7, <1>8, ChangeKeeps

-------------------------------------------------------------------------------
(* The listeners hear of it *)

\* An event that is handled was the only one, if the user waited.
LEMMA HeardIs ==
  ASSUME FormInv, NEW l \in {SettingsTab, ProfileList}, NEW type, Handles(l, type)
  PROVE  /\ queue' \in [Listeners -> Seq(Events)] /\ queue[l] # <<>>
         /\ queue[l][1].type = type /\ Head(queue[l]) = queue[l][1]
         /\ \A m \in Listeners \ {l} : queue'[m] = queue[m]
         /\ ~hasty => queue'[l] = <<>>
<1>1. WidgetsOK /\ l \in Listeners /\ PendingInv
  BY FormConstants DEF FormInv, FormOK
<1>2. /\ queue' \in [Listeners -> Seq(Events)] /\ queue[l] # <<>>
      /\ queue[l][1].type = type /\ Head(queue[l]) = queue[l][1]
      /\ \A m \in Listeners \ {l} : queue'[m] = queue[m]
  BY <1>1, HandlesIs DEF Handles
<1>3. queue'[l] = Tail(queue[l]) /\ queue[l] \in Seq(Events)
  BY <1>1 DEF Handles, WidgetsOK
<1>4. ASSUME ~hasty PROVE queue'[l] = <<>>
  <2>1. Len(queue[l]) <= 1
    BY <1>1, <1>4 DEF PendingInv
  <2> DEFINE q == queue[l]
  <2>2. q \in Seq(Events) /\ q # <<>> /\ Len(q) <= 1
    BY <1>2, <1>3, <2>1
  <2> HIDE DEF q
  <2>3. Tail(q) = <<>>
    BY <2>2
  <2>4. QED
    BY <1>3, <2>3 DEF q
<1>5. QED
  BY <1>2, <1>4

\* refreshLayouts and what follows a rename: the form gets its labels.
LEMMA ListHearsKeeps ==
  ASSUME FormInv, NEW type, Handles(SettingsTab, type),
         UNCHANGED <<model, widgets, alive, orphaned, stored, ref, hasty,
                     selected, visible, buttons, enabled, filledFor, unshown>>,
         NEW k \in Nat, grid' = [grid EXCEPT !.labels = getLabelArray, !.index = k],
         ~hasty => k \in 0..Len(getLabelArray),
         ~hasty /\ visible => Label' \in FinalLabels
  PROVE  FormInv'
<1>1. /\ FormOK /\ SelectedInv /\ RefInv /\ PendingInv /\ LabelsInv /\ LayoutInv /\ LabelInv
      /\ ModelInv /\ WidgetsOK
  BY DEF FormInv, FormOK
<1>2. /\ queue' \in [Listeners -> Seq(Events)] /\ queue'[ProfileList] = queue[ProfileList]
      /\ ~hasty => queue'[SettingsTab] = <<>>
  BY HeardIs, FormConstants
<1>3. ModelInv' /\ Ids' = Ids /\ name' = name /\ ProfileIds' = ProfileIds /\ Taken' = Taken
  BY <1>1, SameModel DEF ProfileIds, Taken
<1>4. UNCHANGED <<current, shown, offered, edit, missed>>
  BY DEF widgets
<1>5. WidgetsOK'
  BY <1>1, <1>2, <1>4 DEF WidgetsOK
<1>6. /\ grid' \in Grid /\ grid'.options = grid.options /\ grid'.labels = getLabelArray
      /\ grid'.index = k
  <2>1. grid \in Grid /\ getLabelArray \in Seq(AllNames)
    BY <1>1, ArrayIs DEF FormOK
  <2>2. QED
    BY <2>1 DEF Grid
<1>7. FormOK'
  BY <1>1, <1>3, <1>4, <1>5, <1>6 DEF FormOK
<1>8. SelectedInv' /\ RefInv'
  BY <1>1, <1>3, <1>6 DEF SelectedInv, RefInv
<1>9. getLabelArray' = getLabelArray
  BY <1>3 DEF getLabelArray
<1>10. PendingInv' /\ LabelsInv'
  <2>1. Len(<<>>) = 0
    OBVIOUS
  <2>2. QED
    BY <1>1, <1>2, <1>3, <1>6, <1>9, <2>1 DEF PendingInv, LabelsInv
<1>11. \A p : FinalLayout(p)' = FinalLayout(p)
  BY <1>2, <1>3 DEF FinalLayout
<1>12. LayoutInv'
  BY <1>1, <1>3, <1>11 DEF LayoutInv
<1>13. LabelInv'
  <2> SUFFICES ASSUME ~hasty, OnOffer, NEW label \in FinalLabels'
               PROVE  Agrees(label, FinalLayout(selected)')
    BY <1>3 DEF LabelInv, OnOffer
  <2>1. FinalLabels' = {Label'}
    BY <1>2 DEF FinalLabels
  <2>2. Label' \in FinalLabels
    BY DEF OnOffer
  <2>3. \A x \in FinalLabels : Agrees(x, FinalLayout(selected))
    BY <1>1 DEF LabelInv
  <2>4. FinalLayout(selected)' = FinalLayout(selected)
    BY <1>2, <1>3 DEF FinalLayout
  <2>5. QED
    BY <2>1, <2>2, <2>3, <2>4
<1>14. IndexInv'
  BY <1>1, <1>2, <1>3, <1>6 DEF FormInv, IndexInv
<1>15. QED
  BY <1>7, <1>8, <1>10, <1>12, <1>13, <1>14 DEF FormInv

LEMMA RefreshKeeps ==
  ASSUME FormInv, refreshLayouts
  PROVE  FormInv'
<1> DEFINE k == IndexOf(getLabelArray, Label)
<1>1. PICK type \in {"added", "removed"} : Handles(SettingsTab, type)
  BY DEF refreshLayouts
<1>2. PICK index \in IF visible /\ k # 0 THEN {k} ELSE {0, 1} :
        grid' = [grid EXCEPT !.labels = getLabelArray, !.index = index]
  BY DEF refreshLayouts
<1>3. UNCHANGED <<model, widgets, alive, orphaned, stored, ref, hasty,
                  selected, visible, buttons, enabled, filledFor, unshown>>
  BY DEF refreshLayouts
<1>4. FormOK /\ ModelInv /\ grid \in Grid
  BY DEF FormInv, FormOK
<1>5. /\ getLabelArray \in Seq(AllNames) /\ DOMAIN getLabelArray = 1..Len(getLabelArray)
      /\ 1 \in 1..Len(getLabelArray) /\ getLabelArray[1] = Defaults[1]
      /\ \A n \in Taken : \E j \in 1..Len(getLabelArray) : getLabelArray[j] = n
  BY <1>4, ArrayIs
<1>6. /\ k \in Nat
      /\ IF \E j \in 1..Len(getLabelArray) : getLabelArray[j] = Label
         THEN k \in 1..Len(getLabelArray) /\ getLabelArray[k] = Label
         ELSE k = 0
  BY <1>5, IndexIs
<1> HIDE DEF k
<1>7. index \in Nat /\ index \in 0..Len(getLabelArray)
  <2>1. Len(getLabelArray) \in Nat
    BY <1>5
  <2>2. QED
    BY <1>2, <1>5, <1>6, <2>1
<1>8. grid'.labels = getLabelArray /\ grid'.index = index
  BY <1>2, <1>4, <1>7 DEF Grid
<1>9. Label' = IF index \in 1..Len(getLabelArray) THEN getLabelArray[index] ELSE Blank
  BY <1>5, <1>8 DEF Label
<1>10. queue[SettingsTab] # <<>> /\ queue[SettingsTab][1].type # "changed"
  BY <1>1, HeardIs
<1>11. FinalLabels = IF Label \in Taken THEN {Label} ELSE {Blank, Defaults[1]}
  BY <1>10 DEF FinalLabels
<1>12. ASSUME visible PROVE Label' \in FinalLabels
  <2>1. CASE k # 0
    <3>1. Label' = Label /\ k \in 1..Len(getLabelArray) /\ getLabelArray[k] = Label
      BY <1>2, <1>6, <1>9, <1>12, <2>1
    <3>2. Label \in Taken
      BY <1>4, <3>1, ArrayIs DEF Taken
    <3>3. QED
      BY <1>11, <3>1, <3>2
  <2>2. CASE k = 0
    <3>1. Label \notin Taken
      BY <1>5, <1>6, <2>2
    <3>2. index \in {0, 1}
      BY <1>2, <2>2
    <3>3. Label' \in {Blank, Defaults[1]}
      BY <1>5, <1>9, <3>2
    <3>4. QED
      BY <1>11, <3>1, <3>3
  <2>3. QED
    BY <2>1, <2>2
<1>13. QED
  BY <1>1, <1>2, <1>3, <1>7, <1>12, ListHearsKeeps

LEMMA FormChangedKeeps ==
  ASSUME FormInv, SettingsLayoutChanged
  PROVE  FormInv'
<1>1. /\ Handles(SettingsTab, "changed") /\ grid' = [grid EXCEPT !.labels = getLabelArray]
      /\ UNCHANGED <<model, widgets, alive, orphaned, stored, ref, hasty,
                     selected, visible, buttons, enabled, filledFor, unshown>>
  BY DEF SettingsLayoutChanged
<1>2. FormOK /\ ModelInv /\ grid \in Grid /\ grid.index \in Nat
  BY DEF FormInv, FormOK, Grid
<1>3. getLabelArray \in Seq(AllNames) /\ DOMAIN getLabelArray = 1..Cardinality(Ids)
  BY <1>2, ArrayIs
<1>4. grid' = [grid EXCEPT !.labels = getLabelArray, !.index = grid.index]
      /\ grid'.labels = getLabelArray /\ grid'.index = grid.index
  BY <1>1, <1>2 DEF Grid
<1>5. queue[SettingsTab] # <<>> /\ queue[SettingsTab][1].type = "changed"
  BY <1>1, HeardIs
<1>6. Label' \in FinalLabels
  BY <1>3, <1>4, <1>5 DEF Label, FinalLabels
<1>7. ~hasty => grid.index \in 0..Len(getLabelArray)
  <2>1. Len(getLabelArray) = Cardinality(Ids)
    BY <1>2, ArrayIs
  <2>2. QED
    BY <1>5, <2>1 DEF FormInv, IndexInv
<1>8. QED
  BY <1>1, <1>2, <1>4, <1>6, <1>7, ListHearsKeeps

\* renameLayoutIfMissing gives every profile the layout it was to have.
LEMMA ProfilesHearKeeps ==
  ASSUME FormInv, NEW type, Handles(ProfileList, type),
         UNCHANGED <<model, widgets, orphaned, form, ref, hasty>>, alive' \in BOOLEAN,
         NEW n \in AllNames, renameLayoutIfMissing(n),
         ~hasty => n = IF type = "removed" THEN Defaults[1] ELSE name[queue[ProfileList][1].item]
  PROVE  FormInv'
<1>1. /\ FormOK /\ SelectedInv /\ RefInv /\ PendingInv /\ LabelsInv /\ LayoutInv /\ LabelInv
      /\ ModelInv /\ WidgetsOK
      /\ stored \in [ProfileIds -> [options : Options, layout : AllNames \cup {Blank}]]
  BY DEF FormInv, FormOK
<1>2. /\ queue' \in [Listeners -> Seq(Events)] /\ queue'[SettingsTab] = queue[SettingsTab]
      /\ queue[ProfileList] # <<>> /\ queue[ProfileList][1].type = type
      /\ ~hasty => queue'[ProfileList] = <<>>
  BY HeardIs, FormConstants
<1>3. ModelInv' /\ Ids' = Ids /\ name' = name /\ Taken' = Taken
  BY <1>1, SameModel DEF Taken
<1>4. /\ UNCHANGED <<current, shown, offered, edit, missed>>
      /\ UNCHANGED <<selected, visible, grid, buttons, enabled, filledFor, unshown>>
  BY DEF widgets, form
<1>5. stored' = [p \in ProfileIds |->
        IF stored[p].layout \in Taken THEN stored[p] ELSE [stored[p] EXCEPT !.layout = n]]
  BY DEF renameLayoutIfMissing
<1>6. ProfileIds' = ProfileIds
  BY <1>5 DEF ProfileIds
<1>7. ASSUME NEW p \in ProfileIds
      PROVE  /\ stored'[p] \in [options : Options, layout : AllNames \cup {Blank}]
             /\ stored'[p].options = stored[p].options
             /\ stored'[p].layout = IF stored[p].layout \in Taken THEN stored[p].layout ELSE n
  <2>1. stored[p] \in [options : Options, layout : AllNames \cup {Blank}]
    BY <1>1
  <2>2. stored'[p] = IF stored[p].layout \in Taken THEN stored[p]
                     ELSE [stored[p] EXCEPT !.layout = n]
    BY <1>5
  <2>3. QED
    BY <2>1, <2>2
<1>8. stored' \in [ProfileIds' -> [options : Options, layout : AllNames \cup {Blank}]]
  BY <1>5, <1>6, <1>7
<1>9. WidgetsOK'
  BY <1>1, <1>2, <1>4 DEF WidgetsOK
<1>10. FormOK'
  BY <1>1, <1>3, <1>4, <1>6, <1>8, <1>9 DEF FormOK
<1>11. SelectedInv' /\ RefInv'
  BY <1>1, <1>3, <1>4, <1>6, <1>7 DEF SelectedInv, RefInv
<1>12. getLabelArray' = getLabelArray
  BY <1>3 DEF getLabelArray
<1>13. PendingInv' /\ LabelsInv'
  <2>1. Len(<<>>) = 0 /\ Len(<<>>) <= 1
    OBVIOUS
  <2>2. QED
    BY <1>1, <1>2, <1>3, <1>4, <1>12, <2>1 DEF PendingInv, LabelsInv
<1>14. ASSUME ~hasty, NEW p \in ProfileIds PROVE FinalLayout(p)' = FinalLayout(p)
  <2>1. FinalLayout(p)' = stored'[p].layout
    BY <1>2, <1>14 DEF FinalLayout
  <2>2. FinalLayout(p) = IF stored[p].layout \in Taken THEN stored[p].layout ELSE n
    BY <1>2, <1>14 DEF FinalLayout
  <2>3. QED
    BY <1>7, <2>1, <2>2
<1>15. LayoutInv'
  BY <1>1, <1>3, <1>6, <1>14 DEF LayoutInv
<1>16. LabelInv'
  <2> SUFFICES ASSUME ~hasty, OnOffer, NEW label \in FinalLabels'
               PROVE  Agrees(label, FinalLayout(selected)')
    BY <1>4, <1>6 DEF LabelInv, OnOffer
  <2>1. FinalLabels' = FinalLabels
    BY <1>2, <1>3, <1>4, <1>12 DEF FinalLabels, Label
  <2>2. selected \in ProfileIds
    BY DEF OnOffer
  <2>3. FinalLayout(selected)' = FinalLayout(selected)
    <3>1. FinalLayout(selected)' = stored'[selected].layout
      BY <1>2, <1>4 DEF FinalLayout
    <3>2. FinalLayout(selected) = IF stored[selected].layout \in Taken THEN stored[selected].layout ELSE n
      BY <1>2 DEF FinalLayout
    <3>3. QED
      BY <1>7, <2>2, <3>1, <3>2
  <2>4. \A x \in FinalLabels : Agrees(x, FinalLayout(selected))
    BY <1>1 DEF LabelInv
  <2>5. QED
    BY <2>1, <2>3, <2>4
<1>17. IndexInv'
  BY <1>2, <1>3, <1>4, <1>6 DEF FormInv, IndexInv
<1>18. QED
  BY <1>10, <1>11, <1>13, <1>15, <1>16, <1>17 DEF FormInv

LEMMA ProfilesRemovedKeeps ==
  ASSUME FormInv, ProfilesLayoutRemoved
  PROVE  FormInv'
<1>1. /\ Handles(ProfileList, "removed") /\ renameLayoutIfMissing(Defaults[1])
      /\ UNCHANGED <<model, widgets, alive, orphaned, form, ref, hasty>>
  BY DEF ProfilesLayoutRemoved
<1>2. Defaults[1] \in AllNames /\ alive \in BOOLEAN
  BY Constants, ProfileIs
<1>3. QED
  BY <1>1, <1>2, ProfilesHearKeeps

\* Nobody waited for a layout that is gone before the profiles hear of its rename.
LEMMA ProfilesChangedKeeps ==
  ASSUME FormInv, ProfilesLayoutChanged
  PROVE  FormInv'
<1> DEFINE i == Head(queue[ProfileList]).item
<1>1. /\ Handles(ProfileList, "changed")
      /\ IF i \in Ids THEN renameLayoutIfMissing(name[i]) /\ UNCHANGED alive
         ELSE alive' = FALSE /\ UNCHANGED stored
      /\ UNCHANGED <<model, widgets, orphaned, form, ref, hasty>>
  BY DEF ProfilesLayoutChanged
<1>2. /\ i = queue[ProfileList][1].item /\ queue[ProfileList] # <<>>
      /\ queue[ProfileList][1].type = "changed"
      /\ queue' \in [Listeners -> Seq(Events)]
  BY <1>1, HeardIs
<1>3. /\ FormOK /\ SelectedInv /\ RefInv /\ PendingInv /\ ModelInv /\ WidgetsOK /\ alive \in BOOLEAN
      /\ hasty \in BOOLEAN /\ name \in [Ids -> AllNames]
  BY DEF FormInv, FormOK, WidgetsOK, ModelInv, ModelOK
<1> HIDE DEF i
<1>4. CASE i \in Ids
  BY <1>1, <1>2, <1>3, <1>4, ProfilesHearKeeps
<1>5. CASE i \notin Ids
  <2>1. hasty /\ hasty'
    BY <1>1, <1>2, <1>3, <1>5 DEF PendingInv
  <2>2. /\ UNCHANGED <<current, shown, offered, edit, missed>>
        /\ UNCHANGED <<selected, visible, grid, buttons, enabled, filledFor, unshown>>
        /\ alive' = FALSE /\ UNCHANGED stored /\ ProfileIds' = ProfileIds
    BY <1>1, <1>5 DEF widgets, form, ProfileIds
  <2>3. ModelInv' /\ Ids' = Ids
    BY <1>1, <1>3, SameModel
  <2>4. WidgetsOK'
    BY <1>1, <1>2, <1>3, <2>2 DEF WidgetsOK
  <2>5. FormOK'
    BY <1>1, <1>3, <2>2, <2>3, <2>4 DEF FormOK
  <2>6. SelectedInv' /\ RefInv'
    BY <1>1, <1>3, <2>2, <2>3 DEF SelectedInv, RefInv
  <2>7. QED
    BY <2>1, <2>5, <2>6 DEF FormInv, PendingInv, LabelsInv, IndexInv, LayoutInv, LabelInv
<1>6. QED
  BY <1>4, <1>5

-------------------------------------------------------------------------------
(* The form *)

\* The first profile has a layout that is there.
LEMMA FormInitHolds == FormInit => FormInv
<1> SUFFICES ASSUME FormInit PROVE FormInv
  OBVIOUS
<1>1. /\ IInv /\ queue = [l \in Listeners |-> <<>>] /\ current = [t \in Tabs |-> 0]
  BY InitHolds DEF FormInit, Init
<1>2. ModelInv /\ ModelOK /\ WidgetsOK /\ \A t \in Tabs : current[t] = 0
  BY <1>1 DEF IInv, ModelInv
<1>3. PICK o \in Options, n \in Taken :
        stored = [p \in {1} |-> [options |-> o, layout |-> n]]
  BY DEF FormInit
<1>4. /\ ref = [p \in {1} |-> Found(stored[1].layout)]
      /\ selected = None /\ visible = FALSE
      /\ grid = [options |-> None, index |-> 0, labels |-> getLabelArray]
      /\ buttons = "connect" /\ enabled = FALSE /\ filledFor = None
      /\ unshown = {} /\ hasty = FALSE
  BY DEF FormInit
<1>5. ProfileIds = {1} /\ stored[1].layout = n /\ n \in AllNames
  BY <1>2, <1>3 DEF ProfileIds, Taken, ModelOK
<1>6. 1 \in 1..MaxProfiles
  <2>1. MaxProfiles \in Nat \ {0}
    BY FormConstants
  <2>2. QED
    BY <2>1
<1>7. getLabelArray \in Seq(AllNames)
  BY <1>2, ArrayIs
<1>8. FormOK
  <2>1. grid \in Grid
    BY <1>4, <1>7 DEF Grid
  <2>2. stored \in [ProfileIds -> [options : Options, layout : AllNames \cup {Blank}]]
    BY <1>3, <1>5
  <2>3. /\ ProfileIds \subseteq 1..MaxProfiles /\ selected \in ProfileIds \cup {None, Folder}
        /\ visible \in BOOLEAN /\ buttons \in {"connect", "save"} /\ enabled \in BOOLEAN
        /\ filledFor \in (1..MaxProfiles) \cup {None, Folder} /\ hasty \in BOOLEAN
        /\ unshown \subseteq ProfileIds /\ ~enabled
    BY <1>4, <1>5, <1>6
  <2>4. QED
    BY <1>2, <2>1, <2>2, <2>3 DEF FormOK
<1>9. Found(n) \in Ids /\ name[Found(n)] = n /\ Found(n) \in Nat /\ Found(n) # 0
  <2>1. n \in Taken
    BY <1>3
  <2>2. Found(n) \in Ids /\ name[Found(n)] = n
    BY <1>2, <2>1, FoundIt
  <2>3. \A j \in Ids : j \in Nat /\ j # 0
    BY <1>2 DEF ModelOK
  <2>4. QED
    BY <2>2, <2>3
<1>10. ref[1] = Found(n) /\ ref = [p \in ProfileIds |-> Found(n)]
  BY <1>4, <1>5
<1>11. RefInv
  BY <1>5, <1>9, <1>10 DEF RefInv
<1>12. queue[SettingsTab] = <<>> /\ queue[ProfileList] = <<>> /\ Len(<<>>) = 0
  BY <1>1, FormConstants
<1>13. PendingInv /\ LabelsInv
  <2>1. grid.labels = getLabelArray
    BY <1>4
  <2>2. QED
    BY <1>12, <2>1 DEF PendingInv, LabelsInv
<1>14. LayoutInv
  BY <1>5, <1>9, <1>10, <1>12 DEF LayoutInv, FinalLayout
<1>15. SelectedInv /\ LabelInv
  BY <1>4 DEF SelectedInv, LabelInv, OnOffer
<1>16. IndexInv
  <2>1. grid.index = 0 /\ grid.labels = getLabelArray /\ Len(getLabelArray) \in Nat
    BY <1>4, <1>7
  <2>2. \A p \in ProfileIds : ref[p] # 0
    BY <1>9, <1>10
  <2>3. QED
    BY <1>12, <2>1, <2>2 DEF IndexInv
<1>17. QED
  BY <1>8, <1>11, <1>13, <1>14, <1>15, <1>16 DEF FormInv

LEMMA FormStays ==
  ASSUME FormInv, UNCHANGED allVars
  PROVE  FormInv'
<1>1. /\ UNCHANGED <<name, path, next, files>> /\ UNCHANGED queue
      /\ UNCHANGED <<current, shown, offered, edit, missed>>
      /\ UNCHANGED <<alive, orphaned, stored, ref, hasty>>
      /\ UNCHANGED <<selected, visible, grid, buttons, enabled, filledFor, unshown>>
  BY DEF allVars, vars, model, widgets, form
<1>2. Ids' = Ids /\ ProfileIds' = ProfileIds /\ Taken' = Taken /\ getLabelArray' = getLabelArray
  BY <1>1 DEF Ids, ProfileIds, Taken, getLabelArray
<1>3. ModelInv' /\ WidgetsOK'
  BY <1>1, <1>2 DEF FormInv, FormOK, ModelInv, ModelOK, NameInv, FileInv, WidgetsOK
<1>4. FormOK'
  BY <1>1, <1>2, <1>3 DEF FormInv, FormOK
<1>5. SelectedInv' /\ RefInv' /\ PendingInv' /\ LabelsInv'
  BY <1>1, <1>2 DEF FormInv, SelectedInv, RefInv, PendingInv, LabelsInv
<1>6. LayoutInv' /\ IndexInv'
  BY <1>1, <1>2 DEF FormInv, LayoutInv, IndexInv, FinalLayout
<1>7. OnOffer' = OnOffer /\ FinalLabels' = FinalLabels
      /\ FinalLayout(selected)' = FinalLayout(selected)
  BY <1>1, <1>2 DEF OnOffer, FinalLabels, FinalLayout, Label
<1>8. LabelInv'
  BY <1>1, <1>7 DEF FormInv, LabelInv
<1>9. QED
  BY <1>4, <1>5, <1>6, <1>8 DEF FormInv

LEMMA FormStepKeeps == FormInv /\ [FormNext]_allVars => FormInv'
<1> SUFFICES ASSUME FormInv, [FormNext]_allVars PROVE FormInv'
  OBVIOUS
<1>1. CASE UNCHANGED allVars
  BY <1>1, FormStays
<1>2. CASE FormStep
  <2>1. ASSUME NEW x \in ProfileIds \cup {None, Folder}, onProfileSelected(x) PROVE FormInv'
    BY <2>1, SelectedKeeps
  <2>2. ASSUME NEW p \in ProfileIds, onProfileEdit(p) PROVE FormInv'
    BY <2>2, EditKeeps
  <2>3. CASE createProfile \/ onProfileNewProfile \/ onProfileNewFolder \/ onProfileDelete
    BY <2>3, CreateProfileKeeps, NewProfileKeeps, NewFolderKeeps, DeleteProfileKeeps
  <2>4. ASSUME NEW o \in Options, NEW k \in DOMAIN grid.labels, onProfileGridChanged(o, k)
        PROVE  FormInv'
    BY <2>4, GridChangedKeeps
  <2>5. CASE onButtonClickedCancel \/ onButtonClickedSave
    BY <2>5, CancelKeeps, SaveKeeps
  <2>6. QED
    BY <1>2, <2>1, <2>2, <2>3, <2>4, <2>5 DEF FormStep
<1>3. CASE LayoutStep
  <2>1. ASSUME NEW i \in Ids, DeleteInList(i) PROVE FormInv'
    BY <2>1, DeleteInListKeeps
  <2>2. ASSUME NEW i \in Ids, NEW v \in Texts, RenameInList(i, v) PROVE FormInv'
    BY <2>2, FormRenameKeeps
  <2>3. CASE SaveInTab \/ refreshLayouts \/ SettingsLayoutChanged
    BY <2>3, SaveInTabKeeps, RefreshKeeps, FormChangedKeeps
  <2>4. CASE ProfilesLayoutRemoved \/ ProfilesLayoutChanged
    BY <2>4, ProfilesRemovedKeeps, ProfilesChangedKeeps
  <2>5. QED
    BY <1>3, <2>1, <2>2, <2>3, <2>4 DEF LayoutStep
<1>4. QED
  BY <1>1, <1>2, <1>3 DEF FormNext

\* Neither the user nor a change of the layouts breaks what ties the form to
\* the profiles and the profiles to the layouts.
THEOREM FormInvariance == FormSpec => []FormInv
<1>1. FormInit => FormInv
  BY FormInitHolds
<1>2. FormInv /\ [FormNext]_allVars => FormInv'
  BY FormStepKeeps
<1>3. QED
  BY <1>1, <1>2, PTL DEF FormSpec

\* Whatever selects a profile fills the form with its options, but for the menu
\* that makes one.
THEOREM Filled == FormSpec => []FormIsOfSelection
<1>1. FormInv => FormIsOfSelection
  <2> SUFFICES ASSUME FormInv PROVE FormIsOfSelection
    OBVIOUS
  <2>1. FormOK /\ RefInv /\ SelectedInv /\ ModelOK /\ WidgetsOK
    BY DEF FormInv, FormOK, ModelInv
  <2>2. TypeOK
    BY <2>1 DEF TypeOK, ModelOK, WidgetsOK
  <2>3. FormTypeOK
    BY <2>1, <2>2 DEF FormTypeOK, FormOK, RefInv
  <2>4. QED
    BY <2>1, <2>3 DEF FormIsOfSelection, SelectedInv
<1>2. QED
  BY FormInvariance, <1>1, PTL

\* Connect is offered for what is stored only.
THEOREM Connects == FormSpec => []ConnectUsesWhatIsShown
<1>1. FormInv => ConnectUsesWhatIsShown
  <2> SUFFICES ASSUME FormInv, OnOffer
               PROVE  /\ grid.options = stored[selected].options
                      /\ Quiet /\ ~hasty => Agrees(Label, stored[selected].layout)
    BY DEF ConnectUsesWhatIsShown, OnOffer, Agrees
  <2>1. grid.options = stored[selected].options
    BY DEF FormInv, SelectedInv, OnOffer
  <2>2. QED
    BY <2>1, QuietIs
<1>2. QED
  BY FormInvariance, <1>1, PTL

\* A profile follows its layout through renames, and to the default when it goes.
THEOREM Follows == FormSpec => []ProfileKeepsItsLayout
<1>1. FormInv => ProfileKeepsItsLayout
  BY QuietIs DEF ProfileKeepsItsLayout
<1>2. QED
  BY FormInvariance, <1>1, PTL

===============================================================================
