--------------------------- MODULE ClientTabProofs ---------------------------
(***************************************************************************)
(* What holds of ClientTab for every number of lines and stored messages,  *)
(* and for all topics and panes: the five invariants its run checks, by    *)
(* one inductive invariant.                                                *)
(***************************************************************************)
EXTENDS ClientTab, FiniteSetTheorems, TLAPS

-------------------------------------------------------------------------------
(* The parts of the invariant *)

TableOK ==
  /\ mMessages \in Seq(Message) /\ mRemap \in Seq(1..Len(mMessages))
  /\ lines \in Seq(Message) /\ selected \in 0..Len(lines)
  /\ following \in BOOLEAN /\ remapped \in BOOLEAN /\ misplaced \in BOOLEAN
  /\ menu \in Message \cup {NoMenu}
StoredOK ==
  /\ stored \in Seq(Message) /\ chosen \in 0..Len(stored) /\ sent \in Message
\* A pane that is put away was visible, and is remembered so.
PutAwayVisible == \A p \in Panes : panes[p].managed \/ panes[p].remembered
PanesOK ==
  /\ PutAwayVisible
  /\ panes \in [Panes -> [managed : BOOLEAN, shown : BOOLEAN,
                          remembered : BOOLEAN, grey : BOOLEAN]]
  /\ TogglesTellPanes
RestOK == live \in BOOLEAN /\ alive \in BOOLEAN /\ steps \in 0..MaxSteps

\* An editor holds a payload in its text or, in Binary, beside it; which one it
\* is is what was put into it.
Good(e) ==
  /\ e \in Editor
  /\ e.mCurrentFormat # "Binary" => e.text \in Payloads
  /\ ~e.stale => getPayload(e) \in SamePayload(e.meant)
EditorsOK ==
  /\ Good(publish) /\ Good(preview) /\ preview.locked
  /\ publish.mCurrentFormat = "Binary" => publish.locked

\* Nothing is lost between the click that opens the menu and its command, and
\* something is selected then.
MenuInv ==
  menu # NoMenu /\ ~remapped =>
    /\ selected # 0
    /\ lines[selected] = menu \/ (following /\ selected = Len(lines))

IInv ==
  /\ TableOK /\ StoredOK /\ PanesOK /\ RestOK /\ EditorsOK
  /\ MenuInv /\ PreviewIsOfSelection /\ SurvivesTheRest

-------------------------------------------------------------------------------
(* The editor *)

\* formatTry: a dump is in Binary only, and a text is at most laid out anew.
LEMMA Tried ==
  ASSUME NEW p \in Payloads, NEW wanted \in Formats, NEW current \in Formats
  PROVE  LET t == formatTry(p, wanted, current) IN
         /\ t.is \in Formats /\ t.text \in Payloads \cup {"hex"}
         /\ t.is # "Binary" => t.text \in Payloads
         /\ t.is # "Binary" => t.text = p \/ (p = "compact" /\ t.text = "pretty")
         /\ p = "" => t.text = ""
<1> DEFINE f == Format(p, wanted)
<1>1. f \in Formats
  BY DEF Format, formatGuess, Formats
<1> HIDE DEF f
<1>2. CASE p = ""
  BY <1>2 DEF formatTry, Payloads
<1>3. CASE p # "" /\ f = "Binary"
  BY <1>1, <1>3 DEF formatTry, f
<1>4. CASE p # "" /\ f # "Binary"
  <2>1. formatTry(p, wanted, current) =
          [is |-> f, text |-> IF f = "Json" /\ p = "compact" THEN "pretty" ELSE p]
    BY <1>4 DEF formatTry, f
  <2> DEFINE t == formatTry(p, wanted, current)
  <2>2. t.is = f /\ t.text = IF f = "Json" /\ p = "compact" THEN "pretty" ELSE p
    BY <2>1
  <2> HIDE DEF t
  <2>3. /\ t.is \in Formats /\ t.text \in Payloads
        /\ t.text = p \/ (p = "compact" /\ t.text = "pretty")
    BY <2>2, <1>1 DEF Payloads
  <2>4. QED
    BY <2>3, <1>4 DEF t
<1>5. QED
  BY <1>2, <1>3, <1>4

\* What Displayed does to the fields of an editor.
LEMMA DisplayedIs ==
  ASSUME NEW e \in Editor, ~Unknown(e), NEW p \in Payloads, NEW readOnly \in BOOLEAN
  PROVE  LET d == Displayed(e, p, readOnly) IN
         /\ d \in Editor
         /\ d.head = e.head /\ d.mPayload = e.mPayload /\ d.format = e.format
         /\ d.meant = e.meant /\ d.stale = e.stale
         /\ d.mCurrentFormat # "Binary" => d.text \in Payloads
         /\ d.mCurrentFormat # "Binary" => d.text \in SamePayload(p)
         /\ d.mCurrentFormat = "Binary" => d.locked
         /\ readOnly => d.locked
<1> DEFINE t == formatTry(p, e.format, e.mCurrentFormat)
<1>1. e.format \in Formats /\ e.mCurrentFormat \in Formats
  BY DEF Editor, Unknown
<1>2. /\ t.is \in Formats /\ t.text \in Payloads \cup {"hex"}
      /\ t.is # "Binary" => t.text \in Payloads
      /\ t.is # "Binary" => t.text = p \/ (p = "compact" /\ t.text = "pretty")
  BY <1>1, Tried
<1>3. Displayed(e, p, readOnly) =
        [e EXCEPT !.text = FromUTF8(t.text), !.mCurrentFormat = t.is,
                  !.locked = readOnly \/ t.is = "Binary"]
  BY DEF Displayed
<1> HIDE DEF t
<1>4. FromUTF8(t.text) \in Payloads \cup {"hex"}
      /\ (t.is # "Binary" => FromUTF8(t.text) \in Payloads /\ FromUTF8(t.text) \in SamePayload(p))
  BY <1>2 DEF FromUTF8, Payloads, SamePayload
<1>5. (readOnly \/ t.is = "Binary") \in BOOLEAN
  OBVIOUS
<1>6. QED
  BY <1>2, <1>3, <1>4, <1>5 DEF Editor

\* A message that is put into an editor is what the editor holds then.
LEMMA Put ==
  ASSUME NEW e \in Editor, ~Unknown(e), NEW m \in Message, NEW readOnly \in BOOLEAN
  PROVE  LET s == setMessage(e, m, readOnly) IN
         /\ Good(s) /\ s.head = m.head /\ s.meant = m.payload
         /\ s.mCurrentFormat = "Binary" => s.locked
         /\ readOnly => s.locked
<1> DEFINE d == Displayed(e, m.payload, readOnly)
           s == setMessage(e, m, readOnly)
<1>1. m.payload \in Payloads /\ m.head \in Heads \cup {NoHead}
  BY DEF Message
<1>2. /\ d \in Editor
      /\ d.mCurrentFormat # "Binary" => d.text \in Payloads /\ d.text \in SamePayload(m.payload)
      /\ d.mCurrentFormat = "Binary" => d.locked
      /\ readOnly => d.locked
  BY <1>1, DisplayedIs
<1>3. s = [[d EXCEPT !.meant = m.payload, !.stale = (d.mCurrentFormat = "Binary")]
             EXCEPT !.head = m.head]
  BY DEF setMessage, setPayload
<1> HIDE DEF d, s
<1>4. (d.mCurrentFormat = "Binary") \in BOOLEAN
  OBVIOUS
<1>5. /\ s \in Editor /\ s.head = m.head /\ s.meant = m.payload
      /\ s.stale = (d.mCurrentFormat = "Binary") /\ s.mCurrentFormat = d.mCurrentFormat
      /\ s.text = d.text /\ s.locked = d.locked
  BY <1>1, <1>2, <1>3, <1>4 DEF Editor
<1>6. Good(s)
  BY <1>2, <1>5 DEF Good, getPayload
<1>7. QED
  BY <1>2, <1>5, <1>6 DEF s

\* What an editor holds can be published and stored.
LEMMA HeldPayload ==
  ASSUME NEW e, Good(e)
  PROVE  getPayload(e) \in Payloads /\ getMessage(e) \in Message
BY DEF Good, getPayload, getMessage, Editor, Message

\* Picking a format keeps what the editor holds.
LEMMA Reformatted ==
  ASSUME NEW e, Good(e), NEW wanted \in Formats, NEW readOnly \in BOOLEAN
  PROVE  LET s == format(e, wanted, readOnly) IN
         /\ Good(s) /\ s.head = e.head /\ s.meant = e.meant
         /\ s.mCurrentFormat = "Binary" => s.locked
         /\ readOnly => s.locked
<1> DEFINE p == getPayload(e)
           k == [e EXCEPT !.format = wanted, !.mPayload = p]
           s == format(e, wanted, readOnly)
<1>1. p \in Payloads
  BY HeldPayload
<1> HIDE DEF p
<1>2. /\ k \in Editor /\ ~Unknown(k) /\ k.head = e.head /\ k.mPayload = p
      /\ k.meant = e.meant /\ k.stale = e.stale
  BY <1>1 DEF Good, Editor, Unknown, Formats
<1>3. s = Displayed(k, p, readOnly)
  BY DEF format, p
<1> HIDE DEF k, s
<1>4. /\ s \in Editor /\ s.head = e.head /\ s.mPayload = p
      /\ s.meant = e.meant /\ s.stale = e.stale
      /\ s.mCurrentFormat # "Binary" => s.text \in Payloads /\ s.text \in SamePayload(p)
      /\ s.mCurrentFormat = "Binary" => s.locked
      /\ readOnly => s.locked
  BY <1>1, <1>2, <1>3, DisplayedIs
<1>5. e.meant \in Payloads
  BY DEF Good, Editor
<1>6. \A x \in SamePayload(e.meant) : SamePayload(x) \subseteq SamePayload(e.meant)
  BY <1>5 DEF SamePayload, FromUTF8, Payloads
<1>7. ~e.stale => p \in SamePayload(e.meant)
  BY DEF Good, p
<1>8. Good(s)
  BY <1>4, <1>6, <1>7 DEF Good, getPayload
<1>9. QED
  BY <1>4, <1>8 DEF s

-------------------------------------------------------------------------------
(* What a step must show that leaves most of the tab alone *)

\* The lines are messages, and those of the table.
LEMMA LinesAre ==
  ASSUME NEW messages \in Seq(Message), NEW positions \in Seq(1..Len(messages))
  PROVE  /\ LinesOf(messages, positions) \in Seq(Message)
         /\ Len(LinesOf(messages, positions)) = Len(positions)
         /\ \A i \in 1..Len(positions) :
              LinesOf(messages, positions)[i] = messages[positions[i]]
<1>1. Len(positions) \in Nat /\ Len(messages) \in Nat
  OBVIOUS
<1>2. \A i \in 1..Len(positions) : messages[positions[i]] \in Message
  <2>1. \A i \in 1..Len(positions) : positions[i] \in 1..Len(messages)
    OBVIOUS
  <2>2. \A k \in 1..Len(messages) : messages[k] \in Message
    OBVIOUS
  <2>3. QED
    BY <2>1, <2>2
<1>3. QED
  BY <1>1, <1>2 DEF LinesOf

\* A list of elements of a set is one of elements of a larger set.
LEMMA InLarger ==
  ASSUME NEW S, NEW T, S \subseteq T, NEW q \in Seq(S)
  PROVE  q \in Seq(T)
<1>1. Len(q) \in Nat /\ q \in [1..Len(q) -> S]
  OBVIOUS
<1>2. q \in [1..Len(q) -> T]
  BY <1>1
<1>3. QED
  BY <1>1, <1>2

LEMMA LinesStay ==
  ASSUME UNCHANGED lineVars
  PROVE  lines' = lines /\ UNCHANGED <<mMessages, mRemap>>
BY DEF lineVars, lines

\* An exception ends the program, for one of the reasons that are allowed.
LEMMA CrashKeeps ==
  ASSUME IInv, May, Crash,
         ~live \/ Unknown(publish) \/ Unknown(preview) \/ remapped
  PROVE  IInv'
<1>1. /\ UNCHANGED <<live, mMessages, mRemap, lines, selected, following, misplaced,
                     menu, remapped, stored, chosen, publish, preview, sent, panes>>
      /\ alive' = FALSE /\ steps' \in 0..MaxSteps
  BY ClientTabAssumption, LinesStay DEF IInv, RestOK, May, Crash, table, popup, lineVars
<1>2. TableOK' /\ StoredOK' /\ PanesOK' /\ RestOK' /\ EditorsOK'
  BY <1>1 DEF IInv, TableOK, StoredOK, PanesOK, PutAwayVisible, TogglesTellPanes,
              RestOK, EditorsOK
<1>3. MenuInv' /\ PreviewIsOfSelection' /\ SurvivesTheRest'
  BY <1>1 DEF IInv, MenuInv, PreviewIsOfSelection, SurvivesTheRest, Unknown
<1>4. QED
  BY <1>2, <1>3 DEF IInv

\* A step of the table and the preview alone.
LEMMA TableKeeps ==
  ASSUME IInv, May, Lives, UNCHANGED <<stored, chosen, publish, sent, panes>>,
         TableOK', Good(preview'), preview'.locked, MenuInv', PreviewIsOfSelection'
  PROVE  IInv'
<1>1. live' = live /\ alive' = alive /\ alive /\ steps' \in 0..MaxSteps
  BY ClientTabAssumption DEF IInv, RestOK, May, Lives
<1>2. RestOK' /\ SurvivesTheRest'
  BY <1>1 DEF IInv, RestOK, SurvivesTheRest
<1>3. StoredOK' /\ PanesOK'
  BY DEF IInv, StoredOK, PanesOK, PutAwayVisible, TogglesTellPanes
<1>4. EditorsOK'
  BY DEF IInv, EditorsOK
<1>5. QED
  BY <1>2, <1>3, <1>4 DEF IInv

\* A step beside the table and the preview; a menu that is open closes at most.
LEMMA AsideKeeps ==
  ASSUME IInv, May, Lives, UNCHANGED <<table, preview>>, UNCHANGED popup \/ Closed,
         StoredOK', PanesOK', Good(publish'),
         publish'.mCurrentFormat = "Binary" => publish'.locked
  PROVE  IInv'
<1>1. UNCHANGED <<mMessages, mRemap, lines, selected, following, misplaced>>
  BY LinesStay DEF table, lineVars
<1>2. \/ UNCHANGED <<menu, remapped>>
      \/ menu' = NoMenu /\ remapped' = FALSE
  BY DEF popup, Closed
<1>3. live' = live /\ alive' = alive /\ alive /\ steps' \in 0..MaxSteps
  BY ClientTabAssumption DEF IInv, RestOK, May, Lives
<1>4. RestOK' /\ SurvivesTheRest'
  BY <1>3 DEF IInv, RestOK, SurvivesTheRest
<1>5. TableOK'
  BY <1>1, <1>2 DEF IInv, TableOK
<1>6. MenuInv'
  BY <1>1, <1>2 DEF IInv, MenuInv
<1>7. PreviewIsOfSelection'
  BY <1>1, <1>3 DEF IInv, PreviewIsOfSelection
<1>8. EditorsOK'
  BY DEF IInv, EditorsOK
<1>9. QED
  BY <1>4, <1>5, <1>6, <1>7, <1>8 DEF IInv

-------------------------------------------------------------------------------
(* The table *)

\* The message of a line, when there is one.
LEMMA LineIsMessage ==
  ASSUME IInv, NEW i \in 1..Len(lines)
  PROVE  lines[i] \in Message
BY DEF IInv, TableOK

\* A message was appended to those that are kept.
Received(m) == m \in Message /\ mMessages' = Append(mMessages, m)
LEMMA Appended ==
  ASSUME IInv, NEW m, Received(m)
  PROVE  /\ mMessages' \in Seq(Message) /\ Len(mMessages') = Len(mMessages) + 1
         /\ mMessages'[Len(mMessages')] = m
         /\ mRemap \in Seq(1..Len(mMessages'))
         /\ \A i \in 1..Len(mRemap) : mMessages'[mRemap[i]] = mMessages[mRemap[i]]
         /\ LET q == Append(mRemap, Len(mMessages')) IN
            /\ q \in Seq(1..Len(mMessages')) /\ Len(q) = Len(mRemap) + 1
            /\ q[Len(mRemap) + 1] = Len(mMessages')
            /\ \A i \in 1..Len(mRemap) : q[i] = mRemap[i]
<1>1. mMessages \in Seq(Message) /\ mRemap \in Seq(1..Len(mMessages)) /\ m \in Message
  BY DEF IInv, TableOK, Received
<1> DEFINE n == Len(mMessages)
<1>2. /\ mMessages' \in Seq(Message) /\ Len(mMessages') = n + 1 /\ mMessages'[n + 1] = m
      /\ n \in Nat /\ \A k \in 1..n : mMessages'[k] = mMessages[k]
  BY <1>1 DEF Received
<1>3. mRemap \in Seq(1..n) /\ \A i \in 1..Len(mRemap) : mRemap[i] \in 1..n
  BY <1>1
<1>4. mMessages'[Len(mMessages')] = m
  BY <1>2
<1> HIDE DEF n
<1>5. mRemap \in Seq(1..n + 1)
  <2>1. 1..n \subseteq 1..n + 1
    BY <1>2
  <2>2. mRemap \in Seq(1..n)
    BY <1>3
  <2>3. QED
    BY <2>1, <2>2, InLarger
<1>6. n + 1 \in 1..n + 1
  BY <1>2
<1>7. /\ Append(mRemap, n + 1) \in Seq(1..n + 1) /\ Len(Append(mRemap, n + 1)) = Len(mRemap) + 1
      /\ Append(mRemap, n + 1)[Len(mRemap) + 1] = n + 1
      /\ \A i \in 1..Len(mRemap) : Append(mRemap, n + 1)[i] = mRemap[i]
  BY <1>5, <1>6
<1>8. QED
  BY <1>2, <1>3, <1>4, <1>5, <1>7 DEF n

LEMMA onMessageHiddenKeeps ==
  ASSUME IInv, NEW h \in Heads, NEW p \in Inbox,
         onMessageHidden([head |-> h, payload |-> p])
  PROVE  IInv'
<1> DEFINE m == [head |-> h, payload |-> p]
<1>1. m \in Message
  BY ClientTabAssumption DEF Message
<1>2. Received(m)
  BY <1>1 DEF onMessageHidden, Received
<1> HIDE DEF m
<1>3. /\ May /\ Lives /\ UNCHANGED <<mRemap, selected, following, misplaced, menu, remapped,
                                    stored, chosen, publish, preview, sent, panes>>
      /\ alive' = alive
  BY DEF onMessageHidden, popup, Lives
<1>4. /\ mMessages' \in Seq(Message) /\ mRemap' \in Seq(1..Len(mMessages'))
      /\ \A i \in 1..Len(mRemap) : mMessages'[mRemap[i]] = mMessages[mRemap[i]]
  BY <1>2, <1>3, Appended
<1>5. lines' = lines
  BY <1>3, <1>4 DEF lines, LinesOf
<1>6. TableOK'
  BY <1>3, <1>4, <1>5 DEF IInv, TableOK
<1>7. MenuInv' /\ PreviewIsOfSelection'
  BY <1>3, <1>5 DEF IInv, MenuInv, PreviewIsOfSelection
<1>8. QED
  BY <1>3, <1>6, <1>7, TableKeeps DEF IInv, EditorsOK

LEMMA onMessageKeeps ==
  ASSUME IInv, NEW h \in Heads, NEW p \in Inbox,
         onMessage([head |-> h, payload |-> p])
  PROVE  IInv'
<1> DEFINE m == [head |-> h, payload |-> p]
<1>1. m \in Message /\ m.head = h /\ m.payload = p
  BY ClientTabAssumption DEF Message
<1>2. CASE following /\ Unknown(preview) /\ Crash
  BY <1>2, CrashKeeps DEF onMessage
<1>3. CASE ~(following /\ Unknown(preview)) /\ Lives /\ ~Crash
  <2> HIDE DEF m
  <2>1. /\ May /\ UNCHANGED <<following, menu, remapped, stored, chosen, publish, sent, panes>>
        /\ mMessages' = Append(mMessages, m) /\ mRemap' = Append(mRemap, Len(mMessages'))
        /\ selected' = IF following THEN Len(mRemap') ELSE selected
        /\ misplaced' = (misplaced /\ ~following)
        /\ preview' = IF following THEN setMessage(preview, m, TRUE) ELSE preview
    BY <1>3 DEF onMessage, m, popup
  <2>2. /\ mMessages' \in Seq(Message) /\ mRemap' \in Seq(1..Len(mMessages'))
        /\ lines' \in Seq(Message) /\ Len(lines') = Len(lines) + 1
        /\ Len(lines') = Len(mRemap')
        /\ lines'[Len(lines) + 1] = m /\ \A i \in 1..Len(lines) : lines'[i] = lines[i]
        /\ lines \in Seq(Message) /\ selected \in 0..Len(lines) /\ Len(lines) \in Nat
    <3>1. /\ mMessages \in Seq(Message) /\ mRemap \in Seq(1..Len(mMessages))
          /\ lines \in Seq(Message) /\ selected \in 0..Len(lines)
      BY DEF IInv, TableOK
    <3>2. Received(m)
      BY <1>1, <2>1 DEF Received
    <3>3. /\ mMessages' \in Seq(Message) /\ mRemap \in Seq(1..Len(mMessages'))
          /\ mRemap' \in Seq(1..Len(mMessages')) /\ Len(mRemap') = Len(mRemap) + 1
          /\ mRemap'[Len(mRemap) + 1] = Len(mMessages')
          /\ mMessages'[Len(mMessages')] = m
          /\ \A i \in 1..Len(mRemap) : /\ mRemap'[i] = mRemap[i]
                                       /\ mMessages'[mRemap[i]] = mMessages[mRemap[i]]
      BY <2>1, <3>2, Appended
    <3>4. /\ lines' \in Seq(Message) /\ Len(lines') = Len(mRemap')
          /\ \A i \in 1..Len(mRemap') : lines'[i] = mMessages'[mRemap'[i]]
      BY <3>3, LinesAre DEF lines
    <3>5. /\ Len(lines) = Len(mRemap)
          /\ \A i \in 1..Len(mRemap) : lines[i] = mMessages[mRemap[i]]
      BY <3>1, LinesAre DEF lines
    <3>6. Len(mRemap) \in Nat
      BY <3>1
    <3>7. \A i \in 1..Len(mRemap) : i \in 1..Len(mRemap')
      BY <3>3, <3>6
    <3>8. Len(mRemap) + 1 \in 1..Len(mRemap')
      BY <3>3, <3>6
    <3>9. QED
      BY <3>1, <3>3, <3>4, <3>5, <3>6, <3>7, <3>8
  <2>3. TableOK'
    BY <2>1, <2>2 DEF IInv, TableOK
  <2>4. MenuInv'
    <3>1. selected # 0 => selected' # 0
      BY <2>1, <2>2
    <3>2. following => selected' = Len(lines')
      BY <2>1, <2>2
    <3>3. ~following /\ selected # 0 => selected' = selected /\ lines'[selected] = lines[selected]
      BY <2>1, <2>2
    <3>4. menu # NoMenu /\ ~remapped => selected # 0 /\ (lines[selected] = menu \/ following)
      BY DEF IInv, MenuInv
    <3>5. UNCHANGED <<following, menu, remapped>>
      BY <2>1
    <3>6. QED
      BY <3>1, <3>2, <3>3, <3>4, <3>5 DEF MenuInv
  <2>5. CASE following
    <3>1. Good(preview') /\ preview'.head = m.head /\ preview'.meant = m.payload
          /\ preview'.locked
      BY <1>1, <1>3, <2>1, <2>5, Put DEF IInv, EditorsOK, Good
    <3>2. PreviewIsOfSelection'
      BY <2>1, <2>2, <2>5, <3>1 DEF PreviewIsOfSelection
    <3>3. QED
      BY <1>3, <2>1, <2>3, <2>4, <3>1, <3>2, TableKeeps
  <2>6. CASE ~following
    <3>1. Good(preview') /\ preview'.locked
      BY <2>1, <2>6 DEF IInv, EditorsOK
    <3>2. PreviewIsOfSelection'
      <4>1. preview' = preview /\ selected' = selected /\ alive' = alive
            /\ (~misplaced' => ~misplaced)
        BY <1>3, <2>1, <2>6 DEF Lives
      <4>2. selected # 0 => lines'[selected] = lines[selected]
        BY <2>2
      <4>3. QED
        BY <4>1, <4>2 DEF IInv, PreviewIsOfSelection
    <3>3. QED
      BY <1>3, <2>1, <2>3, <2>4, <3>1, <3>2, TableKeeps
  <2>7. QED
    BY <2>5, <2>6
<1>4. alive = TRUE
  BY DEF onMessage, May, IInv, RestOK
<1>5. QED
  BY <1>2, <1>3, <1>4 DEF onMessage, Crash, Lives

LEMMA RemapKeeps ==
  ASSUME IInv, May, Lives, NEW messages \in Seq(Message),
         NEW those \in SUBSET (1..Len(messages)), remap(messages, those)
  PROVE  IInv'
<1>1. /\ UNCHANGED <<following, menu, stored, chosen, publish, preview, sent, panes>>
      /\ mMessages' = messages /\ mRemap' \in InOrder(those)
      /\ selected' = IF selected <= Len(mRemap') THEN selected ELSE 0
      /\ misplaced' = (/\ selected' # 0
                       /\ (misplaced \/ lines'[selected'] # lines[selected]))
      /\ remapped' = (menu # NoMenu /\ (remapped \/ lines' # lines))
  BY DEF remap
<1>2. lines \in Seq(Message) /\ Len(lines) \in Nat /\ selected \in 0..Len(lines)
  BY DEF IInv, TableOK
<1>3. mRemap' \in Seq(1..Len(messages))
  <2>1. IsFiniteSet(1..Len(messages))
    BY FS_Interval
  <2>2. Cardinality(those) \in Nat
    BY <2>1, FS_Subset, FS_CardinalityType
  <2>3. mRemap' \in [1..Cardinality(those) -> those]
    BY <1>1 DEF InOrder
  <2> DEFINE c == Cardinality(those)
  <2>4. c \in Nat /\ mRemap' \in [1..c -> those]
    BY <2>2, <2>3
  <2> HIDE DEF c
  <2>5. mRemap' \in Seq(those)
    BY <2>4
  <2>6. QED
    BY <2>5, InLarger
<1>4. lines' \in Seq(Message) /\ Len(lines') = Len(mRemap') /\ Len(mRemap') \in Nat
  BY <1>1, <1>3, LinesAre DEF lines
<1>5. selected' \in 0..Len(lines') /\ (selected' # 0 => selected' = selected)
  BY <1>1, <1>2, <1>4
<1>6. misplaced' \in BOOLEAN /\ remapped' \in BOOLEAN
      /\ (~misplaced' /\ selected' # 0 =>
            ~misplaced /\ lines'[selected'] = lines[selected])
  BY <1>1
<1>7. TableOK'
  BY <1>1, <1>3, <1>4, <1>5, <1>6 DEF IInv, TableOK
<1>8. MenuInv'
  <2> SUFFICES ASSUME menu' # NoMenu, ~remapped'
               PROVE  /\ selected' # 0
                      /\ lines'[selected'] = menu' \/ (following' /\ selected' = Len(lines'))
    BY DEF MenuInv
  <2>1. lines' = lines /\ menu # NoMenu /\ ~remapped
    BY <1>1
  <2>2. selected # 0 /\ (lines[selected] = menu \/ (following /\ selected = Len(lines)))
    BY <2>1 DEF IInv, MenuInv
  <2>3. selected' = selected
    BY <1>1, <1>2, <1>4, <2>1
  <2>4. QED
    BY <1>1, <2>1, <2>2, <2>3
<1>9. PreviewIsOfSelection'
  BY <1>1, <1>5, <1>6 DEF IInv, PreviewIsOfSelection, Lives
<1>10. QED
  BY <1>1, <1>7, <1>8, <1>9, TableKeeps DEF IInv, EditorsOK

LEMMA onHistoryChangedKeeps ==
  ASSUME IInv, NEW some \in SUBSET (1..Len(mMessages)), onHistoryChanged(some)
  PROVE  IInv'
<1>1. mMessages \in Seq(Message)
  BY DEF IInv, TableOK
<1>2. QED
  BY <1>1, RemapKeeps DEF onHistoryChanged, User

LEMMA ForgetKeeps ==
  ASSUME IInv, NEW kept \in SUBSET (1..Len(mMessages)), Forget(kept)
  PROVE  IInv'
<1>1. PICK order \in InOrder(kept) :
        remap([i \in DOMAIN order |-> mMessages[order[i]]],
              {i \in DOMAIN order : \E k \in DOMAIN mRemap : order[i] = mRemap[k]})
  BY DEF Forget
<1> DEFINE messages == [i \in DOMAIN order |-> mMessages[order[i]]]
           those == {i \in DOMAIN order : \E k \in DOMAIN mRemap : order[i] = mRemap[k]}
<1>2. mMessages \in Seq(Message) /\ May /\ Lives
  BY DEF IInv, TableOK, Forget
<1>3. Cardinality(kept) \in Nat
  <2>1. IsFiniteSet(1..Len(mMessages))
    BY <1>2, FS_Interval
  <2>2. QED
    BY <2>1, FS_Subset, FS_CardinalityType
<1>4. order \in [1..Cardinality(kept) -> 1..Len(mMessages)]
  BY DEF InOrder
<1>5. messages \in Seq(Message) /\ Len(messages) = Cardinality(kept)
  <2>1. \A i \in 1..Cardinality(kept) : mMessages[order[i]] \in Message
    BY <1>2, <1>4
  <2>2. QED
    BY <1>3, <1>4, <2>1
<1>6. those \in SUBSET (1..Len(messages))
  BY <1>4, <1>5
<1>7. remap(messages, those)
  BY <1>1
<1> HIDE DEF messages, those
<1>8. QED
  BY <1>2, <1>5, <1>6, <1>7, RemapKeeps

\* A line that is selected is shown.
LEMMA Selected ==
  ASSUME IInv, NEW i \in 1..Len(lines), ~Unknown(preview), Select(i),
         UNCHANGED <<lineVars, following>>
  PROVE  /\ selected' \in 0..Len(lines') /\ misplaced' \in BOOLEAN
         /\ Good(preview') /\ preview'.locked /\ PreviewIsOfSelection'
<1>1. lines[i] \in Message /\ lines[i].payload \in Payloads
  BY LineIsMessage DEF Message
<1>2. /\ selected' = i /\ misplaced' = FALSE /\ lines' = lines
      /\ preview' = setMessage(preview, lines[i], TRUE)
  BY LinesStay DEF Select
<1>3. preview \in Editor
  BY DEF IInv, EditorsOK, Good
<1>4. /\ Good(preview') /\ preview'.locked
      /\ preview'.head = lines[i].head /\ preview'.meant = lines[i].payload
  BY <1>1, <1>2, <1>3, Put
<1>5. PreviewIsOfSelection'
  BY <1>2, <1>4 DEF PreviewIsOfSelection
<1>6. selected' \in 0..Len(lines')
  BY <1>2 DEF IInv, TableOK
<1>7. QED
  BY <1>2, <1>4, <1>5, <1>6

LEMMA onHistorySelectedKeeps ==
  ASSUME IInv, NEW i \in 1..Len(lines), onHistorySelected(i)
  PROVE  IInv'
<1>1. May /\ menu = NoMenu
  BY DEF onHistorySelected, User
<1>2. CASE Unknown(preview) /\ Crash
  BY <1>1, <1>2, CrashKeeps
<1>3. CASE ~Unknown(preview) /\ Lives /\ Select(i)
           /\ UNCHANGED <<lineVars, following, popup, stored, chosen, publish, sent, panes>>
  <2>1. /\ selected' \in 0..Len(lines') /\ misplaced' \in BOOLEAN
        /\ Good(preview') /\ preview'.locked /\ PreviewIsOfSelection'
    BY <1>3, Selected
  <2>2. TableOK' /\ MenuInv'
    BY <1>1, <1>3, <2>1, LinesStay DEF IInv, TableOK, MenuInv, popup
  <2>3. QED
    BY <1>1, <1>3, <2>1, <2>2, TableKeeps
<1>4. QED
  BY <1>2, <1>3 DEF onHistorySelected

LEMMA onHistoryContextKeeps ==
  ASSUME IInv, NEW i \in 1..Len(lines), onHistoryContext(i)
  PROVE  IInv'
<1>1. /\ May /\ Lives /\ menu' = lines[i] /\ remapped' = FALSE
      /\ UNCHANGED <<lineVars, following, stored, chosen, publish, sent, panes>>
      /\ UNCHANGED <<mMessages, mRemap, lines>> /\ alive' = alive
  BY LinesStay DEF onHistoryContext, User, Lives
<1>2. lines[i] \in Message
  BY LineIsMessage
<1>3. /\ selected' = i
      /\ selected' \in 0..Len(lines') /\ misplaced' \in BOOLEAN
      /\ Good(preview') /\ preview'.locked /\ PreviewIsOfSelection'
  <2>1. CASE i = selected /\ UNCHANGED <<selected, misplaced, preview>>
    BY <1>1, <2>1 DEF IInv, TableOK, EditorsOK, PreviewIsOfSelection
  <2>2. CASE i # selected /\ ~Unknown(preview) /\ Select(i)
    <3>1. selected' = i
      BY <2>2 DEF Select
    <3>2. QED
      BY <1>1, <2>2, <3>1, Selected
  <2>3. QED
    BY <2>1, <2>2 DEF onHistoryContext
<1>4. i # 0
  BY DEF IInv, TableOK
<1>5. TableOK' /\ MenuInv'
  BY <1>1, <1>2, <1>3, <1>4 DEF IInv, TableOK, MenuInv
<1>6. QED
  BY <1>1, <1>3, <1>5, TableKeeps

\* The preview is emptied and nothing is selected.
LEMMA Emptied ==
  ASSUME IInv, May, menu = NoMenu, Lives, ~Unknown(preview),
         mMessages' \in Seq(Message), mRemap' \in Seq(1..Len(mMessages')),
         selected' = 0, misplaced' = FALSE,
         preview' = clear(preview, TRUE),
         UNCHANGED <<following, popup, stored, chosen, publish, sent, panes>>
  PROVE  IInv'
<1>1. Empty \in Message
  BY DEF Empty, Message, Payloads
<1>2. preview \in Editor
  BY DEF IInv, EditorsOK, Good
<1>3. Good(preview') /\ preview'.locked
  BY <1>1, <1>2, Put DEF clear
<1>4. /\ menu' = menu /\ remapped' = remapped /\ lines' \in Seq(Message)
      /\ 0 \in 0..Len(lines')
  <2>1. lines' \in Seq(Message)
    BY LinesAre DEF lines
  <2>2. QED
    BY <2>1 DEF popup
<1>5. MenuInv' /\ PreviewIsOfSelection'
  BY <1>4 DEF MenuInv, PreviewIsOfSelection
<1>6. TableOK'
  BY <1>4 DEF IInv, TableOK
<1>7. QED
  BY <1>3, <1>5, <1>6, TableKeeps

LEMMA onHistoryClearClickedKeeps ==
  ASSUME IInv, onHistoryClearClicked
  PROVE  IInv'
<1>1. May /\ menu = NoMenu
  BY DEF onHistoryClearClicked, User
<1>2. CASE Unknown(preview) /\ Crash
  BY <1>1, <1>2, CrashKeeps
<1>3. CASE ~(Unknown(preview) /\ Crash)
  <2>1. <<>> \in Seq(Message) /\ <<>> \in Seq(1..Len(<<>>))
    OBVIOUS
  <2>2. QED
    BY <1>1, <1>3, <2>1, Emptied DEF onHistoryClearClicked
<1>4. QED
  BY <1>2, <1>3

LEMMA UnsubscribeKeeps ==
  ASSUME IInv, onContextSelectedSubscriptionsUnsubscribe
  PROVE  IInv'
<1>1. May /\ menu = NoMenu
  BY DEF onContextSelectedSubscriptionsUnsubscribe, User
<1>2. CASE Unknown(preview) /\ Crash
  BY <1>1, <1>2, CrashKeeps
<1>3. CASE ~(Unknown(preview) /\ Crash)
  <2>1. mMessages \in Seq(Message) /\ mRemap \in Seq(1..Len(mMessages))
    BY DEF IInv, TableOK
  <2>2. ~Unknown(preview) => UNCHANGED <<mMessages, mRemap>>
    BY <1>3 DEF onContextSelectedSubscriptionsUnsubscribe, lineVars
  <2>3. QED
    BY <1>1, <1>3, <2>1, <2>2, Emptied DEF onContextSelectedSubscriptionsUnsubscribe
<1>4. QED
  BY <1>2, <1>3

LEMMA FollowKeeps ==
  ASSUME IInv, Follow
  PROVE  IInv'
<1>1. /\ May /\ Lives /\ menu = NoMenu /\ following' = ~following
      /\ UNCHANGED <<mMessages, mRemap, lines, selected, misplaced, menu, remapped,
                     stored, chosen, publish, preview, sent, panes>>
      /\ alive' = alive
  BY LinesStay DEF Follow, User, popup, Lives
<1>2. TableOK'
  BY <1>1 DEF IInv, TableOK
<1>3. MenuInv' /\ PreviewIsOfSelection'
  BY <1>1 DEF IInv, MenuInv, PreviewIsOfSelection
<1>4. QED
  BY <1>1, <1>2, <1>3, TableKeeps DEF IInv, EditorsOK

LEMMA onHistoryDoubleClickedKeeps ==
  ASSUME IInv, onHistoryDoubleClicked
  PROVE  IInv'
<1>1. May /\ selected # 0
  BY DEF onHistoryDoubleClicked, User
<1>2. CASE (~live \/ Unknown(publish)) /\ Crash
  BY <1>1, <1>2, CrashKeeps
<1>3. CASE /\ live /\ ~Unknown(publish) /\ Lives
           /\ publish' = setMessage(publish, lines[selected], FALSE) /\ chosen' = 0
           /\ UNCHANGED <<table, popup, stored, preview, sent, panes>>
  <2>1. selected \in 1..Len(lines)
    BY <1>1 DEF IInv, TableOK
  <2>2. lines[selected] \in Message /\ publish \in Editor
    BY <2>1, LineIsMessage DEF IInv, EditorsOK, Good
  <2>3. Good(publish') /\ (publish'.mCurrentFormat = "Binary" => publish'.locked)
    BY <1>3, <2>2, Put
  <2>4. StoredOK' /\ PanesOK'
    BY <1>3 DEF IInv, StoredOK, PanesOK, PutAwayVisible, TogglesTellPanes
  <2>5. QED
    BY <1>1, <1>3, <2>3, <2>4, AsideKeeps
<1>4. QED
  BY <1>2, <1>3 DEF onHistoryDoubleClicked

LEMMA HistoryStepKeeps ==
  ASSUME IInv, HistoryStep
  PROVE  IInv'
BY onMessageKeeps, onMessageHiddenKeeps, onHistoryChangedKeeps, ForgetKeeps,
   onHistorySelectedKeeps, onHistoryContextKeeps, onHistoryDoubleClickedKeeps, onHistoryClearClickedKeeps, UnsubscribeKeeps,
   FollowKeeps DEF HistoryStep

-------------------------------------------------------------------------------
(* Commands, stored messages, editors and panes *)

\* What is put into Publish.
LEMMA PutIntoPublish ==
  ASSUME IInv, ~Unknown(publish), NEW m \in Message,
         publish' = setMessage(publish, m, FALSE)
  PROVE  Good(publish') /\ (publish'.mCurrentFormat = "Binary" => publish'.locked)
<1>1. publish \in Editor
  BY DEF IInv, EditorsOK, Good
<1>2. QED
  BY <1>1, Put

\* A menu that is open over no selection has seen its line go.
LEMMA NothingSelected ==
  ASSUME IInv, menu # NoMenu, selected = 0
  PROVE  remapped
BY DEF IInv, MenuInv

LEMMA SelectedLine ==
  ASSUME IInv, selected # 0
  PROVE  lines[selected] \in Message
BY LineIsMessage DEF IInv, TableOK

\* A command that stores nothing and puts nothing into Publish.
LEMMA SentKeeps ==
  ASSUME IInv, May, Lives, sent' \in Message, UNCHANGED popup \/ Closed,
         UNCHANGED <<table, stored, chosen, publish, preview, panes>>
  PROVE  IInv'
<1>1. StoredOK' /\ PanesOK'
  BY DEF IInv, StoredOK, PanesOK, PutAwayVisible, TogglesTellPanes
<1>2. Good(publish') /\ (publish'.mCurrentFormat = "Binary" => publish'.locked)
  BY DEF IInv, EditorsOK
<1>3. QED
  BY <1>1, <1>2, AsideKeeps

LEMMA RetainedClearKeeps ==
  ASSUME IInv, onContextSelectedHistoryRetainedClear
  PROVE  IInv'
<1>1. sent \in Message
  BY DEF IInv, StoredOK
<1>2. selected # 0 => [head |-> lines[selected].head, payload |-> ""] \in Message
  BY SelectedLine DEF Message, Payloads
<1>3. sent' \in Message
  BY <1>1, <1>2 DEF onContextSelectedHistoryRetainedClear
<1>4. QED
  BY <1>3, SentKeeps DEF onContextSelectedHistoryRetainedClear, Command

LEMMA ResendKeeps ==
  ASSUME IInv, onContextSelectedHistoryResend
  PROVE  IInv'
<1>1. sent' \in Message
  BY SelectedLine DEF IInv, StoredOK, onContextSelectedHistoryResend
<1>2. QED
  BY <1>1, SentKeeps DEF onContextSelectedHistoryResend, Command

LEMMA EditKeeps ==
  ASSUME IInv, onContextSelectedHistoryEdit
  PROVE  IInv'
<1>1. May
  BY DEF onContextSelectedHistoryEdit, Command
<1>2. CASE selected # 0 /\ Unknown(publish) /\ Crash
  BY <1>1, <1>2, CrashKeeps
<1>3. CASE /\ selected = 0 \/ ~Unknown(publish)
           /\ Lives /\ Closed
           /\ publish' = IF selected = 0 THEN publish
                         ELSE setMessage(clear(publish, FALSE), lines[selected], FALSE)
           /\ UNCHANGED <<table, stored, chosen, preview, sent, panes>>
  <2>1. StoredOK' /\ PanesOK'
    BY <1>3 DEF IInv, StoredOK, PanesOK, PutAwayVisible, TogglesTellPanes
  <2>2. Good(publish') /\ (publish'.mCurrentFormat = "Binary" => publish'.locked)
    <3>1. CASE selected = 0
      BY <1>3, <3>1 DEF IInv, EditorsOK
    <3>2. CASE selected # 0
      <4> DEFINE e == clear(publish, FALSE)
      <4>1. Empty \in Message /\ publish \in Editor /\ ~Unknown(publish)
        BY <1>3, <3>2 DEF Empty, Message, Payloads, IInv, EditorsOK, Good
      <4>2. e \in Editor
        BY <4>1, Put DEF clear, Good
      <4>3. ~Unknown(e)
        <5> DEFINE d == Displayed(publish, "", FALSE)
        <5>1. d \in Editor /\ d.format = publish.format
          BY <4>1, DisplayedIs DEF Payloads
        <5>2. e = [[d EXCEPT !.meant = "", !.stale = (d.mCurrentFormat = "Binary")]
                     EXCEPT !.head = NoHead]
          BY DEF clear, setMessage, setPayload, Empty
        <5> HIDE DEF d, e
        <5>3. QED
          BY <4>1, <5>1, <5>2 DEF Unknown, Editor
      <4>4. lines[selected] \in Message
        BY <3>2, SelectedLine
      <4>5. publish' = setMessage(e, lines[selected], FALSE)
        BY <1>3, <3>2
      <4> HIDE DEF e
      <4>6. QED
        BY <4>2, <4>3, <4>4, <4>5, Put
    <3>3. QED
      BY <3>1, <3>2
  <2>3. QED
    BY <1>1, <1>3, <2>1, <2>2, AsideKeeps
<1>4. QED
  BY <1>2, <1>3 DEF onContextSelectedHistoryEdit

LEMMA CopyKeeps ==
  ASSUME IInv, onContextSelectedHistoryCopy
  PROVE  IInv'
<1>1. May /\ menu # NoMenu
  BY DEF onContextSelectedHistoryCopy, Command
<1>2. CASE selected = 0 /\ Crash
  BY <1>1, <1>2, NothingSelected, CrashKeeps
<1>3. CASE ~(selected = 0 /\ Crash)
  <2>1. sent' \in Message
    BY <1>3 DEF onContextSelectedHistoryCopy, IInv, StoredOK
  <2>2. QED
    BY <1>1, <1>3, <2>1, SentKeeps DEF onContextSelectedHistoryCopy
<1>4. QED
  BY <1>2, <1>3

LEMMA DismissKeeps ==
  ASSUME IInv, Dismiss
  PROVE  IInv'
<1>1. sent' \in Message
  BY DEF Dismiss, IInv, StoredOK
<1>2. QED
  BY <1>1, SentKeeps DEF Dismiss, Command

\* A message that is stored, and selected.
LEMMA Kept ==
  ASSUME IInv, NEW m \in Message, Store(m), sent' = sent
  PROVE  StoredOK'
<1>1. stored \in Seq(Message) /\ stored' = Append(stored, m) /\ chosen' = Len(stored')
  BY DEF IInv, StoredOK, Store
<1>2. stored' \in Seq(Message) /\ Len(stored') \in Nat
  BY <1>1
<1>3. QED
  BY <1>1, <1>2 DEF IInv, StoredOK

LEMMA StoreAndLoadKeeps ==
  ASSUME IInv, May, NEW m \in Message, StoreAndLoad(m)
  PROVE  IInv'
<1>1. CASE Unknown(publish) /\ Crash
  BY <1>1, CrashKeeps
<1>2. CASE /\ ~Unknown(publish) /\ Lives /\ Store(m) /\ Closed
           /\ publish' = setMessage(publish, m, FALSE)
           /\ UNCHANGED <<table, preview, sent, panes>>
  <2>1. StoredOK' /\ Good(publish') /\ (publish'.mCurrentFormat = "Binary" => publish'.locked)
    BY <1>2, Kept, PutIntoPublish
  <2>2. PanesOK'
    BY <1>2 DEF IInv, PanesOK, PutAwayVisible, TogglesTellPanes
  <2>3. QED
    BY <1>2, <2>1, <2>2, AsideKeeps
<1>3. QED
  BY <1>1, <1>2 DEF StoreAndLoad

LEMMA SaveMessageKeeps ==
  ASSUME IInv, onContextSelectedHistorySaveMessage
  PROVE  IInv'
<1>1. May /\ menu # NoMenu
  BY DEF onContextSelectedHistorySaveMessage, Command
<1>2. CASE (~live \/ selected = 0) /\ Crash
  BY <1>1, <1>2, NothingSelected, CrashKeeps
<1>3. CASE live /\ selected # 0 /\ StoreAndLoad(lines[selected])
  BY <1>1, <1>3, SelectedLine, StoreAndLoadKeeps
<1>4. QED
  BY <1>2, <1>3 DEF onContextSelectedHistorySaveMessage

LEMMA MenuStepKeeps ==
  ASSUME IInv, MenuStep
  PROVE  IInv'
BY RetainedClearKeeps, ResendKeeps, EditKeeps, SaveMessageKeeps, CopyKeeps,
   DismissKeeps DEF MenuStep

LEMMA onPreviewSaveMessageKeeps ==
  ASSUME IInv, onPreviewSaveMessage
  PROVE  IInv'
<1>1. May
  BY DEF onPreviewSaveMessage, User
<1>2. CASE ~live /\ Crash
  BY <1>1, <1>2, CrashKeeps
<1>3. CASE /\ live /\ Lives /\ Store(getMessage(preview))
           /\ UNCHANGED <<table, popup, publish, preview, sent, panes>>
  <2>1. getMessage(preview) \in Message
    BY HeldPayload DEF IInv, EditorsOK
  <2>2. StoredOK'
    BY <1>3, <2>1, Kept
  <2>3. /\ Good(publish') /\ (publish'.mCurrentFormat = "Binary" => publish'.locked)
        /\ PanesOK'
    BY <1>3 DEF IInv, EditorsOK, PanesOK, PutAwayVisible, TogglesTellPanes
  <2>4. QED
    BY <1>1, <1>3, <2>2, <2>3, AsideKeeps
<1>4. QED
  BY <1>2, <1>3 DEF onPreviewSaveMessage

LEMMA onMessagesSelectedKeeps ==
  ASSUME IInv, NEW k \in 1..MaxStored, onMessagesSelected(k)
  PROVE  IInv'
<1>1. May /\ k \in 1..Len(stored)
  BY DEF onMessagesSelected, User
<1>2. CASE Unknown(publish) /\ Crash
  BY <1>1, <1>2, CrashKeeps
<1>3. CASE /\ ~Unknown(publish) /\ Lives
           /\ chosen' = k /\ publish' = setMessage(publish, stored[k], FALSE)
           /\ UNCHANGED <<table, popup, stored, preview, sent, panes>>
  <2>1. stored[k] \in Message
    BY <1>1 DEF IInv, StoredOK
  <2>2. StoredOK' /\ PanesOK'
    BY <1>1, <1>3 DEF IInv, StoredOK, PanesOK, PutAwayVisible, TogglesTellPanes
  <2>3. Good(publish') /\ (publish'.mCurrentFormat = "Binary" => publish'.locked)
    BY <1>3, <2>1, PutIntoPublish
  <2>4. QED
    BY <1>1, <1>3, <2>2, <2>3, AsideKeeps
<1>4. QED
  BY <1>2, <1>3 DEF onMessagesSelected

\* The stored message that is selected, when there is one.
LEMMA ChosenIsMessage ==
  ASSUME IInv, chosen # 0
  PROVE  stored[chosen] \in Message /\ chosen \in 1..Len(stored)
BY DEF IInv, StoredOK

LEMMA onMessagesActivatedKeeps ==
  ASSUME IInv, onMessagesActivated
  PROVE  IInv'
<1>1. sent' \in Message
  BY ChosenIsMessage DEF onMessagesActivated
<1>2. QED
  BY <1>1, SentKeeps DEF onMessagesActivated, User

LEMMA MessagePublishKeeps ==
  ASSUME IInv, onContextSelectedMessagePublish
  PROVE  IInv'
<1>1. May /\ chosen # 0
  BY DEF onContextSelectedMessagePublish, User
<1>2. CASE Unknown(publish) /\ Crash
  BY <1>1, <1>2, CrashKeeps
<1>3. CASE /\ ~Unknown(publish) /\ Lives /\ sent' = stored[chosen]
           /\ publish' = setMessage(publish, stored[chosen], FALSE)
           /\ UNCHANGED <<table, popup, stored, chosen, preview, panes>>
  <2>1. stored[chosen] \in Message
    BY <1>1, ChosenIsMessage
  <2>2. StoredOK' /\ PanesOK'
    BY <1>3, <2>1 DEF IInv, StoredOK, PanesOK, PutAwayVisible, TogglesTellPanes
  <2>3. Good(publish') /\ (publish'.mCurrentFormat = "Binary" => publish'.locked)
    BY <1>3, <2>1, PutIntoPublish
  <2>4. QED
    BY <1>1, <1>3, <2>2, <2>3, AsideKeeps
<1>4. QED
  BY <1>2, <1>3 DEF onContextSelectedMessagePublish

\* The two that change the stored messages themselves.
LEMMA ShelfKeeps ==
  ASSUME IInv, May, Lives, stored' \in Seq(Message), chosen' \in 0..Len(stored'),
         UNCHANGED <<table, popup, publish, preview, sent, panes>>
  PROVE  IInv'
<1>1. StoredOK' /\ PanesOK'
  BY DEF IInv, StoredOK, PanesOK, PutAwayVisible, TogglesTellPanes
<1>2. Good(publish') /\ (publish'.mCurrentFormat = "Binary" => publish'.locked)
  BY DEF IInv, EditorsOK
<1>3. QED
  BY <1>1, <1>2, AsideKeeps

LEMMA MessageOverwriteKeeps ==
  ASSUME IInv, onContextSelectedMessageOverwrite
  PROVE  IInv'
<1>1. /\ May /\ Lives /\ chosen # 0 /\ chosen' = chosen
      /\ stored' = [stored EXCEPT ![chosen] = getMessage(publish)]
  BY DEF onContextSelectedMessageOverwrite, User
<1>2. getMessage(publish) \in Message
  BY HeldPayload DEF IInv, EditorsOK
<1>3. stored' \in Seq(Message) /\ Len(stored') = Len(stored)
  BY <1>1, <1>2 DEF IInv, StoredOK
<1>4. chosen' \in 0..Len(stored')
  BY <1>1, <1>3 DEF IInv, StoredOK
<1>5. QED
  BY <1>1, <1>3, <1>4, ShelfKeeps DEF onContextSelectedMessageOverwrite

LEMMA MessageDeleteKeeps ==
  ASSUME IInv, onContextSelectedMessageDelete
  PROVE  IInv'
<1>1. /\ May /\ Lives /\ chosen' = 0
      /\ stored' = SubSeq(stored, 1, chosen - 1) \o SubSeq(stored, chosen + 1, Len(stored))
  BY DEF onContextSelectedMessageDelete, User
<1>2. stored \in Seq(Message) /\ chosen \in 1..Len(stored)
  BY ChosenIsMessage DEF onContextSelectedMessageDelete, IInv, StoredOK
<1>3. SubSeq(stored, 1, chosen - 1) \in Seq(Message)
  BY <1>2
<1>4. SubSeq(stored, chosen + 1, Len(stored)) \in Seq(Message)
  BY <1>2
<1>5. stored' \in Seq(Message)
  BY <1>1, <1>3, <1>4
<1>6. chosen' \in 0..Len(stored')
  BY <1>1, <1>5
<1>7. QED
  BY <1>1, <1>5, <1>6, ShelfKeeps DEF onContextSelectedMessageDelete

LEMMA StoredStepKeeps ==
  ASSUME IInv, StoredStep
  PROVE  IInv'
<1>1. ASSUME onPublishSaveMessage PROVE IInv'
  <2>1. getMessage(publish) \in Message
    BY HeldPayload DEF IInv, EditorsOK
  <2>2. QED
    BY <1>1, <2>1, StoreAndLoadKeeps DEF onPublishSaveMessage, User
<1>2. ASSUME onContextSelectedMessageNewMessage PROVE IInv'
  <2>1. Empty \in Message
    BY DEF Empty, Message, Payloads
  <2>2. QED
    BY <1>2, <2>1, StoreAndLoadKeeps DEF onContextSelectedMessageNewMessage, User
<1>3. QED
  BY <1>1, <1>2, onPreviewSaveMessageKeeps, onMessagesSelectedKeeps,
     onMessagesActivatedKeeps, MessagePublishKeeps, MessageOverwriteKeeps,
     MessageDeleteKeeps DEF StoredStep

\* A change of Publish by its user.
LEMMA PublishKeeps ==
  ASSUME IInv, May, Lives, Good(publish'),
         publish'.mCurrentFormat = "Binary" => publish'.locked,
         UNCHANGED <<table, popup, stored, chosen, preview, sent, panes>>
  PROVE  IInv'
<1>1. StoredOK' /\ PanesOK'
  BY DEF IInv, StoredOK, PanesOK, PutAwayVisible, TogglesTellPanes
<1>2. QED
  BY <1>1, AsideKeeps

\* A change of the preview by its user: not of what it shows.
LEMMA PreviewKeeps ==
  ASSUME IInv, May, Lives, Good(preview'), preview'.locked,
         preview'.head = preview.head, preview'.meant = preview.meant,
         UNCHANGED <<table, popup, stored, chosen, publish, sent, panes>>
  PROVE  IInv'
<1>1. UNCHANGED <<mMessages, mRemap, lines, selected, following, misplaced, menu, remapped,
                  alive>>
  BY LinesStay DEF table, popup, Lives
<1>2. TableOK' /\ MenuInv' /\ PreviewIsOfSelection'
  BY <1>1 DEF IInv, TableOK, MenuInv, PreviewIsOfSelection
<1>3. QED
  BY <1>2, TableKeeps

\* A format nobody knows changes nothing else.
LEMMA FormatTyped ==
  ASSUME NEW e, Good(e)
  PROVE  LET s == [e EXCEPT !.format = "?"] IN
         /\ Good(s) /\ s.head = e.head /\ s.meant = e.meant /\ s.locked = e.locked
         /\ s.mCurrentFormat = e.mCurrentFormat
BY DEF Good, Editor, getPayload

LEMMA TypeTextKeeps ==
  ASSUME IInv, NEW p \in Typed, TypeText(p)
  PROVE  IInv'
<1>1. /\ May /\ Lives /\ ~publish.locked
      /\ publish' = [publish EXCEPT !.text = p, !.meant = p, !.stale = FALSE]
  BY DEF TypeText, User
<1>2. p \in Payloads
  BY ClientTabAssumption
<1>3. publish \in Editor /\ publish.mCurrentFormat # "Binary"
  BY <1>1 DEF IInv, EditorsOK, Good
<1>4. /\ publish' \in Editor /\ publish'.text = p /\ publish'.meant = p
      /\ publish'.mCurrentFormat = publish.mCurrentFormat
  BY <1>1, <1>2, <1>3 DEF Editor
<1>5. Good(publish') /\ publish'.mCurrentFormat # "Binary"
  BY <1>2, <1>3, <1>4 DEF Good, getPayload, SamePayload
<1>6. QED
  BY <1>1, <1>5, PublishKeeps DEF TypeText

LEMMA EditHeadKeeps ==
  ASSUME IInv, NEW h \in Heads, EditHead(h)
  PROVE  IInv'
<1>1. /\ publish' = [publish EXCEPT !.head = h] /\ Good(publish)
      /\ publish.mCurrentFormat = "Binary" => publish.locked
  BY DEF EditHead, IInv, EditorsOK
<1>2. /\ Good(publish') /\ (publish'.mCurrentFormat = "Binary" => publish'.locked)
  BY <1>1 DEF Good, Editor, getPayload
<1>3. QED
  BY <1>2, PublishKeeps DEF EditHead, User

LEMMA onFormatSelectedKeeps ==
  ASSUME IInv, NEW f \in Choices, onFormatSelected(f)
  PROVE  IInv'
<1>1. May /\ Lives /\ UNCHANGED <<table, popup, stored, chosen, sent, panes>>
  BY DEF onFormatSelected, User
<1>2. f \in Formats /\ Good(publish) /\ Good(preview)
  BY ClientTabAssumption DEF IInv, EditorsOK
<1>3. CASE publish' = format(publish, f, FALSE) /\ UNCHANGED preview
  <2>1. Good(publish') /\ (publish'.mCurrentFormat = "Binary" => publish'.locked)
    BY <1>2, <1>3, Reformatted
  <2>2. QED
    BY <1>1, <1>3, <2>1, PublishKeeps
<1>4. CASE preview' = format(preview, f, TRUE) /\ UNCHANGED publish
  <2>1. /\ Good(preview') /\ preview'.locked
        /\ preview'.head = preview.head /\ preview'.meant = preview.meant
    BY <1>2, <1>4, Reformatted
  <2>2. QED
    BY <1>1, <1>4, <2>1, PreviewKeeps
<1>5. QED
  BY <1>3, <1>4 DEF onFormatSelected

LEMMA TypeFormatKeeps ==
  ASSUME IInv, TypeFormat
  PROVE  IInv'
<1>1. May /\ Lives /\ UNCHANGED <<table, popup, stored, chosen, sent, panes>>
  BY DEF TypeFormat, User
<1>2. /\ Good(publish) /\ Good(preview) /\ preview.locked
      /\ publish.mCurrentFormat = "Binary" => publish.locked
  BY DEF IInv, EditorsOK
<1>3. CASE publish' = [publish EXCEPT !.format = "?"] /\ UNCHANGED preview
  <2>1. Good(publish') /\ (publish'.mCurrentFormat = "Binary" => publish'.locked)
    BY <1>2, <1>3, FormatTyped
  <2>2. QED
    BY <1>1, <1>3, <2>1, PublishKeeps
<1>4. CASE preview' = [preview EXCEPT !.format = "?"] /\ UNCHANGED publish
  <2>1. /\ Good(preview') /\ preview'.locked
        /\ preview'.head = preview.head /\ preview'.meant = preview.meant
    BY <1>2, <1>4, FormatTyped
  <2>2. QED
    BY <1>1, <1>4, <2>1, PreviewKeeps
<1>5. QED
  BY <1>3, <1>4 DEF TypeFormat

LEMMA EditorStepKeeps ==
  ASSUME IInv, EditorStep
  PROVE  IInv'
<1>1. ASSUME onPublishClicked PROVE IInv'
  <2>1. sent' \in Message
    BY <1>1, HeldPayload DEF onPublishClicked, IInv, EditorsOK
  <2>2. QED
    BY <1>1, <2>1, SentKeeps DEF onPublishClicked, User
<1>2. QED
  BY <1>1, TypeTextKeeps, EditHeadKeeps, onFormatSelectedKeeps, TypeFormatKeeps
     DEF EditorStep

\* Only the panes change, each into one whose toggle tells of it.
LEMMA PaneStepKeeps ==
  ASSUME IInv, PaneStep
  PROVE  IInv'
<1> DEFINE Pane == [managed : BOOLEAN, shown : BOOLEAN, remembered : BOOLEAN, grey : BOOLEAN]
           Tells(q) == q \in Pane /\ q.grey = ~(q.managed /\ q.shown)
                       /\ (q.managed \/ q.remembered)
<1>1. panes = [p \in Panes |-> panes[p]] /\ \A p \in Panes : Tells(panes[p])
  BY DEF IInv, PanesOK, PutAwayVisible, TogglesTellPanes
<1>2. /\ May /\ Lives
      /\ UNCHANGED <<table, popup, stored, chosen, publish, preview, sent>>
  BY DEF PaneStep, TogglePane, onLayoutSelected, User
<1>3. ASSUME NEW q \in Pane, Tells(q) PROVE Tells(Toggled(q))
  <2>1. CASE ~q.managed
    <3>1. Toggled(q) = [q EXCEPT !.managed = TRUE, !.shown = q.remembered, !.grey = FALSE]
      BY <2>1 DEF Toggled
    <3>2. QED
      BY <1>3, <2>1, <3>1
  <2>2. CASE q.managed /\ q.shown
    BY <2>2 DEF Toggled
  <2>3. CASE q.managed /\ ~q.shown
    BY <2>3 DEF Toggled
  <2>4. QED
    BY <2>1, <2>2, <2>3
<1>4. ASSUME NEW q \in Pane, Tells(q), NEW b \in BOOLEAN PROVE Tells(Arranged(q, b))
  BY <1>4 DEF Arranged
<1>5. panes' \in [Panes -> Pane] /\ \A p \in Panes : Tells(panes'[p])
  <2>1. ASSUME NEW p \in Panes, TogglePane(p)
        PROVE  panes' \in [Panes -> Pane] /\ \A q \in Panes : Tells(panes'[q])
    <3>1. panes' = [panes EXCEPT ![p] = Toggled(panes[p])]
      BY <2>1 DEF TogglePane
    <3> HIDE DEF Pane, Tells
    <3>2. \A q \in Panes : panes'[q] = IF q = p THEN Toggled(panes[p]) ELSE panes[q]
      BY <1>1, <3>1
    <3>3. \A q \in Panes : Tells(panes'[q])
      BY <1>1, <1>3, <2>1, <3>2 DEF Tells
    <3>4. panes' = [q \in Panes |-> panes'[q]]
      BY <1>1, <3>1
    <3>5. QED
      BY <3>3, <3>4 DEF Tells
  <2>2. ASSUME NEW visible \in SUBSET Panes, onLayoutSelected(visible)
        PROVE  panes' \in [Panes -> Pane] /\ \A q \in Panes : Tells(panes'[q])
    <3>1. panes' = [q \in Panes |-> Arranged(panes[q], q \in visible)]
      BY <2>2 DEF onLayoutSelected
    <3> HIDE DEF Pane, Tells
    <3>2. \A q \in Panes : (q \in visible) \in BOOLEAN
      OBVIOUS
    <3>3. \A q \in Panes : Tells(panes'[q])
      BY <1>1, <1>4, <3>1, <3>2 DEF Tells
    <3>4. QED
      BY <3>1, <3>3 DEF Tells
  <2>3. QED
    BY <2>1, <2>2 DEF PaneStep
<1>6. PanesOK'
  BY <1>5 DEF PanesOK, PutAwayVisible, TogglesTellPanes
<1>7. StoredOK' /\ Good(publish') /\ (publish'.mCurrentFormat = "Binary" => publish'.locked)
  BY <1>2 DEF IInv, StoredOK, EditorsOK
<1>8. QED
  BY <1>2, <1>6, <1>7, AsideKeeps

-------------------------------------------------------------------------------
(* The invariant, and what follows *)

LEMMA Start ==
  ASSUME Init
  PROVE  IInv
<1>1. /\ mMessages \in Seq(Message) /\ mRemap \in Seq(1..Len(mMessages))
      /\ lines \in Seq(Message)
  <2>1. \A h \in Heads, p \in Inbox : [head |-> h, payload |-> p] \in Message
    BY ClientTabAssumption DEF Message
  <2>3. mMessages \in Seq(Message)
    <3>1. CASE live
      BY <3>1 DEF Init
    <3>2. CASE ~live
      <4>1. PICK h \in Heads, p \in Inbox, q \in Inbox :
              mMessages = <<[head |-> h, payload |-> p], [head |-> h, payload |-> q]>>
        BY <3>2 DEF Init
      <4> DEFINE a == [head |-> h, payload |-> p]
                 b == [head |-> h, payload |-> q]
      <4>2. a \in Message /\ b \in Message
        BY <2>1
      <4>3. mMessages = <<a, b>>
        BY <4>1
      <4> HIDE DEF a, b
      <4>4. QED
        BY <4>2, <4>3
    <3>3. QED
      BY <3>1, <3>2
  <2>4. mRemap \in Seq(1..Len(mMessages))
    <3>1. mRemap = [i \in 1..Len(mMessages) |-> i] /\ Len(mMessages) \in Nat
      BY <2>3 DEF Init
    <3>2. QED
      BY <3>1
  <2>5. QED
    BY <2>3, <2>4, LinesAre DEF lines
<1>2. TableOK
  <2>1. Len(lines) \in Nat
    BY <1>1
  <2>2. 0 \in 0..Len(lines)
    BY <2>1
  <2>3. /\ selected = 0 /\ following = TRUE /\ menu = NoMenu
        /\ remapped = FALSE /\ misplaced = FALSE
    BY DEF Init
  <2> HIDE DEF Init
  <2>4. QED
    BY <1>1, <2>2, <2>3 DEF TableOK
<1>3. StoredOK
  <2>1. Empty \in Message
    BY DEF Empty, Message, Payloads
  <2>2. stored = <<>> /\ chosen = 0 /\ sent = Empty
    BY DEF Init
  <2>3. QED
    BY <2>1, <2>2 DEF StoredOK
<1>4. PanesOK
  BY DEF Init, PanesOK, PutAwayVisible, TogglesTellPanes
<1>5. RestOK
  BY ClientTabAssumption DEF Init, RestOK
<1>6. EditorsOK
  BY DEF Init, EditorsOK, Good, NewEditor, Editor, Payloads, Formats, getPayload, SamePayload
<1>7. MenuInv /\ PreviewIsOfSelection /\ SurvivesTheRest
  BY DEF Init, MenuInv, PreviewIsOfSelection, SurvivesTheRest
<1>8. QED
  BY <1>2, <1>3, <1>4, <1>5, <1>6, <1>7 DEF IInv

LEMMA StepKeeps ==
  ASSUME IInv, [Next]_vars
  PROVE  IInv'
<1>1. CASE Next
  BY <1>1, HistoryStepKeeps, MenuStepKeeps, StoredStepKeeps, EditorStepKeeps,
     PaneStepKeeps DEF Next
<1>2. CASE UNCHANGED vars
  <2>1. UNCHANGED <<live, alive, mMessages, mRemap, lines, selected, following, misplaced,
                    menu, remapped, stored, chosen, publish, preview, sent, panes, steps>>
    BY <1>2, LinesStay DEF vars, table, popup, lineVars
  <2>2. TableOK' /\ StoredOK' /\ PanesOK' /\ RestOK' /\ EditorsOK'
    BY <2>1 DEF IInv, TableOK, StoredOK, PanesOK, PutAwayVisible, TogglesTellPanes,
                RestOK, EditorsOK
  <2>3. MenuInv' /\ PreviewIsOfSelection' /\ SurvivesTheRest'
    BY <2>1 DEF IInv, MenuInv, PreviewIsOfSelection, SurvivesTheRest, Unknown
  <2>4. QED
    BY <2>2, <2>3 DEF IInv
<1>3. QED
  BY <1>1, <1>2

\* The invariant holds in every session.
THEOREM Invariance == Spec => []IInv
BY Start, StepKeeps, PTL DEF Spec

\* Whatever is put into an editor is what is published or stored from it, through
\* any formats it is shown in (with the types of all variables).
THEOREM Editors == Spec => []EditorKeepsPayload
<1>1. IInv => EditorKeepsPayload
  BY DEF IInv, EditorKeepsPayload, TypeOK, TableOK, StoredOK, PanesOK, RestOK,
     EditorsOK, Good
<1>2. QED
  BY <1>1, Invariance, PTL

\* The preview is of the selected message until another comes to its place.
THEOREM Preview == Spec => []PreviewIsOfSelection
<1>1. IInv => PreviewIsOfSelection
  BY DEF IInv
<1>2. QED
  BY <1>1, Invariance, PTL

\* The commands of the menu find the line it was opened on.
THEOREM Menu == Spec => []MenuActsOnItsLine
<1>1. IInv => MenuActsOnItsLine
  BY DEF IInv, MenuInv, MenuActsOnItsLine
<1>2. QED
  BY <1>1, Invariance, PTL

\* The only ends of the program are the four that are known.
THEOREM Ends == Spec => []SurvivesTheRest
<1>1. IInv => SurvivesTheRest
  BY DEF IInv
<1>2. QED
  BY <1>1, Invariance, PTL

\* A toggle tells whether its pane is to be seen.
THEOREM Toggles == Spec => []TogglesTellPanes
<1>1. IInv => TogglesTellPanes
  BY DEF IInv, PanesOK
<1>2. QED
  BY <1>1, Invariance, PTL
===============================================================================
