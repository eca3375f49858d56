----------------------------- MODULE WindowProofs -----------------------------
(***************************************************************************)
(* What holds of Window for all profiles and any number of pages and       *)
(* requests: the three properties its run checks, by one inductive         *)
(* invariant.                                                              *)
(***************************************************************************)
EXTENDS Window, FiniteSetTheorems, SequenceTheorems, TLAPS

-------------------------------------------------------------------------------
(* The parts of the invariant *)

Work == {"home", "client", "recording"}

\* A notebook whose pages have ids up to n: in front the settings, or a recording
\* in their place, the page with the plus sign at the end.
Book(ps, n) ==
  /\ ps \in Seq(Pages) /\ Len(ps) > 1
  /\ ps[1].kind \in {"settings", "recording"} /\ ps[Len(ps)].kind = "plus"
  /\ \A j \in 2..(Len(ps) - 1) : ps[j].kind \in Work
  /\ \A j \in 1..Len(ps) : ps[j].id <= n /\ (ps[j].kind = "client" => ps[j].id > 0)
  /\ \A i, j \in 1..Len(ps) : ps[i].id = ps[j].id => i = j

\* The page that is up lists what there is.
Told(ps, sel, its) ==
  KindAt(ps, sel) = "home" => /\ ps[sel + 1].seen \subseteq its
                              /\ ps[sel + 1].item \in its \cup {None}

BookInv ==
  /\ Book(pages, made) /\ Len(pages) > 2 /\ mCount = Len(pages)
  /\ selected \in 0..(Len(pages) - 2) /\ made \in 0..MaxMade
  /\ pages[1].kind # "settings" => hasty
RestInv ==
  /\ items \subseteq Items /\ requests \in Seq(Requests) /\ hidden \subseteq 1..MaxMade
  /\ fatal \in Items \cup {Quick, None} /\ hasty \in BOOLEAN /\ skipped \in BOOLEAN
ListInv == ~skipped => Told(pages, selected, items)

\* A request that nobody has overtaken is the only one; the page that asked for
\* it is up, and it is about something that is there.
Fresh(r) ==
  /\ r.type = "recording" => Home
  /\ r.type = "connect" /\ selected # 0 => Home
  /\ r.type = "connect" => r.item \in items \cup {None, Quick} \/ skipped
RequestInv ==
  requests # <<>> /\ ~hasty => Len(requests) = 1 /\ Fresh(requests[1])

IInv == BookInv /\ RestInv /\ ListInv /\ RequestInv /\ OnlyStaleIsFatal

-------------------------------------------------------------------------------
(* The notebook *)

\* Pages are the same but for what a homepage lists.
Alike(ps, qs) ==
  /\ Len(ps) = Len(qs)
  /\ \A j \in 1..Len(qs) : ps[j].kind = qs[j].kind /\ ps[j].id = qs[j].id

LEMMA Choice ==
  ASSUME NEW its \in SUBSET Items
  PROVE  (IF its = {} THEN None ELSE CHOOSE i \in its : TRUE) \in its \cup {None}
OBVIOUS

\* A homepage that comes up lists what there is.
LEMMA FocusIs ==
  ASSUME items \subseteq Items, NEW ps \in Seq(Pages), NEW k \in 0..(Len(ps) - 1)
  PROVE  LET f == Focus(ps, k) IN
         f \in Seq(Pages) /\ Alike(f, ps) /\ Told(f, k, items)
<1> DEFINE i0 == IF items = {} THEN None ELSE CHOOSE i \in items : TRUE
           f == Focus(ps, k)
           p == ps[k + 1]
<1>1. i0 \in items \cup {None} /\ items \subseteq Items
  BY Choice
<1>2. CASE KindAt(ps, k) # "home"
  BY <1>2 DEF Focus, Alike, Told
<1>3. CASE KindAt(ps, k) = "home"
  <2> DEFINE q == [p EXCEPT !.seen = items, !.item = i0, !.enabled = @ \/ items # {}]
  <2>1. f = [ps EXCEPT ![k + 1] = q]
    BY <1>3 DEF Focus
  <2>2. k + 1 \in 1..Len(ps) /\ p \in Pages
    OBVIOUS
  <2> HIDE DEF i0, p
  <2>3. q \in Pages /\ q.kind = p.kind /\ q.id = p.id /\ q.seen = items /\ q.item = i0
    BY <1>1, <2>2 DEF Pages
  <2> HIDE DEF q, f
  <2>4. f \in Seq(Pages) /\ Len(f) = Len(ps) /\ f[k + 1] = q
        /\ \A j \in 1..Len(ps) : j # k + 1 => f[j] = ps[j]
    BY <2>1, <2>2, <2>3
  <2>5. Alike(f, ps)
    BY <2>3, <2>4 DEF Alike, p
  <2>6. Told(f, k, items)
    BY <1>1, <2>3, <2>4 DEF Told, i0
  <2>7. QED
    BY <2>4, <2>5, <2>6 DEF f
<1>4. QED
  BY <1>2, <1>3

LEMMA InsertIs ==
  ASSUME NEW ps \in Seq(Pages), NEW k \in 0..Len(ps), NEW page \in Pages
  PROVE  LET q == InsertPage(ps, k, page) IN
         /\ q \in Seq(Pages) /\ Len(q) = Len(ps) + 1
         /\ \A j \in 1..(Len(ps) + 1) :
              q[j] = IF j <= k THEN ps[j] ELSE IF j = k + 1 THEN page ELSE ps[j - 1]
<1> DEFINE a == SubSeq(ps, 1, k)
           b == SubSeq(ps, k + 1, Len(ps))
<1>1. /\ a \in Seq(Pages) /\ Len(a) = k /\ \A j \in 1..k : a[j] = ps[j]
  OBVIOUS
<1>2. /\ b \in Seq(Pages) /\ Len(b) = Len(ps) - k
      /\ \A j \in 1..(Len(ps) - k) : b[j] = ps[k + j]
  OBVIOUS
<1>3. InsertPage(ps, k, page) = a \o <<page>> \o b
  <2>1. (k + 1) - 1 = k
    OBVIOUS
  <2>2. QED
    BY <2>1 DEF InsertPage, InsertAt
<1> HIDE DEF a, b
<1> DEFINE q == a \o <<page>> \o b
<1>4. /\ q \in Seq(Pages) /\ Len(q) = k + 1 + Len(b)
      /\ \A j \in 1..(k + 1 + Len(b)) :
           q[j] = IF j <= k THEN a[j] ELSE IF j = k + 1 THEN page ELSE b[j - (k + 1)]
  <2>1. Len(a \o <<page>>) = k + 1 /\ a \o <<page>> \in Seq(Pages)
        /\ \A j \in 1..(k + 1) : (a \o <<page>>)[j] = IF j <= k THEN a[j] ELSE page
    BY <1>1
  <2> DEFINE c == a \o <<page>>
  <2> HIDE DEF c
  <2>2. Len(c) = k + 1 /\ c \in Seq(Pages)
        /\ \A j \in 1..(k + 1) : c[j] = IF j <= k THEN a[j] ELSE page
    BY <2>1 DEF c
  <2>3. /\ c \o b \in Seq(Pages) /\ Len(c \o b) = Len(c) + Len(b)
        /\ \A j \in 1..(Len(c) + Len(b)) :
             (c \o b)[j] = IF j <= Len(c) THEN c[j] ELSE b[j - Len(c)]
    BY <2>2, <1>2, ConcatProperties
  <2>4. q = c \o b
    BY DEF c
  <2> HIDE DEF q
  <2>5. q \in Seq(Pages) /\ Len(q) = k + 1 + Len(b)
    BY <2>2, <2>3, <2>4
  <2>6. ASSUME NEW j \in 1..(k + 1 + Len(b))
        PROVE  q[j] = IF j <= k THEN a[j] ELSE IF j = k + 1 THEN page ELSE b[j - (k + 1)]
    <3>1. q[j] = IF j <= k + 1 THEN c[j] ELSE b[j - (k + 1)]
      BY <2>2, <2>3, <2>4
    <3>2. j <= k + 1 => c[j] = IF j <= k THEN a[j] ELSE page
      BY <2>2
    <3>3. QED
      BY <3>1, <3>2
  <2>7. QED
    BY <2>5, <2>6
<1> HIDE DEF q
<1>5. ASSUME NEW j \in 1..(Len(ps) + 1)
      PROVE  q[j] = IF j <= k THEN ps[j] ELSE IF j = k + 1 THEN page ELSE ps[j - 1]
  <2>1. CASE j <= k + 1
    <3>1. j \in 1..(k + 1 + Len(b))
      BY <1>2
    <3>2. q[j] = IF j <= k THEN a[j] ELSE page
      BY <1>4, <2>1, <3>1
    <3>3. j <= k => a[j] = ps[j]
      BY <1>1
    <3>4. QED
      BY <2>1, <3>2, <3>3
  <2>2. CASE j > k + 1
    <3>1. j - (k + 1) \in 1..(Len(ps) - k) /\ k + (j - (k + 1)) = j - 1
      BY <2>2
    <3>2. q[j] = b[j - (k + 1)]
      BY <1>2, <1>4, <2>2
    <3>3. b[j - (k + 1)] = ps[k + (j - (k + 1))]
      BY <1>2, <3>1
    <3>4. QED
      BY <2>2, <3>1, <3>2, <3>3
  <2>3. QED
    BY <2>1, <2>2
<1>6. Len(q) = Len(ps) + 1
  BY <1>2, <1>4
<1>7. QED
  BY <1>3, <1>4, <1>5, <1>6 DEF q

LEMMA RemoveIs ==
  ASSUME NEW ps \in Seq(Pages), NEW k \in 0..(Len(ps) - 1)
  PROVE  LET q == RemoveAt(ps, k + 1) IN
         /\ q \in Seq(Pages) /\ Len(q) = Len(ps) - 1
         /\ \A j \in 1..(Len(ps) - 1) : q[j] = IF j <= k THEN ps[j] ELSE ps[j + 1]
<1> DEFINE a == SubSeq(ps, 1, k)
           b == SubSeq(ps, k + 2, Len(ps))
<1>1. /\ a \in Seq(Pages) /\ Len(a) = k /\ \A j \in 1..k : a[j] = ps[j]
  OBVIOUS
<1>2. /\ b \in Seq(Pages) /\ Len(b) = Len(ps) - k - 1
      /\ \A j \in 1..(Len(ps) - k - 1) : b[j] = ps[k + 1 + j]
  OBVIOUS
<1>3. RemoveAt(ps, k + 1) = a \o b
  <2>1. (k + 1) - 1 = k /\ (k + 1) + 1 = k + 2
    OBVIOUS
  <2>2. QED
    BY <2>1 DEF RemoveAt
<1> HIDE DEF a, b
<1> DEFINE q == a \o b
<1>4. /\ q \in Seq(Pages) /\ Len(q) = Len(a) + Len(b)
      /\ \A j \in 1..(Len(a) + Len(b)) : q[j] = IF j <= Len(a) THEN a[j] ELSE b[j - Len(a)]
  BY <1>1, <1>2, ConcatProperties
<1> HIDE DEF q
<1>5. ASSUME NEW j \in 1..(Len(ps) - 1)
      PROVE  q[j] = IF j <= k THEN ps[j] ELSE ps[j + 1]
  <2>0. j \in 1..(Len(a) + Len(b)) /\ Len(a) = k
    BY <1>1, <1>2
  <2>1. CASE j <= k
    <3>1. q[j] = a[j]
      BY <1>4, <2>0, <2>1
    <3>2. a[j] = ps[j]
      BY <1>1, <2>1
    <3>3. QED
      BY <2>1, <3>1, <3>2
  <2>2. CASE j > k
    <3>1. j - k \in 1..(Len(ps) - k - 1) /\ k + 1 + (j - k) = j + 1
      BY <2>2
    <3>2. q[j] = b[j - k]
      BY <1>4, <2>0, <2>2
    <3>3. b[j - k] = ps[k + 1 + (j - k)]
      BY <1>2, <3>1
    <3>4. QED
      BY <2>2, <3>1, <3>2, <3>3
  <2>3. QED
    BY <2>1, <2>2
<1>6. Len(q) = Len(ps) - 1
  BY <1>1, <1>2, <1>4
<1>7. QED
  BY <1>3, <1>4, <1>5, <1>6 DEF q

\* Ids and kinds make a book.
LEMMA AlikeBook ==
  ASSUME NEW n \in Nat, NEW ps, Book(ps, n), NEW qs \in Seq(Pages), Alike(qs, ps)
  PROVE  Book(qs, n) /\ Len(qs) = Len(ps) /\ qs[1].kind = ps[1].kind
BY DEF Book, Alike

LEMMA BookIs ==
  ASSUME NEW n \in Nat, NEW ps, Book(ps, n)
  PROVE  /\ ps \in Seq(Pages) /\ Len(ps) \in Nat /\ Len(ps) > 1
         /\ \A j \in 1..Len(ps) : ps[j] \in Pages /\ ps[j].id \in Nat /\ ps[j].id <= n
              /\ (ps[j].kind = "client" => ps[j].id > 0)
         /\ \A i, j \in 1..Len(ps) : ps[i].id = ps[j].id => i = j
         /\ \A j \in 2..(Len(ps) - 1) : ps[j].kind \in Work
<1>1. ps \in Seq(Pages) /\ Len(ps) \in Nat /\ Len(ps) > 1
  BY DEF Book
<1>2. \A j \in 1..Len(ps) : ps[j] \in Pages
  BY <1>1
<1>3. \A p \in Pages : p.id \in Nat
  BY DEF Pages
<1>4. QED
  BY <1>1, <1>2, <1>3 DEF Book

LEMMA RemovedBook ==
  ASSUME NEW n \in Nat, NEW ps, Book(ps, n), Len(ps) > 2, NEW k \in 1..(Len(ps) - 2)
  PROVE  LET q == RemoveAt(ps, k + 1) IN
         Book(q, n) /\ Len(q) = Len(ps) - 1 /\ q[1] = ps[1]
<1> DEFINE q == RemoveAt(ps, k + 1)
           At(x) == IF x <= k THEN x ELSE x + 1
<1>1. ps \in Seq(Pages) /\ Len(ps) \in Nat /\ k \in 0..(Len(ps) - 1)
  BY BookIs
<1>2. /\ q \in Seq(Pages) /\ Len(q) = Len(ps) - 1
      /\ \A j \in 1..(Len(ps) - 1) : q[j] = IF j <= k THEN ps[j] ELSE ps[j + 1]
  BY <1>1, RemoveIs
<1> HIDE DEF q
<1>3. /\ \A x \in 1..Len(q) : At(x) \in 1..Len(ps) /\ q[x] = ps[At(x)]
      /\ \A x \in 2..(Len(q) - 1) : At(x) \in 2..(Len(ps) - 1)
      /\ \A x, y \in 1..Len(q) : At(x) = At(y) => x = y
      /\ At(1) = 1 /\ At(Len(q)) = Len(ps) /\ 1 \in 1..Len(q) /\ Len(q) \in 1..Len(q)
      /\ 2..(Len(q) - 1) \subseteq 1..Len(q) /\ Len(q) > 1
  BY <1>1, <1>2
<1> HIDE DEF At
<1>4. \A j \in 2..(Len(q) - 1) : q[j].kind \in Work
  BY <1>3, BookIs
<1>5. \A j \in 1..Len(q) : q[j].id <= n /\ (q[j].kind = "client" => q[j].id > 0)
  BY <1>3, BookIs
<1>6. ASSUME NEW i \in 1..Len(q), NEW j \in 1..Len(q), q[i].id = q[j].id PROVE i = j
  <2>1. ps[At(i)].id = ps[At(j)].id /\ At(i) \in 1..Len(ps) /\ At(j) \in 1..Len(ps)
    BY <1>3, <1>6
  <2>2. At(i) = At(j)
    BY <2>1, BookIs
  <2>3. QED
    BY <1>3, <2>2
<1>7. q[1] = ps[1] /\ q[Len(q)] = ps[Len(ps)]
  BY <1>3
<1>8. Book(q, n)
  BY <1>2, <1>3, <1>4, <1>5, <1>6, <1>7 DEF Book
<1>9. QED
  BY <1>2, <1>7, <1>8 DEF q

LEMMA InsertedBook ==
  ASSUME NEW n \in Nat, NEW ps, Book(ps, n), NEW k \in 1..(Len(ps) - 1),
         NEW page \in Pages, page.kind \in Work, page.id = n + 1
  PROVE  LET q == InsertPage(ps, k, page) IN
         /\ Book(q, n + 1) /\ Len(q) = Len(ps) + 1 /\ q[1] = ps[1] /\ q[k + 1] = page
         /\ \A j \in 1..(Len(ps) + 1) :
              q[j] = IF j <= k THEN ps[j] ELSE IF j = k + 1 THEN page ELSE ps[j - 1]
<1> DEFINE q == InsertPage(ps, k, page)
           At(x) == IF x <= k THEN x ELSE x - 1
<1>1. ps \in Seq(Pages) /\ Len(ps) \in Nat /\ k \in 0..Len(ps)
  <2>1. ps \in Seq(Pages) /\ Len(ps) \in Nat
    BY BookIs
  <2>2. QED
    BY <2>1
<1>2. /\ q \in Seq(Pages) /\ Len(q) = Len(ps) + 1
      /\ \A j \in 1..(Len(ps) + 1) :
           q[j] = IF j <= k THEN ps[j] ELSE IF j = k + 1 THEN page ELSE ps[j - 1]
  BY <1>1, InsertIs
<1> HIDE DEF q
<1>3. /\ \A x \in 1..Len(q) : x # k + 1 => At(x) \in 1..Len(ps) /\ q[x] = ps[At(x)]
      /\ \A x \in 2..(Len(q) - 1) : x # k + 1 => At(x) \in 2..(Len(ps) - 1)
      /\ \A x, y \in 1..Len(q) : x # k + 1 /\ y # k + 1 /\ At(x) = At(y) => x = y
      /\ At(1) = 1 /\ At(Len(q)) = Len(ps) /\ 1 \in 1..Len(q) /\ Len(q) \in 1..Len(q)
      /\ 1 # k + 1 /\ Len(q) # k + 1
      /\ 2..(Len(q) - 1) \subseteq 1..Len(q) /\ Len(q) > 1 /\ q[k + 1] = page
  BY <1>1, <1>2
<1> HIDE DEF At
<1>4. \A j \in 2..(Len(q) - 1) : q[j].kind \in Work
  BY <1>3, BookIs
<1>5. \A j \in 1..Len(q) : j # k + 1 => q[j].id \in Nat /\ q[j].id <= n
        /\ (q[j].kind = "client" => q[j].id > 0)
  BY <1>3, BookIs
<1>6. ASSUME NEW j \in 1..Len(q)
      PROVE  q[j].id <= n + 1 /\ (q[j].kind = "client" => q[j].id > 0)
  <2>1. CASE j = k + 1
    BY <1>3, <2>1
  <2>2. CASE j # k + 1
    BY <1>5, <2>2
  <2>3. QED
    BY <2>1, <2>2
<1>7. ASSUME NEW i \in 1..Len(q), NEW j \in 1..Len(q), q[i].id = q[j].id,
             i # k + 1, j # k + 1
      PROVE  i = j
  <2>1. ps[At(i)].id = ps[At(j)].id /\ At(i) \in 1..Len(ps) /\ At(j) \in 1..Len(ps)
    BY <1>3, <1>7
  <2>2. At(i) = At(j)
    BY <2>1, BookIs
  <2>3. QED
    BY <1>3, <1>7, <2>2
<1>8. ASSUME NEW i \in 1..Len(q), NEW j \in 1..Len(q), q[i].id = q[j].id PROVE i = j
  <2>1. \A x \in 1..Len(q) : x # k + 1 => q[x].id # n + 1
    BY <1>5
  <2>2. q[k + 1].id = n + 1
    BY <1>3
  <2>3. QED
    BY <1>7, <1>8, <2>1, <2>2
<1>9. q[1] = ps[1] /\ q[Len(q)] = ps[Len(ps)]
  BY <1>3
<1>10. Book(q, n + 1)
  BY <1>2, <1>3, <1>4, <1>6, <1>8, <1>9 DEF Book
<1>11. QED
  BY <1>2, <1>3, <1>9, <1>10 DEF q

\* A page is removed, and the page that comes up is told.
LEMMA RemovePageIs ==
  ASSUME IInv, NEW n \in Nat, NEW ps, Book(ps, n), Len(ps) > 2,
         NEW k \in 1..(Len(ps) - 2), NEW sel \in 0..(Len(ps) - 2)
  PROVE  LET q == RemovePage(ps, k, sel) IN
         /\ Book(q, n) /\ Len(q) = Len(ps) - 1 /\ q[1].kind = ps[1].kind
         /\ Told(q, After(k, sel), items)
<1> DEFINE rest == RemoveAt(ps, k + 1)
           up == After(k, sel)
<1>1. Book(rest, n) /\ Len(rest) = Len(ps) - 1 /\ rest[1] = ps[1]
  BY RemovedBook
<1>2. RemovePage(ps, k, sel) = Focus(rest, up)
  BY DEF RemovePage, After
<1>3. up \in 0..(Len(rest) - 1)
  <2>1. Len(ps) \in Nat
    BY DEF Book
  <2>2. QED
    BY <1>1, <2>1 DEF After
<1> HIDE DEF rest, up
<1>4. rest \in Seq(Pages)
  BY <1>1 DEF Book
<1>5. /\ Focus(rest, up) \in Seq(Pages) /\ Alike(Focus(rest, up), rest)
      /\ Told(Focus(rest, up), up, items)
  BY <1>3, <1>4, FocusIs DEF IInv, RestInv
<1>6. QED
  BY <1>1, <1>2, <1>5, AlikeBook DEF up

\* A homepage is made, and comes up.
LEMMA HomepageIs ==
  ASSUME IInv, NEW ps, Book(ps, made), made < MaxMade, NEW k \in 1..(Len(ps) - 1)
  PROVE  LET q == Focus(InsertPage(ps, k, Page("home", made + 1)), k) IN
         /\ Book(q, made + 1) /\ Len(q) = Len(ps) + 1 /\ q[1].kind = ps[1].kind
         /\ Told(q, k, items) /\ made + 1 \in 0..MaxMade
<1> DEFINE page == Page("home", made + 1)
           q == InsertPage(ps, k, page)
<1>1. made \in Nat /\ made + 1 \in 0..MaxMade
  BY WindowAssumption DEF IInv, BookInv
<1>2. page \in Pages /\ page.kind \in Work /\ page.id = made + 1
  BY <1>1 DEF Page, Pages, Kinds, Work
<1> HIDE DEF page
<1>3. Book(q, made + 1) /\ Len(q) = Len(ps) + 1 /\ q[1] = ps[1]
  BY <1>1, <1>2, InsertedBook
<1> HIDE DEF q
<1>4. q \in Seq(Pages) /\ k \in 0..(Len(q) - 1) /\ Len(ps) \in Nat
  BY <1>3 DEF Book
<1>5. Focus(q, k) \in Seq(Pages) /\ Alike(Focus(q, k), q) /\ Told(Focus(q, k), k, items)
  BY <1>4, FocusIs DEF IInv, RestInv
<1>6. Book(Focus(q, k), made + 1) /\ Len(Focus(q, k)) = Len(q) /\ Focus(q, k)[1].kind = q[1].kind
  BY <1>1, <1>3, <1>5, AlikeBook
<1>7. QED
  BY <1>1, <1>3, <1>5, <1>6 DEF q, page

\* A page takes the place of the one that is up; nothing else goes.
LEMMA ReplaceIs ==
  ASSUME IInv, NEW page \in Pages, page.id = made + 1,
         page.kind = "recording" \/ (page.kind = "client" /\ selected # 0)
  PROVE  LET q == InsertPage(RemovePage(pages, selected, selected), selected, page) IN
         /\ Book(q, made + 1) /\ Len(q) = Len(pages) /\ q[selected + 1] = page
         /\ \A j \in 1..Len(pages) : j # selected + 1 =>
              q[j].kind = pages[j].kind /\ q[j].id = pages[j].id
<1> DEFINE rest == RemoveAt(pages, selected + 1)
           told == Focus(rest, selected)
           q == InsertPage(told, selected, page)
<1>1. /\ pages \in Seq(Pages) /\ Len(pages) \in Nat /\ selected \in 0..(Len(pages) - 2)
      /\ Book(pages, made) /\ made \in Nat
  BY DEF IInv, BookInv, Book
<1>2. /\ rest \in Seq(Pages) /\ Len(rest) = Len(pages) - 1
      /\ \A j \in 1..(Len(pages) - 1) :
           rest[j] = IF j <= selected THEN pages[j] ELSE pages[j + 1]
  <2>1. selected \in 0..(Len(pages) - 1)
    BY <1>1
  <2>2. QED
    BY <1>1, <2>1, RemoveIs
<1>3. RemovePage(pages, selected, selected) = told
  BY <1>1 DEF RemovePage
<1> HIDE DEF rest, told
<1>4. told \in Seq(Pages) /\ Alike(told, rest)
  <2>1. items \subseteq Items /\ selected \in 0..(Len(rest) - 1)
    BY <1>1, <1>2 DEF IInv, RestInv
  <2>2. QED
    BY <1>2, <2>1, FocusIs DEF told
<1>5. /\ q \in Seq(Pages) /\ Len(q) = Len(told) + 1
      /\ \A j \in 1..(Len(told) + 1) :
           q[j] = IF j <= selected THEN told[j] ELSE IF j = selected + 1 THEN page ELSE told[j - 1]
  <2>1. selected \in 0..Len(told)
    BY <1>1, <1>2, <1>4 DEF Alike
  <2>2. QED
    BY <1>4, <2>1, InsertIs
<1> HIDE DEF q
<1>6. Len(told) = Len(pages) - 1 /\ Len(q) = Len(pages) /\ q[selected + 1] = page
  BY <1>1, <1>2, <1>4, <1>5 DEF Alike
<1>7. ASSUME NEW j \in 1..Len(pages), j # selected + 1
      PROVE  q[j].kind = pages[j].kind /\ q[j].id = pages[j].id
  <2>1. CASE j <= selected
    <3>1. q[j] = told[j] /\ rest[j] = pages[j] /\ j \in 1..Len(rest)
      BY <1>1, <1>2, <1>5, <1>6, <2>1
    <3>2. QED
      BY <1>4, <3>1 DEF Alike
  <2>2. CASE j > selected + 1
    <3>1. q[j] = told[j - 1] /\ rest[j - 1] = pages[j] /\ j - 1 \in 1..Len(rest)
      BY <1>1, <1>2, <1>5, <1>6, <2>2
    <3>2. QED
      BY <1>4, <3>1 DEF Alike
  <2>3. QED
    BY <1>1, <1>7, <2>1, <2>2
<1>8. \A j \in 1..Len(pages) : pages[j].id \in Nat /\ pages[j].id <= made
        /\ (pages[j].kind = "client" => pages[j].id > 0)
  BY <1>1, BookIs
<1>9. \A i, j \in 1..Len(q) : q[i].id = q[j].id => i = j
  <2> SUFFICES ASSUME NEW i \in 1..Len(q), NEW j \in 1..Len(q), q[i].id = q[j].id
               PROVE  i = j
    OBVIOUS
  <2>1. ASSUME NEW x \in 1..Len(pages), x # selected + 1 PROVE q[x].id # made + 1
    <3>1. q[x].id = pages[x].id
      BY <1>7, <2>1
    <3>2. pages[x].id \in Nat /\ pages[x].id <= made
      BY <1>8
    <3>3. QED
      BY <1>1, <3>1, <3>2
  <2>2. CASE i # selected + 1 /\ j # selected + 1
    BY <1>1, <1>6, <1>7, <2>2 DEF Book
  <2>3. CASE i = selected + 1 \/ j = selected + 1
    BY <1>6, <2>1, <2>3
  <2>4. QED
    BY <2>2, <2>3
<1>10. ASSUME NEW j \in 1..Len(q)
       PROVE  q[j].id <= made + 1 /\ (q[j].kind = "client" => q[j].id > 0)
  <2>1. CASE j = selected + 1
    BY <1>1, <1>6, <2>1
  <2>2. CASE j # selected + 1
    <3>1. j \in 1..Len(pages)
      BY <1>6
    <3>2. q[j].id = pages[j].id /\ q[j].kind = pages[j].kind
      BY <1>7, <2>2, <3>1
    <3>3. QED
      BY <1>1, <1>8, <3>1, <3>2
  <2>3. QED
    BY <2>1, <2>2
<1>11. \A j \in 2..(Len(q) - 1) : q[j].kind \in Work
  BY <1>1, <1>6, <1>7 DEF Book, Work
<1>12. q[1].kind \in {"settings", "recording"} /\ q[Len(q)].kind = "plus" /\ Len(q) > 1
  BY <1>1, <1>6, <1>7 DEF Book
<1>13. Book(q, made + 1)
  BY <1>5, <1>9, <1>10, <1>11, <1>12 DEF Book
<1>14. QED
  BY <1>3, <1>6, <1>7, <1>13 DEF q
-------------------------------------------------------------------------------
(* The steps *)

LEMMA UserKeeps ==
  ASSUME IInv, User, BookInv', RestInv', ListInv', UNCHANGED fatal,
         requests = <<>> => requests' = <<>>
  PROVE  IInv'
<1>1. hasty' = (hasty \/ requests # <<>>) /\ fatal' = None
  BY DEF User, alive
<1>2. RequestInv'
  BY <1>1 DEF RequestInv
<1>3. OnlyStaleIsFatal'
  BY <1>1 DEF OnlyStaleIsFatal
<1>4. QED
  BY <1>2, <1>3 DEF IInv

\* The window's handlers find one request at most, or a hasty user.
LEMMA HandleKeeps ==
  ASSUME IInv, NEW type, Handle(type), BookInv', RestInv', ListInv', OnlyStaleIsFatal'
  PROVE  IInv'
<1>1. requests \in Seq(Requests) /\ requests # <<>> /\ requests' = Tail(requests) /\ hasty' = hasty
  BY DEF Handle, IInv, RestInv
<1>2. ~hasty => Len(requests) = 1
  BY <1>1 DEF IInv, RequestInv
<1>3. ~hasty' => requests' = <<>>
  BY <1>1, <1>2
<1>4. RequestInv'
  BY <1>3 DEF RequestInv
<1>5. QED
  BY <1>4 DEF IInv

LEMMA Rest ==
  ASSUME IInv, User, UNCHANGED <<items, requests, hidden, fatal, skipped>>
  PROVE  RestInv'
BY DEF IInv, RestInv, User

\* What IInv says of the notebook, and of the request at hand.
LEMMA BookFacts ==
  ASSUME IInv
  PROVE  /\ Book(pages, made) /\ pages \in Seq(Pages) /\ Len(pages) \in Nat /\ Len(pages) > 2
         /\ mCount = Len(pages) /\ selected \in 0..(Len(pages) - 2) /\ Plus = Len(pages) - 1
         /\ made \in Nat /\ made <= MaxMade /\ MaxMade \in Nat
         /\ pages[1].kind # "settings" => hasty
         /\ items \subseteq Items
<1>1. BookInv /\ items \subseteq Items
  BY DEF IInv, RestInv
<1>2. pages \in Seq(Pages)
  BY <1>1 DEF BookInv, Book
<1>3. QED
  BY <1>1, <1>2, WindowAssumption DEF BookInv, Plus

LEMMA SelectedKeeps ==
  ASSUME IInv, NEW k \in 0..Plus, onPageSelected(k)
  PROVE  IInv'
<1>1. User /\ UNCHANGED <<items, requests, hidden, fatal, skipped>> /\ RestInv'
  BY Rest DEF onPageSelected
<1>2. hasty => hasty'
  BY <1>1 DEF User
<1>3. BookInv' /\ Told(pages', selected', items)
  <2>1. CASE k = Plus
    <3>1. MayMake /\ createHomepageTab(pages, Plus, mCount)
      BY <2>1 DEF onPageSelected
    <3> DEFINE q == Focus(InsertPage(pages, Plus, Page("home", made + 1)), Plus)
    <3>2. pages' = q /\ selected' = Plus /\ mCount' = mCount + 1 /\ made' = made + 1
      BY <3>1 DEF createHomepageTab, Made
    <3>3. made < MaxMade /\ Plus \in 1..(Len(pages) - 1)
      BY <3>1, BookFacts DEF MayMake
    <3>4. /\ Book(q, made + 1) /\ Len(q) = Len(pages) + 1 /\ q[1].kind = pages[1].kind
          /\ Told(q, Plus, items) /\ made + 1 \in 0..MaxMade
      BY <3>3, BookFacts, HomepageIs
    <3> HIDE DEF q
    <3>5. QED
      BY <1>2, <3>2, <3>4, BookFacts DEF BookInv
  <2>2. CASE k # Plus
    <3>1. pages' = Focus(pages, k) /\ selected' = k /\ mCount' = mCount /\ made' = made
      BY <2>2 DEF onPageSelected, Made
    <3>2. k \in 0..(Len(pages) - 1) /\ k \in 0..(Len(pages) - 2)
      BY <2>2, BookFacts
    <3>3. pages' \in Seq(Pages) /\ Alike(pages', pages) /\ Told(pages', k, items)
      BY <3>1, <3>2, BookFacts, FocusIs
    <3>4. Book(pages', made) /\ Len(pages') = Len(pages) /\ pages'[1].kind = pages[1].kind
      BY <3>3, BookFacts, AlikeBook
    <3>5. QED
      BY <1>2, <3>1, <3>2, <3>3, <3>4, BookFacts DEF BookInv
  <2>3. QED
    BY <2>1, <2>2
<1>4. ListInv'
  BY <1>1, <1>3 DEF ListInv
<1>5. QED
  BY <1>1, <1>3, <1>4, UserKeeps

LEMMA ControlTKeeps ==
  ASSUME IInv, onKeyDownControlT
  PROVE  IInv'
<1>1. User /\ UNCHANGED <<items, requests, hidden, fatal, skipped>> /\ RestInv'
  BY Rest DEF onKeyDownControlT
<1> DEFINE q == Focus(InsertPage(pages, Plus, Page("home", made + 1)), Plus)
<1>2. pages' = q /\ selected' = Plus /\ mCount' = mCount + 1 /\ made' = made + 1
  BY DEF onKeyDownControlT, createHomepageTab, Made
<1>3. made < MaxMade /\ Plus \in 1..(Len(pages) - 1)
  BY BookFacts DEF onKeyDownControlT, MayMake
<1>4. /\ Book(q, made + 1) /\ Len(q) = Len(pages) + 1 /\ q[1].kind = pages[1].kind
      /\ Told(q, Plus, items) /\ made + 1 \in 0..MaxMade
  BY <1>3, BookFacts, HomepageIs
<1> HIDE DEF q
<1>5. hasty => hasty'
  BY <1>1 DEF User
<1>6. BookInv'
  BY <1>2, <1>4, <1>5, BookFacts DEF BookInv
<1>7. ListInv'
  BY <1>1, <1>2, <1>4 DEF ListInv
<1>8. QED
  BY <1>1, <1>6, <1>7, UserKeeps

\* What is left of a list: no more than there was, and nothing but what was at
\* one of the positions.
LEMMA PickedIs ==
  ASSUME NEW T, NEW list \in Seq(T), NEW S \in SUBSET (1..Len(list)),
         NEW picked \in Picked(list, S)
  PROVE  /\ picked \in Seq(T) /\ Len(picked) \in 0..Len(list) /\ Len(picked) = Cardinality(S)
         /\ \A i \in 1..Len(picked) : \E k \in S : picked[i] = list[k]
<1> DEFINE m == Cardinality(S)
<1>1. Len(list) \in Nat /\ \A k \in S : list[k] \in T
  OBVIOUS
<1>2. IsFiniteSet(1..Len(list)) /\ Cardinality(1..Len(list)) = Len(list)
  <2>1. 1 \in Int /\ Len(list) \in Int
    BY <1>1
  <2>2. Cardinality(1..Len(list)) = IF 1 > Len(list) THEN 0 ELSE Len(list) - 1 + 1
    BY <2>1, FS_Interval
  <2>3. QED
    BY <1>1, <2>1, <2>2, FS_Interval
<1>3. m \in 0..Len(list)
  <2>1. IsFiniteSet(S) /\ m <= Len(list)
    BY <1>2, FS_Subset
  <2>2. m \in Nat
    BY <2>1, FS_CardinalityType
  <2>3. QED
    BY <1>1, <2>1, <2>2
<1>4. PICK order \in [1..m -> S] : picked = [i \in DOMAIN order |-> list[order[i]]]
  BY DEF Picked, InOrder
<1> HIDE DEF m
<1>5. picked \in [1..m -> T] /\ \A i \in 1..m : picked[i] = list[order[i]] /\ order[i] \in S
  BY <1>1, <1>4
<1>6. picked \in Seq(T) /\ Len(picked) = m
  BY <1>3, <1>5
<1>7. QED
  BY <1>3, <1>5, <1>6 DEF m

LEMMA ForgottenIs ==
  ASSUME requests \in Seq(Requests), NEW id, Forgotten(id)
  PROVE  requests' \in Seq(Requests) /\ (requests = <<>> => requests' = <<>>)
<1> DEFINE kept == {j \in 1..Len(requests) : requests[j].from # id}
<1>1. kept \in SUBSET (1..Len(requests)) /\ requests' \in Picked(requests, kept)
  BY DEF Forgotten
<1> HIDE DEF kept
<1>2. requests' \in Seq(Requests) /\ Len(requests') \in 0..Len(requests)
  BY <1>1, PickedIs
<1>3. QED
  BY <1>2

LEMMA ClosingKeeps ==
  ASSUME IInv, NEW k \in 0..Plus, onPageClosing(k)
  PROVE  IInv'
<1>1. User /\ UNCHANGED <<items, hidden, fatal, skipped>> /\ Forgotten(pages[k + 1].id)
      /\ k \in 1..(Len(pages) - 2)
  BY BookFacts DEF onPageClosing
<1>2. requests' \in Seq(Requests) /\ (requests = <<>> => requests' = <<>>)
  BY <1>1, ForgottenIs DEF IInv, RestInv
<1>3. RestInv'
  BY <1>1, <1>2 DEF IInv, RestInv, User
<1>4. hasty => hasty'
  BY <1>1 DEF User
<1>5. BookInv' /\ Told(pages', selected', items)
  <2>1. CASE Len(pages) = 3
    <3> DEFINE both == Focus(InsertPage(pages, 1, Page("home", made + 1)), 1)
               q == RemovePage(both, 2, 1)
    <3>1. /\ made < MaxMade /\ pages' = q /\ selected' = 1
          /\ mCount' = mCount /\ made' = made + 1
      BY <2>1, BookFacts DEF onPageClosing, Made
    <3>2. 1 \in 1..(Len(pages) - 1)
      BY <2>1
    <3>3. /\ Book(both, made + 1) /\ Len(both) = 4 /\ both[1].kind = pages[1].kind
          /\ made + 1 \in 0..MaxMade
      <4>1. Book(pages, made) /\ made < MaxMade
        BY <3>1, BookFacts
      <4>2. /\ Book(both, made + 1) /\ Len(both) = Len(pages) + 1
            /\ both[1].kind = pages[1].kind /\ made + 1 \in 0..MaxMade
        BY <3>2, <4>1, HomepageIs
      <4>3. QED
        BY <2>1, <4>2
    <3> HIDE DEF both
    <3>4. made + 1 \in Nat /\ Len(both) > 2 /\ 2 \in 1..(Len(both) - 2) /\ 1 \in 0..(Len(both) - 2)
      BY <3>3
    <3>5. /\ Book(q, made + 1) /\ Len(q) = Len(both) - 1 /\ q[1].kind = both[1].kind
          /\ Told(q, After(2, 1), items)
      BY <3>3, <3>4, RemovePageIs
    <3>6. After(2, 1) = 1
      BY DEF After
    <3> HIDE DEF q
    <3>7. QED
      BY <1>4, <2>1, <3>1, <3>3, <3>5, <3>6, BookFacts DEF BookInv
  <2>2. CASE Len(pages) # 3
    <3> DEFINE sel == IF k = mCount - 2 THEN mCount - 3 ELSE selected
               q == RemovePage(pages, k, sel)
    <3>1. /\ pages' = q /\ selected' = After(k, sel)
          /\ mCount' = mCount - 1 /\ made' = made
      BY <2>2, BookFacts DEF onPageClosing, Made
    <3>2. Len(pages) > 3 /\ sel \in 0..(Len(pages) - 2) /\ After(k, sel) \in 0..(Len(pages) - 3)
      BY <1>1, <2>2, BookFacts DEF After
    <3> HIDE DEF sel
    <3>3. /\ Book(q, made) /\ Len(q) = Len(pages) - 1 /\ q[1].kind = pages[1].kind
          /\ Told(q, After(k, sel), items)
      BY <1>1, <3>2, BookFacts, RemovePageIs
    <3> HIDE DEF q
    <3>4. QED
      BY <1>4, <3>1, <3>2, <3>3, BookFacts, SMTT(30) DEF BookInv
  <2>3. QED
    BY <2>1, <2>2
<1>6. ListInv'
  BY <1>1, <1>5 DEF ListInv
<1>7. QED
  BY <1>1, <1>2, <1>3, <1>5, <1>6, UserKeeps

LEMMA HideIs ==
  ASSUME IInv, NEW k \in 1..Len(pages), Hide(pages[k])
  PROVE  hidden' \subseteq 1..MaxMade
<1>1. pages[k].id \in Nat /\ pages[k].id <= made /\ (pages[k].kind = "client" => pages[k].id > 0)
  BY BookFacts, BookIs
<1>2. hidden \subseteq 1..MaxMade /\ made <= MaxMade /\ made \in Nat /\ MaxMade \in Nat
  BY BookFacts DEF IInv, RestInv
<1>3. pages[k].kind = "client" => pages[k].id \in 1..MaxMade
  BY <1>1, <1>2
<1>4. QED
  BY <1>2, <1>3 DEF Hide

LEMMA ControlWKeeps ==
  ASSUME IInv, onKeyDownControlW
  PROVE  IInv'
<1> DEFINE rest == RemovePage(pages, selected, selected)
<1>1. /\ User /\ UNCHANGED <<items, requests, fatal>> /\ Hide(pages[selected + 1])
      /\ selected \in 1..(Len(pages) - 2)
  BY BookFacts DEF onKeyDownControlW
<1>2. selected + 1 \in 1..Len(pages)
  BY <1>1, BookFacts
<1>3. hidden' \subseteq 1..MaxMade
  BY <1>1, <1>2, HideIs
<1>4. hasty => hasty'
  BY <1>1 DEF User
<1>5. /\ Book(rest, made) /\ Len(rest) = Len(pages) - 1 /\ rest[1].kind = pages[1].kind
      /\ Told(rest, selected, items)
  <2>1. After(selected, selected) = selected
    BY <1>1 DEF After
  <2>2. /\ Book(rest, made) /\ Len(rest) = Len(pages) - 1 /\ rest[1].kind = pages[1].kind
        /\ Told(rest, After(selected, selected), items)
    BY <1>1, BookFacts, RemovePageIs
  <2>3. QED
    BY <2>1, <2>2
<1>6. BookInv' /\ (~skipped' => ~skipped /\ Told(pages', selected', items)) /\ skipped' \in BOOLEAN
  <2>1. CASE Len(pages) = 3
    <3> DEFINE q == Focus(InsertPage(rest, 1, Page("home", made + 1)), 1)
    <3>1. /\ made < MaxMade /\ pages' = q /\ selected' = 1 /\ skipped' = skipped
          /\ mCount' = 3 /\ made' = made + 1
      BY <2>1, BookFacts DEF onKeyDownControlW, createHomepageTab, Made
    <3> HIDE DEF rest
    <3>2. 1 \in 1..(Len(rest) - 1) /\ made < MaxMade /\ Book(rest, made)
      BY <1>5, <2>1, <3>1
    <3>3. /\ Book(q, made + 1) /\ Len(q) = Len(rest) + 1 /\ q[1].kind = rest[1].kind
          /\ Told(q, 1, items) /\ made + 1 \in 0..MaxMade
      BY <3>2, HomepageIs
    <3> HIDE DEF q
    <3>4. skipped \in BOOLEAN
      BY DEF IInv, RestInv
    <3>5. BookInv'
      <4>1. Len(q) = 3 /\ q[1].kind = pages[1].kind
        BY <1>5, <2>1, <3>3
      <4>2. pages[1].kind # "settings" => hasty'
        BY <1>4, BookFacts
      <4>3. Book(pages', made') /\ made' \in 0..MaxMade
        BY <3>1, <3>3
      <4>4. Len(pages') = 3 /\ mCount' = 3 /\ selected' = 1
        BY <3>1, <4>1
      <4>5. pages'[1].kind # "settings" => hasty'
        BY <3>1, <4>1, <4>2
      <4>6. QED
        BY <4>3, <4>4, <4>5 DEF BookInv
    <3>6. QED
      BY <3>1, <3>3, <3>4, <3>5
  <2>2. CASE Len(pages) # 3
    <3> DEFINE sel == IF selected = mCount - 2 THEN mCount - 3 ELSE selected
    <3>1. /\ pages' = rest /\ selected' = sel /\ mCount' = mCount - 1 /\ made' = made
          /\ skipped' = (skipped \/ (sel # selected /\ KindAt(rest, sel) = "home"))
      <4>1. mCount - 1 # 2
        BY <2>2, BookFacts
      <4>2. Made(rest, sel, mCount - 1, made) /\ Skips(rest, sel, selected)
        BY <4>1 DEF onKeyDownControlW
      <4>3. QED
        BY <4>2 DEF Made, Skips
    <3>2. sel \in 0..(Len(pages) - 3) /\ Len(pages) > 3
      BY <1>1, <2>2, BookFacts
    <3> HIDE DEF sel, rest
    <3>3. ~skipped' => ~skipped /\ Told(pages', selected', items)
      <4>1. CASE sel = selected
        BY <1>5, <3>1, <4>1
      <4>2. CASE sel # selected
        BY <3>1, <4>2 DEF Told
      <4>3. QED
        BY <4>1, <4>2
    <3>4. skipped \in BOOLEAN
      BY DEF IInv, RestInv
    <3>5. BookInv'
      BY <1>4, <1>5, <3>1, <3>2, BookFacts DEF BookInv
    <3>6. QED
      BY <3>1, <3>3, <3>4, <3>5
  <2>3. QED
    BY <2>1, <2>2
<1>7. RestInv'
  BY <1>1, <1>3, <1>6 DEF IInv, RestInv, User
<1>8. ListInv'
  BY <1>1, <1>6 DEF ListInv
<1>9. QED
  BY <1>1, <1>6, <1>7, <1>8, UserKeeps

LEMMA SelectKeeps ==
  ASSUME IInv, NEW i \in Items \cup {None}, Select(i)
  PROVE  IInv'
<1> DEFINE k == selected + 1
           p == pages[k]
           q == [p EXCEPT !.item = i, !.enabled = (i # None)]
<1>1. /\ User /\ UNCHANGED <<selected, mCount, made, items, requests, hidden, fatal, skipped>>
      /\ i \in p.seen \cup {None} /\ pages' = [pages EXCEPT ![k] = q]
  BY DEF Select
<1>2. k \in 1..Len(pages) /\ p \in Pages
  BY BookFacts
<1> HIDE DEF p
<1>3. q \in Pages /\ q.kind = p.kind /\ q.id = p.id /\ q.seen = p.seen /\ q.item = i
  BY <1>2 DEF Pages
<1> HIDE DEF q
<1>4. pages' \in Seq(Pages) /\ Len(pages') = Len(pages) /\ pages'[k] = q
      /\ \A j \in 1..Len(pages) : j # k => pages'[j] = pages[j]
  <2>1. pages \in Seq(Pages)
    BY BookFacts
  <2>2. QED
    BY <1>1, <1>2, <1>3, <2>1
<1>5. Alike(pages', pages)
  BY <1>3, <1>4 DEF Alike, p
<1>6. Book(pages', made) /\ pages'[1].kind = pages[1].kind
  BY <1>4, <1>5, BookFacts, AlikeBook
<1>7. hasty => hasty'
  BY <1>1 DEF User
<1>8. BookInv'
  BY <1>1, <1>4, <1>6, <1>7, BookFacts DEF BookInv
<1>9. ~skipped => Told(pages', selected, items)
  BY <1>1, <1>3, <1>4 DEF IInv, ListInv, Told, KindAt, p
<1>10. ListInv'
  BY <1>1, <1>9 DEF ListInv
<1>11. RestInv'
  BY <1>1, Rest
<1>12. QED
  BY <1>1, <1>8, <1>10, <1>11, UserKeeps

\* A request of the page that is up.
LEMMA RequestKeeps ==
  ASSUME IInv, User,
         NEW type \in {"connect", "create", "edit", "recording"},
         NEW item \in Items \cup {Quick, None}, Request(type, item),
         type = "recording" => Home,
         type = "connect" /\ selected # 0 => Home,
         type = "connect" => item \in items \cup {None, Quick} \/ skipped
  PROVE  IInv'
<1> DEFINE r == [type |-> type, item |-> item, from |-> pages[selected + 1].id]
<1>1. /\ requests' = Append(requests, r)
      /\ UNCHANGED <<pages, selected, mCount, made, items, hidden, fatal, skipped>>
  BY DEF Request, book
<1>2. selected + 1 \in 1..Len(pages)
  BY BookFacts
<1>3. r \in Requests
  <2>1. pages[selected + 1].id \in Nat
    BY <1>2, BookFacts, BookIs
  <2>2. QED
    BY <2>1 DEF Requests
<1>4. r.type = type /\ r.item = item
  OBVIOUS
<1> HIDE DEF r
<1>5. requests \in Seq(Requests) /\ requests' \in Seq(Requests)
  BY <1>1, <1>3 DEF IInv, RestInv
<1>6. hasty' = (hasty \/ requests # <<>>) /\ fatal' = None
  BY <1>1 DEF User, alive
<1>7. BookInv' /\ RestInv' /\ ListInv'
  <2>1. BookInv'
    BY <1>1, <1>6 DEF IInv, BookInv
  <2>2. RestInv'
    BY <1>1, <1>5, <1>6 DEF IInv, RestInv
  <2>3. ListInv'
    BY <1>1 DEF IInv, ListInv
  <2>4. QED
    BY <2>1, <2>2, <2>3
<1>8. RequestInv'
  <2>1. SUFFICES ASSUME ~hasty' PROVE Len(requests') = 1 /\ Fresh(requests[1])'
    BY DEF RequestInv
  <2>2. requests = <<>>
    BY <1>6, <2>1
  <2>3. Len(requests') = 1 /\ requests'[1] = r
    BY <1>1, <2>2
  <2>4. Home' <=> Home
    BY <1>1 DEF Home, KindAt
  <2>5. QED
    BY <1>1, <1>4, <2>3, <2>4 DEF Fresh
<1>9. OnlyStaleIsFatal'
  BY <1>6 DEF OnlyStaleIsFatal
<1>10. QED
  BY <1>7, <1>8, <1>9 DEF IInv

LEMMA HomeKeeps ==
  ASSUME IInv, HomeStep
  PROVE  IInv'
<1>1. CASE \E i \in Items \cup {None} : Select(i)
  BY <1>1, SelectKeeps
<1>2. CASE Ask
  <2>1. PICK type \in {"connect", "edit"} : Request(type, pages[selected + 1].item)
    BY <1>2 DEF Ask
  <2>2. User /\ Home
    BY <1>2 DEF Ask
  <2>3. pages[selected + 1].item \in Items \cup {None}
    <3>1. selected + 1 \in 1..Len(pages)
      BY BookFacts
    <3>2. pages[selected + 1] \in Pages
      BY <3>1, BookFacts, BookIs
    <3>3. QED
      BY <3>2 DEF Pages
  <2>4. pages[selected + 1].item \in items \cup {None} \/ skipped
    BY <2>2 DEF IInv, ListInv, Told, Home
  <2> DEFINE it == pages[selected + 1].item
  <2> HIDE DEF it
  <2>5. it \in Items \cup {None, Quick} /\ Request(type, it) /\ (it \in items \cup {None, Quick} \/ skipped)
    BY <2>1, <2>3, <2>4 DEF it
  <2>6. QED
    BY <2>2, <2>5, RequestKeeps
<1>3. CASE onProfileCreate
  BY <1>3, RequestKeeps DEF onProfileCreate
<1>4. CASE onRecordingOpen
  BY <1>4, RequestKeeps DEF onRecordingOpen
<1>5. CASE onQuickConnect
  BY <1>5, RequestKeeps DEF onQuickConnect
<1>6. QED
  BY <1>1, <1>2, <1>3, <1>4, <1>5 DEF HomeStep

LEMMA SettingsKeeps ==
  ASSUME IInv, Settings
  PROVE  IInv'
<1>1. User /\ KindAt(pages, selected) = "settings"
  BY DEF Settings
<1>2. selected = 0
  <2>1. selected # 0 => selected + 1 \in 2..(Len(pages) - 1)
    BY BookFacts
  <2>2. selected # 0 => pages[selected + 1].kind \in Work
    BY <2>1, BookFacts, BookIs
  <2>3. QED
    BY <1>1, <2>2 DEF KindAt, Work
<1>3. CASE \E i \in items \cap Profiles : Request("connect", i)
  <2>1. PICK i \in items \cap Profiles : Request("connect", i)
    BY <1>3
  <2>2. i \in Items \cup {Quick, None}
    BY <2>1 DEF Items
  <2>3. QED
    BY <1>1, <1>2, <2>1, <2>2, RequestKeeps
<1>4. CASE \E i \in Profiles : /\ items' = (items \cup {i}) \ (items \cap {i})
                               /\ UNCHANGED <<book, requests, hidden, fatal, skipped>>
  <2>1. UNCHANGED <<pages, selected, mCount, made, requests, hidden, fatal, skipped>>
    BY <1>4 DEF book
  <2>2. items' \subseteq Items
    BY <1>4, BookFacts DEF Items
  <2>3. hasty' = (hasty \/ requests # <<>>)
    BY <1>1 DEF User
  <2>4. BookInv'
    BY <2>1, <2>3 DEF IInv, BookInv
  <2>5. RestInv'
    BY <2>1, <2>2, <2>3 DEF IInv, RestInv
  <2>6. ListInv'
    BY <1>1, <2>1 DEF ListInv, Told, KindAt
  <2>7. QED
    BY <1>1, <2>1, <2>4, <2>5, <2>6, UserKeeps
<1>5. QED
  BY <1>3, <1>4 DEF Settings

LEMMA ReplaceKeeps ==
  ASSUME IInv, UNCHANGED hasty, NEW page \in Pages, page.id = made + 1, Replace(page), MayMake,
         \/ page.kind = "recording" /\ (selected = 0 => hasty)
         \/ page.kind = "client" /\ selected # 0
  PROVE  /\ BookInv' /\ hidden' \subseteq 1..MaxMade /\ Told(pages', selected', items)
         /\ \A j \in 1..Len(pages) : j # selected + 1 =>
              /\ j \in 1..Len(pages')
              /\ pages'[j].kind = pages[j].kind /\ pages'[j].id = pages[j].id
<1> DEFINE q == InsertPage(RemovePage(pages, selected, selected), selected, page)
<1>1. /\ pages' = q /\ selected' = selected /\ mCount' = mCount /\ made' = made + 1
      /\ Hide(pages[selected + 1])
  BY DEF Replace, Made
<1>2. /\ Book(q, made + 1) /\ Len(q) = Len(pages) /\ q[selected + 1] = page
      /\ \A j \in 1..Len(pages) : j # selected + 1 =>
           q[j].kind = pages[j].kind /\ q[j].id = pages[j].id
  BY ReplaceIs
<1> HIDE DEF q
<1>3. selected + 1 \in 1..Len(pages) /\ 1 \in 1..Len(pages) /\ made + 1 \in 0..MaxMade
  BY BookFacts DEF MayMake
<1>4. hidden' \subseteq 1..MaxMade
  BY <1>1, <1>3, HideIs
<1>5. q[1].kind # "settings" => hasty
  <2>1. CASE selected = 0
    BY <2>1
  <2>2. CASE selected # 0
    <3>1. 1 # selected + 1
      BY <2>2, BookFacts
    <3>2. q[1].kind = pages[1].kind
      BY <1>2, <1>3, <3>1
    <3>3. QED
      BY <3>2, BookFacts
  <2>3. QED
    BY <2>1, <2>2
<1>6. BookInv'
  BY <1>1, <1>2, <1>3, <1>5, BookFacts DEF BookInv
<1>7. Told(pages', selected', items)
  BY <1>1, <1>2 DEF Told, KindAt
<1>8. QED
  BY <1>1, <1>2, <1>4, <1>6, <1>7

\* What the request at hand may be, unless the user was quicker.
LEMMA HeadIs ==
  ASSUME IInv, NEW type, Handle(type)
  PROVE  /\ Head(requests) \in Requests /\ Head(requests).type = type
         /\ fatal = None /\ hasty' = hasty
         /\ requests' \in Seq(Requests)
         /\ ~hasty => Fresh(Head(requests))
<1>1. requests \in Seq(Requests) /\ requests # <<>> /\ requests' = Tail(requests) /\ hasty' = hasty
  BY DEF Handle, IInv, RestInv
<1>2. Head(requests) = requests[1] /\ Head(requests) \in Requests
  BY <1>1
<1>3. ~hasty => Fresh(requests[1])
  BY <1>1 DEF IInv, RequestInv
<1>4. QED
  BY <1>1, <1>2, <1>3 DEF Handle, alive

LEMMA ProfileKeeps ==
  ASSUME IInv, openProfile
  PROVE  IInv'
<1> DEFINE i == Head(requests).item
           client == [Page("client", made + 1) EXCEPT !.item = i]
<1>1. Handle("connect") /\ UNCHANGED <<items, skipped>>
  BY DEF openProfile
<1>2. i \in Items \cup {Quick, None}
  BY <1>1, HeadIs DEF Requests
<1>3. /\ fatal = None /\ hasty' = hasty /\ requests' \in Seq(Requests)
      /\ ~hasty => i \in items \cup {None, Quick} \/ skipped
  BY <1>1, HeadIs DEF Fresh
<1>4. BookInv' /\ ListInv' /\ RestInv' /\ OnlyStaleIsFatal'
  <2>1. CASE i \notin items \cup {None}
    <3>1. fatal' = i /\ UNCHANGED <<pages, selected, mCount, made, hidden>>
      BY <2>1 DEF openProfile, book
    <3>2. BookInv'
      BY <1>3, <3>1 DEF IInv, BookInv
    <3>3. ListInv'
      BY <1>1, <3>1 DEF IInv, ListInv
    <3>4. RestInv'
      BY <1>1, <1>2, <1>3, <3>1 DEF IInv, RestInv
    <3>5. OnlyStaleIsFatal'
      BY <1>1, <1>3, <2>1, <3>1 DEF OnlyStaleIsFatal
    <3>6. QED
      BY <3>2, <3>3, <3>4, <3>5
  <2>2. CASE i \in items \cup {None}
    <3>1. client \in Pages /\ client.kind = "client" /\ client.id = made + 1
      <4>1. i \in Items \cup {None} /\ made + 1 \in Nat
        BY <2>2, BookFacts
      <4>2. QED
        BY <4>1 DEF Page, Pages, Kinds
    <3> DEFINE c == client
    <3>2. /\ UNCHANGED fatal /\ MayMake
          /\ IF selected # 0 THEN Replace(c)
             ELSE Made(InsertPage(pages, Plus, c), Plus, mCount + 1, made + 1) /\ UNCHANGED hidden
      BY <2>2 DEF openProfile
    <3> HIDE DEF client
    <3>3. BookInv' /\ hidden' \subseteq 1..MaxMade /\ Told(pages', selected', items)
      <4>1. CASE selected # 0
        BY <1>3, <3>1, <3>2, <4>1, ReplaceKeeps
      <4>2. CASE selected = 0
        <5> DEFINE q == InsertPage(pages, Plus, c)
        <5>1. /\ pages' = q /\ selected' = Plus /\ mCount' = mCount + 1 /\ made' = made + 1
              /\ hidden' = hidden
          BY <3>2, <4>2 DEF Made
        <5>2. Plus \in 1..(Len(pages) - 1) /\ c.kind \in Work /\ made + 1 \in 0..MaxMade
          BY <3>1, <3>2, BookFacts DEF Work, MayMake
        <5>3. /\ Book(q, made + 1) /\ Len(q) = Len(pages) + 1 /\ q[1] = pages[1]
              /\ q[Plus + 1] = c
          BY <3>1, <5>2, BookFacts, InsertedBook
        <5> HIDE DEF q
        <5>4. BookInv'
          BY <1>3, <5>1, <5>2, <5>3, BookFacts DEF BookInv
        <5>5. Told(pages', selected', items)
          BY <3>1, <5>1, <5>3 DEF Told, KindAt
        <5>6. QED
          BY <5>1, <5>4, <5>5 DEF IInv, RestInv
      <4>3. QED
        BY <4>1, <4>2
    <3>4. ListInv'
      BY <1>1, <3>3 DEF ListInv
    <3>5. RestInv'
      BY <1>1, <1>3, <3>2, <3>3 DEF IInv, RestInv
    <3>6. OnlyStaleIsFatal'
      BY <1>3, <3>2 DEF OnlyStaleIsFatal
    <3>7. QED
      BY <3>3, <3>4, <3>5, <3>6
  <2>3. QED
    BY <2>1, <2>2
<1>5. QED
  BY <1>1, <1>4, HandleKeeps

\* A recording of a homepage takes its place.
LEMMA RecordingAtHome ==
  ASSUME IInv, Handle("recording"), ~hasty
  PROVE  Home /\ selected # 0
<1>1. Home
  BY HeadIs DEF Fresh
<1>2. pages[1].kind = "settings"
  BY BookFacts
<1>3. QED
  BY <1>1, <1>2 DEF Home, KindAt

LEMMA RecordingKeeps ==
  ASSUME IInv, openRecording
  PROVE  IInv'
<1>1. Handle("recording") /\ UNCHANGED <<items, fatal, skipped>>
  BY DEF openRecording
<1>2. fatal = None /\ hasty' = hasty /\ requests' \in Seq(Requests)
  BY <1>1, HeadIs
<1>3. BookInv' /\ hidden' \subseteq 1..MaxMade /\ (~skipped => Told(pages', selected', items))
  <2>1. CASE MayMake /\ Replace(Page("recording", made + 1))
    <3> DEFINE page == Page("recording", made + 1)
    <3>1. page \in Pages /\ page.kind = "recording" /\ page.id = made + 1
      BY BookFacts DEF Page, Pages, Kinds
    <3>2. Replace(page) /\ MayMake
      BY <2>1
    <3> HIDE DEF page
    <3>3. selected = 0 => hasty
      BY <1>1, RecordingAtHome
    <3>4. QED
      BY <1>2, <3>1, <3>2, <3>3, ReplaceKeeps
  <2>2. CASE UNCHANGED <<book, hidden>>
    <3>1. UNCHANGED <<pages, selected, mCount, made, hidden>>
      BY <2>2 DEF book
    <3>2. BookInv'
      BY <1>2, <3>1 DEF IInv, BookInv
    <3>3. QED
      BY <3>1, <3>2 DEF IInv, RestInv, ListInv
  <2>3. QED
    BY <2>1, <2>2 DEF openRecording
<1>4. ListInv'
  BY <1>1, <1>3 DEF ListInv
<1>5. RestInv'
  BY <1>1, <1>2, <1>3 DEF IInv, RestInv
<1>6. OnlyStaleIsFatal'
  BY <1>1, <1>2 DEF OnlyStaleIsFatal
<1>7. QED
  BY <1>1, <1>4, <1>3, <1>5, <1>6, HandleKeeps

\* The settings come up.
LEMMA ToSettingsKeeps ==
  ASSUME IInv, NEW type, Handle(type), Made(pages, 0, mCount, made), Skips(pages, 0, selected),
         items' \subseteq Items, UNCHANGED <<hidden, fatal>>
  PROVE  IInv'
<1>1. /\ UNCHANGED <<pages, mCount, made>> /\ selected' = 0
      /\ skipped' \in BOOLEAN
  BY DEF Made, Skips
<1>2. fatal = None /\ hasty' = hasty /\ requests' \in Seq(Requests)
  BY HeadIs
<1>3. BookInv'
  BY <1>1, <1>2, BookFacts DEF IInv, BookInv
<1>4. pages[1].kind # "home"
  BY BookFacts DEF Book
<1>5. ListInv'
  BY <1>1, <1>4 DEF ListInv, Told, KindAt
<1>6. RestInv'
  BY <1>1, <1>2 DEF IInv, RestInv
<1>7. OnlyStaleIsFatal'
  BY <1>2 DEF OnlyStaleIsFatal
<1>8. QED
  BY <1>3, <1>5, <1>6, <1>7, HandleKeeps

LEMMA CreateKeeps ==
  ASSUME IInv, CreateProfile
  PROVE  IInv'
<1>1. items' \subseteq Items
  BY BookFacts DEF CreateProfile, Items
<1>2. QED
  BY <1>1, ToSettingsKeeps DEF CreateProfile

LEMMA EditKeeps ==
  ASSUME IInv, EditProfile
  PROVE  IInv'
<1>1. items' \subseteq Items
  BY BookFacts DEF EditProfile
<1>2. QED
  BY <1>1, ToSettingsKeeps DEF EditProfile

-------------------------------------------------------------------------------
(* The theorems *)

LEMMA InitIInv == Init => IInv
<1> SUFFICES ASSUME Init PROVE IInv
  OBVIOUS
<1> DEFINE home == <<Page("home", 1)>>
           f == Focus(home, 0)
<1>1. /\ items \subseteq Items /\ items \in {{}, Items}
      /\ pages = <<Page("settings", 0)>> \o f \o <<Page("plus", 2)>>
      /\ selected = 1 /\ mCount = 3 /\ made = 2
      /\ requests = <<>> /\ hidden = {} /\ fatal = None /\ hasty = FALSE /\ skipped = FALSE
  BY DEF Init
<1>2. /\ Page("settings", 0) \in Pages /\ Page("home", 1) \in Pages /\ Page("plus", 2) \in Pages
      /\ Page("settings", 0).kind = "settings" /\ Page("settings", 0).id = 0
      /\ Page("home", 1).kind = "home" /\ Page("home", 1).id = 1
      /\ Page("plus", 2).kind = "plus" /\ Page("plus", 2).id = 2
  BY DEF Page, Pages, Kinds
<1> DEFINE ps == Page("settings", 0)
           pp == Page("plus", 2)
<1>3. home \in Seq(Pages) /\ Len(home) = 1 /\ home[1] = Page("home", 1)
  BY <1>2
<1>4. 0 \in 0..(Len(home) - 1)
  BY <1>3
<1> HIDE DEF home
<1>5. f \in Seq(Pages) /\ Alike(f, home) /\ Told(f, 0, items)
  BY <1>1, <1>3, <1>4, FocusIs
<1> HIDE DEF f
<1>6. Len(f) = 1 /\ f[1].kind = "home" /\ f[1].id = 1 /\ f[1] \in Pages
  BY <1>2, <1>3, <1>5 DEF Alike
<1>7. Told(f, 0, items) => /\ f[1].seen \subseteq items /\ f[1].item \in items \cup {None}
  BY <1>6 DEF Told, KindAt
<1> HIDE DEF ps, pp
<1>8. /\ pages \in Seq(Pages) /\ Len(pages) = 3
      /\ pages[1] = ps /\ pages[2] = f[1] /\ pages[3] = pp
  <2>1. ps \in Pages /\ pp \in Pages /\ pages = <<ps>> \o f \o <<pp>>
    BY <1>1, <1>2 DEF ps, pp
  <2> DEFINE x == <<ps>>
             z == <<pp>>
             a == x \o f
  <2>2. x \in Seq(Pages) /\ Len(x) = 1 /\ x[1] = ps /\ z \in Seq(Pages) /\ Len(z) = 1 /\ z[1] = pp
    BY <2>1
  <2>3. pages = a \o z
    BY <2>1
  <2> HIDE DEF x, z
  <2>4. /\ a \in Seq(Pages) /\ Len(a) = Len(x) + Len(f)
        /\ \A i \in 1..(Len(x) + Len(f)) : a[i] = IF i <= Len(x) THEN x[i] ELSE f[i - Len(x)]
    <3>1. x \in Seq(Pages) /\ f \in Seq(Pages)
      BY <1>5, <2>2
    <3>2. QED
      BY <3>1, ConcatProperties
  <2>5. Len(a) = 2 /\ a[1] = ps /\ a[2] = f[1]
    BY <1>6, <2>2, <2>4
  <2> HIDE DEF a
  <2>6. /\ a \o z \in Seq(Pages) /\ Len(a \o z) = Len(a) + Len(z)
        /\ \A i \in 1..(Len(a) + Len(z)) :
             (a \o z)[i] = IF i <= Len(a) THEN a[i] ELSE z[i - Len(a)]
    <3>1. a \in Seq(Pages) /\ z \in Seq(Pages)
      BY <2>2, <2>4
    <3>2. QED
      BY <3>1, ConcatProperties
  <2>7. QED
    BY <2>2, <2>3, <2>5, <2>6
<1>9. /\ pages[1].kind = "settings" /\ pages[1].id = 0 /\ pages[2].kind = "home"
      /\ pages[2].id = 1 /\ pages[3].kind = "plus" /\ pages[3].id = 2
  BY <1>2, <1>6, <1>8 DEF ps, pp
<1>10. Book(pages, 2)
  <2>1. \A j \in 1..3 : pages[j].id = j - 1 /\ pages[j].kind # "client"
    BY <1>9
  <2>2. \A i, j \in 1..3 : pages[i].id = pages[j].id => i = j
    BY <2>1
  <2>3. \A j \in 1..3 : pages[j].id <= 2
    BY <2>1
  <2>4. \A j \in 2..2 : pages[j].kind \in Work
    BY <1>9 DEF Work
  <2>5. QED
    BY <1>8, <1>9, <2>1, <2>2, <2>3, <2>4 DEF Book
<1>11. BookInv
  <2>1. 2 \in 0..MaxMade
    BY WindowAssumption
  <2>2. QED
    BY <1>1, <1>8, <1>9, <1>10, <2>1 DEF BookInv
<1>12. RestInv
  <2>1. requests \in Seq(Requests) /\ hidden \subseteq 1..MaxMade
    BY <1>1
  <2>2. fatal \in Items \cup {Quick, None} /\ hasty \in BOOLEAN /\ skipped \in BOOLEAN
    BY <1>1
  <2>3. QED
    BY <1>1, <2>1, <2>2 DEF RestInv
<1>13. Told(pages, selected, items)
  BY <1>1, <1>5, <1>7, <1>8 DEF Told
<1>14. QED
  BY <1>1, <1>11, <1>12, <1>13 DEF IInv, ListInv, RequestInv, OnlyStaleIsFatal

LEMMA StepKeeps ==
  ASSUME IInv, [Next]_vars
  PROVE  IInv'
<1>1. CASE TabStep
  BY <1>1, SelectedKeeps, ClosingKeeps DEF TabStep
<1>2. CASE KeyStep
  BY <1>2, ControlTKeeps, ControlWKeeps DEF KeyStep
<1>3. CASE HomeStep
  BY <1>3, HomeKeeps
<1>4. CASE Settings
  BY <1>4, SettingsKeeps
<1>5. CASE RequestStep
  BY <1>5, ProfileKeeps, RecordingKeeps, CreateKeeps, EditKeeps DEF RequestStep
<1>6. CASE UNCHANGED vars
  <2>1. UNCHANGED <<pages, selected, mCount, made, items, requests, hidden, fatal, hasty, skipped>>
    BY <1>6 DEF vars, book
  <2>2. BookInv' /\ RestInv' /\ ListInv'
    BY <2>1 DEF IInv, BookInv, RestInv, ListInv
  <2>3. RequestInv' /\ OnlyStaleIsFatal'
    BY <2>1 DEF IInv, RequestInv, Fresh, Home, KindAt, OnlyStaleIsFatal
  <2>4. QED
    BY <2>2, <2>3 DEF IInv
<1>7. QED
  BY <1>1, <1>2, <1>3, <1>4, <1>5, <1>6 DEF Next

\* The invariant the theorems rest on.
THEOREM Always == Spec => []IInv
<1>1. IInv /\ [Next]_vars => IInv'
  BY StepKeeps
<1>2. QED
  BY InitIInv, <1>1, PTL DEF Spec

LEMMA IInvCount == IInv => CountIsRight
<1> SUFFICES ASSUME IInv PROVE CountIsRight
  OBVIOUS
<1>1. TypeOK
  <2>1. selected \in 0..(Len(pages) - 1) /\ pages \in Seq(Pages) /\ made \in 0..MaxMade
    BY BookFacts
  <2>2. \A i, j \in 1..Len(pages) : pages[i].id = pages[j].id => i = j
    BY BookFacts, BookIs
  <2>3. /\ items \subseteq Items /\ requests \in Seq(Requests) /\ hidden \subseteq 1..MaxMade
        /\ fatal \in Items \cup {Quick, None} /\ {hasty, skipped} \subseteq BOOLEAN
    BY DEF IInv, RestInv
  <2>4. QED
    BY <2>1, <2>2, <2>3 DEF TypeOK
<1>2. KindAt(pages, Plus) = "plus"
  <2>1. Plus + 1 = Len(pages)
    BY BookFacts
  <2>2. QED
    BY <2>1, BookFacts DEF Book, KindAt
<1>3. KindAt(pages, 0) # "settings" => hasty
  BY BookFacts DEF KindAt
<1>4. ASSUME NEW k \in 1..(Plus - 1)
      PROVE  KindAt(pages, k) \in {"home", "client", "recording"}
  <2>1. k + 1 \in 2..(Len(pages) - 1)
    BY BookFacts
  <2>2. QED
    BY <2>1, BookFacts, BookIs DEF KindAt, Work
<1>5. mCount = Len(pages) /\ selected # Plus /\ Len(pages) > 2
  BY BookFacts
<1>6. QED
  BY <1>1, <1>2, <1>3, <1>4, <1>5 DEF CountIsRight

\* The count of the pages, kept by hand, is right after any sequence of clicks,
\* keys and requests (App::onPageSelected, onPageClosing, onKeyDownControlT and
\* onKeyDownControlW, openProfile, openRecording): the settings in front, the plus
\* sign at the end and never selected, and a page to work with in between.
THEOREM CountIsAlwaysRight == Spec => []CountIsRight
<1>1. QED
  BY Always, IInvCount, PTL

\* The program ends (Profiles::getName of an item that is not there) only over a
\* homepage that was not told it came up, a request the user overtook, or Quick
\* Connect.
THEOREM FatalIsStale == Spec => []OnlyStaleIsFatal
<1>1. IInv => OnlyStaleIsFatal
  BY DEF IInv
<1>2. QED
  BY Always, <1>1, PTL

LEMMA KeptClients ==
  ASSUME IInv,
         \A j \in 1..Len(pages) : pages[j].kind \in {"client", "recording"} =>
           \E m \in 1..Len(pages') : pages'[m].kind = pages[j].kind /\ pages'[m].id = pages[j].id,
         pages' \in Seq(Pages)
  PROVE  Clients \subseteq Clients'
<1> SUFFICES ASSUME NEW c \in Clients PROVE c \in Clients'
  OBVIOUS
<1>1. PICK j \in 1..Len(pages) : pages[j].kind \in {"client", "recording"} /\ c = pages[j].id
  BY BookFacts DEF Clients, ToSet
<1>2. PICK m \in 1..Len(pages') : pages'[m].kind = pages[j].kind /\ pages'[m].id = pages[j].id
  BY <1>1
<1>3. pages'[m] \in ToSet(pages')
  BY <1>2 DEF ToSet
<1>4. QED
  BY <1>1, <1>2, <1>3 DEF Clients

LEMMA OpenKeepsClients ==
  ASSUME IInv, openProfile \/ openRecording, ~hasty
  PROVE  Clients \subseteq Clients'
<1>1. pages' \in Seq(Pages)
  <2>1. IInv'
    BY ProfileKeeps, RecordingKeeps
  <2>2. QED
    BY <2>1 DEF IInv, BookInv, Book
<1>2. ASSUME NEW page \in Pages, page.id = made + 1, Replace(page), MayMake, Home, selected # 0,
             page.kind \in {"client", "recording"}, UNCHANGED hasty
      PROVE  Clients \subseteq Clients'
  <2>1. \A j \in 1..Len(pages) : j # selected + 1 =>
          /\ j \in 1..Len(pages')
          /\ pages'[j].kind = pages[j].kind /\ pages'[j].id = pages[j].id
    BY <1>2, ReplaceKeeps
  <2>2. pages[selected + 1].kind \notin {"client", "recording"}
    BY <1>2 DEF Home, KindAt
  <2>3. QED
    BY <1>1, <2>1, <2>2, KeptClients
<1>3. CASE openRecording
  <2>1. Handle("recording") /\ Home /\ selected # 0 /\ UNCHANGED hasty
    BY <1>3, RecordingAtHome DEF openRecording, Handle
  <2>2. CASE MayMake /\ Replace(Page("recording", made + 1))
    <3>1. /\ Page("recording", made + 1) \in Pages /\ Page("recording", made + 1).id = made + 1
          /\ Page("recording", made + 1).kind = "recording"
      BY BookFacts DEF Page, Pages, Kinds
    <3>2. QED
      BY <1>2, <2>1, <2>2, <3>1
  <2>3. CASE UNCHANGED pages
    BY <2>3 DEF Clients
  <2>4. QED
    BY <1>3, <2>2, <2>3 DEF openRecording, book
<1>4. CASE openProfile
  <2> DEFINE i == Head(requests).item
             c == [Page("client", made + 1) EXCEPT !.item = i]
  <2>1. Handle("connect") /\ UNCHANGED hasty
    BY <1>4 DEF openProfile, Handle
  <2>2. selected # 0 => Home
    BY <2>1, HeadIs DEF Fresh
  <2>3. CASE i \notin items \cup {None}
    <3>1. UNCHANGED pages
      BY <1>4, <2>3 DEF openProfile, book
    <3>2. QED
      BY <3>1 DEF Clients
  <2>4. CASE i \in items \cup {None}
    <3>1. c \in Pages /\ c.kind = "client" /\ c.id = made + 1
      <4>1. i \in Items \cup {None} /\ made + 1 \in Nat
        BY <2>4, BookFacts
      <4>2. QED
        BY <4>1 DEF Page, Pages, Kinds
    <3>2. /\ MayMake
          /\ IF selected # 0 THEN Replace(c)
             ELSE Made(InsertPage(pages, Plus, c), Plus, mCount + 1, made + 1)
      BY <1>4, <2>4 DEF openProfile
    <3> HIDE DEF c
    <3>3. CASE selected # 0
      BY <1>2, <2>1, <2>2, <3>1, <3>2, <3>3
    <3>4. CASE selected = 0
      <4> DEFINE q == InsertPage(pages, Plus, c)
      <4>1. pages' = q
        BY <3>2, <3>4 DEF Made
      <4>2. Plus \in 1..(Len(pages) - 1) /\ c.kind \in Work
        BY <3>1, BookFacts DEF Work
      <4>3. /\ Len(q) = Len(pages) + 1
            /\ \A j \in 1..(Len(pages) + 1) :
                 q[j] = IF j <= Plus THEN pages[j] ELSE IF j = Plus + 1 THEN c ELSE pages[j - 1]
        BY <3>1, <4>2, BookFacts, InsertedBook
      <4> HIDE DEF q
      <4>4. ASSUME NEW j \in 1..Len(pages)
            PROVE  \E m \in 1..Len(q) : q[m] = pages[j]
        <5>1. CASE j <= Plus
          BY <4>3, <5>1, BookFacts
        <5>2. CASE j > Plus
          <6>1. j + 1 \in 1..Len(q) /\ q[j + 1] = pages[j]
            BY <4>3, <5>2, BookFacts
          <6>2. QED
            BY <6>1
        <5>3. QED
          BY <5>1, <5>2, BookFacts
      <4>5. QED
        BY <1>1, <4>1, <4>4, KeptClients
    <3>5. QED
      BY <3>3, <3>4
  <2>5. QED
    BY <2>3, <2>4
<1>5. QED
  BY <1>3, <1>4

\* A page that is opened for a request (App::openProfile, openRecording) takes the
\* place of no client and no recording, unless the user was quicker.
THEOREM ClientsAreKept == Spec => RequestsKeepClients
<1>1. IInv /\ [Next]_vars => [openProfile \/ openRecording => Clients \subseteq Clients' \/ hasty]_vars
  BY OpenKeepsClients
<1>2. QED
  BY Always, <1>1, PTL DEF Spec, RequestsKeepClients

===============================================================================
