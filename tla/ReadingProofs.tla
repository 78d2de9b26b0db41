--------------------------- MODULE ReadingProofs ----------------------------
(***************************************************************************)
(* What is read while it is written: the lists and their pages, the files  *)
(* and documents that are handed out, the knowledge directory, the samples *)
(* of the services, and the live view of a Run, for any number of rows,    *)
(* readers, turns, exports, paths, requests, services, writers and events. *)
(*                                                                         *)
(* Lists.  A cursor is the key of the last item of a page, and a statement *)
(* takes the first rows behind it, so a page has each row up to its own    *)
(* last one (FirstOf, PageReads).  A row keeps its key while it is there,  *)
(* or it is counted as slipped, so what was read is still in the order of  *)
(* the list, and a row that was there all the time is in a page or ahead   *)
(* (Reading).  The audit stream merges two sides read one after the other: *)
(* each is in order and has all its rows up to the end of the page.        *)
(*                                                                         *)
(* Files and documents.  An export keeps the Runs it has read: those that  *)
(* stayed as they were are among them, or they are more than the limit     *)
(* (ExportFits).  A document is said of what only grows: messages, and how *)
(* Runs ended; and the Runs are read after the messages that name them     *)
(* (SaidFits, SummaryFits).                                                *)
(*                                                                         *)
(* Searches.  A survey has each document that stayed as it is before it or *)
(* behind it, so that when it is through they are all found (SurveyFits);  *)
(* a search answers with the head of what matches in the order of its      *)
(* worth (RankedParts); and going on behind each occurrence counts as many *)
(* as there can be (HitsAre).                                              *)
(*                                                                         *)
(* Monitoring.  The samples of a window are read in the order of time      *)
(* (Chronicle), so what goes over a line by position says the same of its  *)
(* samples (ItemAgrees); and what a save has found is there until another  *)
(* one is committed (SaveFits).                                            *)
(*                                                                         *)
(* Live view.  StreamInv, at the end of the module.                        *)
(***************************************************************************)
EXTENDS EventStream, PagedLists, HistoryExports, KnowledgeReadings, MonitorReadings, FiniteSetTheorems,
        FunctionTheorems, SequenceTheorems, WellFoundedInduction, TLAPS

-----------------------------------------------------------------------------
(* Places in an order *)

StrictOrder(S, R) ==
    /\ \A x \in S : <<x, x>> \notin R
    /\ \A x, y \in S : x # y => <<x, y>> \in R \/ <<y, x>> \in R
    /\ \A x, y, z \in S : <<x, y>> \in R /\ <<y, z>> \in R => <<x, z>> \in R

Rank(S, R, x) == Cardinality({y \in S : <<y, x>> \in R})

\* In a finite set each place of an order is taken once, and the places go with the order.
LEMMA RankParts ==
    ASSUME NEW S, NEW R, IsFiniteSet(S), StrictOrder(S, R)
    PROVE  /\ \A x \in S : Rank(S, R, x) \in 0 .. (Cardinality(S) - 1)
           /\ \A x, y \in S : <<x, y>> \in R => Rank(S, R, x) < Rank(S, R, y)
           /\ \A x, y \in S : Rank(S, R, x) = Rank(S, R, y) => x = y
           /\ \A k \in 0 .. (Cardinality(S) - 1) : \E x \in S : Rank(S, R, x) = k
<1> DEFINE below(x) == {y \in S : <<y, x>> \in R}
           n == Cardinality(S)
           place == [x \in S |-> Rank(S, R, x)]
           ranks == {place[x] : x \in S}
<1>1. n \in Nat
  BY FS_CardinalityType
<1>2. \A x \in S : IsFiniteSet(below(x)) /\ Cardinality(below(x)) \in Nat
  <2> TAKE x \in S
  <2>1. below(x) \in SUBSET S
    OBVIOUS
  <2> QED BY <2>1, FS_Subset, FS_CardinalityType
<1>3. \A x \in S : Cardinality(below(x)) <= n - 1
  <2> TAKE x \in S
  <2>1. below(x) \in SUBSET S /\ x \notin below(x)
    BY DEF StrictOrder
  <2>2. Cardinality(below(x)) <= n /\ Cardinality(below(x)) # n
    BY <2>1, FS_Subset
  <2>3. Cardinality(below(x)) \in Nat
    BY <1>2
  <2> HIDE DEF below, n
  <2> QED BY <2>2, <2>3, <1>1
<1>4. \A x, y \in S : <<x, y>> \in R => Cardinality(below(x)) < Cardinality(below(y))
  <2> SUFFICES ASSUME NEW x \in S, NEW y \in S, <<x, y>> \in R
               PROVE  Cardinality(below(x)) < Cardinality(below(y))
    OBVIOUS
  <2>1. below(x) \in SUBSET below(y) /\ x \in below(y) /\ x \notin below(x)
    BY DEF StrictOrder
  <2>2. Cardinality(below(x)) <= Cardinality(below(y))
        /\ Cardinality(below(x)) # Cardinality(below(y))
    BY <2>1, <1>2, FS_Subset
  <2> QED BY <2>2, <1>2
<1>5. \A x, y \in S : Cardinality(below(x)) = Cardinality(below(y)) => x = y
  <2> SUFFICES ASSUME NEW x \in S, NEW y \in S, Cardinality(below(x)) = Cardinality(below(y)),
                      x # y
               PROVE  FALSE
    OBVIOUS
  <2>1. <<x, y>> \in R \/ <<y, x>> \in R
    BY DEF StrictOrder
  <2>2. Cardinality(below(x)) < Cardinality(below(y))
        \/ Cardinality(below(y)) < Cardinality(below(x))
    BY <2>1, <1>4
  <2> QED BY <2>2, <1>2
<1>6. \A x \in S : Rank(S, R, x) \in 0 .. (n - 1)
  <2> TAKE x \in S
  <2>1. Cardinality(below(x)) \in Nat /\ Cardinality(below(x)) <= n - 1
    BY <1>2, <1>3
  <2>2. Rank(S, R, x) = Cardinality(below(x))
    BY DEF Rank
  <2> HIDE DEF below, n
  <2> QED BY <2>1, <2>2, <1>1
<1>7. ranks = 0 .. (n - 1)
  <2>1. place \in [S -> ranks]
    OBVIOUS
  <2>2. \A a, b \in S : place[a] = place[b] => a = b
    BY <1>5 DEF Rank
  <2>3. \A t \in ranks : \E s \in S : place[s] = t
    OBVIOUS
  <2>4. place \in Bijection(S, ranks)
    BY <2>1, <2>2, <2>3, Fun_IsBij
  <2>5. Cardinality(ranks) = n
    BY <2>4, FS_Bijection DEF ExistsBijection
  <2>6. ranks \in SUBSET (0 .. (n - 1))
    BY <1>6
  <2>7. IsFiniteSet(0 .. (n - 1)) /\ Cardinality(0 .. (n - 1)) = n
    <3>1. 0 \in Int /\ n - 1 \in Int
      BY <1>1
    <3> QED BY <3>1, <1>1, FS_Interval
  <2> QED BY <2>5, <2>6, <2>7, FS_Subset
<1>8. \A k \in 0 .. (n - 1) : \E x \in S : Rank(S, R, x) = k
  BY <1>7
<1> QED BY <1>4, <1>5, <1>6, <1>8 DEF Rank

LEMMA RankOrder ==
    ASSUME NEW S, NEW R, IsFiniteSet(S), StrictOrder(S, R),
           NEW x \in S, NEW y \in S, x # y, ~(Rank(S, R, y) < Rank(S, R, x))
    PROVE  <<x, y>> \in R
<1>1. <<x, y>> \in R \/ <<y, x>> \in R
  BY DEF StrictOrder
<1>2. <<y, x>> \notin R
  BY RankParts
<1> QED BY <1>1, <1>2

\* the first n of a set in an order
Heads(S, R, n) ==
    [i \in 1 .. (IF Cardinality(S) < n THEN Cardinality(S) ELSE n) |->
        CHOOSE r \in S : Rank(S, R, r) + 1 = i]

HeadOf(s, S, R, n) ==
    /\ s \in Seq(S) /\ Len(s) <= n
    /\ \A i, j \in 1 .. Len(s) : i < j => <<s[i], s[j]>> \in R
    /\ \A r \in S : (\E i \in 1 .. Len(s) : s[i] = r)
                      \/ (Len(s) = n /\ \A i \in 1 .. Len(s) : <<s[i], r>> \in R)

\* What a query with an order and a limit returns.
LEMMA HeadsParts ==
    ASSUME NEW S, NEW R, IsFiniteSet(S), StrictOrder(S, R), NEW n \in Nat
    PROVE  HeadOf(Heads(S, R, n), S, R, n)
<1> DEFINE size == IF Cardinality(S) < n THEN Cardinality(S) ELSE n
           s == Heads(S, R, n)
           pick(i) == CHOOSE r \in S : Rank(S, R, r) + 1 = i
<1>1. Cardinality(S) \in Nat /\ size \in Nat /\ size <= n /\ size <= Cardinality(S)
  BY FS_CardinalityType
<1>2. \A i \in 1 .. size : pick(i) \in S /\ Rank(S, R, pick(i)) = i - 1
  <2> SUFFICES ASSUME NEW i \in 1 .. size
               PROVE  pick(i) \in S /\ Rank(S, R, pick(i)) = i - 1
    OBVIOUS
  <2>1. i - 1 \in 0 .. (Cardinality(S) - 1)
    BY <1>1
  <2>2. \E r \in S : Rank(S, R, r) = i - 1
    BY <2>1, RankParts
  <2>3. \E r \in S : Rank(S, R, r) + 1 = i
    BY <2>2
  <2>4. pick(i) \in S /\ Rank(S, R, pick(i)) + 1 = i
    BY <2>3
  <2>5. Rank(S, R, pick(i)) \in Int
    BY <2>4, RankParts
  <2> QED BY <2>4, <2>5
<1>3. s = [i \in 1 .. size |-> pick(i)]
  BY DEF Heads
<1>4. s \in Seq(S) /\ Len(s) = size /\ \A i \in 1 .. size : s[i] = pick(i)
  <2> HIDE DEF pick, size, s
  <2>1. s \in [1 .. size -> S]
    BY <1>2, <1>3
  <2>2. s \in Seq(S) /\ Len(s) = size
    BY <2>1, <1>1
  <2> QED BY <1>3, <2>2
<1>5. \A i, j \in 1 .. size : i < j => <<s[i], s[j]>> \in R
  <2> SUFFICES ASSUME NEW i \in 1 .. size, NEW j \in 1 .. size, i < j
               PROVE  <<s[i], s[j]>> \in R
    OBVIOUS
  <2>1. s[i] \in S /\ s[j] \in S /\ Rank(S, R, s[i]) = i - 1 /\ Rank(S, R, s[j]) = j - 1
    BY <1>2, <1>4
  <2>2. s[i] # s[j] /\ ~(Rank(S, R, s[j]) < Rank(S, R, s[i]))
    BY <2>1, <1>1
  <2> QED BY <2>1, <2>2, RankOrder
<1>6. \A r \in S : (\E i \in 1 .. size : s[i] = r)
                     \/ (size = n /\ \A i \in 1 .. size : <<s[i], r>> \in R)
  <2> SUFFICES ASSUME NEW r \in S, ~ \E i \in 1 .. size : s[i] = r
               PROVE  size = n /\ \A i \in 1 .. size : <<s[i], r>> \in R
    OBVIOUS
  <2>1. PICK k \in 0 .. (Cardinality(S) - 1) : Rank(S, R, r) = k
    BY RankParts
  <2>2. ASSUME k + 1 <= size PROVE FALSE
    <3>1. k + 1 \in 1 .. size
      BY <2>2, <1>1
    <3>2. s[k + 1] \in S /\ Rank(S, R, s[k + 1]) = k
      BY <3>1, <1>2, <1>4
    <3>3. s[k + 1] = r
      BY <3>2, <2>1, RankParts
    <3> QED BY <3>1, <3>3
  <2>3. size = n /\ size <= k
    BY <2>1, <2>2, <1>1
  <2>4. ASSUME NEW i \in 1 .. size PROVE <<s[i], r>> \in R
    <3>1. s[i] \in S /\ Rank(S, R, s[i]) = i - 1
      BY <1>2, <1>4
    <3>2. s[i] # r /\ ~(k < i - 1)
      BY <2>3, <2>1, <1>1
    <3> QED BY <3>1, <3>2, <2>1, RankOrder
  <2> QED BY <2>3, <2>4
<1> HIDE DEF s, size, pick
<1>7. HeadOf(s, S, R, n)
  BY <1>1, <1>4, <1>5, <1>6 DEF HeadOf
<1> QED BY <1>7 DEF s

-----------------------------------------------------------------------------
(* The queries *)

\* rows that have a key each
Keyed(S) ==
    /\ IsFiniteSet(S)
    /\ \A a \in S : a.at \in Int /\ a.id \in Int
    /\ \A a, b \in S : a.id = b.id => a = b

\* the order of a list: the newest first, or the oldest
Ahead(down, a, b) == IF down THEN Newer(a, b) ELSE Newer(b, a)
Order(down, S) == {p \in S \X S : Ahead(down, p[1], p[2])}

\* s holds the first n of S
FirstOf(s, S, down, n) ==
    /\ s \in Seq(S) /\ Len(s) <= n
    /\ \A i, j \in 1 .. Len(s) : i < j => Ahead(down, s[i], s[j])
    /\ \A r \in S : (\E i \in 1 .. Len(s) : s[i] = r)
                      \/ (Len(s) = n /\ \A i \in 1 .. Len(s) : Ahead(down, s[i], r))

LEMMA KeyedOrder ==
    ASSUME NEW S, Keyed(S), NEW down \in BOOLEAN
    PROVE  StrictOrder(S, Order(down, S))
<1> DEFINE R == Order(down, S)
<1>1. \A x, y \in S : <<x, y>> \in R <=> Ahead(down, x, y)
  BY DEF Order
<1>2. \A x \in S : <<x, x>> \notin R
  <2> SUFFICES ASSUME NEW x \in S PROVE ~Ahead(down, x, x)
    BY <1>1
  <2> x.at \in Int /\ x.id \in Int
    BY DEF Keyed
  <2> QED BY DEF Ahead, Newer
<1>3. \A x, y \in S : x # y => <<x, y>> \in R \/ <<y, x>> \in R
  <2> SUFFICES ASSUME NEW x \in S, NEW y \in S, x # y
               PROVE  Ahead(down, x, y) \/ Ahead(down, y, x)
    BY <1>1
  <2>1. x.at \in Int /\ x.id \in Int /\ y.at \in Int /\ y.id \in Int /\ x.id # y.id
    BY DEF Keyed
  <2>2. Newer(x, y) \/ Newer(y, x)
    BY <2>1 DEF Newer
  <2> QED BY <2>2 DEF Ahead
<1>4. \A x, y, z \in S : <<x, y>> \in R /\ <<y, z>> \in R => <<x, z>> \in R
  <2> SUFFICES ASSUME NEW x \in S, NEW y \in S, NEW z \in S, Ahead(down, x, y), Ahead(down, y, z)
               PROVE  Ahead(down, x, z)
    BY <1>1
  <2>1. x.at \in Int /\ x.id \in Int /\ y.at \in Int /\ y.id \in Int /\ z.at \in Int /\ z.id \in Int
    BY DEF Keyed
  <2>2. CASE down
    <3>1. Newer(x, y) /\ Newer(y, z)
      BY <2>2 DEF Ahead
    <3>2. Newer(x, z)
      BY <2>1, <3>1 DEF Newer
    <3> QED BY <2>2, <3>2 DEF Ahead
  <2>3. CASE ~down
    <3>1. Newer(y, x) /\ Newer(z, y)
      BY <2>3 DEF Ahead
    <3>2. Newer(z, x)
      BY <2>1, <3>1 DEF Newer
    <3> QED BY <2>3, <3>2 DEF Ahead
  <2> QED BY <2>2, <2>3
<1> QED BY <1>2, <1>3, <1>4 DEF StrictOrder

LEMMA HeadIsFirst ==
    ASSUME NEW S, Keyed(S), NEW down \in BOOLEAN, NEW n \in Nat
    PROVE  FirstOf(Heads(S, Order(down, S), n), S, down, n)
<1> DEFINE s == Heads(S, Order(down, S), n)
<1>1. HeadOf(s, S, Order(down, S), n)
  BY KeyedOrder, HeadsParts DEF Keyed
<1>2. s \in Seq(S) /\ Len(s) \in Nat /\ \A i \in 1 .. Len(s) : s[i] \in S
  BY <1>1 DEF HeadOf
<1> HIDE DEF s
<1>3. \A x, y \in S : <<x, y>> \in Order(down, S) => Ahead(down, x, y)
  BY DEF Order
<1>4. FirstOf(s, S, down, n)
  BY <1>1, <1>2, <1>3 DEF HeadOf, FirstOf
<1> QED BY <1>4 DEF s

\* order_by(at.desc(), id.desc()).limit(n)
LEMMA NewestParts ==
    ASSUME NEW S, Keyed(S), NEW n \in Nat
    PROVE  FirstOf(Newest(S, n), S, TRUE, n)
<1>1. \A r \in S : {q \in S : Newer(q, r)} = {q \in S : <<q, r>> \in Order(TRUE, S)}
  BY DEF Order, Ahead
<1>2. \A r \in S : Cardinality({q \in S : Newer(q, r)}) = Rank(S, Order(TRUE, S), r)
  BY <1>1 DEF Rank
<1> DEFINE size == IF Cardinality(S) < n THEN Cardinality(S) ELSE n
           row(i) == CHOOSE r \in S : Cardinality({q \in S : Newer(q, r)}) + 1 = i
           head(i) == CHOOSE r \in S : Rank(S, Order(TRUE, S), r) + 1 = i
<1>3. \A i : row(i) = head(i)
  BY <1>2
<1>4. Newest(S, n) = [i \in 1 .. size |-> row(i)]
  BY DEF Newest
<1>5. Heads(S, Order(TRUE, S), n) = [i \in 1 .. size |-> head(i)]
  BY DEF Heads
<1>6. [i \in 1 .. size |-> row(i)] = [i \in 1 .. size |-> head(i)]
  <2> HIDE DEF row, head, size
  <2> QED BY <1>3
<1>7. Newest(S, n) = Heads(S, Order(TRUE, S), n)
  BY <1>4, <1>5, <1>6
<1> QED BY <1>7, HeadIsFirst

\* order_by(at, id).limit(n)
LEMMA OldestParts ==
    ASSUME NEW S, Keyed(S), NEW n \in Nat
    PROVE  FirstOf(Oldest(S, n), S, FALSE, n)
<1>1. \A r \in S : {q \in S : Newer(r, q)} = {q \in S : <<q, r>> \in Order(FALSE, S)}
  BY DEF Order, Ahead
<1>2. \A r \in S : Cardinality({q \in S : Newer(r, q)}) = Rank(S, Order(FALSE, S), r)
  BY <1>1 DEF Rank
<1> DEFINE size == IF Cardinality(S) < n THEN Cardinality(S) ELSE n
           row(i) == CHOOSE r \in S : Cardinality({q \in S : Newer(r, q)}) + 1 = i
           head(i) == CHOOSE r \in S : Rank(S, Order(FALSE, S), r) + 1 = i
<1>3. \A i : row(i) = head(i)
  BY <1>2
<1>4. Oldest(S, n) = [i \in 1 .. size |-> row(i)]
  BY DEF Oldest
<1>5. Heads(S, Order(FALSE, S), n) = [i \in 1 .. size |-> head(i)]
  BY DEF Heads
<1>6. [i \in 1 .. size |-> row(i)] = [i \in 1 .. size |-> head(i)]
  <2> HIDE DEF row, head, size
  <2> QED BY <1>3
<1>7. Oldest(S, n) = Heads(S, Order(FALSE, S), n)
  BY <1>4, <1>5, <1>6
<1> QED BY <1>7, HeadIsFirst

\* a page of the rows of H: in order, up to its cursor, with nothing left out before it
PageReads(p, H, down) ==
    /\ Len(p.items) \in Nat /\ DOMAIN p.items = 1 .. Len(p.items)
    /\ \A i \in 1 .. Len(p.items) : \E r \in H : Cursor(p.items[i]) = Cursor(r)
    /\ \A i, j \in 1 .. Len(p.items) : i < j => Ahead(down, p.items[i], p.items[j])
    /\ p.next = NoCursor \/ (Len(p.items) > 0 /\ p.next = Cursor(p.items[Len(p.items)]))
    /\ \A r \in H : (\E i \in 1 .. Len(p.items) : p.items[i].id = r.id)
                      \/ (p.next # NoCursor /\ Ahead(down, p.next, r))

LEMMA CursorParts ==
    ASSUME NEW x
    PROVE  /\ Cursor(x).at = x.at /\ Cursor(x).id = x.id
           /\ x.at \in Nat => Cursor(x) # NoCursor
<1>1. Cursor(x).at = x.at /\ Cursor(x).id = x.id
  BY DEF Cursor
<1>2. NoCursor.at = 0 - 1
  BY DEF NoCursor
<1>3. ASSUME x.at \in Nat PROVE Cursor(x) # NoCursor
  BY <1>1, <1>2, <1>3
<1> QED BY <1>1, <1>3

LEMMA SameKeys ==
    ASSUME NEW a, NEW b, Cursor(a) = Cursor(b)
    PROVE  a.at = b.at /\ a.id = b.id
BY CursorParts

LEMMA AheadByKeys ==
    ASSUME NEW a, NEW b, NEW c, NEW d, NEW down \in BOOLEAN,
           a.at = c.at, a.id = c.id, b.at = d.at, b.id = d.id
    PROVE  Ahead(down, a, b) <=> Ahead(down, c, d)
BY DEF Ahead, Newer

LEMMA NewerGoesOn ==
    ASSUME NEW a, NEW b, NEW c, {a.at, b.at, c.at, a.id, b.id, c.id} \subseteq Int,
           Newer(a, b), Newer(b, c)
    PROVE  Newer(a, c)
BY DEF Newer

LEMMA PageIs ==
    ASSUME NEW items, NEW key
    PROVE  /\ Page(items, key).items = items
           /\ Page(items, key).next = key
           /\ Page(items, key).more = (key # NoCursor)
BY DEF Page

\* _page cuts what was read at the limit
LEMMA CutParts ==
    ASSUME NEW T, NEW s \in Seq(T), NEW n \in Nat \ {0}
    PROVE  LET p == PageOf(s, n)
           IN  /\ p.items \in Seq(T)
               /\ Len(p.items) = IF Len(s) < n THEN Len(s) ELSE n
               /\ \A i \in 1 .. Len(p.items) : i \in 1 .. Len(s) /\ p.items[i] = s[i]
               /\ p.next = IF Len(s) > n THEN Cursor(s[n]) ELSE NoCursor
<1> DEFINE p == PageOf(s, n)
           size == IF Len(s) < n THEN Len(s) ELSE n
<1>1. Len(s) \in Nat /\ size \in Nat /\ size <= Len(s) /\ 1 \in Int /\ size \in Int
  BY LenProperties
<1>2. /\ p.items = SubSeq(s, 1, size)
      /\ p.next = IF Len(s) > n THEN Cursor(s[n]) ELSE NoCursor
  <2> DEFINE items == SubSeq(s, 1, size)
             key == IF Len(s) > n THEN Cursor(s[n]) ELSE NoCursor
  <2>1. p = Page(items, key)
    BY DEF PageOf
  <2> HIDE DEF p, items, key
  <2>2. p.items = items /\ p.next = key
    BY <2>1, PageIs
  <2> QED BY <2>2 DEF items, key
<1> HIDE DEF p, size
<1>3. \A i \in 1 .. size : s[i] \in T
  BY <1>1, ElementOfSeq
<1>4. /\ SubSeq(s, 1, size) \in Seq(T)
      /\ Len(SubSeq(s, 1, size)) = size
      /\ \A i \in 1 .. size : SubSeq(s, 1, size)[i] = s[i]
  BY <1>1, <1>3
<1>5. \A i \in 1 .. size : i \in 1 .. Len(s)
  BY <1>1
<1> QED BY <1>2, <1>4, <1>5 DEF p, size

LEMMA PageOfParts ==
    ASSUME NEW H, Keyed(H), \A r \in H : r.at \in Nat, NEW down \in BOOLEAN,
           NEW n \in Nat \ {0}, NEW s, FirstOf(s, H, down, n + 1)
    PROVE  PageReads(PageOf(s, n), H, down)
<1> DEFINE p == PageOf(s, n)
<1>1. s \in Seq(H) /\ Len(s) \in Nat /\ Len(s) <= n + 1 /\ \A i \in 1 .. Len(s) : s[i] \in H
  BY DEF FirstOf
<1>2. /\ p.items \in Seq(H)
      /\ Len(p.items) = IF Len(s) < n THEN Len(s) ELSE n
      /\ \A i \in 1 .. Len(p.items) : i \in 1 .. Len(s) /\ p.items[i] = s[i]
      /\ p.next = IF Len(s) > n THEN Cursor(s[n]) ELSE NoCursor
  BY <1>1, CutParts
<1> HIDE DEF p
<1>3. Len(p.items) \in Nat /\ DOMAIN p.items = 1 .. Len(p.items)
  BY <1>2
<1>4. \A i \in 1 .. Len(p.items) : \E r \in H : Cursor(p.items[i]) = Cursor(r)
  BY <1>1, <1>2
<1>5. \A i, j \in 1 .. Len(p.items) : i < j => Ahead(down, p.items[i], p.items[j])
  BY <1>2 DEF FirstOf
<1>6. p.next = NoCursor \/ (Len(p.items) > 0 /\ p.next = Cursor(p.items[Len(p.items)]))
  <2>1. CASE Len(s) > n
    <3>1. Len(p.items) = n /\ p.next = Cursor(s[n]) /\ n \in 1 .. Len(p.items)
      BY <2>1, <1>1, <1>2
    <3> QED BY <3>1, <1>2
  <2>2. CASE ~(Len(s) > n)
    BY <2>2, <1>2
  <2> QED BY <2>1, <2>2
<1>7. ASSUME NEW r \in H
      PROVE  (\E i \in 1 .. Len(p.items) : p.items[i].id = r.id)
               \/ (p.next # NoCursor /\ Ahead(down, p.next, r))
  <2>1. CASE \E i \in 1 .. Len(s) : s[i] = r
    <3>1. PICK i \in 1 .. Len(s) : s[i] = r
      BY <2>1
    <3>2. CASE i \in 1 .. Len(p.items)
      BY <3>1, <3>2, <1>2
    <3>3. CASE i \notin 1 .. Len(p.items)
      <4>1. n < i /\ Len(s) > n /\ n \in 1 .. Len(s) /\ p.next = Cursor(s[n])
        BY <3>3, <1>1, <1>2
      <4>2. Ahead(down, s[n], s[i]) /\ s[n] \in H
        BY <4>1, <1>1 DEF FirstOf
      <4>3. p.next.at = s[n].at /\ p.next.id = s[n].id /\ p.next # NoCursor
        BY <4>1, <4>2, CursorParts
      <4> QED BY <4>2, <4>3, <3>1, AheadByKeys
    <3> QED BY <3>2, <3>3
  <2>2. CASE Len(s) = n + 1 /\ \A i \in 1 .. Len(s) : Ahead(down, s[i], r)
    <3>1. Len(s) > n /\ n \in 1 .. Len(s) /\ p.next = Cursor(s[n])
      BY <2>2, <1>1, <1>2
    <3>2. Ahead(down, s[n], r) /\ s[n] \in H
      BY <3>1, <2>2, <1>1
    <3>3. p.next.at = s[n].at /\ p.next.id = s[n].id /\ p.next # NoCursor
      BY <3>1, <3>2, CursorParts
    <3> QED BY <3>2, <3>3, AheadByKeys
  <2> QED BY <2>1, <2>2 DEF FirstOf
<1>8. PageReads(p, H, down)
  BY <1>3, <1>4, <1>5, <1>6, <1>7 DEF PageReads
<1> QED BY <1>8 DEF p

\* a page that is as full as it may be has a cursor, and nothing is looked at behind it
LEMMA FullPageParts ==
    ASSUME NEW H, Keyed(H), \A r \in H : r.at \in Nat, NEW down \in BOOLEAN,
           NEW n \in Nat \ {0}, NEW s, FirstOf(s, H, down, n)
    PROVE  PageReads(Page(s, IF Len(s) >= n THEN Cursor(s[Len(s)]) ELSE NoCursor), H, down)
<1> DEFINE key == IF Len(s) >= n THEN Cursor(s[Len(s)]) ELSE NoCursor
           p == Page(s, key)
<1>1. s \in Seq(H) /\ Len(s) \in Nat /\ Len(s) <= n /\ \A i \in 1 .. Len(s) : s[i] \in H
  BY DEF FirstOf
<1>2. p.items = s /\ p.next = key
  BY PageIs
<1>3. Len(p.items) \in Nat /\ DOMAIN p.items = 1 .. Len(p.items)
  BY <1>1, <1>2
<1>4. \A i \in 1 .. Len(p.items) : \E r \in H : Cursor(p.items[i]) = Cursor(r)
  BY <1>1, <1>2
<1>5. \A i, j \in 1 .. Len(p.items) : i < j => Ahead(down, p.items[i], p.items[j])
  BY <1>2 DEF FirstOf
<1>6. p.next = NoCursor \/ (Len(p.items) > 0 /\ p.next = Cursor(p.items[Len(p.items)]))
  BY <1>1, <1>2
<1>7. ASSUME NEW r \in H
      PROVE  (\E i \in 1 .. Len(p.items) : p.items[i].id = r.id)
               \/ (p.next # NoCursor /\ Ahead(down, p.next, r))
  <2>1. CASE \E i \in 1 .. Len(s) : s[i] = r
    BY <2>1, <1>2
  <2>2. CASE Len(s) = n /\ \A i \in 1 .. Len(s) : Ahead(down, s[i], r)
    <3>1. Len(s) >= n /\ n \in 1 .. Len(s) /\ p.next = Cursor(s[n])
      BY <2>2, <1>1, <1>2
    <3>2. Ahead(down, s[n], r) /\ s[n] \in H
      BY <3>1, <2>2, <1>1
    <3>3. p.next.at = s[n].at /\ p.next.id = s[n].id /\ p.next # NoCursor
      BY <3>1, <3>2, CursorParts
    <3> QED BY <3>2, <3>3, AheadByKeys
  <2> QED BY <2>1, <2>2 DEF FirstOf
<1> HIDE DEF p
<1>8. PageReads(p, H, down)
  BY <1>3, <1>4, <1>5, <1>6, <1>7 DEF PageReads
<1> QED BY <1>8 DEF p

-----------------------------------------------------------------------------
(* The merge of the two sides *)

LEMMA LengthIs ==
    ASSUME NEW T, NEW s \in Seq(T), NEW n \in Nat, DOMAIN s = 1 .. n
    PROVE  Len(s) = n
<1>1. Len(s) \in Nat /\ DOMAIN s = 1 .. Len(s)
  BY LenProperties
<1>2. \A k \in Nat : k \in 1 .. n <=> k \in 1 .. Len(s)
  BY <1>1
<1>3. n > 0 => n <= Len(s)
  BY <1>1, <1>2
<1>4. Len(s) > 0 => Len(s) <= n
  BY <1>1, <1>2
<1> QED BY <1>1, <1>3, <1>4

LEMMA LineOf ==
    ASSUME NEW T, NEW n \in Nat, NEW s \in [1 .. n -> T]
    PROVE  s \in Seq(T) /\ Len(s) = n
BY LengthIs

\* the line s of what two sides hold, in order
LineOfBoth(T, a, b, s) ==
    /\ s \in Seq(T) /\ Len(s) = Len(a) + Len(b)
    /\ \A i, j \in 1 .. Len(s) : i < j => Newer(s[i], s[j])
    /\ \A k \in 1 .. Len(s) :
         (\E i \in 1 .. Len(a) : s[k] = a[i]) \/ (\E i \in 1 .. Len(b) : s[k] = b[i])
    /\ \A i \in 1 .. Len(a) : \E k \in 1 .. Len(s) : s[k] = a[i]
    /\ \A i \in 1 .. Len(b) : \E k \in 1 .. Len(s) : s[k] = b[i]

KeysApart(s) == \A i, j \in 1 .. Len(s) : s[i].id = s[j].id => i = j

\* Items of two sides with a key each are merged to one line, in order, and none is lost.
LEMMA MergedParts ==
    ASSUME NEW T, NEW a \in Seq(T), NEW b \in Seq(T), \A x \in T : x.at \in Int /\ x.id \in Int,
           KeysApart(a \o b)
    PROVE  LineOfBoth(T, a, b, Merged(a, b))
<1> DEFINE all == a \o b
           D == 1 .. Len(all)
           R == {p \in D \X D : Newer(all[p[1]], all[p[2]])}
           h == Heads(D, R, Len(all))
           s == Merged(a, b)
<1>1. all \in Seq(T) /\ Len(all) = Len(a) + Len(b) /\ Len(all) \in Nat /\ Len(a) \in Nat
      /\ Len(b) \in Nat /\ DOMAIN all = D
  BY ConcatProperties, LenProperties
<1>22. \A i \in D : all[i] = IF i <= Len(a) THEN a[i] ELSE b[i - Len(a)]
  BY ConcatProperties
<1>2. \A i \in D : all[i] \in T /\ all[i].at \in Int /\ all[i].id \in Int
  BY <1>1, ElementOfSeq
<1>3. IsFiniteSet(D) /\ Cardinality(D) = Len(all)
  BY <1>1, FS_Interval
<1>4. \A i, j \in D : <<i, j>> \in R <=> Newer(all[i], all[j])
  OBVIOUS
<1>5. StrictOrder(D, R)
  <2>1. \A x \in D : <<x, x>> \notin R
    BY <1>2, <1>4 DEF Newer
  <2>2. \A x, y \in D : x # y => <<x, y>> \in R \/ <<y, x>> \in R
    <3> SUFFICES ASSUME NEW x \in D, NEW y \in D, x # y
                 PROVE  Newer(all[x], all[y]) \/ Newer(all[y], all[x])
      BY <1>4
    <3>1. all[x].id # all[y].id
      BY DEF KeysApart
    <3>2. all[x].at \in Int /\ all[x].id \in Int /\ all[y].at \in Int /\ all[y].id \in Int
      BY <1>2
    <3> HIDE DEF all, R, D
    <3> QED BY <3>1, <3>2 DEF Newer
  <2>3. \A x, y, z \in D : <<x, y>> \in R /\ <<y, z>> \in R => <<x, z>> \in R
    <3> SUFFICES ASSUME NEW x \in D, NEW y \in D, NEW z \in D,
                        Newer(all[x], all[y]), Newer(all[y], all[z])
                 PROVE  Newer(all[x], all[z])
      BY <1>4
    <3>1. /\ all[x].at \in Int /\ all[x].id \in Int /\ all[y].at \in Int /\ all[y].id \in Int
          /\ all[z].at \in Int /\ all[z].id \in Int
      BY <1>2
    <3> HIDE DEF all, R, D
    <3> QED BY <3>1 DEF Newer
  <2> QED BY <2>1, <2>2, <2>3 DEF StrictOrder
<1>6. HeadOf(h, D, R, Len(all))
  BY <1>1, <1>3, <1>5, HeadsParts
<1>7. \A i \in D : Cardinality({j \in DOMAIN all : Newer(all[j], all[i])
                                   \/ (j < i /\ ~Newer(all[i], all[j]))}) = Rank(D, R, i)
  <2> SUFFICES ASSUME NEW i \in D
               PROVE  {j \in DOMAIN all : Newer(all[j], all[i]) \/ (j < i /\ ~Newer(all[i], all[j]))}
                        = {j \in D : <<j, i>> \in R}
    BY DEF Rank
  <2>1. \A j \in D : (Newer(all[j], all[i]) \/ (j < i /\ ~Newer(all[i], all[j])))
                       <=> <<j, i>> \in R
    <3> SUFFICES ASSUME NEW j \in D
                 PROVE  (j < i /\ ~Newer(all[i], all[j])) => Newer(all[j], all[i])
      BY <1>4
    <3>1. CASE j = i
      BY <3>1, <1>1
    <3>2. CASE j # i
      BY <3>2, <1>4, <1>5 DEF StrictOrder
    <3> QED BY <3>1, <3>2
  <2> QED BY <2>1, <1>1
<1> DEFINE pick(k) == CHOOSE i \in DOMAIN all :
               Cardinality({j \in DOMAIN all : Newer(all[j], all[i])
                                \/ (j < i /\ ~Newer(all[i], all[j]))}) + 1 = k
           head(k) == CHOOSE i \in D : Rank(D, R, i) + 1 = k
<1>8. \A k : pick(k) = head(k)
  BY <1>1, <1>7
<1>9. s = [k \in D |-> all[pick(k)]]
  BY <1>1 DEF Merged
<1>10. h = [k \in D |-> head(k)]
  BY <1>1, <1>3 DEF Heads
<1>11. h \in Seq(D) /\ Len(h) = Len(all) /\ \A k \in D : h[k] \in D /\ h[k] = head(k)
  <2>1. h \in Seq(D)
    BY <1>6 DEF HeadOf
  <2>2. DOMAIN h = D
    BY <1>10
  <2>3. Len(h) = Len(all)
    <3> HIDE DEF h, all
    <3> QED BY <2>1, <2>2, <1>1, LengthIs
  <2> QED BY <2>1, <2>3, <1>10, ElementOfSeq
<1> HIDE DEF h, pick, head, R, s, all
<1>12. s = [k \in D |-> all[h[k]]]
  BY <1>8, <1>9, <1>11
<1>13. \A k \in D : s[k] = all[h[k]] /\ s[k] \in T
  BY <1>12, <1>11, <1>2
<1>14. s \in Seq(T) /\ Len(s) = Len(all)
  <2>1. s \in [1 .. Len(all) -> T]
    BY <1>12, <1>13
  <2> QED BY <2>1, <1>1, LineOf
<1>15. \A i, j \in 1 .. Len(s) : i < j => Newer(s[i], s[j])
  <2> SUFFICES ASSUME NEW i \in D, NEW j \in D, i < j PROVE Newer(s[i], s[j])
    BY <1>14
  <2>1. <<h[i], h[j]>> \in R
    BY <1>6, <1>11 DEF HeadOf
  <2> QED BY <2>1, <1>4, <1>11, <1>13
<1>16. \A i \in D : i \in 1 .. Len(a) => all[i] = a[i]
  BY <1>22
<1>17. \A i \in D : i \notin 1 .. Len(a) => i - Len(a) \in 1 .. Len(b) /\ all[i] = b[i - Len(a)]
  <2> SUFFICES ASSUME NEW i \in D, i \notin 1 .. Len(a)
               PROVE  i - Len(a) \in 1 .. Len(b) /\ all[i] = b[i - Len(a)]
    OBVIOUS
  <2>1. i > Len(a) /\ i <= Len(a) + Len(b) /\ i \in Nat
    BY <1>1
  <2> QED BY <2>1, <1>1, <1>22
<1>18. \A k \in 1 .. Len(s) :
         (\E i \in 1 .. Len(a) : s[k] = a[i]) \/ (\E i \in 1 .. Len(b) : s[k] = b[i])
  <2> SUFFICES ASSUME NEW k \in D
               PROVE  (\E i \in 1 .. Len(a) : s[k] = a[i]) \/ (\E i \in 1 .. Len(b) : s[k] = b[i])
    BY <1>14
  <2>1. h[k] \in D /\ s[k] = all[h[k]]
    BY <1>11, <1>13
  <2> QED BY <2>1, <1>16, <1>17
<1>19. \A i \in D : \E k \in 1 .. Len(s) : s[k] = all[i]
  <2> SUFFICES ASSUME NEW i \in D PROVE \E k \in D : s[k] = all[i]
    BY <1>14
  <2>1. \E k \in D : h[k] = i
    <3>1. (\E k \in 1 .. Len(h) : h[k] = i) \/ (\A k \in 1 .. Len(h) : <<h[k], i>> \in R)
      BY <1>6 DEF HeadOf
    <3>2. ASSUME \A k \in 1 .. Len(h) : <<h[k], i>> \in R PROVE \E k \in D : h[k] = i
      <4>1. \A k \in D : Rank(D, R, h[k]) = k - 1
        <5> SUFFICES ASSUME NEW k \in D PROVE Rank(D, R, h[k]) = k - 1
          OBVIOUS
        <5>1. k - 1 \in 0 .. (Cardinality(D) - 1)
          BY <1>1, <1>3
        <5>2. \E x \in D : Rank(D, R, x) = k - 1
          BY <5>1, <1>3, <1>5, RankParts
        <5>3. \E x \in D : Rank(D, R, x) + 1 = k
          BY <5>2
        <5>4. Rank(D, R, head(k)) + 1 = k
          BY <5>3 DEF head
        <5>5. Rank(D, R, h[k]) \in Int
          BY <1>3, <1>5, <1>11, RankParts
        <5>6. Rank(D, R, h[k]) + 1 = k
          BY <5>4, <1>11
        <5> QED BY <5>5, <5>6
      <4>2. PICK r \in 0 .. (Cardinality(D) - 1) : Rank(D, R, i) = r
        BY <1>3, <1>5, RankParts
      <4>3. r + 1 \in D
        BY <1>1, <1>3
      <4>4. Rank(D, R, h[r + 1]) = Rank(D, R, i)
        BY <4>1, <4>2, <4>3
      <4>5. h[r + 1] = i
        <5>1. h[r + 1] \in D
          BY <4>3, <1>11
        <5> QED BY <5>1, <4>4, <1>3, <1>5, RankParts
      <4> QED BY <4>3, <4>5
    <3> QED BY <3>1, <3>2, <1>11
  <2> QED BY <2>1, <1>13
<1>20. \A i \in 1 .. Len(a) : \E k \in 1 .. Len(s) : s[k] = a[i]
  <2> SUFFICES ASSUME NEW i \in 1 .. Len(a) PROVE \E k \in 1 .. Len(s) : s[k] = a[i]
    OBVIOUS
  <2>1. i \in D
    BY <1>1
  <2> QED BY <2>1, <1>16, <1>19
<1>21. \A i \in 1 .. Len(b) : \E k \in 1 .. Len(s) : s[k] = b[i]
  <2> SUFFICES ASSUME NEW i \in 1 .. Len(b) PROVE \E k \in 1 .. Len(s) : s[k] = b[i]
    OBVIOUS
  <2>1. Len(a) + i \in D /\ Len(a) + i \notin 1 .. Len(a) /\ (Len(a) + i) - Len(a) = i
    BY <1>1
  <2> QED BY <2>1, <1>17, <1>19
<1>23. LineOfBoth(T, a, b, s)
  BY <1>1, <1>14, <1>15, <1>18, <1>20, <1>21 DEF LineOfBoth
<1> QED BY <1>23 DEF s

-----------------------------------------------------------------------------
(* What holds of a list and of what has been read of it *)

Down(l) == l \in Descending
Even(id) == id % 2 = 0

\* A line of things, whatever they are.
Line(s) == Len(s) \in Nat /\ s \in Seq({s[i] : i \in 1 .. Len(s)})

IsRow(l, r) ==
    /\ r = [kind |-> r.kind, id |-> r.id, at |-> r.at, tag |-> r.tag, service |-> r.service]
    /\ r.id \in Ids /\ r.at \in Nat
    /\ l = "documents" => r.at = r.id
    /\ l = "audit" =>
         \/ Even(r.id) /\ r.kind = "run" /\ r.tag \in {"queued", "running", "failed"}
         \/ ~Even(r.id) /\ r.kind = "action"
              /\ r.tag \in {<<"action_failed", "failed">>, <<"action_failed", "expired">>}

Rows(l, T) == IsFiniteSet(T) /\ (\A r \in T : IsRow(l, r)) /\ \A r, q \in T : r.id = q.id => r = q

\* Listed and what is after a cursor, of any list
ListedIn(l, w, T) == {r \in T :
    CASE l = "audit" -> Matches(r, w)
      [] l = "messages" -> r.tag # "archived"
      [] OTHER -> w \in {None, r.tag}}
Beyond(l, c, r) == c = NoCursor \/ Ahead(Down(l), c, r)
HitRows(l, w, T, c) == {r \in ListedIn(l, w, T) : Beyond(l, c, r)}

\* Something that was read of a row: the row is still there, and where it was; the time of
\* a session only grows unless it slipped.
ItemFits(l, T, S, x) ==
    /\ x.at \in Nat /\ x.id \in Ids
    /\ l = "documents" => x.at = x.id
    /\ l # "documents" => \E r \in T : r.id = x.id
    /\ x.id \notin S => \A r \in T : r.id = x.id => IF l = "sessions" THEN r.at >= x.at ELSE r.at = x.at

Spots(P) == UNION {{<<p, i>> : i \in 1 .. Len(P[p].items)} : p \in 1 .. Len(P)}
ItemAt(P, a) == P[a[1]].items[a[2]]

\* A row the pages have come past.
PassedBy(l, P, r) ==
    LET end == NextCursor(P)
    IN end = NoCursor \/ r.id = end.id \/ Ahead(Down(l), r, end)

\* Pages that were read one after the other.
Reading(l, w, T, S, P, since) ==
    /\ Line(P)
    /\ \A p \in 1 .. Len(P) :
         /\ Len(P[p].items) \in Nat /\ DOMAIN P[p].items = 1 .. Len(P[p].items)
         /\ P[p].next = NoCursor \/ (Len(P[p].items) > 0 /\ P[p].next = Cursor(P[p].items[Len(P[p].items)]))
         /\ p < Len(P) => P[p].next # NoCursor
    /\ \A a \in Spots(P) : ItemFits(l, T, S, ItemAt(P, a))
    /\ \A a, b \in Spots(P) : Above(a, b) =>
         /\ Ahead(Down(l), ItemAt(P, a), ItemAt(P, b))
         /\ ItemAt(P, a).id = ItemAt(P, b).id => ItemAt(P, a).id \in S
    /\ since \subseteq {r.id : r \in ListedIn(l, w, T)}
    /\ P # <<>> => \A r \in T : r.id \in since /\ PassedBy(l, P, r) => \E a \in Spots(P) : ItemAt(P, a).id = r.id

\* The Runs of an audit page whose events are not read yet.
SideReads(T, P, since, side) ==
    LET c == NextCursor(P)
    IN /\ Line(side) /\ Len(side) <= Limit + 1
       /\ \A i \in 1 .. Len(side) : ItemFits("audit", T, {}, side[i]) /\ Even(side[i].id) /\ Beyond("audit", c, side[i])
       /\ \A i, j \in 1 .. Len(side) : i < j => Newer(side[i], side[j])
       /\ \A r \in T : r.kind = "run" /\ r.id \in since /\ Beyond("audit", c, r) =>
            (\E i \in 1 .. Len(side) : side[i].id = r.id)
              \/ (Len(side) = Limit + 1 /\ \A i \in 1 .. Len(side) : Newer(side[i], r))

IsPages(c) == c = [on |-> c.on, pages |-> c.pages, since |-> c.since]
IsQuestion(q) ==
    q = [how |-> q.how, pages |-> q.pages, goal |-> q.goal, since |-> q.since, half |-> q.half, side |-> q.side]
GoesOn(P) == P # <<>> => NextCursor(P) # NoCursor

TakenInv ==
    /\ list \notin Timed => taken = {}
    /\ \A t \in taken :
         /\ t.id \in Ids /\ t.at \in Nat
         /\ t.what = "insert" => t.id \notin Present
         /\ t.what # "insert" => list = "sessions" /\ t.id \in Present
         /\ t.what = "insert" => \A u \in taken : u.id = t.id => u = t

ListInv ==
    /\ list \in Lists /\ want \in Filters(list) /\ parent \in BOOLEAN /\ clock \in Nat
    /\ Rows(list, table)
    /\ list = "documents" /\ ~parent => table = {}
    /\ TakenInv
    /\ list # "sessions" => slipped = {}

CacheInv ==
    /\ IsPages(cache) /\ Reading(list, want, table, slipped, cache.pages, cache.since)
    /\ cache.on => cache.pages # <<>>

AskInv ==
    /\ IsQuestion(asking) /\ Reading(list, want, table, slipped, asking.pages, asking.since)
    /\ GoesOn(asking.pages)
    /\ asking.half \in BOOLEAN
    /\ asking.half => list = "audit" /\ SideReads(table, asking.pages, asking.since, asking.side)

SweepInv ==
    /\ IsPages(sweep) /\ Reading(list, want, table, slipped, sweep.pages, sweep.since)
    /\ GoesOn(sweep.pages)
    /\ sweep.on => list # "audit"

ReadersInv == ListInv /\ CacheInv /\ AskInv /\ SweepInv

-----------------------------------------------------------------------------
(* Pages that are read one after the other *)

LEMMA AheadOrders ==
    ASSUME NEW a, NEW b, NEW c, NEW down \in BOOLEAN,
           a.at \in Int, a.id \in Int, b.at \in Int, b.id \in Int, c.at \in Int, c.id \in Int
    PROVE  /\ Ahead(down, a, b) /\ Ahead(down, b, c) => Ahead(down, a, c)
           /\ Ahead(down, a, b) => ~Ahead(down, b, a) /\ (a.id = b.id => a.at # b.at)
           /\ a.id # b.id => Ahead(down, a, b) \/ Ahead(down, b, a)
<1>1. CASE down
  BY <1>1 DEF Ahead, Newer
<1>2. CASE ~down
  BY <1>2 DEF Ahead, Newer
<1> QED BY <1>1, <1>2

LEMMA DownIsBoolean == \A l : Down(l) \in BOOLEAN
BY DEF Down

LEMMA NumbersAre == (\A n \in Ids : n \in Int) /\ (\A n \in Nat : n \in Int)
BY ListsAssumption

LEMMA KeysAreNumbers == \A l, r : IsRow(l, r) => r.at \in Int /\ r.id \in Int
BY ListsAssumption DEF IsRow

LEMMA LineOfSeq ==
    ASSUME NEW T, NEW s \in Seq(T)
    PROVE  Line(s)
<1>1. Len(s) \in Nat /\ s \in [1 .. Len(s) -> T]
  BY LenProperties
<1>2. s \in [1 .. Len(s) -> {s[i] : i \in 1 .. Len(s)}]
  BY <1>1
<1> QED BY <1>1, <1>2, LineOf DEF Line

LEMMA LineGrows ==
    ASSUME NEW P, Line(P), NEW x
    PROVE  /\ Line(Append(P, x)) /\ Len(Append(P, x)) = Len(P) + 1 /\ Append(P, x) # <<>>
           /\ \A i \in 1 .. Len(P) : Append(P, x)[i] = P[i]
           /\ Append(P, x)[Len(P) + 1] = x
<1> DEFINE T == {P[i] : i \in 1 .. Len(P)} \cup {x}
<1>1. P \in Seq(T)
  BY SeqMonotonic DEF Line
<1>2. /\ Append(P, x) \in Seq(T) /\ Len(Append(P, x)) = Len(P) + 1
      /\ \A i \in 1 .. Len(P) : Append(P, x)[i] = P[i]
      /\ Append(P, x)[Len(P) + 1] = x
  BY <1>1
<1>3. Append(P, x) # <<>>
  BY <1>1, <1>2
<1> QED BY <1>2, <1>3, LineOfSeq

LEMMA SpotsOf ==
    ASSUME NEW P
    PROVE  /\ \A p \in 1 .. Len(P) : \A i \in 1 .. Len(P[p].items) : <<p, i>> \in Spots(P)
           /\ \A a \in Spots(P) : /\ a = <<a[1], a[2]>> /\ a[1] \in 1 .. Len(P)
                                  /\ a[2] \in 1 .. Len(P[a[1]].items)
BY DEF Spots

\* The last cursor is the key of the last item, and every item is before it or its own.
LEMMA LastCursor ==
    ASSUME NEW l, NEW w, NEW T, NEW S, NEW P, NEW since,
           Reading(l, w, T, S, P, since), P # <<>>, NextCursor(P) # NoCursor
    PROVE  LET c == NextCursor(P)
           IN  /\ c.at \in Nat /\ c.id \in Ids
               /\ \E a \in Spots(P) : ItemAt(P, a).id = c.id
               /\ \A a \in Spots(P) : Ahead(Down(l), ItemAt(P, a), c)
                     \/ (ItemAt(P, a).id = c.id /\ ItemAt(P, a).at = c.at)
<1> DEFINE n == Len(P)
           c == NextCursor(P)
           k == Len(P[n].items)
<1>1. n \in Nat /\ n > 0 /\ c = P[n].next
  BY DEF Reading, Line, NextCursor
<1>2. n \in 1 .. n /\ k \in Nat /\ k > 0 /\ c = Cursor(P[n].items[k])
  BY <1>1 DEF Reading
<1>3. <<n, k>> \in Spots(P) /\ ItemAt(P, <<n, k>>) = P[n].items[k]
  <2>1. k \in 1 .. k
    BY <1>2
  <2>2. ItemAt(P, <<n, k>>) = P[n].items[k]
    BY DEF ItemAt
  <2> QED BY <1>2, <2>1, <2>2, SpotsOf
<1>4. ItemAt(P, <<n, k>>).at = c.at /\ ItemAt(P, <<n, k>>).id = c.id
  BY <1>2, <1>3, CursorParts
<1>5. ItemFits(l, T, S, ItemAt(P, <<n, k>>))
  BY <1>3 DEF Reading
<1>6. c.at \in Nat /\ c.id \in Ids
  BY <1>4, <1>5 DEF ItemFits
<1>7. ASSUME NEW a \in Spots(P)
      PROVE  Ahead(Down(l), ItemAt(P, a), c)
               \/ (ItemAt(P, a).id = c.id /\ ItemAt(P, a).at = c.at)
  <2>1. a = <<a[1], a[2]>> /\ a[1] \in 1 .. n /\ a[2] \in 1 .. Len(P[a[1]].items)
    BY SpotsOf
  <2>2. CASE a[1] = n /\ a[2] = k
    BY <2>1, <2>2, <1>4
  <2>3. CASE ~(a[1] = n /\ a[2] = k)
    <3>1. a[1] < n \/ (a[1] = n /\ a[2] < k)
      BY <2>1, <2>3, <1>1, <1>2
    <3>2. Above(a, <<n, k>>)
      BY <3>1 DEF Above
    <3>3. Ahead(Down(l), ItemAt(P, a), ItemAt(P, <<n, k>>))
      BY <3>2, <1>3 DEF Reading
    <3> QED BY <3>3, <1>4, AheadByKeys, DownIsBoolean
  <2> QED BY <2>2, <2>3
<1> QED BY <1>3, <1>4, <1>6, <1>7

\* What a query answers to a reader that has come to the cursor c.
PageFits(l, T, c, since, p) ==
    /\ Len(p.items) \in Nat /\ DOMAIN p.items = 1 .. Len(p.items)
    /\ \A i \in 1 .. Len(p.items) :
         /\ Beyond(l, c, p.items[i])
         /\ \E r \in T : r.id = p.items[i].id /\ r.at = p.items[i].at
    /\ \A i, j \in 1 .. Len(p.items) : i < j => Ahead(Down(l), p.items[i], p.items[j])
    /\ p.next = NoCursor \/ (Len(p.items) > 0 /\ p.next = Cursor(p.items[Len(p.items)]))
    /\ \A r \in T : r.id \in since /\ Beyond(l, c, r) =>
         (\E i \in 1 .. Len(p.items) : p.items[i].id = r.id)
           \/ (p.next # NoCursor /\ Ahead(Down(l), p.next, r))

LEMMA ItemOfRow ==
    ASSUME NEW l, NEW T, NEW S, Rows(l, T), NEW r \in T, NEW x, x.id = r.id, x.at = r.at
    PROVE  ItemFits(l, T, S, x) /\ x.at \in Int /\ x.id \in Int
<1>1. IsRow(l, r)
  BY DEF Rows
<1>2. r.at \in Nat /\ r.id \in Ids /\ (l = "documents" => r.at = r.id) /\ r.at \in Int /\ r.id \in Int
  BY <1>1, KeysAreNumbers DEF IsRow
<1>3. \A q \in T : q.id = x.id => q = r
  BY DEF Rows
<1> QED BY <1>2, <1>3 DEF ItemFits

\* Two items of one row are one, unless the row has slipped.
LEMMA SameRowSamePlace ==
    ASSUME NEW l \in Lists, NEW T, NEW S, Rows(l, T), NEW x, ItemFits(l, T, S, x),
           NEW y, y.id = x.id, NEW r \in T, r.id = y.id, r.at = y.at,
           Ahead(Down(l), x, y)
    PROVE  x.id \in S
<1> SUFFICES ASSUME x.id \notin S PROVE FALSE
  OBVIOUS
<1>1. x.at \in Nat /\ x.id \in Ids /\ (IF l = "sessions" THEN r.at >= x.at ELSE r.at = x.at)
  BY DEF ItemFits
<1>2. x.id \in Int /\ y.id \in Int /\ x.at \in Int /\ y.at \in Int
  BY <1>1, KeysAreNumbers DEF Rows
<1>3. x.at # y.at
  BY <1>2, AheadOrders, DownIsBoolean
<1>4. l = "sessions" /\ y.at > x.at
  BY <1>1, <1>2, <1>3
<1>5. Down(l)
  BY <1>4 DEF Down, Descending, Timed
<1> QED BY <1>2, <1>4, <1>5 DEF Ahead, Newer

LEMMA ReadingGrows ==
    ASSUME NEW l \in Lists, NEW w, NEW T, NEW S, Rows(l, T), NEW P, NEW since, NEW p,
           Reading(l, w, T, S, P, since), GoesOn(P),
           PageFits(l, T, NextCursor(P), since, p)
    PROVE  /\ Reading(l, w, T, S, Append(P, [items |-> p.items, next |-> p.next]), since)
           /\ NextCursor(Append(P, [items |-> p.items, next |-> p.next])) = p.next
           /\ Append(P, [items |-> p.items, next |-> p.next]) # <<>>
<1> DEFINE page == [items |-> p.items, next |-> p.next]
           N == Append(P, page)
           n == Len(P)
           c == NextCursor(P)
<1>1. Line(P) /\ n \in Nat
  BY DEF Reading, Line
<1>2. /\ Line(N) /\ Len(N) = n + 1 /\ N # <<>> /\ N[n + 1] = page
      /\ \A i \in 1 .. n : N[i] = P[i]
  BY <1>1, LineGrows
<1>3. page.items = p.items /\ page.next = p.next
  OBVIOUS
<1>4. NextCursor(N) = p.next
  BY <1>2, <1>3 DEF NextCursor
<1> HIDE DEF page, N
<1>5. \A a \in Spots(N) :
        \/ a \in Spots(P) /\ ItemAt(N, a) = ItemAt(P, a) /\ a[1] \in 1 .. n
        \/ a[1] = n + 1 /\ a[2] \in 1 .. Len(p.items) /\ ItemAt(N, a) = p.items[a[2]]
  <2> SUFFICES ASSUME NEW a \in Spots(N)
               PROVE  \/ a \in Spots(P) /\ ItemAt(N, a) = ItemAt(P, a) /\ a[1] \in 1 .. n
                      \/ a[1] = n + 1 /\ a[2] \in 1 .. Len(p.items) /\ ItemAt(N, a) = p.items[a[2]]
    OBVIOUS
  <2>1. a = <<a[1], a[2]>> /\ a[1] \in 1 .. (n + 1) /\ a[2] \in 1 .. Len(N[a[1]].items)
    BY <1>2, SpotsOf
  <2>2. CASE a[1] = n + 1
    BY <2>1, <2>2, <1>2, <1>3 DEF ItemAt
  <2>3. CASE a[1] # n + 1
    <3>1. a[1] \in 1 .. n
      BY <2>1, <2>3, <1>1
    <3>2. N[a[1]] = P[a[1]]
      BY <3>1, <1>2
    <3>3. <<a[1], a[2]>> \in Spots(P)
      BY <2>1, <3>1, <3>2, SpotsOf
    <3> QED BY <2>1, <3>1, <3>2, <3>3 DEF ItemAt
  <2> QED BY <2>2, <2>3
<1>6. \A a \in Spots(P) : a \in Spots(N) /\ ItemAt(N, a) = ItemAt(P, a)
  <2> SUFFICES ASSUME NEW a \in Spots(P) PROVE a \in Spots(N) /\ ItemAt(N, a) = ItemAt(P, a)
    OBVIOUS
  <2>1. a = <<a[1], a[2]>> /\ a[1] \in 1 .. n /\ a[2] \in 1 .. Len(P[a[1]].items)
    BY SpotsOf
  <2>2. N[a[1]] = P[a[1]] /\ a[1] \in 1 .. Len(N)
    BY <2>1, <1>1, <1>2
  <2> QED BY <2>1, <2>2, SpotsOf DEF ItemAt
<1>7. \A i \in 1 .. Len(p.items) : <<n + 1, i>> \in Spots(N) /\ ItemAt(N, <<n + 1, i>>) = p.items[i]
  <2> SUFFICES ASSUME NEW i \in 1 .. Len(p.items)
               PROVE  <<n + 1, i>> \in Spots(N) /\ ItemAt(N, <<n + 1, i>>) = p.items[i]
    OBVIOUS
  <2>1. n + 1 \in 1 .. Len(N) /\ i \in 1 .. Len(N[n + 1].items)
    BY <1>1, <1>2, <1>3
  <2> QED BY <2>1, <1>2, <1>3, SpotsOf DEF ItemAt
<1>8. \A a \in Spots(P) : ItemAt(P, a).at \in Int /\ ItemAt(P, a).id \in Int
                            /\ ItemFits(l, T, S, ItemAt(P, a))
  BY NumbersAre DEF Reading, ItemFits
<1>9. \A i \in 1 .. Len(p.items) : ItemFits(l, T, S, p.items[i])
                                    /\ p.items[i].at \in Int /\ p.items[i].id \in Int
  BY ItemOfRow DEF PageFits
<1>10. \A q \in 1 .. Len(N) :
         /\ Len(N[q].items) \in Nat /\ DOMAIN N[q].items = 1 .. Len(N[q].items)
         /\ N[q].next = NoCursor \/ (Len(N[q].items) > 0 /\ N[q].next = Cursor(N[q].items[Len(N[q].items)]))
         /\ q < Len(N) => N[q].next # NoCursor
  <2> SUFFICES ASSUME NEW q \in 1 .. (n + 1)
               PROVE  /\ Len(N[q].items) \in Nat /\ DOMAIN N[q].items = 1 .. Len(N[q].items)
                      /\ N[q].next = NoCursor
                           \/ (Len(N[q].items) > 0 /\ N[q].next = Cursor(N[q].items[Len(N[q].items)]))
                      /\ q < n + 1 => N[q].next # NoCursor
    BY <1>2
  <2>1. CASE q = n + 1
    BY <2>1, <1>1, <1>2, <1>3 DEF PageFits
  <2>2. CASE q # n + 1
    <3>1. q \in 1 .. n /\ N[q] = P[q]
      BY <2>2, <1>1, <1>2
    <3>2. P # <<>> /\ (q = n => NextCursor(P) = P[q].next)
      BY <3>1, <1>1 DEF NextCursor, Line
    <3>3. P[q].next # NoCursor
      BY <3>1, <3>2, <1>1 DEF GoesOn, Reading
    <3> QED BY <3>1, <3>3 DEF Reading
  <2> QED BY <2>1, <2>2
<1>11. ASSUME NEW a \in Spots(P), NEW i \in 1 .. Len(p.items)
       PROVE  /\ Ahead(Down(l), ItemAt(P, a), p.items[i])
              /\ ItemAt(P, a).id = p.items[i].id => ItemAt(P, a).id \in S
  <2> DEFINE x == ItemAt(P, a)
             y == p.items[i]
  <2>1. a[1] \in 1 .. n
    BY SpotsOf
  <2>2. P # <<>> /\ c # NoCursor
    BY <2>1, <1>1 DEF GoesOn, Line
  <2>3. c.at \in Int /\ c.id \in Int
    BY <2>2, LastCursor, NumbersAre
  <2>4. Ahead(Down(l), c, y)
    BY <2>2 DEF PageFits, Beyond
  <2>5. Ahead(Down(l), x, c) \/ (x.id = c.id /\ x.at = c.at)
    BY <2>2, LastCursor
  <2>6. x.at \in Int /\ x.id \in Int /\ y.at \in Int /\ y.id \in Int
    BY <1>8, <1>9
  <2> HIDE DEF x, y, c
  <2>7. Ahead(Down(l), x, y)
    <3>1. CASE Ahead(Down(l), x, c)
      BY <3>1, <2>3, <2>4, <2>6, AheadOrders, DownIsBoolean
    <3>2. CASE x.id = c.id /\ x.at = c.at
      BY <3>2, <2>4, AheadByKeys, DownIsBoolean
    <3> QED BY <2>5, <3>1, <3>2
  <2>8. ASSUME x.id = y.id PROVE x.id \in S
    <3>1. PICK r \in T : r.id = y.id /\ r.at = y.at
      BY DEF PageFits, y
    <3>2. ItemFits(l, T, S, x)
      BY <1>8 DEF x
    <3> QED BY <2>7, <2>8, <3>1, <3>2, SameRowSamePlace
  <2> QED BY <2>7, <2>8 DEF x, y
<1>12. ASSUME NEW a \in Spots(N), NEW b \in Spots(N), Above(a, b)
       PROVE  /\ Ahead(Down(l), ItemAt(N, a), ItemAt(N, b))
              /\ ItemAt(N, a).id = ItemAt(N, b).id => ItemAt(N, a).id \in S
  <2>1. CASE a \in Spots(P) /\ b \in Spots(P)
    BY <2>1, <1>6, <1>12 DEF Reading
  <2>2. CASE a \in Spots(P) /\ b \notin Spots(P)
    <3>1. b[2] \in 1 .. Len(p.items) /\ ItemAt(N, b) = p.items[b[2]]
      BY <2>2, <1>5
    <3>2. ItemAt(N, a) = ItemAt(P, a)
      BY <2>2, <1>6
    <3> QED BY <2>2, <3>1, <3>2, <1>11
  <2>3. CASE a \notin Spots(P) /\ b \in Spots(P)
    <3>1. a[1] = n + 1 /\ b[1] \in 1 .. n
      BY <2>3, <1>5, SpotsOf
    <3>2. FALSE
      BY <3>1, <1>1, <1>12 DEF Above
    <3> QED BY <3>2
  <2>4. CASE a \notin Spots(P) /\ b \notin Spots(P)
    <3>1. /\ a[1] = n + 1 /\ b[1] = n + 1
          /\ a[2] \in 1 .. Len(p.items) /\ b[2] \in 1 .. Len(p.items)
          /\ ItemAt(N, a) = p.items[a[2]] /\ ItemAt(N, b) = p.items[b[2]]
      BY <2>4, <1>5
    <3>2. a[2] < b[2]
      BY <3>1, <1>1, <1>12 DEF Above
    <3>3. Ahead(Down(l), p.items[a[2]], p.items[b[2]])
      BY <3>1, <3>2 DEF PageFits
    <3>4. ASSUME p.items[a[2]].id = p.items[b[2]].id PROVE p.items[a[2]].id \in S
      <4>1. PICK r \in T : r.id = p.items[b[2]].id /\ r.at = p.items[b[2]].at
        BY <3>1 DEF PageFits
      <4>2. ItemFits(l, T, S, p.items[a[2]])
        BY <3>1, <1>9
      <4> QED BY <3>3, <3>4, <4>1, <4>2, SameRowSamePlace
    <3> QED BY <3>1, <3>3, <3>4
  <2> QED BY <2>1, <2>2, <2>3, <2>4
<1>13. ASSUME NEW r \in T, r.id \in since, PassedBy(l, N, r)
       PROVE  \E a \in Spots(N) : ItemAt(N, a).id = r.id
  <2>1. CASE \E i \in 1 .. Len(p.items) : p.items[i].id = r.id
    BY <2>1, <1>7
  <2>2. CASE \E a \in Spots(P) : ItemAt(P, a).id = r.id
    BY <2>2, <1>6
  <2>3. CASE Beyond(l, c, r)
    <3>1. (\E i \in 1 .. Len(p.items) : p.items[i].id = r.id)
            \/ (p.next # NoCursor /\ Ahead(Down(l), p.next, r))
      BY <2>3, <1>13 DEF PageFits
    <3>2. ASSUME p.next # NoCursor, Ahead(Down(l), p.next, r) PROVE \E i \in 1 .. Len(p.items) : p.items[i].id = r.id
      <4>1. Len(p.items) \in 1 .. Len(p.items) /\ p.next = Cursor(p.items[Len(p.items)])
        BY <3>2 DEF PageFits
      <4>2. p.next.id = p.items[Len(p.items)].id /\ p.next.at = p.items[Len(p.items)].at
        BY <4>1, CursorParts
      <4>3. p.next.at \in Int /\ p.next.id \in Int /\ r.at \in Int /\ r.id \in Int
        BY <4>1, <4>2, <1>9, KeysAreNumbers DEF Rows
      <4>4. ~Ahead(Down(l), r, p.next)
        BY <3>2, <4>3, AheadOrders, DownIsBoolean
      <4>5. r.id = p.next.id
        BY <4>4, <3>2, <1>4, <1>13 DEF PassedBy
      <4> QED BY <4>1, <4>2, <4>5
    <3> QED BY <3>1, <3>2, <2>1
  <2>4. CASE ~Beyond(l, c, r)
    <3>1. c # NoCursor /\ ~Ahead(Down(l), c, r)
      BY <2>4 DEF Beyond
    <3>2. P # <<>>
      BY <3>1 DEF NextCursor
    <3>3. c.at \in Int /\ c.id \in Int /\ r.at \in Int /\ r.id \in Int
      BY <3>1, <3>2, LastCursor, NumbersAre, KeysAreNumbers DEF Rows
    <3>4. r.id = c.id \/ Ahead(Down(l), r, c)
      BY <3>1, <3>3, AheadOrders, DownIsBoolean
    <3>5. PassedBy(l, P, r)
      BY <3>4 DEF PassedBy
    <3>6. \E a \in Spots(P) : ItemAt(P, a).id = r.id
      BY <3>2, <3>5, <1>13 DEF Reading
    <3> QED BY <3>6, <2>2
  <2> QED BY <2>3, <2>4
<1>14. \A a \in Spots(N) : ItemFits(l, T, S, ItemAt(N, a))
  BY <1>5, <1>8, <1>9
<1>15. since \subseteq {r.id : r \in ListedIn(l, w, T)}
  BY DEF Reading
<1>16. Reading(l, w, T, S, N, since)
  BY <1>2, <1>10, <1>12, <1>13, <1>14, <1>15 DEF Reading
<1> QED BY <1>2, <1>4, <1>16 DEF N, page

-----------------------------------------------------------------------------
(* The table moves under the readers *)

\* T becomes U: rows that are not in ids stay as they are, no other row comes under a key
\* that was there, and a row keeps its place unless it slips.
TableMoves(l, T, S, U, S2, ids) ==
    /\ Rows(l, U) /\ S \subseteq S2
    /\ \A r \in T : r.id \notin ids => r \in U
    /\ \A r \in U : r \in T \/ r.id \in ids \/ \A q \in T : q.id # r.id
    /\ l # "documents" => \A r \in T : \E q \in U : q.id = r.id
    /\ \A r \in T, q \in U : r.id = q.id /\ r.id \notin S2 =>
         IF l = "sessions" THEN q.at >= r.at ELSE q.at = r.at

LEMMA ItemKept ==
    ASSUME NEW l, NEW T, NEW S, NEW U, NEW S2, NEW ids, Rows(l, T),
           TableMoves(l, T, S, U, S2, ids), NEW x, ItemFits(l, T, S, x)
    PROVE  ItemFits(l, U, S2, x)
<1>1. x.at \in Nat /\ x.id \in Ids /\ (l = "documents" => x.at = x.id)
  BY DEF ItemFits
<1>2. l # "documents" => \E r \in U : r.id = x.id
  <2> SUFFICES ASSUME l # "documents" PROVE \E r \in U : r.id = x.id
    OBVIOUS
  <2>1. PICK r \in T : r.id = x.id
    BY DEF ItemFits
  <2> QED BY <2>1 DEF TableMoves
<1>3. ASSUME x.id \notin S2, NEW q \in U, q.id = x.id
      PROVE  IF l = "sessions" THEN q.at >= x.at ELSE q.at = x.at
  <2>1. x.id \notin S
    BY <1>3 DEF TableMoves
  <2>2. CASE l = "documents"
    BY <2>2, <1>1, <1>3 DEF TableMoves, Rows, IsRow
  <2>3. CASE l # "documents"
    <3>1. PICK r \in T : r.id = x.id
      BY <2>3 DEF ItemFits
    <3>2. IF l = "sessions" THEN r.at >= x.at ELSE r.at = x.at
      BY <2>1, <3>1 DEF ItemFits
    <3>3. IF l = "sessions" THEN q.at >= r.at ELSE q.at = r.at
      BY <1>3, <3>1 DEF TableMoves
    <3>4. q.at \in Int /\ r.at \in Int /\ x.at \in Int
      BY <1>1, KeysAreNumbers, NumbersAre DEF TableMoves, Rows
    <3> QED BY <3>2, <3>3, <3>4
  <2> QED BY <2>2, <2>3
<1> QED BY <1>1, <1>2, <1>3 DEF ItemFits

LEMMA SinceKept ==
    ASSUME NEW l, NEW w, NEW T, NEW S, NEW U, NEW S2, NEW ids,
           TableMoves(l, T, S, U, S2, ids), NEW since,
           since \subseteq {r.id : r \in ListedIn(l, w, T)}
    PROVE  /\ since \ ids \subseteq {r.id : r \in ListedIn(l, w, U)}
           /\ \A r \in U : r.id \in since \ ids => r \in T
<1>1. ASSUME NEW k \in since \ ids PROVE \E r \in ListedIn(l, w, U) : r.id = k
  <2>1. PICK r \in ListedIn(l, w, T) : r.id = k
    BY <1>1
  <2>2. r \in T /\ r \in U
    BY <2>1 DEF TableMoves, ListedIn
  <2>3. r \in ListedIn(l, w, U)
    BY <2>1, <2>2 DEF ListedIn
  <2> QED BY <2>1, <2>3
<1>2. ASSUME NEW r \in U, r.id \in since \ ids PROVE r \in T
  <2>1. PICK q \in ListedIn(l, w, T) : q.id = r.id
    BY <1>2
  <2>2. q \in T
    BY <2>1 DEF ListedIn
  <2> QED BY <1>2, <2>1, <2>2 DEF TableMoves
<1> QED BY <1>1, <1>2

LEMMA ReadingKept ==
    ASSUME NEW l, NEW w, NEW T, NEW S, NEW U, NEW S2, NEW ids, Rows(l, T),
           TableMoves(l, T, S, U, S2, ids), NEW P, NEW since, Reading(l, w, T, S, P, since)
    PROVE  Reading(l, w, U, S2, P, since \ ids)
<1>1. \A a \in Spots(P) : ItemFits(l, U, S2, ItemAt(P, a))
  BY ItemKept DEF Reading
<1>2. /\ since \ ids \subseteq {r.id : r \in ListedIn(l, w, U)}
      /\ \A r \in U : r.id \in since \ ids => r \in T
  BY SinceKept DEF Reading
<1>3. P # <<>> => \A r \in U : r.id \in since \ ids /\ PassedBy(l, P, r) =>
                    \E a \in Spots(P) : ItemAt(P, a).id = r.id
  BY <1>2 DEF Reading
<1>4. \A a, b \in Spots(P) : Above(a, b) =>
         /\ Ahead(Down(l), ItemAt(P, a), ItemAt(P, b))
         /\ ItemAt(P, a).id = ItemAt(P, b).id => ItemAt(P, a).id \in S2
  BY DEF Reading, TableMoves
<1> QED BY <1>1, <1>2, <1>3, <1>4 DEF Reading

LEMMA SideKept ==
    ASSUME NEW w, NEW T, NEW U, NEW ids, Rows("audit", T),
           TableMoves("audit", T, {}, U, {}, ids), NEW P, NEW since,
           since \subseteq {r.id : r \in ListedIn("audit", w, T)},
           NEW side, SideReads(T, P, since, side)
    PROVE  SideReads(U, P, since \ ids, side)
<1>1. \A i \in 1 .. Len(side) : ItemFits("audit", U, {}, side[i])
  BY ItemKept DEF SideReads
<1>2. \A r \in U : r.id \in since \ ids => r \in T
  BY SinceKept
<1> QED BY <1>1, <1>2 DEF SideReads

\* Whatever a writer does, the readers know no less than they say.
LEMMA ReadersKept ==
    ASSUME ListInv, CacheInv, AskInv, SweepInv, NEW ids,
           list' = list, want' = want, list # "sessions" => slipped' = {},
           TableMoves(list, table, slipped, table', slipped', ids),
           IsPages(cache'), cache'.on = cache.on, cache'.pages = cache.pages,
           cache'.since = cache.since \ ids,
           IsPages(sweep'), sweep'.on = sweep.on, sweep'.pages = sweep.pages,
           sweep'.since = sweep.since \ ids,
           IsQuestion(asking'), asking'.pages = asking.pages, asking'.half = asking.half,
           asking'.side = asking.side, asking'.since = asking.since \ ids
    PROVE  CacheInv' /\ AskInv' /\ SweepInv'
<1>1. Rows(list, table)
  BY DEF ListInv
<1>2. CacheInv'
  BY <1>1, ReadingKept DEF CacheInv
<1>3. SweepInv'
  BY <1>1, ReadingKept DEF SweepInv
<1>4. Reading(list, want, table', slipped', asking.pages, asking.since \ ids)
  BY <1>1, ReadingKept DEF AskInv
<1>5. ASSUME asking.half
      PROVE  list = "audit" /\ SideReads(table', asking.pages, asking.since \ ids, asking.side)
  <2>1. list = "audit" /\ SideReads(table, asking.pages, asking.since, asking.side)
    BY <1>5 DEF AskInv
  <2>2. slipped = {} /\ slipped' = {}
    BY <2>1 DEF ListInv
  <2>3. asking.since \subseteq {r.id : r \in ListedIn("audit", want, table)}
    BY <2>1 DEF AskInv, Reading
  <2>4. Rows("audit", table) /\ TableMoves("audit", table, {}, table', {}, ids)
    BY <1>1, <2>1, <2>2
  <2> QED BY <2>1, <2>3, <2>4, SideKept
<1>6. AskInv'
  BY <1>4, <1>5 DEF AskInv
<1> QED BY <1>2, <1>3, <1>6

-----------------------------------------------------------------------------
(* The writers *)

LEMMA RowParts ==
    ASSUME NEW id, NEW at, NEW tag
    PROVE  LET r == Row(id, at, tag)
           IN  /\ r = [kind |-> r.kind, id |-> r.id, at |-> r.at, tag |-> r.tag, service |-> r.service]
               /\ r.id = id /\ r.at = at /\ r.tag = tag /\ r.kind = "row"
BY DEF Row

LEMMA AuditRowParts ==
    ASSUME NEW id, NEW at
    PROVE  LET r == AuditRow(id, at)
           IN  /\ r = [kind |-> r.kind, id |-> r.id, at |-> r.at, tag |-> r.tag, service |-> r.service]
               /\ r.id = id /\ r.at = at
               /\ \/ Even(id) /\ r.kind = "run" /\ r.tag = "queued"
                  \/ ~Even(id) /\ r.kind = "action"
                       /\ r.tag \in {<<"action_failed", "failed">>, <<"action_failed", "expired">>}
<1>1. CASE Even(id)
  <2>1. AuditRow(id, at) = [kind |-> "run", id |-> id, at |-> at, tag |-> "queued", service |-> "s1"]
    BY <1>1 DEF AuditRow, Even
  <2> QED BY <1>1, <2>1
<1>2. CASE ~Even(id)
  <2> DEFINE tag == <<"action_failed", IF id = 1 THEN "failed" ELSE "expired">>
  <2>1. AuditRow(id, at) = [kind |-> "action", id |-> id, at |-> at, service |-> "s1", tag |-> tag]
    BY <1>2 DEF AuditRow, Even
  <2>2. tag \in {<<"action_failed", "failed">>, <<"action_failed", "expired">>}
    OBVIOUS
  <2> HIDE DEF tag
  <2> QED BY <1>2, <2>1, <2>2
<1> QED BY <1>1, <1>2

LEMMA NewRowParts ==
    ASSUME NEW id \in Ids, NEW at \in Nat, list = "documents" => at = id
    PROVE  IsRow(list, NewRow(id, at)) /\ NewRow(id, at).id = id /\ NewRow(id, at).at = at
<1>1. CASE list = "audit"
  <2>1. NewRow(id, at) = AuditRow(id, at)
    BY <1>1 DEF NewRow
  <2> QED BY <1>1, <2>1, AuditRowParts DEF IsRow
<1>2. CASE list # "audit"
  <2>1. NewRow(id, at) = Row(id, at, Moves[list][1])
    BY <1>2 DEF NewRow
  <2> HIDE DEF NewRow
  <2> QED BY <1>2, <2>1, RowParts DEF IsRow
<1> QED BY <1>1, <1>2

LEMMA RowsStay ==
    ASSUME NEW l, NEW T, NEW S, Rows(l, T)
    PROVE  TableMoves(l, T, S, T, S, {})
<1>1. \A r \in T : r.at \in Int
  BY KeysAreNumbers DEF Rows
<1> QED BY <1>1 DEF TableMoves, Rows

LEMMA RowAdded ==
    ASSUME NEW l, NEW T, NEW S, Rows(l, T), NEW row, IsRow(l, row), \A q \in T : q.id # row.id
    PROVE  TableMoves(l, T, S, T \cup {row}, S, {})
<1>1. Rows(l, T \cup {row})
  BY FS_AddElement DEF Rows
<1>2. \A r \in T : r.at \in Int
  BY KeysAreNumbers DEF Rows
<1> QED BY <1>1, <1>2 DEF TableMoves, Rows

LEMMA RowsRemoved ==
    ASSUME NEW T, NEW S, Rows("documents", T), NEW U, U \subseteq T
    PROVE  TableMoves("documents", T, S, U, S, {r.id : r \in T \ U})
<1>1. IsFiniteSet(U)
  BY FS_Subset DEF Rows
<1>2. Rows("documents", U)
  BY <1>1 DEF Rows
<1>3. \A r \in T, q \in U : r.id = q.id => q.at = r.at
  BY DEF Rows
<1> QED BY <1>2, <1>3 DEF TableMoves

LEMMA RowReplaced ==
    ASSUME NEW l, NEW T, NEW S, Rows(l, T), NEW old \in T, NEW row, IsRow(l, row),
           row.id = old.id, NEW S2, S \subseteq S2,
           old.id \notin S2 => IF l = "sessions" THEN row.at >= old.at ELSE row.at = old.at
    PROVE  TableMoves(l, T, S, {r \in T : r.id # row.id} \cup {row}, S2, {old.id})
<1> DEFINE others == {r \in T : r.id # row.id}
           U == others \cup {row}
<1>1. IsFiniteSet(others) /\ IsFiniteSet(U)
  <2>1. IsFiniteSet(others)
    BY FS_Subset DEF Rows
  <2> QED BY <2>1, FS_AddElement
<1>2. Rows(l, U)
  BY <1>1 DEF Rows
<1>3. \A r \in T : r.id \notin {old.id} => r \in U
  OBVIOUS
<1>4. \A r \in U : r \in T \/ r.id \in {old.id} \/ \A q \in T : q.id # r.id
  OBVIOUS
<1>5. \A r \in T : \E q \in U : q.id = r.id
  OBVIOUS
<1>6. ASSUME NEW r \in T, NEW q \in U, r.id = q.id, r.id \notin S2
      PROVE  IF l = "sessions" THEN q.at >= r.at ELSE q.at = r.at
  <2>1. CASE q = row
    <3>1. r = old
      BY <2>1, <1>6 DEF Rows
    <3> QED BY <2>1, <3>1, <1>6
  <2>2. CASE q # row
    <3>1. q = r /\ r.at \in Int
      BY <2>2, <1>6, KeysAreNumbers DEF Rows
    <3> QED BY <3>1
  <2> QED BY <2>1, <2>2
<1> QED BY <1>2, <1>3, <1>4, <1>5, <1>6 DEF TableMoves

\* what the readers keep when rows are no longer those that were there throughout
Forgotten(ids) ==
    /\ IsPages(cache') /\ cache'.on = cache.on /\ cache'.pages = cache.pages
    /\ cache'.since = cache.since \ ids
    /\ IsPages(sweep') /\ sweep'.on = sweep.on /\ sweep'.pages = sweep.pages
    /\ sweep'.since = sweep.since \ ids
    /\ IsQuestion(asking') /\ asking'.pages = asking.pages /\ asking'.half = asking.half
    /\ asking'.side = asking.side /\ asking'.since = asking.since \ ids

LEMMA PagesLess ==
    ASSUME NEW c, IsPages(c), NEW ids
    PROVE  LET d == [c EXCEPT !.since = @ \ ids]
           IN  IsPages(d) /\ d.on = c.on /\ d.pages = c.pages /\ d.since = c.since \ ids
<1> DEFINE d == [c EXCEPT !.since = @ \ ids]
           e == [on |-> c.on, pages |-> c.pages, since |-> c.since \ ids]
<1>1. d = e
  BY DEF IsPages
<1>2. IsPages(e) /\ e.on = c.on /\ e.pages = c.pages /\ e.since = c.since \ ids
  BY DEF IsPages
<1> QED BY <1>1, <1>2

LEMMA QuestionLess ==
    ASSUME NEW q, IsQuestion(q), NEW ids
    PROVE  LET d == [q EXCEPT !.since = @ \ ids]
           IN  /\ IsQuestion(d) /\ d.pages = q.pages /\ d.half = q.half /\ d.side = q.side
               /\ d.since = q.since \ ids
<1> DEFINE d == [q EXCEPT !.since = @ \ ids]
           e == [how |-> q.how, pages |-> q.pages, goal |-> q.goal, since |-> q.since \ ids,
                 half |-> q.half, side |-> q.side]
<1>1. d = e
  BY DEF IsQuestion
<1>2. IsQuestion(e) /\ e.pages = q.pages /\ e.half = q.half /\ e.side = q.side /\ e.since = q.since \ ids
  BY DEF IsQuestion
<1> QED BY <1>1, <1>2

LEMMA ForgetParts ==
    ASSUME CacheInv, AskInv, SweepInv, NEW ids, Forget(ids)
    PROVE  Forgotten(ids)
<1>1. IsPages(cache) /\ IsPages(sweep) /\ IsQuestion(asking)
  BY DEF CacheInv, SweepInv, AskInv
<1>2. /\ cache' = [cache EXCEPT !.since = @ \ ids]
      /\ sweep' = [sweep EXCEPT !.since = @ \ ids]
      /\ asking' = [asking EXCEPT !.since = @ \ ids]
  BY DEF Forget
<1> QED BY <1>1, <1>2, PagesLess, QuestionLess DEF Forgotten

LEMMA NothingForgotten ==
    ASSUME CacheInv, AskInv, SweepInv, UNCHANGED <<cache, asking, sweep>>
    PROVE  Forgotten({})
BY DEF CacheInv, SweepInv, AskInv, Forgotten

LEMMA MovedUnderReaders ==
    ASSUME ReadersInv, NEW ids, UNCHANGED <<list, want>>, ListInv',
           TableMoves(list, table, slipped, table', slipped', ids), Forgotten(ids)
    PROVE  ReadersInv'
<1>1. list # "sessions" => slipped' = {}
  BY DEF ListInv
<1> QED BY <1>1, ReadersKept DEF ReadersInv, Forgotten

LEMMA TakeStep == ReadersInv /\ Take => ReadersInv'
<1> SUFFICES ASSUME ReadersInv, Take PROVE ReadersInv'
  OBVIOUS
<1>1. PICK id \in Ids, tick \in 0 .. 1 :
        \E what \in (IF id \notin Present THEN {"insert"}
                      ELSE IF list = "sessions" THEN {"save", "touch", "restore"} ELSE {}) :
            /\ clock' = clock + tick
            /\ taken' = taken \cup {[id |-> id, at |-> clock', what |-> what]}
            /\ \A t \in taken : t.id = id => t.what # "insert"
  BY DEF Take
<1>2. PICK what \in (IF id \notin Present THEN {"insert"}
                      ELSE IF list = "sessions" THEN {"save", "touch", "restore"} ELSE {}) :
            /\ clock' = clock + tick
            /\ taken' = taken \cup {[id |-> id, at |-> clock', what |-> what]}
            /\ \A t \in taken : t.id = id => t.what # "insert"
  BY <1>1
<1>3. list \in Timed /\ UNCHANGED <<list, parent, want, table, cache, asking, sweep, slipped>>
  BY DEF Take
<1>4. clock' \in Nat
  BY <1>2 DEF ReadersInv, ListInv
<1> DEFINE new == [id |-> id, at |-> clock', what |-> what]
<1>5. new.id = id /\ new.at = clock' /\ new.what = what
  OBVIOUS
<1> HIDE DEF new
<1>6. what = "insert" => id \notin Present
  BY <1>2
<1>7. what # "insert" => list = "sessions" /\ id \in Present
  BY <1>2
<1>8. TakenInv'
  <2>1. taken' = taken \cup {new}
    BY <1>2 DEF new
  <2>2. Present' = Present
    BY <1>3 DEF Present
  <2>3. \A t \in taken : t.what = "insert" => t.id # id
    BY <1>2
  <2>4. ASSUME what = "insert", NEW u \in taken, u.id = id PROVE FALSE
    BY <2>3, <2>4, <1>6 DEF ReadersInv, ListInv, TakenInv
  <2>5. \A t \in taken' :
         /\ t.id \in Ids /\ t.at \in Nat
         /\ t.what = "insert" => t.id \notin Present
         /\ t.what # "insert" => list = "sessions" /\ t.id \in Present
    BY <2>1, <1>4, <1>5, <1>6, <1>7 DEF ReadersInv, ListInv, TakenInv
  <2>6. \A t \in taken' : t.what = "insert" => \A u \in taken' : u.id = t.id => u = t
    BY <2>1, <2>3, <2>4, <1>5 DEF ReadersInv, ListInv, TakenInv
  <2> QED BY <2>2, <2>5, <2>6, <1>3 DEF TakenInv
<1>9. ListInv'
  BY <1>3, <1>4, <1>8 DEF ReadersInv, ListInv
<1>10. TableMoves(list, table, slipped, table', slipped', {})
  BY <1>3, RowsStay DEF ReadersInv, ListInv
<1>11. Forgotten({})
  BY <1>3, NothingForgotten DEF ReadersInv
<1> QED BY <1>3, <1>9, <1>10, <1>11, MovedUnderReaders

LEMMA CommitInsertStep == ReadersInv /\ CommitInsert => ReadersInv'
<1> SUFFICES ASSUME ReadersInv, CommitInsert PROVE ReadersInv'
  OBVIOUS
<1>1. PICK t \in taken :
        /\ t.what = "insert"
        /\ table' = table \cup {NewRow(t.id, t.at)}
        /\ taken' = taken \ {t}
        /\ UNCHANGED <<list, parent, want, clock, cache, asking, sweep, slipped, spent>>
  BY DEF CommitInsert
<1> DEFINE row == NewRow(t.id, t.at)
<1>2. t.id \in Ids /\ t.at \in Nat /\ t.id \notin Present /\ list \in Timed
  BY <1>1 DEF ReadersInv, ListInv, TakenInv
<1>3. list # "documents"
  BY <1>2 DEF Timed
<1>4. IsRow(list, row) /\ row.id = t.id
  BY <1>2, <1>3, NewRowParts
<1>5. \A q \in table : q.id # row.id
  BY <1>2, <1>4 DEF Present
<1>6. TableMoves(list, table, slipped, table', slipped', {})
  BY <1>1, <1>4, <1>5, RowAdded DEF ReadersInv, ListInv
<1>7. Present' = Present \cup {t.id}
  BY <1>1, <1>4 DEF Present
<1>8. TakenInv'
  BY <1>1, <1>7 DEF ReadersInv, ListInv, TakenInv
<1>9. ListInv'
  BY <1>1, <1>3, <1>6, <1>8 DEF ReadersInv, ListInv, TableMoves
<1>10. Forgotten({})
  BY <1>1, NothingForgotten DEF ReadersInv
<1> QED BY <1>1, <1>9, <1>6, <1>10, MovedUnderReaders

LEMMA CommitSessionStep == ReadersInv /\ CommitSession => ReadersInv'
<1> SUFFICES ASSUME ReadersInv, CommitSession PROVE ReadersInv'
  OBVIOUS
<1>1. PICK t \in taken, r \in table, tag \in {"active", "archived"} :
        /\ t.what # "insert" /\ r.id = t.id
        /\ LET after == SessionAfter(r, t, tag)
           IN /\ Put(after)
              /\ IF after = r THEN UNCHANGED <<cache, asking, sweep>> ELSE Forget({r.id})
              /\ slipped' = IF after.at < r.at THEN slipped \cup {r.id} ELSE slipped
        /\ taken' = taken \ {t}
        /\ UNCHANGED <<list, parent, want, clock, spent>>
  BY DEF CommitSession
<1> DEFINE after == SessionAfter(r, t, tag)
           at == IF t.what = "save" \/ r.at < t.at THEN t.at ELSE r.at
           newTag == CASE t.what = "save" -> tag
                        [] t.what = "restore" -> "active"
                        [] OTHER -> r.tag
<1>2. list = "sessions" /\ IsRow(list, r) /\ t.at \in Nat /\ Rows(list, table)
  BY <1>1 DEF ReadersInv, ListInv, TakenInv, Rows
<1>3. after = [kind |-> r.kind, id |-> r.id, at |-> at, tag |-> newTag, service |-> r.service]
  <2>1. r = [kind |-> r.kind, id |-> r.id, at |-> r.at, tag |-> r.tag, service |-> r.service]
    BY <1>2 DEF IsRow
  <2>2. after = [r EXCEPT !.at = at, !.tag = newTag]
    BY DEF SessionAfter
  <2> HIDE DEF after, at, newTag
  <2> QED BY <2>1, <2>2
<1>4. at \in Nat
  BY <1>2 DEF IsRow
<1> HIDE DEF at, newTag
<1>5. after.id = r.id /\ after.at = at /\ IsRow(list, after)
  BY <1>2, <1>3, <1>4 DEF IsRow
<1>6. table' = {q \in table : q.id # after.id} \cup {after}
  BY <1>1 DEF Put
<1>7. slipped \subseteq slipped' /\ (r.id \notin slipped' => after.at >= r.at)
  <2>1. after.at \in Int /\ r.at \in Int
    BY <1>2, <1>5, KeysAreNumbers
  <2> HIDE DEF after
  <2> QED BY <1>1, <2>1 DEF after
<1>8. TableMoves(list, table, slipped, table', slipped', {r.id})
  <2>1. r.id \notin slipped' => IF list = "sessions" THEN after.at >= r.at ELSE after.at = r.at
    BY <1>2, <1>7
  <2> HIDE DEF after
  <2> QED BY <1>1, <1>2, <1>5, <1>6, <1>7, <2>1, RowReplaced
<1>9. Present' = Present
  <2>1. \A k \in Present : k \in Present'
    BY <1>5, <1>6 DEF Present
  <2>2. \A k \in Present' : k \in Present
    BY <1>1, <1>5, <1>6 DEF Present
  <2> QED BY <2>1, <2>2
<1>10. TakenInv'
  BY <1>1, <1>9 DEF ReadersInv, ListInv, TakenInv
<1>11. ListInv'
  BY <1>1, <1>2, <1>8, <1>10 DEF ReadersInv, ListInv, TableMoves
<1>12. CASE after = r
  <2>1. table' = table /\ slipped' = slipped
    <3>1. table' = table
      BY <1>6, <1>12, <1>2, <1>1 DEF Rows
    <3>2. ~(after.at < r.at)
      BY <1>12, <1>2, KeysAreNumbers
    <3> QED BY <3>1, <3>2, <1>1
  <2>2. TableMoves(list, table, slipped, table', slipped', {})
    BY <2>1, <1>2, RowsStay
  <2>3. Forgotten({})
    BY <1>1, <1>12, NothingForgotten DEF ReadersInv
  <2> QED BY <1>1, <1>11, <2>2, <2>3, MovedUnderReaders
<1>13. CASE after # r
  <2>1. Forgotten({r.id})
    BY <1>1, <1>13, ForgetParts DEF ReadersInv
  <2> QED BY <1>1, <1>11, <1>8, <2>1, MovedUnderReaders
<1> QED BY <1>12, <1>13

LEMMA AppendEventStep == ReadersInv /\ AppendEvent => ReadersInv'
<1> SUFFICES ASSUME ReadersInv, AppendEvent PROVE ReadersInv'
  OBVIOUS
<1>1. PICK id \in Ids \ Present :
          clock' = clock + 1 /\ table' = table \cup {Row(id, clock', "kept")}
  BY DEF AppendEvent
<1>2. list \in Numbered /\ UNCHANGED <<list, parent, want, taken, cache, asking, sweep, slipped>>
  BY DEF AppendEvent
<1>3. list # "documents" /\ list # "audit" /\ list \notin Timed /\ clock' \in Nat
  BY <1>1, <1>2 DEF Numbered, Timed, ReadersInv, ListInv
<1> DEFINE row == Row(id, clock', "kept")
<1>4. IsRow(list, row) /\ row.id = id
  <2>1. clock' \in Nat /\ id \in Ids
    BY <1>3
  <2> HIDE DEF row
  <2> QED BY <2>1, <1>3, RowParts DEF IsRow, row
<1>5. \A q \in table : q.id # row.id
  BY <1>4 DEF Present
<1> HIDE DEF row
<1>6. TableMoves(list, table, slipped, table', slipped', {})
  BY <1>1, <1>2, <1>4, <1>5, RowAdded DEF ReadersInv, ListInv, row
<1>7. TakenInv'
  BY <1>2, <1>3 DEF ReadersInv, ListInv, TakenInv
<1>8. ListInv'
  BY <1>2, <1>3, <1>6, <1>7 DEF ReadersInv, ListInv, TableMoves
<1>9. Forgotten({})
  BY <1>2, NothingForgotten DEF ReadersInv
<1> QED BY <1>2, <1>6, <1>8, <1>9, MovedUnderReaders

LEMMA AdvanceStep == ReadersInv /\ Advance => ReadersInv'
<1> SUFFICES ASSUME ReadersInv, Advance PROVE ReadersInv'
  OBVIOUS
<1>1. PICK r \in table :
          /\ r.kind # "action"
          /\ \E i \in 1 .. (Len(Moves[list]) - 1) :
               /\ r.tag = Moves[list][i]
               /\ Put([r EXCEPT !.tag = Moves[list][i + 1]])
          /\ Forget({r.id})
  BY DEF Advance
<1>2. PICK i \in 1 .. (Len(Moves[list]) - 1) :
               /\ r.tag = Moves[list][i]
               /\ Put([r EXCEPT !.tag = Moves[list][i + 1]])
  BY <1>1
<1>3. list # "sessions" /\ UNCHANGED <<list, parent, want, taken, clock, slipped>>
  BY DEF Advance
<1>4. IsRow(list, r) /\ Rows(list, table)
  BY DEF ReadersInv, ListInv, Rows
<1> DEFINE moved == Moves[list][i + 1]
           row == [r EXCEPT !.tag = moved]
<1>5. row = [kind |-> r.kind, id |-> r.id, at |-> r.at, tag |-> moved, service |-> r.service]
  <2>1. r = [kind |-> r.kind, id |-> r.id, at |-> r.at, tag |-> r.tag, service |-> r.service]
    BY <1>4 DEF IsRow
  <2> HIDE DEF moved
  <2> QED BY <2>1
<1>6. list = "audit" => moved \in {"queued", "running", "failed"}
  <2> SUFFICES ASSUME list = "audit" PROVE moved \in {"queued", "running", "failed"}
    OBVIOUS
  <2>1. Moves[list] = <<"queued", "running", "failed">>
    BY DEF Moves
  <2>2. i \in 1 .. 2
    BY <2>1
  <2>3. i = 1 \/ i = 2
    BY <2>2
  <2> QED BY <2>1, <2>3
<1> HIDE DEF moved
<1>7. IsRow(list, row) /\ row.id = r.id /\ row.at = r.at
  <2>1. row.kind = r.kind /\ row.id = r.id /\ row.at = r.at /\ row.tag = moved /\ row.service = r.service
    BY <1>5
  <2>2. row = [kind |-> row.kind, id |-> row.id, at |-> row.at, tag |-> row.tag, service |-> row.service]
    BY <1>5, <2>1
  <2> HIDE DEF row
  <2> QED BY <2>1, <2>2, <1>1, <1>4, <1>6 DEF IsRow
<1>8. table' = {q \in table : q.id # row.id} \cup {row}
  BY <1>2 DEF Put, moved
<1>9. TableMoves(list, table, slipped, table', slipped', {r.id})
  <2> HIDE DEF row
  <2> QED BY <1>3, <1>4, <1>7, <1>8, RowReplaced
<1> HIDE DEF row
<1>10. Present' = Present
  <2>1. \A k \in Present : k \in Present'
    BY <1>7, <1>8 DEF Present
  <2>2. \A k \in Present' : k \in Present
    BY <1>7, <1>8 DEF Present
  <2> QED BY <2>1, <2>2
<1>11. TakenInv'
  BY <1>3, <1>10 DEF ReadersInv, ListInv, TakenInv
<1>12. ~(list = "documents" /\ ~parent)
  BY DEF ReadersInv, ListInv
<1>13. ListInv'
  BY <1>3, <1>9, <1>11, <1>12 DEF ReadersInv, ListInv, TableMoves
<1>14. Forgotten({r.id})
  BY <1>1, ForgetParts DEF ReadersInv
<1> QED BY <1>3, <1>9, <1>13, <1>14, MovedUnderReaders

LEMMA DocumentWrittenStep == ReadersInv /\ DocumentWritten => ReadersInv'
<1> SUFFICES ASSUME ReadersInv, DocumentWritten PROVE ReadersInv'
  OBVIOUS
<1>1. list = "documents" /\ parent /\ UNCHANGED <<list, parent, want, taken, clock, slipped>>
  BY DEF DocumentWritten
<1>2. PICK id \in Ids :
         IF id \in Present
           THEN table' = {r \in table : r.id # id} /\ Forget({id})
           ELSE table' = table \cup {Row(id, id, "kept")} /\ UNCHANGED <<cache, asking, sweep>>
  BY DEF DocumentWritten
<1>3. Rows("documents", table) /\ taken = {} /\ taken' = {}
  BY <1>1 DEF ReadersInv, ListInv, TakenInv, Timed
<1>4. TakenInv'
  BY <1>3 DEF TakenInv
<1>5. CASE id \in Present
  <2>1. table' \subseteq table /\ {r.id : r \in table \ table'} = {id}
    BY <1>2, <1>5 DEF Present
  <2>2. TableMoves(list, table, slipped, table', slipped', {id})
    BY <1>1, <1>3, <2>1, RowsRemoved
  <2>3. ListInv'
    BY <1>1, <1>4, <2>2 DEF ReadersInv, ListInv, TableMoves
  <2>4. Forgotten({id})
    BY <1>2, <1>5, ForgetParts DEF ReadersInv
  <2> QED BY <1>1, <2>2, <2>3, <2>4, MovedUnderReaders
<1>6. CASE id \notin Present
  <2> DEFINE row == Row(id, id, "kept")
  <2>1. IsRow(list, row) /\ row.id = id
    <3>1. id \in Nat
      BY ListsAssumption
    <3> HIDE DEF row
    <3> QED BY <1>1, <3>1, RowParts DEF IsRow, row
  <2>2. \A q \in table : q.id # row.id
    BY <1>6, <2>1 DEF Present
  <2> HIDE DEF row
  <2>3. TableMoves(list, table, slipped, table', slipped', {})
    BY <1>1, <1>2, <1>3, <1>6, <2>1, <2>2, RowAdded DEF row
  <2>4. ListInv'
    BY <1>1, <1>4, <2>3 DEF ReadersInv, ListInv, TableMoves
  <2>5. Forgotten({})
    BY <1>2, <1>6, NothingForgotten DEF ReadersInv
  <2> QED BY <1>1, <2>3, <2>4, <2>5, MovedUnderReaders
<1> QED BY <1>5, <1>6

LEMMA ParentChangesStep == ReadersInv /\ ParentChanges => ReadersInv'
<1> SUFFICES ASSUME ReadersInv, ParentChanges PROVE ReadersInv'
  OBVIOUS
<1>1. /\ list \in {"documents", "activities"} /\ parent' = ~parent
      /\ UNCHANGED <<list, want, taken, clock, slipped>>
      /\ IF list = "documents" THEN table' = {} /\ Forget(Present)
         ELSE UNCHANGED <<table, cache, asking, sweep>>
  BY DEF ParentChanges
<1>2. CASE list = "documents"
  <2>1. Rows("documents", table) /\ taken = {} /\ taken' = {}
    BY <1>1, <1>2 DEF ReadersInv, ListInv, TakenInv, Timed
  <2>2. table' \subseteq table /\ {r.id : r \in table \ table'} = Present
    BY <1>1, <1>2 DEF Present
  <2>3. TableMoves(list, table, slipped, table', slipped', Present)
    BY <1>1, <1>2, <2>1, <2>2, RowsRemoved
  <2>4. ListInv'
    BY <1>1, <1>2, <2>1, <2>3 DEF ReadersInv, ListInv, TakenInv, TableMoves
  <2>5. Forgotten(Present)
    BY <1>1, <1>2, ForgetParts DEF ReadersInv
  <2> QED BY <1>1, <2>3, <2>4, <2>5, MovedUnderReaders
<1>3. CASE list # "documents"
  <2>1. TableMoves(list, table, slipped, table', slipped', {})
    BY <1>1, <1>3, RowsStay DEF ReadersInv, ListInv
  <2>2. TakenInv'
    BY <1>1, <1>3 DEF ReadersInv, ListInv, TakenInv, Present
  <2>3. ListInv'
    BY <1>1, <1>3, <2>1, <2>2 DEF ReadersInv, ListInv, TableMoves
  <2>4. Forgotten({})
    BY <1>1, <1>3, NothingForgotten DEF ReadersInv
  <2> QED BY <1>1, <2>1, <2>3, <2>4, MovedUnderReaders
<1> QED BY <1>2, <1>3

-----------------------------------------------------------------------------
(* The answers *)

LEMMA HitsAreRows ==
    ASSUME NEW l, NEW w, NEW T, Rows(l, T), NEW c
    PROVE  /\ Keyed(HitRows(l, w, T, c)) /\ HitRows(l, w, T, c) \subseteq T
           /\ \A r \in HitRows(l, w, T, c) : r.at \in Nat /\ Beyond(l, c, r)
<1> DEFINE H == HitRows(l, w, T, c)
<1>1. H \subseteq T /\ \A r \in H : Beyond(l, c, r)
  BY DEF HitRows, ListedIn
<1> HIDE DEF H
<1>2. IsFiniteSet(H)
  BY <1>1, FS_Subset DEF Rows
<1>3. \A r \in H : IsRow(l, r)
  BY <1>1 DEF Rows
<1>4. \A r \in H : r.at \in Nat /\ r.at \in Int /\ r.id \in Int
  BY <1>3, KeysAreNumbers DEF IsRow
<1>5. \A a, b \in H : a.id = b.id => a = b
  BY <1>1 DEF Rows
<1> QED BY <1>1, <1>2, <1>4, <1>5 DEF Keyed, H

LEMMA ReadIsFit ==
    ASSUME NEW l, NEW w, NEW T, Rows(l, T), NEW c, NEW since,
           since \subseteq {r.id : r \in ListedIn(l, w, T)}, NEW p,
           PageReads(p, HitRows(l, w, T, c), Down(l))
    PROVE  PageFits(l, T, c, since, p)
<1> DEFINE H == HitRows(l, w, T, c)
<1>1. H \subseteq T /\ \A r \in H : Beyond(l, c, r)
  BY HitsAreRows
<1>2. ASSUME NEW i \in 1 .. Len(p.items)
      PROVE  Beyond(l, c, p.items[i]) /\ \E r \in T : r.id = p.items[i].id /\ r.at = p.items[i].at
  <2>1. PICK r \in H : Cursor(p.items[i]) = Cursor(r)
    BY DEF PageReads
  <2>2. r.id = p.items[i].id /\ r.at = p.items[i].at
    BY <2>1, SameKeys
  <2>3. Beyond(l, c, r) /\ r \in T
    BY <1>1
  <2>4. Beyond(l, c, p.items[i])
    BY <2>2, <2>3, AheadByKeys, DownIsBoolean DEF Beyond
  <2> QED BY <2>2, <2>3, <2>4
<1>3. ASSUME NEW r \in T, r.id \in since, Beyond(l, c, r) PROVE r \in H
  <2>1. PICK q \in ListedIn(l, w, T) : q.id = r.id
    BY <1>3
  <2>2. q = r
    BY <2>1 DEF ListedIn, Rows
  <2> QED BY <2>1, <2>2, <1>3 DEF HitRows
<1> HIDE DEF H
<1> QED BY <1>2, <1>3 DEF PageReads, PageFits, H

LEMMA ServedParts ==
    ASSUME NEW p
    PROVE  /\ Served(p).items = p.items /\ Served(p).next = p.next /\ Served(p).ok
           /\ UnderParent(p).ok => UnderParent(p) = Served(p)
BY DEF Served, UnderParent, Refused

\* What a query reads, of each list
LEMMA QueriesRead ==
    ASSUME ListInv, NEW c
    PROVE  LET H == HitRows(list, want, table, c)
           IN  /\ list = "sessions" => PageReads(SessionsPage(c), H, Down(list))
               /\ list = "messages" => PageReads(MessagesPage(c), H, Down(list))
               /\ list = "session_runs" => PageReads(SessionRunsPage(c), H, Down(list))
               /\ list = "runs" => PageReads(GlobalRunsPage(c), H, Down(list))
               /\ list = "proposals" => PageReads(ProposalsPage(c), H, Down(list))
               /\ list = "activities" => PageReads(ActivitiesPage(c), H, Down(list))
               /\ list = "run_events" => PageReads(RunEventsPage(c), H, Down(list))
               /\ list = "action_events" => PageReads(ActionEventsPage(c), H, Down(list))
               /\ list = "documents" => PageReads(DocumentsPage(c), H, Down(list))
<1> DEFINE H == HitRows(list, want, table, c)
<1>1. Rows(list, table) /\ want \in Filters(list)
  BY DEF ListInv
<1>2. Keyed(H) /\ \A r \in H : r.at \in Nat
  BY <1>1, HitsAreRows
<1>3. Limit \in Nat \ {0} /\ Limit + 1 \in Nat /\ Limit \in Nat
  BY ListsAssumption
<1>4. PageReads(PageOf(Newest(H, Limit + 1), Limit), H, TRUE)
  <2> HIDE DEF H
  <2>1. FirstOf(Newest(H, Limit + 1), H, TRUE, Limit + 1)
    BY <1>2, <1>3, NewestParts
  <2> QED BY <2>1, <1>2, <1>3, PageOfParts
<1>5. PageReads(PageOf(Oldest(H, Limit + 1), Limit), H, FALSE)
  <2> HIDE DEF H
  <2>1. FirstOf(Oldest(H, Limit + 1), H, FALSE, Limit + 1)
    BY <1>2, <1>3, OldestParts
  <2> QED BY <2>1, <1>2, <1>3, PageOfParts
<1>6. ASSUME Down(list) PROVE \A r : Past(c, r) <=> Beyond(list, c, r)
  BY <1>6 DEF Past, Beyond, Ahead
<1>7. ASSUME ~Down(list) PROVE \A r : (c = NoCursor \/ Newer(r, c)) <=> Beyond(list, c, r)
  BY <1>7 DEF Beyond, Ahead
<1>8. ASSUME list \in {"sessions", "session_runs", "runs", "proposals", "activities"} PROVE Down(list) = TRUE
  BY <1>8 DEF Down, Descending, Timed
<1>9. ASSUME list \in {"messages", "run_events", "action_events", "documents"} PROVE Down(list) = FALSE
  BY <1>9 DEF Down, Descending, Timed
<1>10. ASSUME list \notin {"audit", "messages"}
       PROVE  ListedIn(list, want, table) = {r \in table : want \in {None, r.tag}}
  BY <1>10 DEF ListedIn
<1>11. ASSUME list \in {"session_runs", "activities", "run_events", "action_events", "documents"}
       PROVE  ListedIn(list, want, table) = table
  <2>1. want = None
    BY <1>11, <1>1 DEF Filters
  <2> QED BY <2>1, <1>10, <1>11
<1>12. list \in {"sessions", "runs", "proposals"} => Of(Tagged, c) = H
  BY <1>6, <1>8, <1>10 DEF Of, Tagged, HitRows
<1>13. list \in {"session_runs", "activities"} => Of(table, c) = H
  BY <1>6, <1>8, <1>11 DEF Of, HitRows
<1>14. list \in {"run_events", "action_events", "documents"} => After(table, c) = H
  BY <1>7, <1>9, <1>11 DEF After, HitRows
<1>15. list = "messages" => After({r \in table : r.tag # "archived"}, c) = H
  BY <1>7, <1>9 DEF After, HitRows, ListedIn
<1> HIDE DEF H
<1>16. list = "sessions" => PageReads(SessionsPage(c), H, Down(list))
  BY <1>4, <1>8, <1>12 DEF SessionsPage
<1>17. list = "messages" => PageReads(MessagesPage(c), H, Down(list))
  BY <1>5, <1>9, <1>15 DEF MessagesPage
<1>18. list = "session_runs" => PageReads(SessionRunsPage(c), H, Down(list))
  BY <1>4, <1>8, <1>13 DEF SessionRunsPage
<1>19. list = "runs" => PageReads(GlobalRunsPage(c), H, Down(list))
  BY <1>4, <1>8, <1>12 DEF GlobalRunsPage
<1>20. list = "proposals" => PageReads(ProposalsPage(c), H, Down(list))
  BY <1>4, <1>8, <1>12 DEF ProposalsPage
<1>21. list = "activities" => PageReads(ActivitiesPage(c), H, Down(list))
  BY <1>4, <1>8, <1>13 DEF ActivitiesPage
<1>22. list = "run_events" => PageReads(RunEventsPage(c), H, Down(list))
  BY <1>5, <1>9, <1>14 DEF RunEventsPage
<1>23. list = "action_events" => PageReads(ActionEventsPage(c), H, Down(list))
  BY <1>5, <1>9, <1>14 DEF ActionEventsPage
<1>24. list = "documents" => PageReads(DocumentsPage(c), H, Down(list))
  <2> SUFFICES ASSUME list = "documents" PROVE PageReads(DocumentsPage(c), H, FALSE)
    BY <1>9
  <2> DEFINE s == Oldest(H, Limit)
  <2>1. FirstOf(s, H, FALSE, Limit)
    BY <1>2, <1>3, OldestParts
  <2>2. DocumentsPage(c) = Page(s, IF Len(s) >= Limit THEN Cursor(s[Len(s)]) ELSE NoCursor)
    BY <1>14 DEF DocumentsPage
  <2> HIDE DEF s
  <2> QED BY <2>1, <2>2, <1>2, <1>3, FullPageParts
<1> QED BY <1>16, <1>17, <1>18, <1>19, <1>20, <1>21, <1>22, <1>23, <1>24 DEF H

LEMMA AnsweredReads ==
    ASSUME ListInv, list # "audit", NEW c, Answered(c).ok
    PROVE  PageReads(Answered(c), HitRows(list, want, table, c), Down(list))
<1> DEFINE H == HitRows(list, want, table, c)
           Reads(p) == PageReads(p, H, Down(list))
<1>1. \A p : Reads(p) => Reads(Served(p))
  BY ServedParts DEF PageReads
<1>2. \A p : Reads(p) /\ UnderParent(p).ok => Reads(UnderParent(p))
  BY <1>1, ServedParts
<1>3. /\ list = "sessions" => Reads(SessionsPage(c))
      /\ list = "messages" => Reads(MessagesPage(c))
      /\ list = "session_runs" => Reads(SessionRunsPage(c))
      /\ list = "runs" => Reads(GlobalRunsPage(c))
      /\ list = "proposals" => Reads(ProposalsPage(c))
      /\ list = "activities" => Reads(ActivitiesPage(c))
      /\ list = "run_events" => Reads(RunEventsPage(c))
      /\ list = "action_events" => Reads(ActionEventsPage(c))
      /\ list = "documents" => Reads(DocumentsPage(c))
  BY QueriesRead
<1>4. list = "documents" /\ ~parent => Reads(Page(<<>>, NoCursor))
  <2> SUFFICES ASSUME list = "documents", ~parent PROVE Reads(Page(<<>>, NoCursor))
    OBVIOUS
  <2>1. table = {}
    BY DEF ListInv
  <2>2. H = {}
    BY <2>1 DEF HitRows, ListedIn
  <2>3. Page(<<>>, NoCursor).items = <<>> /\ Page(<<>>, NoCursor).next = NoCursor
    BY PageIs
  <2>4. Len(<<>>) = 0 /\ DOMAIN <<>> = 1 .. 0
    OBVIOUS
  <2> QED BY <2>2, <2>3, <2>4 DEF PageReads
<1> HIDE DEF Reads
<1>5. list \in {"sessions", "messages", "session_runs", "runs", "proposals", "activities", "run_events",
                "action_events", "documents"}
  BY DEF ListInv, Lists, Timed, Numbered
<1>6. list = "sessions" => Reads(Answered(c))
  BY <1>1, <1>3 DEF Answered, ListSessions
<1>7. list = "messages" => Reads(Answered(c))
  BY <1>2, <1>3 DEF Answered, ListMessages
<1>8. list = "session_runs" => Reads(Answered(c))
  BY <1>2, <1>3 DEF Answered, ListSessionRuns
<1>9. list = "runs" => Reads(Answered(c))
  BY <1>1, <1>3 DEF Answered, ListRuns
<1>10. list = "proposals" => Reads(Answered(c))
  BY <1>1, <1>3 DEF Answered, ListActionProposals
<1>11. list = "activities" => Reads(Answered(c))
  BY <1>2, <1>3 DEF Answered, ListServiceActivities
<1>12. list = "run_events" => Reads(Answered(c))
  BY <1>2, <1>3 DEF Answered, ListRunEvents
<1>13. list = "action_events" => Reads(Answered(c))
  BY <1>2, <1>3 DEF Answered, ListActionEvents
<1>14. list = "documents" => Reads(Answered(c))
  BY <1>1, <1>3, <1>4 DEF Answered, ListKnowledgeDocuments
<1>15. Reads(Answered(c))
  BY <1>5, <1>6, <1>7, <1>8, <1>9, <1>10, <1>11, <1>12, <1>13, <1>14
<1> QED BY <1>15 DEF Reads

-----------------------------------------------------------------------------
(* The readers *)

LEMMA EmptyLine == Line(<<>>) /\ Len(<<>>) = 0 /\ NextCursor(<<>>) = NoCursor
<1>1. <<>> \in Seq({}) /\ Len(<<>>) = 0
  OBVIOUS
<1>2. Line(<<>>)
  BY <1>1, LineOfSeq
<1> QED BY <1>1, <1>2 DEF NextCursor

LEMMA ReadingNothing ==
    ASSUME NEW l, NEW w, NEW T, NEW S, NEW since,
           since \subseteq {r.id : r \in ListedIn(l, w, T)}
    PROVE  Reading(l, w, T, S, <<>>, since) /\ GoesOn(<<>>)
<1>1. Spots(<<>>) = {}
  BY EmptyLine, SpotsOf
<1> QED BY <1>1, EmptyLine DEF Reading, GoesOn

LEMMA PagesParts ==
    ASSUME NEW pages, NEW since
    PROVE  /\ IsPages(Pages(pages, since)) /\ Pages(pages, since).on
           /\ Pages(pages, since).pages = pages /\ Pages(pages, since).since = since
           /\ IsPages(Blank) /\ ~Blank.on /\ Blank.pages = <<>> /\ Blank.since = {}
BY DEF Pages, Blank, IsPages

LEMMA ListedIs == Listed = ListedIn(list, want, table)
BY DEF Listed, ListedIn

\* what belongs to the list itself stays
ListStays == UNCHANGED <<list, parent, want, table, taken, clock, slipped>>

LEMMA ListInvStays == ListInv /\ ListStays => ListInv'
BY DEF ListInv, ListStays, TakenInv, Present

LEMMA CacheStays == CacheInv /\ ListStays /\ cache' = cache => CacheInv'
BY DEF CacheInv, ListStays

LEMMA SweepStays == SweepInv /\ ListStays /\ sweep' = sweep => SweepInv'
BY DEF SweepInv, ListStays

LEMMA AskStays == AskInv /\ ListStays /\ asking' = asking => AskInv'
BY DEF AskInv, ListStays

LEMMA QuietFits ==
    ASSUME ListStays, asking' = Quiet
    PROVE  AskInv'
<1>1. /\ IsQuestion(asking') /\ asking'.pages = <<>> /\ asking'.since = {} /\ asking'.half = FALSE
  BY DEF Quiet, Question, IsQuestion
<1>2. Reading(list', want', table', slipped', <<>>, {}) /\ GoesOn(<<>>)
  BY ReadingNothing
<1> QED BY <1>1, <1>2 DEF AskInv

LEMMA BlankCacheFits ==
    ASSUME cache' = Blank
    PROVE  CacheInv'
<1>1. IsPages(cache') /\ ~cache'.on /\ cache'.pages = <<>> /\ cache'.since = {}
  BY PagesParts
<1>2. Reading(list', want', table', slipped', <<>>, {})
  BY ReadingNothing
<1> QED BY <1>1, <1>2 DEF CacheInv

LEMMA BlankSweepFits ==
    ASSUME sweep' = Blank
    PROVE  SweepInv'
<1>1. IsPages(sweep') /\ ~sweep'.on /\ sweep'.pages = <<>> /\ sweep'.since = {}
  BY PagesParts
<1>2. Reading(list', want', table', slipped', <<>>, {}) /\ GoesOn(<<>>)
  BY ReadingNothing
<1> QED BY <1>1, <1>2 DEF SweepInv

LEMMA OpenStep == ReadersInv /\ Open => ReadersInv'
<1> SUFFICES ASSUME ReadersInv, Open PROVE ReadersInv'
  OBVIOUS
<1>1. ListStays /\ cache' = cache /\ sweep' = sweep /\ asking' = Question("first", <<>>, 1, {})
  BY DEF Open, ListStays
<1>2. /\ IsQuestion(asking') /\ asking'.pages = <<>> /\ asking'.since = {} /\ asking'.half = FALSE
  BY <1>1 DEF Question, IsQuestion
<1>3. AskInv'
  BY <1>2, ReadingNothing DEF AskInv
<1> QED BY <1>1, <1>3, ListInvStays, CacheStays, SweepStays DEF ReadersInv

LEMMA LoadMoreStep == ReadersInv /\ LoadMore => ReadersInv'
<1> SUFFICES ASSUME ReadersInv, LoadMore PROVE ReadersInv'
  OBVIOUS
<1>1. /\ ListStays /\ cache' = cache /\ sweep' = sweep
      /\ asking' = Question("more", cache.pages, Len(cache.pages) + 1, cache.since)
      /\ NextCursor(cache.pages) # NoCursor
  BY DEF LoadMore, ListStays
<1>2. /\ IsQuestion(asking') /\ asking'.pages = cache.pages /\ asking'.since = cache.since
      /\ asking'.half = FALSE
  BY <1>1 DEF Question, IsQuestion
<1>3. Reading(list', want', table', slipped', asking'.pages, asking'.since)
  BY <1>1, <1>2 DEF ListStays, ReadersInv, CacheInv
<1>4. AskInv'
  BY <1>1, <1>2, <1>3 DEF AskInv, GoesOn
<1> QED BY <1>1, <1>4, ListInvStays, CacheStays, SweepStays DEF ReadersInv

LEMMA ReloadStep == ReadersInv /\ Reload => ReadersInv'
<1> SUFFICES ASSUME ReadersInv, Reload PROVE ReadersInv'
  OBVIOUS
<1>1. ListStays /\ cache' = cache /\ sweep' = sweep
      /\ asking' = Question("reload", <<>>, Len(cache.pages), {})
  BY DEF Reload, ListStays
<1>2. /\ IsQuestion(asking') /\ asking'.pages = <<>> /\ asking'.since = {} /\ asking'.half = FALSE
  BY <1>1 DEF Question, IsQuestion
<1>3. AskInv'
  BY <1>2, ReadingNothing DEF AskInv
<1> QED BY <1>1, <1>3, ListInvStays, CacheStays, SweepStays DEF ReadersInv

LEMMA SinceParts ==
    ASSUME ReadersInv
    PROVE  /\ Since(asking) \subseteq {r.id : r \in ListedIn(list, want, table)}
           /\ Reading(list, want, table, slipped, asking.pages, Since(asking))
<1>1. CASE asking.pages = <<>> /\ ~asking.half
  <2>1. Since(asking) = {r.id : r \in ListedIn(list, want, table)}
    BY <1>1, ListedIs DEF Since
  <2> QED BY <1>1, <2>1, ReadingNothing
<1>2. CASE ~(asking.pages = <<>> /\ ~asking.half)
  <2>1. Since(asking) = asking.since
    BY <1>2 DEF Since
  <2> QED BY <2>1 DEF ReadersInv, AskInv, Reading
<1> QED BY <1>1, <1>2

LEMMA PageArrivesStep ==
    ASSUME ReadersInv, ListStays, sweep' = sweep, NEW page,
           PageFits(list, table, NextCursor(asking.pages), Since(asking), page),
           PageArrives(asking, page)
    PROVE  ReadersInv'
<1> DEFINE new == [items |-> page.items, next |-> page.next]
           N == Append(asking.pages, new)
           since == Since(asking)
<1>1. /\ Reading(list, want, table, slipped, N, since)
      /\ NextCursor(N) = page.next /\ N # <<>>
  BY SinceParts, ReadingGrows DEF ReadersInv, ListInv, AskInv
<1>2. Reading(list', want', table', slipped', N, since)
  BY <1>1 DEF ListStays
<1> HIDE DEF N, since
<1>3. CASE Len(N) >= asking.goal \/ page.next = NoCursor
  <2>1. cache' = Pages(N, since) /\ asking' = Quiet
    BY <1>3 DEF PageArrives, N, since
  <2>2. IsPages(cache') /\ cache'.pages = N /\ cache'.since = since
    BY <2>1, PagesParts
  <2>3. CacheInv'
    BY <1>1, <1>2, <2>2 DEF CacheInv
  <2> QED BY <2>1, <2>3, QuietFits, ListInvStays, SweepStays DEF ReadersInv
<1>4. CASE ~(Len(N) >= asking.goal \/ page.next = NoCursor)
  <2>1. /\ asking' = [asking EXCEPT !.pages = N, !.since = since, !.half = FALSE, !.side = <<>>]
        /\ cache' = cache
    BY <1>4 DEF PageArrives, N, since
  <2>2. asking' = [how |-> asking.how, pages |-> N, goal |-> asking.goal, since |-> since,
                   half |-> FALSE, side |-> <<>>]
    <3>1. asking = [how |-> asking.how, pages |-> asking.pages, goal |-> asking.goal,
                    since |-> asking.since, half |-> asking.half, side |-> asking.side]
      BY DEF ReadersInv, AskInv, IsQuestion
    <3> QED BY <2>1, <3>1
  <2>3. IsQuestion(asking') /\ asking'.pages = N /\ asking'.since = since /\ asking'.half = FALSE
    BY <2>2 DEF IsQuestion
  <2>4. GoesOn(N)
    BY <1>1, <1>4 DEF GoesOn
  <2>5. AskInv'
    BY <1>2, <2>3, <2>4 DEF AskInv
  <2> QED BY <2>1, <2>5, ListInvStays, CacheStays, SweepStays DEF ReadersInv
<1> QED BY <1>3, <1>4

LEMMA AnswerStep == ReadersInv /\ Answer => ReadersInv'
<1> SUFFICES ASSUME ReadersInv, Answer PROVE ReadersInv'
  OBVIOUS
<1> DEFINE c == NextCursor(asking.pages)
           page == Answered(c)
<1>1. ListStays /\ sweep' = sweep /\ list # "audit"
      /\ IF page.ok THEN PageArrives(asking, page) ELSE asking' = Quiet /\ UNCHANGED cache
  BY DEF Answer, AskCursor, ListStays
<1>2. CASE page.ok
  <2>1. PageReads(page, HitRows(list, want, table, c), Down(list))
    BY <1>1, <1>2, AnsweredReads DEF ReadersInv
  <2>2. PageFits(list, table, c, Since(asking), page)
    BY <2>1, SinceParts, ReadIsFit DEF ReadersInv, ListInv
  <2> HIDE DEF page, c
  <2>3. PageArrives(asking, page)
    BY <1>1, <1>2
  <2> QED BY <1>1, <2>2, <2>3, PageArrivesStep DEF c
<1>3. CASE ~page.ok
  <2>1. asking' = Quiet /\ cache' = cache
    BY <1>1, <1>3
  <2> QED BY <1>1, <2>1, QuietFits, ListInvStays, CacheStays, SweepStays DEF ReadersInv
<1> QED BY <1>2, <1>3

LEMMA AskFailsStep == ReadersInv /\ AskFails => ReadersInv'
<1> SUFFICES ASSUME ReadersInv, AskFails PROVE ReadersInv'
  OBVIOUS
<1>1. ListStays /\ cache' = cache /\ sweep' = sweep /\ asking' = Quiet
  BY DEF AskFails, ListStays
<1> QED BY <1>1, QuietFits, ListInvStays, CacheStays, SweepStays DEF ReadersInv

LEMMA SweepStartsStep == ReadersInv /\ SweepStarts => ReadersInv'
<1> SUFFICES ASSUME ReadersInv, SweepStarts PROVE ReadersInv'
  OBVIOUS
<1>1. /\ ListStays /\ cache' = cache /\ asking' = asking /\ sweep' = Pages(<<>>, {})
      /\ list \in {"session_runs", "messages"}
  BY DEF SweepStarts, ListStays
<1>2. IsPages(sweep') /\ sweep'.pages = <<>> /\ sweep'.since = {}
  BY <1>1, PagesParts
<1>3. SweepInv'
  BY <1>1, <1>2, ReadingNothing DEF SweepInv, ListStays
<1> QED BY <1>1, <1>3, ListInvStays, CacheStays, AskStays DEF ReadersInv

LEMMA SweepArrivesStep ==
    ASSUME ReadersInv, ListStays, asking' = asking, list # "audit", NEW page, NEW since,
           Reading(list, want, table, slipped, sweep.pages, since),
           PageFits(list, table, NextCursor(sweep.pages), since, page),
           SweepArrives(Append(sweep.pages, [items |-> page.items, next |-> page.next]), since, page)
    PROVE  ReadersInv'
<1> DEFINE new == [items |-> page.items, next |-> page.next]
           N == Append(sweep.pages, new)
<1>1. /\ Reading(list, want, table, slipped, N, since)
      /\ NextCursor(N) = page.next /\ N # <<>>
  <2>1. list \in Lists /\ Rows(list, table)
    BY DEF ReadersInv, ListInv
  <2>2. GoesOn(sweep.pages)
    BY DEF ReadersInv, SweepInv
  <2> QED BY <2>1, <2>2, ReadingGrows
<1>2. Reading(list', want', table', slipped', N, since)
  BY <1>1 DEF ListStays
<1>3. SweepArrives(N, since, page)
  OBVIOUS
<1> HIDE DEF N
<1>4. CASE cache' = Pages(N, since) /\ sweep' = Blank
  <2>1. IsPages(cache') /\ cache'.pages = N /\ cache'.since = since
    BY <1>4, PagesParts
  <2>2. CacheInv'
    BY <1>1, <1>2, <2>1 DEF CacheInv
  <2> QED BY <1>4, <2>2, BlankSweepFits, ListInvStays, AskStays DEF ReadersInv
<1>5. CASE sweep' = Pages(N, since) /\ cache' = cache /\ page.next # NoCursor
  <2>1. IsPages(sweep') /\ sweep'.pages = N /\ sweep'.since = since
    BY <1>5, PagesParts
  <2>2. SweepInv'
    BY <1>1, <1>2, <1>5, <2>1 DEF SweepInv, GoesOn, ListStays
  <2> QED BY <1>5, <2>2, ListInvStays, CacheStays, AskStays DEF ReadersInv
<1> QED BY <1>3, <1>4, <1>5 DEF SweepArrives

LEMMA SweepAnswerStep == ReadersInv /\ SweepAnswer => ReadersInv'
<1> SUFFICES ASSUME ReadersInv, SweepAnswer PROVE ReadersInv'
  OBVIOUS
<1> DEFINE c == NextCursor(sweep.pages)
           page == Answered(c)
           since == IF sweep.pages = <<>> THEN {r.id : r \in Listed} ELSE sweep.since
           N == Append(sweep.pages, [items |-> page.items, next |-> page.next])
<1>1. /\ ListStays /\ asking' = asking /\ sweep.on
      /\ IF page.ok THEN SweepArrives(N, since, page) ELSE sweep' = Blank /\ UNCHANGED cache
  BY DEF SweepAnswer, ListStays
<1>2. list # "audit"
  BY <1>1 DEF ReadersInv, SweepInv
<1>3. /\ since \subseteq {r.id : r \in ListedIn(list, want, table)}
      /\ Reading(list, want, table, slipped, sweep.pages, since)
  <2>1. CASE sweep.pages = <<>>
    <3>1. since = {r.id : r \in ListedIn(list, want, table)}
      BY <2>1, ListedIs
    <3> QED BY <2>1, <3>1, ReadingNothing
  <2>2. CASE sweep.pages # <<>>
    BY <2>2 DEF ReadersInv, SweepInv, Reading
  <2> QED BY <2>1, <2>2
<1> HIDE DEF since
<1>4. CASE page.ok
  <2>1. PageReads(page, HitRows(list, want, table, c), Down(list))
    BY <1>2, <1>4, AnsweredReads DEF ReadersInv
  <2>2. PageFits(list, table, c, since, page)
    BY <2>1, <1>3, ReadIsFit DEF ReadersInv, ListInv
  <2>3. SweepArrives(N, since, page)
    BY <1>1, <1>4
  <2> HIDE DEF page
  <2> QED BY <1>1, <1>2, <1>3, <2>2, <2>3, SweepArrivesStep
<1>5. CASE ~page.ok
  <2>1. sweep' = Blank /\ cache' = cache
    BY <1>1, <1>5
  <2> QED BY <1>1, <2>1, BlankSweepFits, ListInvStays, CacheStays, AskStays DEF ReadersInv
<1> QED BY <1>4, <1>5

LEMMA SweepFailsStep == ReadersInv /\ SweepFails => ReadersInv'
<1> SUFFICES ASSUME ReadersInv, SweepFails PROVE ReadersInv'
  OBVIOUS
<1>1. ListStays /\ cache' = cache /\ asking' = asking /\ sweep' = Blank
  BY DEF SweepFails, ListStays
<1> QED BY <1>1, BlankSweepFits, ListInvStays, CacheStays, AskStays DEF ReadersInv
-----------------------------------------------------------------------------
(* The two sides of the audit stream *)

\* the rows the two statements of a page hit
RunHits(rows, cursor, flt) == {r \in rows :
    /\ r.kind = "run"
    /\ InWindow(r, flt)
    /\ flt.type = None \/ RunTypeByStatus[r.tag] = flt.type
    /\ flt.outcome = None \/ r.tag \in RunStatusesByOutcome(flt.outcome)
    /\ Past(cursor, r)}

Wanted(flt) == IF flt.outcome = None THEN <<flt.type, None>> ELSE ActionFilterByOutcome(flt.outcome)
ActionHits(rows, cursor, flt) == {r \in rows :
    /\ r.kind = "action"
    /\ flt.outcome # None => Wanted(flt)[1] # None /\ flt.type \in {None, Wanted(flt)[1]}
    /\ r.tag[1] \in ActionTypes
    /\ InWindow(r, flt)
    /\ Wanted(flt)[1] = None \/ r.tag[1] = Wanted(flt)[1]
    /\ Wanted(flt)[2] = None \/ r.tag[2] = Wanted(flt)[2]
    /\ Past(cursor, r)}

LEMMA RunOutcomes ==
    ASSUME NEW s \in RunStatuses
    PROVE  /\ RunOutcomeByType[RunTypeByStatus[s]] # None
           /\ \A o : s \in RunStatusesByOutcome(o) <=> RunOutcomeByType[RunTypeByStatus[s]] = o
<1>1. CASE s = "queued"
  <2>1. RunTypeByStatus[s] = "run_created" /\ RunOutcomeByType["run_created"] = "running"
    BY <1>1 DEF RunTypeByStatus, RunOutcomeByType
  <2> QED BY <1>1, <2>1 DEF RunStatusesByOutcome, None, RunStatuses
<1>2. CASE s = "running"
  <2>1. RunTypeByStatus[s] = "run_running" /\ RunOutcomeByType["run_running"] = "running"
    BY <1>2 DEF RunTypeByStatus, RunOutcomeByType
  <2> QED BY <1>2, <2>1 DEF RunStatusesByOutcome, None, RunStatuses
<1>3. CASE s = "succeeded"
  <2>1. RunTypeByStatus[s] = "run_completed" /\ RunOutcomeByType["run_completed"] = "succeeded"
    BY <1>3 DEF RunTypeByStatus, RunOutcomeByType
  <2> QED BY <1>3, <2>1 DEF RunStatusesByOutcome, None, RunStatuses
<1>4. CASE s = "failed"
  <2>1. RunTypeByStatus[s] = "run_failed" /\ RunOutcomeByType["run_failed"] = "failed"
    BY <1>4 DEF RunTypeByStatus, RunOutcomeByType
  <2> QED BY <1>4, <2>1 DEF RunStatusesByOutcome, None, RunStatuses
<1>5. CASE s = "cancelled"
  <2>1. RunTypeByStatus[s] = "run_cancelled" /\ RunOutcomeByType["run_cancelled"] = "cancelled"
    BY <1>5 DEF RunTypeByStatus, RunOutcomeByType
  <2> QED BY <1>5, <2>1 DEF RunStatusesByOutcome, None, RunStatuses
<1> QED BY <1>1, <1>2, <1>3, <1>4, <1>5 DEF RunStatuses

LEMMA ActivityParts ==
    ASSUME NEW r
    PROVE  /\ r.kind = "run" => Activity(r) = RunActivity(r)
           /\ r.kind = "action" /\ r.tag[1] \in ActionTypes => Activity(r) = ActionActivity(r)
           /\ r.kind = "action" /\ r.tag[1] \notin ActionTypes => Activity(r).outcome = None
           /\ RunActivity(r).id = r.id /\ RunActivity(r).at = r.at
           /\ RunActivity(r).type = RunTypeByStatus[r.tag]
           /\ RunActivity(r).outcome = RunOutcomeByType[RunTypeByStatus[r.tag]]
           /\ ActionActivity(r).id = r.id /\ ActionActivity(r).at = r.at
           /\ ActionActivity(r).type = r.tag[1]
           /\ ActionActivity(r).outcome = ActionOutcome(r.tag[1], r.tag[2])
BY DEF Activity, RunActivity, ActionActivity

\* The statement of the Runs hits those the stream shows with the wanted type and outcome.
LEMMA RunHitsMatch ==
    ASSUME NEW rows, NEW cursor, NEW flt, NEW r \in rows, r.kind = "run", r.tag \in RunStatuses
    PROVE  r \in RunHits(rows, cursor, flt) <=> Matches(r, flt) /\ Past(cursor, r)
<1> DEFINE outcome == RunOutcomeByType[RunTypeByStatus[r.tag]]
           type == RunTypeByStatus[r.tag]
<1>1. outcome # None /\ \A o : r.tag \in RunStatusesByOutcome(o) <=> outcome = o
  BY RunOutcomes
<1>2. Activity(r).outcome = outcome /\ Activity(r).type = type
  BY ActivityParts
<1>3. Matches(r, flt) <=> InWindow(r, flt) /\ flt.type \in {None, type} /\ flt.outcome \in {None, outcome}
  <2> HIDE DEF type, outcome
  <2> QED BY <1>1, <1>2 DEF Matches
<1>4. r \in RunHits(rows, cursor, flt) <=>
        /\ InWindow(r, flt)
        /\ flt.type = None \/ type = flt.type
        /\ flt.outcome = None \/ r.tag \in RunStatusesByOutcome(flt.outcome)
        /\ Past(cursor, r)
  BY DEF RunHits
<1> HIDE DEF type, outcome
<1> QED BY <1>1, <1>3, <1>4

\* What an outcome is looked for among the events, and what an event is shown with
LEMMA ActionFilters ==
    /\ ActionFilterByOutcome("succeeded") = <<"execution_completed", None>>
    /\ ActionFilterByOutcome("failed") = <<"action_failed", "failed">>
    /\ ActionFilterByOutcome("pending_approval") = <<"proposal_created", None>>
    /\ ActionFilterByOutcome("approved") = <<"approval_recorded", "approved">>
    /\ ActionFilterByOutcome("rejected") = <<"approval_recorded", "rejected">>
    /\ ActionFilterByOutcome("expired") = <<"action_failed", "expired">>
    /\ ActionFilterByOutcome("blocked") = <<"action_blocked", None>>
    /\ ActionFilterByOutcome("verified") = <<"verification_completed", None>>
    /\ \A o : o \notin {"succeeded", "failed", "pending_approval", "approved", "rejected",
                      "expired", "blocked", "verified"} =>
          ActionFilterByOutcome(o) = <<None, None>>
BY DEF ActionFilterByOutcome, None

LEMMA ActionOutcomes ==
    /\ ActionOutcome("proposal_created", "pending_approval") = "pending_approval"
    /\ ActionOutcome("approval_recorded", "approved") = "approved"
    /\ ActionOutcome("approval_recorded", "rejected") = "rejected"
    /\ ActionOutcome("execution_completed", "succeeded") = "succeeded"
    /\ ActionOutcome("verification_completed", "verified") = "verified"
    /\ ActionOutcome("action_blocked", "blocked") = "blocked"
    /\ ActionOutcome("action_failed", "expired") = "expired"
    /\ ActionOutcome("action_failed", "failed") = "failed"
BY DEF ActionOutcome, ActionOutcomeByType

LEMMA EventFilters ==
    ASSUME NEW e \in Milestones \cup Passing
    PROVE  /\ e \in Milestones <=> e[1] \in ActionTypes
           /\ e \in Milestones =>
                /\ ActionOutcome(e[1], e[2]) # None /\ e[1] # None
                /\ \A o : LET w == ActionFilterByOutcome(o)
                         IN  w[1] # None /\ e[1] = w[1] /\ (w[2] = None \/ e[2] = w[2])
                               <=> ActionOutcome(e[1], e[2]) = o
<1>1. e \in Milestones <=> e[1] \in ActionTypes
  BY DEF Milestones, Passing, ActionTypes
<1>2. ASSUME e \in Milestones
      PROVE  e[1] # None /\ ActionOutcome(e[1], e[2]) # None
  BY <1>2, ActionOutcomes DEF Milestones, None
<1>3. ASSUME e \in Milestones, NEW o, NEW w, w = ActionFilterByOutcome(o)
      PROVE  w[1] # None /\ e[1] = w[1] /\ (w[2] = None \/ e[2] = w[2])
               <=> ActionOutcome(e[1], e[2]) = o
  <2>1. CASE o = "succeeded"
    <3>1. w[1] = "execution_completed" /\ w[2] = None
      BY <2>1, <1>3, ActionFilters
    <3> QED BY <3>1, <2>1, <1>3, ActionOutcomes DEF Milestones, None
  <2>2. CASE o = "failed"
    <3>1. w[1] = "action_failed" /\ w[2] = "failed"
      BY <2>2, <1>3, ActionFilters
    <3> QED BY <3>1, <2>2, <1>3, ActionOutcomes DEF Milestones, None
  <2>3. CASE o = "pending_approval"
    <3>1. w[1] = "proposal_created" /\ w[2] = None
      BY <2>3, <1>3, ActionFilters
    <3> QED BY <3>1, <2>3, <1>3, ActionOutcomes DEF Milestones, None
  <2>4. CASE o = "approved"
    <3>1. w[1] = "approval_recorded" /\ w[2] = "approved"
      BY <2>4, <1>3, ActionFilters
    <3> QED BY <3>1, <2>4, <1>3, ActionOutcomes DEF Milestones, None
  <2>5. CASE o = "rejected"
    <3>1. w[1] = "approval_recorded" /\ w[2] = "rejected"
      BY <2>5, <1>3, ActionFilters
    <3> QED BY <3>1, <2>5, <1>3, ActionOutcomes DEF Milestones, None
  <2>6. CASE o = "expired"
    <3>1. w[1] = "action_failed" /\ w[2] = "expired"
      BY <2>6, <1>3, ActionFilters
    <3> QED BY <3>1, <2>6, <1>3, ActionOutcomes DEF Milestones, None
  <2>7. CASE o = "blocked"
    <3>1. w[1] = "action_blocked" /\ w[2] = None
      BY <2>7, <1>3, ActionFilters
    <3> QED BY <3>1, <2>7, <1>3, ActionOutcomes DEF Milestones, None
  <2>8. CASE o = "verified"
    <3>1. w[1] = "verification_completed" /\ w[2] = None
      BY <2>8, <1>3, ActionFilters
    <3> QED BY <3>1, <2>8, <1>3, ActionOutcomes DEF Milestones, None
  <2>9. CASE o \notin {"succeeded", "failed", "pending_approval", "approved", "rejected", "expired", "blocked", "verified"}
    <3>1. w[1] = None
      BY <2>9, <1>3, ActionFilters
    <3>2. ActionOutcome(e[1], e[2]) \in {"succeeded", "failed", "pending_approval", "approved", "rejected", "expired", "blocked", "verified"}
      BY <1>3, ActionOutcomes DEF Milestones
    <3> QED BY <3>1, <3>2, <2>9
  <2> QED BY <2>1, <2>2, <2>3, <2>4, <2>5, <2>6, <2>7, <2>8, <2>9
<1> QED BY <1>1, <1>2, <1>3

\* The statement of the events hits those the stream shows with the wanted type and outcome.
LEMMA ActionHitsMatch ==
    ASSUME NEW rows, NEW cursor, NEW flt, NEW r \in rows, r.kind = "action",
           r.tag \in Milestones \cup Passing
    PROVE  r \in ActionHits(rows, cursor, flt) <=> Matches(r, flt) /\ Past(cursor, r)
<1> DEFINE e == r.tag
           w == Wanted(flt)
           outcome == ActionOutcome(e[1], e[2])
<1>1. e[1] \in ActionTypes <=> e \in Milestones
  BY EventFilters
<1>2. r \in ActionHits(rows, cursor, flt) <=>
        /\ flt.outcome # None => w[1] # None /\ flt.type \in {None, w[1]}
        /\ e[1] \in ActionTypes
        /\ InWindow(r, flt)
        /\ w[1] = None \/ e[1] = w[1]
        /\ w[2] = None \/ e[2] = w[2]
        /\ Past(cursor, r)
  BY DEF ActionHits
<1>3. CASE e \notin Milestones
  <2>1. Activity(r).outcome = None
    BY <1>1, <1>3, ActivityParts
  <2> QED BY <2>1, <1>1, <1>2, <1>3 DEF Matches
<1>4. CASE e \in Milestones
  <2>1. Activity(r).outcome = outcome /\ Activity(r).type = e[1]
    BY <1>1, <1>4, ActivityParts
  <2>2. outcome # None /\ e[1] # None
    BY <1>4, EventFilters
  <2>3. Matches(r, flt) <=> InWindow(r, flt) /\ flt.type \in {None, e[1]} /\ flt.outcome \in {None, outcome}
    <3> HIDE DEF outcome
    <3> QED BY <2>1, <2>2 DEF Matches
  <2>4. CASE flt.outcome = None
    <3>1. w[1] = flt.type /\ w[2] = None
      BY <2>4 DEF Wanted
    <3> HIDE DEF w, outcome, e
    <3> QED BY <3>1, <2>3, <2>4, <1>1, <1>2, <1>4
  <2>5. CASE flt.outcome # None
    <3>1. w = ActionFilterByOutcome(flt.outcome)
      BY <2>5 DEF Wanted
    <3>2. w[1] # None /\ e[1] = w[1] /\ (w[2] = None \/ e[2] = w[2]) <=> outcome = flt.outcome
      BY <3>1, <1>4, EventFilters
    <3> HIDE DEF w, outcome, e
    <3> QED BY <3>2, <2>3, <2>5, <1>1, <1>2, <1>4
  <2> QED BY <2>4, <2>5
<1> QED BY <1>3, <1>4

\* s holds the first n of the rows of H, as the stream shows them
SideOf(s, H, n) ==
    /\ Line(s) /\ Len(s) <= n /\ DOMAIN s = 1 .. Len(s)
    /\ \A i \in 1 .. Len(s) : \E r \in H : s[i] = Activity(r) /\ s[i].id = r.id /\ s[i].at = r.at
    /\ \A i, j \in 1 .. Len(s) : i < j => Newer(s[i], s[j])
    /\ \A r \in H : (\E i \in 1 .. Len(s) : s[i] = Activity(r) /\ s[i].id = r.id)
                      \/ (Len(s) = n /\ \A i \in 1 .. Len(s) : Newer(s[i], r))

LEMMA SideParts ==
    ASSUME NEW H, NEW n \in Nat, NEW items, FirstOf(items, H, TRUE, n), NEW s,
           s = [i \in 1 .. Len(items) |-> s[i]],
           \A i \in 1 .. Len(items) : s[i] = Activity(items[i]),
           \A r \in H : Activity(r).id = r.id /\ Activity(r).at = r.at
    PROVE  SideOf(s, H, n)
<1>1. items \in Seq(H) /\ Len(items) \in Nat /\ Len(items) <= n /\ \A i \in 1 .. Len(items) : items[i] \in H
  BY DEF FirstOf
<1>2. Line(s) /\ Len(s) = Len(items) /\ DOMAIN s = 1 .. Len(s)
  <2>1. s \in [1 .. Len(items) -> {s[i] : i \in 1 .. Len(items)}]
    OBVIOUS
  <2>2. s \in Seq({s[i] : i \in 1 .. Len(items)}) /\ Len(s) = Len(items)
    BY <2>1, <1>1, LineOf
  <2> QED BY <2>1, <2>2, LineOfSeq
<1>3. \A i \in 1 .. Len(s) : s[i] = Activity(items[i]) /\ items[i] \in H
        /\ s[i].id = items[i].id /\ s[i].at = items[i].at
  BY <1>1, <1>2
<1>4. ASSUME NEW i \in 1 .. Len(s), NEW j \in 1 .. Len(s), i < j PROVE Newer(s[i], s[j])
  <2>1. Newer(items[i], items[j])
    BY <1>2, <1>4 DEF FirstOf, Ahead
  <2> QED BY <2>1, <1>3 DEF Newer
<1>5. ASSUME NEW r \in H
      PROVE  (\E i \in 1 .. Len(s) : s[i] = Activity(r) /\ s[i].id = r.id)
               \/ (Len(s) = n /\ \A i \in 1 .. Len(s) : Newer(s[i], r))
  <2>1. CASE \E i \in 1 .. Len(items) : items[i] = r
    BY <2>1, <1>2, <1>3
  <2>2. CASE Len(items) = n /\ \A i \in 1 .. Len(items) : Ahead(TRUE, items[i], r)
    <3>1. ASSUME NEW i \in 1 .. Len(s) PROVE Newer(s[i], r)
      <4>1. Newer(items[i], r)
        BY <2>2, <1>2 DEF Ahead
      <4> QED BY <4>1, <1>3 DEF Newer
    <3> QED BY <2>2, <3>1, <1>2
  <2> QED BY <2>1, <2>2 DEF FirstOf
<1> QED BY <1>1, <1>2, <1>3, <1>4, <1>5 DEF SideOf

LEMMA RunSideParts ==
    ASSUME NEW rows, NEW limit \in Nat, NEW cursor, NEW flt, Keyed(rows)
    PROVE  SideOf(RunSide(rows, limit, cursor, flt), RunHits(rows, cursor, flt), limit + 1)
<1> DEFINE H == RunHits(rows, cursor, flt)
           items == Newest(H, limit + 1)
           s == RunSide(rows, limit, cursor, flt)
<1>1. s = [i \in 1 .. Len(items) |-> RunActivity(items[i])]
  BY DEF RunSide, RunHits
<1>2. H \subseteq rows /\ \A r \in H : r.kind = "run"
  BY DEF RunHits
<1> HIDE DEF H
<1>3. Keyed(H)
  BY <1>2, FS_Subset DEF Keyed
<1>9. limit + 1 \in Nat
  OBVIOUS
<1>4. FirstOf(items, H, TRUE, limit + 1)
  BY <1>3, <1>9, NewestParts
<1> HIDE DEF s, items
<1>5. \A r \in H : Activity(r) = RunActivity(r) /\ Activity(r).id = r.id /\ Activity(r).at = r.at
  BY <1>2, ActivityParts
<1>6. \A i \in 1 .. Len(items) : items[i] \in H /\ s[i] = Activity(items[i])
  BY <1>1, <1>4, <1>5 DEF FirstOf
<1>7. s = [i \in 1 .. Len(items) |-> s[i]]
  BY <1>1
<1>8. SideOf(s, H, limit + 1)
  BY <1>4, <1>5, <1>6, <1>7, <1>9, SideParts
<1> QED BY <1>8 DEF s, H

LEMMA ActionSideParts ==
    ASSUME NEW rows, NEW limit \in Nat, NEW cursor, NEW flt, Keyed(rows)
    PROVE  SideOf(ActionSide(rows, limit, cursor, flt), ActionHits(rows, cursor, flt), limit + 1)
<1> DEFINE H == ActionHits(rows, cursor, flt)
           items == Newest(H, limit + 1)
           s == ActionSide(rows, limit, cursor, flt)
<1>1. s = [i \in 1 .. Len(items) |-> ActionActivity(items[i])]
  BY DEF ActionSide, ActionHits, Wanted
<1>2. H \subseteq rows /\ \A r \in H : r.kind = "action" /\ r.tag[1] \in ActionTypes
  BY DEF ActionHits
<1> HIDE DEF H
<1>3. Keyed(H)
  BY <1>2, FS_Subset DEF Keyed
<1>9. limit + 1 \in Nat
  OBVIOUS
<1>4. FirstOf(items, H, TRUE, limit + 1)
  BY <1>3, <1>9, NewestParts
<1> HIDE DEF s, items
<1>5. \A r \in H : Activity(r) = ActionActivity(r) /\ Activity(r).id = r.id /\ Activity(r).at = r.at
  BY <1>2, ActivityParts
<1>6. \A i \in 1 .. Len(items) : items[i] \in H /\ s[i] = Activity(items[i])
  BY <1>1, <1>4, <1>5 DEF FirstOf
<1>7. s = [i \in 1 .. Len(items) |-> s[i]]
  BY <1>1
<1>8. SideOf(s, H, limit + 1)
  BY <1>4, <1>5, <1>6, <1>7, <1>9, SideParts
<1> QED BY <1>8 DEF s, H

\* A side that is full reaches past the page, wherever its items stand in the line.
InLine(side, s) ==
    /\ \A i, j \in 1 .. Len(side) : i < j => side[i] # side[j]
    /\ \A i \in 1 .. Len(side) : \E k \in 1 .. Len(s) : s[k] = side[i]

LEMMA FullSideReaches ==
    ASSUME NEW n \in Nat, NEW side, NEW s, InLine(side, s), Len(side) = n + 1, Len(s) \in Nat
    PROVE  \E i \in 1 .. Len(side) : \E k \in 1 .. Len(s) : k > n /\ s[k] = side[i]
<1> DEFINE I == 1 .. (n + 1)
           at == [i \in I |-> CHOOSE k \in 1 .. Len(s) : s[k] = side[i]]
<1>1. \A i \in I : at[i] \in 1 .. Len(s) /\ s[at[i]] = side[i]
  BY DEF InLine
<1> HIDE DEF at
<1> SUFFICES ASSUME \A i \in I : ~(at[i] > n) PROVE FALSE
  BY <1>1
<1>2. DOMAIN at = I /\ at = [i \in I |-> at[i]]
  BY DEF at
<1>3. at \in [I -> 1 .. n]
  <2>1. \A i \in I : at[i] \in 1 .. n
    BY <1>1
  <2> QED BY <2>1, <1>2
<1>4. 1 \in Int /\ n \in Int /\ n + 1 \in Int
  OBVIOUS
<1>5. IsFiniteSet(I) /\ Cardinality(I) = n + 1 /\ IsFiniteSet(1 .. n) /\ Cardinality(1 .. n) = n
  <2>1. IsFiniteSet(I) /\ Cardinality(I) = IF 1 > n + 1 THEN 0 ELSE (n + 1) - 1 + 1
    BY <1>4, FS_Interval
  <2>2. IsFiniteSet(1 .. n) /\ Cardinality(1 .. n) = IF 1 > n THEN 0 ELSE n - 1 + 1
    BY <1>4, FS_Interval
  <2> QED BY <2>1, <2>2
<1>6. \E i, j \in I : i # j /\ at[i] = at[j]
  <2>1. n < n + 1
    OBVIOUS
  <2> HIDE DEF I
  <2> QED BY <2>1, <1>3, <1>5, FS_PigeonHole
<1>7. PICK i \in I, j \in I : i # j /\ at[i] = at[j]
  BY <1>6
<1>8. side[i] = side[j]
  BY <1>1, <1>7
<1> QED BY <1>7, <1>8 DEF InLine

\* A key that was read of one of the rows, and no row of that key is elsewhere.
KeyFits(T, x) ==
    x.at \in Nat /\ x.id \in Int /\ (\E r \in T : r.id = x.id) /\ \A r \in T : r.id = x.id => r.at = x.at

\* a side as it was read: in order, of keys of one parity, and still of the rows there are
SideFits(T, s, even) ==
    /\ Line(s)
    /\ \A i \in 1 .. Len(s) : KeyFits(T, s[i]) /\ (Even(s[i].id) <=> even)
    /\ \A i, j \in 1 .. Len(s) : i < j => Newer(s[i], s[j])

BothSides(a, b) == {a[i] : i \in 1 .. Len(a)} \cup {b[i] : i \in 1 .. Len(b)}

LEMMA KeyOfItem == \A T, x : ItemFits("audit", T, {}, x) => KeyFits(T, x)
BY NumbersAre DEF ItemFits, KeyFits

\* The two sides are one line, whatever was written between the two statements.
LEMMA SidesMerge ==
    ASSUME NEW T, NEW a, SideFits(T, a, TRUE), NEW b, SideFits(T, b, FALSE)
    PROVE  /\ LineOfBoth(BothSides(a, b), a, b, Merged(a, b))
           /\ \A x \in BothSides(a, b) : KeyFits(T, x) /\ x.at \in Int /\ x.id \in Int
           /\ \A x, y \in BothSides(a, b) : Newer(x, y) => x.id # y.id
<1> DEFINE X == BothSides(a, b)
           all == a \o b
<1>1. a \in Seq(X) /\ b \in Seq(X) /\ Len(a) \in Nat /\ Len(b) \in Nat
  BY SeqMonotonic DEF Line, SideFits, BothSides
<1>2. \A x \in X : KeyFits(T, x)
  BY DEF SideFits, BothSides
<1>3. \A x \in X : x.at \in Int /\ x.id \in Int
  BY <1>2, NumbersAre DEF KeyFits
<1>4. \A x, y \in X : x.id = y.id => x.at = y.at
  BY <1>2 DEF KeyFits
<1>5. \A i \in 1 .. Len(a) : a[i] \in X /\ Even(a[i].id)
  BY DEF SideFits, BothSides
<1>6. \A i \in 1 .. Len(b) : b[i] \in X /\ ~Even(b[i].id)
  BY DEF SideFits, BothSides
<1>14. /\ \A i, j \in 1 .. Len(a) : i < j => Newer(a[i], a[j])
       /\ \A i, j \in 1 .. Len(b) : i < j => Newer(b[i], b[j])
  BY DEF SideFits
<1> HIDE DEF X
<1>7. \A x, y \in X : Newer(x, y) => x.id # y.id
  BY <1>3, <1>4 DEF Newer
<1>8. \A i, j \in 1 .. Len(a) : a[i].id = a[j].id => i = j
  BY <1>1, <1>5, <1>7, <1>14
<1>9. \A i, j \in 1 .. Len(b) : b[i].id = b[j].id => i = j
  BY <1>1, <1>6, <1>7, <1>14
<1>10. \A i \in 1 .. Len(all) :
         \/ i \in 1 .. Len(a) /\ all[i] = a[i]
         \/ i - Len(a) \in 1 .. Len(b) /\ i \notin 1 .. Len(a) /\ all[i] = b[i - Len(a)]
  BY <1>1, ConcatProperties
<1>11. KeysApart(a \o b)
  <2> SUFFICES ASSUME NEW i \in 1 .. Len(all), NEW j \in 1 .. Len(all), all[i].id = all[j].id
               PROVE  i = j
    BY DEF KeysApart
  <2>1. CASE i \in 1 .. Len(a) /\ j \in 1 .. Len(a)
    BY <2>1, <1>8, <1>10
  <2>2. CASE i \in 1 .. Len(a) /\ j \notin 1 .. Len(a)
    <3>1. all[i] = a[i] /\ j - Len(a) \in 1 .. Len(b) /\ all[j] = b[j - Len(a)]
      BY <2>2, <1>10
    <3> QED BY <3>1, <2>2, <1>5, <1>6
  <2>3. CASE i \notin 1 .. Len(a) /\ j \in 1 .. Len(a)
    <3>1. all[j] = a[j] /\ i - Len(a) \in 1 .. Len(b) /\ all[i] = b[i - Len(a)]
      BY <2>3, <1>10
    <3> QED BY <3>1, <2>3, <1>5, <1>6
  <2>4. CASE i \notin 1 .. Len(a) /\ j \notin 1 .. Len(a)
    <3>1. /\ i - Len(a) \in 1 .. Len(b) /\ all[i] = b[i - Len(a)]
          /\ j - Len(a) \in 1 .. Len(b) /\ all[j] = b[j - Len(a)]
      BY <2>4, <1>10
    <3>2. i - Len(a) = j - Len(a)
      BY <3>1, <1>9
    <3>3. i \in Int /\ j \in Int
      OBVIOUS
    <3> HIDE DEF all
    <3> QED BY <3>2, <3>3, <1>1
  <2> QED BY <2>1, <2>2, <2>3, <2>4
<1>12. LineOfBoth(X, a, b, Merged(a, b))
  BY <1>1, <1>3, <1>11, MergedParts
<1> QED BY <1>2, <1>3, <1>7, <1>12 DEF X

\* The page of the merged sides, whatever was written between the two statements.
LEMMA AuditPageParts ==
    ASSUME NEW T, Rows("audit", T), NEW c, NEW since, NEW n \in Nat \ {0},
           NEW a, SideFits(T, a, TRUE), NEW b, SideFits(T, b, FALSE),
           \A x \in BothSides(a, b) : Beyond("audit", c, x),
           \A r \in T : r.id \in since /\ Beyond("audit", c, r) =>
               \/ \E i \in 1 .. Len(a) : a[i].id = r.id
               \/ Len(a) = n + 1 /\ \A i \in 1 .. Len(a) : Newer(a[i], r)
               \/ \E i \in 1 .. Len(b) : b[i].id = r.id
               \/ Len(b) = n + 1 /\ \A i \in 1 .. Len(b) : Newer(b[i], r)
    PROVE  PageFits("audit", T, c, since, AuditPage(a, b, n))
<1> DEFINE X == BothSides(a, b)
           s == Merged(a, b)
           p == AuditPage(a, b, n)
<1>1. Len(a) \in Nat /\ Len(b) \in Nat
  BY DEF SideFits, Line
<1>12. LineOfBoth(X, a, b, s)
  BY SidesMerge
<1>2. \A x \in X : KeyFits(T, x) /\ Beyond("audit", c, x) /\ x.at \in Int /\ x.id \in Int
  BY SidesMerge
<1>3. \A x \in X : x.at \in Int /\ x.id \in Int
  BY <1>2
<1>7. \A x, y \in X : Newer(x, y) => x.id # y.id
  BY SidesMerge
<1>8. \A i, j \in 1 .. Len(a) : i < j => a[i] # a[j]
  <2>1. \A i \in 1 .. Len(a) : a[i] \in X
    BY DEF BothSides
  <2> QED BY <2>1, <1>7 DEF SideFits
<1>9. \A i, j \in 1 .. Len(b) : i < j => b[i] # b[j]
  <2>1. \A i \in 1 .. Len(b) : b[i] \in X
    BY DEF BothSides
  <2> QED BY <2>1, <1>7 DEF SideFits
<1> HIDE DEF X
<1>25. /\ s \in Seq(X) /\ Len(s) = Len(a) + Len(b)
       /\ \A i, j \in 1 .. Len(s) : i < j => Newer(s[i], s[j])
       /\ \A i \in 1 .. Len(a) : \E k \in 1 .. Len(s) : s[k] = a[i]
       /\ \A i \in 1 .. Len(b) : \E k \in 1 .. Len(s) : s[k] = b[i]
  BY <1>12 DEF LineOfBoth
<1>13. /\ p.items \in Seq(X)
       /\ Len(p.items) = IF Len(s) < n THEN Len(s) ELSE n
       /\ \A i \in 1 .. Len(p.items) : i \in 1 .. Len(s) /\ p.items[i] = s[i]
       /\ p.next = IF Len(s) > n THEN Cursor(s[n]) ELSE NoCursor
  BY <1>25, CutParts DEF AuditPage
<1> HIDE DEF s, p
<1>14. Len(s) \in Nat /\ Len(p.items) \in Nat /\ DOMAIN p.items = 1 .. Len(p.items)
  BY <1>1, <1>25, <1>13
<1>15. \A i \in 1 .. Len(s) : s[i] \in X
  BY <1>25, <1>14, ElementOfSeq
<1>16. ASSUME NEW i \in 1 .. Len(p.items)
       PROVE  Beyond("audit", c, p.items[i]) /\ \E r \in T : r.id = p.items[i].id /\ r.at = p.items[i].at
  <2>1. p.items[i] \in X
    BY <1>13, <1>15
  <2> QED BY <2>1, <1>2 DEF KeyFits
<1>17. Down("audit") = TRUE
  BY DEF Down, Descending, Timed
<1>18. \A i, j \in 1 .. Len(p.items) : i < j => Ahead(Down("audit"), p.items[i], p.items[j])
  BY <1>25, <1>13, <1>17 DEF Ahead
<1>19. p.next = NoCursor \/ (Len(p.items) > 0 /\ p.next = Cursor(p.items[Len(p.items)]))
  <2>1. CASE Len(s) > n
    <3>1. Len(p.items) = n /\ p.next = Cursor(s[n]) /\ n \in 1 .. Len(p.items)
      BY <2>1, <1>13, <1>14
    <3> QED BY <3>1, <1>13
  <2>2. CASE ~(Len(s) > n)
    BY <2>2, <1>13
  <2> QED BY <2>1, <2>2
<1>20. ASSUME NEW k \in 1 .. Len(s), k > n
       PROVE  /\ p.next # NoCursor /\ p.next.at = s[n].at /\ p.next.id = s[n].id
              /\ n \in 1 .. Len(s) /\ Newer(s[n], s[k])
  <2>1. n \in 1 .. Len(s) /\ Len(s) > n /\ p.next = Cursor(s[n])
    BY <1>13, <1>14, <1>20
  <2>2. s[n].at \in Nat
    BY <2>1, <1>2, <1>15 DEF KeyFits
  <2> QED BY <2>1, <2>2, <1>25, <1>20, CursorParts
<1>21. ASSUME NEW r \in T, NEW side, side = a \/ side = b, Len(side) = n + 1,
              \A i \in 1 .. Len(side) : Newer(side[i], r)
       PROVE  p.next # NoCursor /\ Ahead(Down("audit"), p.next, r)
  <2>1. \A i, j \in 1 .. Len(side) : i < j => side[i] # side[j]
    BY <1>21, <1>8, <1>9
  <2>2. \A i \in 1 .. Len(side) : \E k \in 1 .. Len(s) : s[k] = side[i]
    BY <1>21, <1>25
  <2>3. PICK i \in 1 .. Len(side), k \in 1 .. Len(s) : k > n /\ s[k] = side[i]
    <3>1. InLine(side, s)
      BY <2>1, <2>2 DEF InLine
    <3> QED BY <3>1, <1>14, <1>21, FullSideReaches
  <2>4. /\ p.next # NoCursor /\ p.next.at = s[n].at /\ p.next.id = s[n].id
        /\ s[n] \in X /\ s[k] \in X /\ Newer(s[n], s[k])
    BY <2>3, <1>15, <1>20
  <2>5. Newer(s[k], r)
    BY <2>3, <1>21
  <2>6. /\ s[n].at \in Int /\ s[n].id \in Int /\ s[k].at \in Int /\ s[k].id \in Int
        /\ r.at \in Int /\ r.id \in Int
    BY <2>4, <1>3, KeysAreNumbers DEF Rows
  <2>7. Newer(s[n], r)
    <3>1. Newer(s[n], s[k])
      BY <2>4
    <3>2. {s[n].at, s[k].at, r.at, s[n].id, s[k].id, r.id} \subseteq Int
      BY <2>6
    <3> QED BY ONLY <2>5, <3>1, <3>2, NewerGoesOn
  <2> QED BY <2>4, <2>7, <1>17 DEF Ahead, Newer
<1>22. ASSUME NEW r \in T, NEW side, side = a \/ side = b, NEW i \in 1 .. Len(side), side[i].id = r.id
       PROVE  (\E j \in 1 .. Len(p.items) : p.items[j].id = r.id)
                \/ (p.next # NoCursor /\ Ahead(Down("audit"), p.next, r))
  <2>1. PICK k \in 1 .. Len(s) : s[k] = side[i]
    BY <1>22, <1>25
  <2>2. CASE k \in 1 .. Len(p.items)
    BY <2>1, <2>2, <1>13, <1>22
  <2>3. CASE k \notin 1 .. Len(p.items)
    <3>1. k > n
      BY <2>3, <1>13, <1>14
    <3>2. r.at = s[k].at /\ r.id = s[k].id
      BY <2>1, <1>2, <1>15, <1>22 DEF KeyFits
    <3> QED BY <3>1, <3>2, <1>17, <1>20 DEF Ahead, Newer
  <2> QED BY <2>2, <2>3
<1>23. ASSUME NEW r \in T, r.id \in since, Beyond("audit", c, r)
       PROVE  (\E j \in 1 .. Len(p.items) : p.items[j].id = r.id)
                \/ (p.next # NoCursor /\ Ahead(Down("audit"), p.next, r))
  BY <1>21, <1>22, <1>23
<1>24. PageFits("audit", T, c, since, p)
  BY <1>14, <1>16, <1>18, <1>19, <1>23 DEF PageFits
<1> QED BY <1>24 DEF p

-----------------------------------------------------------------------------
(* The pages of the audit stream *)

LEMMA RowsAreKeyed == \A l, T : Rows(l, T) => Keyed(T)
BY KeysAreNumbers DEF Rows, Keyed

LEMMA PastIsBeyond ==
    ASSUME NEW c
    PROVE  /\ Down("audit") = TRUE
           /\ \A r : Past(c, r) <=> Beyond("audit", c, r)
           /\ \A r, x : r.at = x.at /\ r.id = x.id => (Beyond("audit", c, r) <=> Beyond("audit", c, x))
<1>1. Down("audit") = TRUE
  BY DEF Down, Descending, Timed
<1> QED BY <1>1 DEF Past, Beyond, Ahead, Newer

\* the rows of the audit stream are Runs and events the stream may show
LEMMA AuditRowsAre ==
    ASSUME NEW T, Rows("audit", T), NEW r \in T
    PROVE  /\ r.kind \in {"run", "action"}
           /\ r.kind = "run" => r.tag \in RunStatuses /\ Even(r.id)
           /\ r.kind = "action" => r.tag \in Milestones \cup Passing /\ ~Even(r.id)
           /\ r.at \in Nat /\ r.id \in Ids /\ \A q \in T : q.id = r.id => q.at = r.at
<1>1. IsRow("audit", r) /\ \A q \in T : q.id = r.id => q.at = r.at
  BY DEF Rows
<1>2. \/ Even(r.id) /\ r.kind = "run" /\ r.tag \in {"queued", "running", "failed"}
      \/ ~Even(r.id) /\ r.kind = "action"
           /\ r.tag \in {<<"action_failed", "failed">>, <<"action_failed", "expired">>}
  BY <1>1 DEF IsRow
<1>3. {"queued", "running", "failed"} \subseteq RunStatuses
      /\ {<<"action_failed", "failed">>, <<"action_failed", "expired">>} \subseteq Milestones \cup Passing
  BY DEF RunStatuses, Milestones
<1>4. r.at \in Nat /\ r.id \in Ids
  BY <1>1 DEF IsRow
<1>5. CASE Even(r.id) /\ r.kind = "run" /\ r.tag \in {"queued", "running", "failed"}
  <2>1. r.tag \in RunStatuses /\ r.kind # "action"
    BY <1>3, <1>5
  <2> QED BY <1>1, <1>4, <1>5, <2>1
<1>6. CASE ~Even(r.id) /\ r.kind = "action"
             /\ r.tag \in {<<"action_failed", "failed">>, <<"action_failed", "expired">>}
  <2>1. r.tag \in Milestones \cup Passing /\ r.kind # "run"
    BY <1>3, <1>6
  <2> QED BY <1>1, <1>4, <1>6, <2>1
<1> QED BY <1>2, <1>5, <1>6

\* What a reader of the audit stream has been told was there is hit by its statement.
LEMMA SinceIsHit ==
    ASSUME NEW T, Rows("audit", T), NEW w, NEW since,
           since \subseteq {r.id : r \in ListedIn("audit", w, T)}, NEW c,
           NEW r \in T, r.id \in since, Beyond("audit", c, r)
    PROVE  /\ r.kind = "run" => r \in RunHits(T, c, w)
           /\ r.kind = "action" => r \in ActionHits(T, c, w)
<1>1. PICK q \in ListedIn("audit", w, T) : q.id = r.id
  OBVIOUS
<1>2. q \in T /\ Matches(q, w)
  BY DEF ListedIn
<1>3. q = r
  BY <1>1, <1>2 DEF Rows
<1> QED BY <1>2, <1>3, AuditRowsAre, RunHitsMatch, ActionHitsMatch, PastIsBeyond

LEMMA AuditRunsStep == ReadersInv /\ AuditRuns => ReadersInv'
<1> SUFFICES ASSUME ReadersInv, AuditRuns PROVE ReadersInv'
  OBVIOUS
<1> DEFINE c == NextCursor(asking.pages)
           since == Since(asking)
           side == RunSide(table, Limit, c, want)
           H == RunHits(table, c, want)
<1>1. /\ ListStays /\ cache' = cache /\ sweep' = sweep /\ list = "audit"
      /\ asking' = [asking EXCEPT !.since = since, !.half = TRUE, !.side = side]
  BY DEF AuditRuns, AskCursor, ListStays
<1>2. Rows("audit", table) /\ Keyed(table) /\ Limit \in Nat /\ slipped = {}
  BY <1>1, RowsAreKeyed, ListsAssumption DEF ReadersInv, ListInv
<1>3. /\ IsQuestion(asking') /\ asking'.pages = asking.pages /\ asking'.since = since
      /\ asking'.half = TRUE /\ asking'.side = side
  <2>1. asking = [how |-> asking.how, pages |-> asking.pages, goal |-> asking.goal,
                  since |-> asking.since, half |-> asking.half, side |-> asking.side]
    BY DEF ReadersInv, AskInv, IsQuestion
  <2>2. asking' = [how |-> asking.how, pages |-> asking.pages, goal |-> asking.goal,
                   since |-> since, half |-> TRUE, side |-> side]
    BY <1>1, <2>1
  <2> QED BY <2>2 DEF IsQuestion
<1>4. since \subseteq {r.id : r \in ListedIn("audit", want, table)}
      /\ Reading(list, want, table, slipped, asking.pages, since)
  BY <1>1, SinceParts
<1>5. SideOf(side, H, Limit + 1)
  BY <1>2, RunSideParts
<1> HIDE DEF since, side
<1>6. ASSUME NEW i \in 1 .. Len(side)
      PROVE  ItemFits("audit", table, {}, side[i]) /\ Even(side[i].id) /\ Beyond("audit", c, side[i])
  <2>1. PICK r \in H : side[i].id = r.id /\ side[i].at = r.at
    BY <1>5 DEF SideOf
  <2>2. r \in table /\ r.kind = "run" /\ Past(c, r)
    BY DEF RunHits
  <2>3. ItemFits("audit", table, {}, side[i])
    BY <1>2, <2>1, <2>2, ItemOfRow
  <2>4. Even(r.id)
    BY <1>2, <2>2, AuditRowsAre
  <2> HIDE DEF c, H
  <2> QED BY <2>1, <2>2, <2>3, <2>4, PastIsBeyond
<1>7. ASSUME NEW r \in table, r.kind = "run", r.id \in since, Beyond("audit", c, r)
      PROVE  (\E i \in 1 .. Len(side) : side[i].id = r.id)
               \/ (Len(side) = Limit + 1 /\ \A i \in 1 .. Len(side) : Newer(side[i], r))
  <2>1. r \in H
    BY <1>2, <1>4, <1>7, SinceIsHit
  <2> QED BY <2>1, <1>5 DEF SideOf
<1>8. SideReads(table, asking.pages, since, side)
  BY <1>5, <1>6, <1>7 DEF SideReads, SideOf
<1>9. AskInv'
  BY <1>1, <1>3, <1>4, <1>8 DEF AskInv, ReadersInv, ListStays
<1> QED BY <1>1, <1>9, ListInvStays, CacheStays, SweepStays DEF ReadersInv

LEMMA AuditEventsStep == ReadersInv /\ AuditEvents => ReadersInv'
<1> SUFFICES ASSUME ReadersInv, AuditEvents PROVE ReadersInv'
  OBVIOUS
<1> DEFINE c == NextCursor(asking.pages)
           since == Since(asking)
           a == asking.side
           b == ActionSide(table, Limit, c, want)
           H == ActionHits(table, c, want)
           page == AuditPage(a, b, Limit)
<1>1. ListStays /\ sweep' = sweep /\ list = "audit" /\ asking.half /\ PageArrives(asking, page)
  BY DEF AuditEvents, AskCursor, ListStays
<1>2. Rows("audit", table) /\ Keyed(table) /\ Limit \in Nat /\ Limit \in Nat \ {0}
  BY <1>1, RowsAreKeyed, ListsAssumption DEF ReadersInv, ListInv
<1>3. since \subseteq {r.id : r \in ListedIn("audit", want, table)}
  BY <1>1, SinceParts
<1>4. since = asking.since
  BY <1>1 DEF Since
<1>5. SideReads(table, asking.pages, since, a)
  BY <1>1, <1>4 DEF ReadersInv, AskInv
<1>6. SideOf(b, H, Limit + 1)
  BY <1>2, ActionSideParts
<1> HIDE DEF since, a, b
<1>7. Line(a) /\ Line(b)
  BY <1>5, <1>6 DEF SideReads, SideOf
<1>8. \A i \in 1 .. Len(a) : KeyFits(table, a[i]) /\ Even(a[i].id) /\ Beyond("audit", c, a[i])
  BY <1>5, KeyOfItem DEF SideReads
<1>9. ASSUME NEW i \in 1 .. Len(b)
      PROVE  KeyFits(table, b[i]) /\ ~Even(b[i].id) /\ Beyond("audit", c, b[i])
  <2>1. PICK r \in H : b[i].id = r.id /\ b[i].at = r.at
    BY <1>6 DEF SideOf
  <2>2. r \in table /\ r.kind = "action" /\ Past(c, r)
    BY DEF ActionHits
  <2>3. KeyFits(table, b[i]) /\ ~Even(r.id)
    BY <1>2, <2>1, <2>2, AuditRowsAre, NumbersAre DEF KeyFits
  <2> HIDE DEF c, H
  <2> QED BY <2>1, <2>2, <2>3, PastIsBeyond
<1>10. /\ \A i, j \in 1 .. Len(a) : i < j => Newer(a[i], a[j])
       /\ \A i, j \in 1 .. Len(b) : i < j => Newer(b[i], b[j])
  BY <1>5, <1>6 DEF SideReads, SideOf
<1>11. ASSUME NEW r \in table, r.id \in since, Beyond("audit", c, r)
       PROVE  \/ \E i \in 1 .. Len(a) : a[i].id = r.id
              \/ Len(a) = Limit + 1 /\ \A i \in 1 .. Len(a) : Newer(a[i], r)
              \/ \E i \in 1 .. Len(b) : b[i].id = r.id
              \/ Len(b) = Limit + 1 /\ \A i \in 1 .. Len(b) : Newer(b[i], r)
  <2>1. CASE r.kind = "run"
    BY <2>1, <1>5, <1>11 DEF SideReads
  <2>2. CASE r.kind = "action"
    <3>1. r \in H
      BY <2>2, <1>2, <1>3, <1>11, SinceIsHit
    <3> QED BY <3>1, <1>6 DEF SideOf
  <2> QED BY <2>1, <2>2, <1>2, AuditRowsAre
<1> HIDE DEF c, H
<1>14. /\ SideFits(table, a, TRUE) /\ SideFits(table, b, FALSE)
       /\ \A x \in BothSides(a, b) : Beyond("audit", c, x)
  BY <1>7, <1>8, <1>9, <1>10 DEF SideFits, BothSides
<1>12. PageFits("audit", table, c, since, page)
  BY <1>2, <1>11, <1>14, AuditPageParts
<1> HIDE DEF page
<1>13. PageFits(list, table, NextCursor(asking.pages), Since(asking), page)
  BY <1>1, <1>12 DEF c, since
<1> QED BY <1>1, <1>13, PageArrivesStep

-----------------------------------------------------------------------------
(* Always *)

LEMMA ReadersInvInit == ListsInit => ReadersInv
<1> SUFFICES ASSUME ListsInit PROVE ReadersInv
  OBVIOUS
<1>1. /\ list \in Lists /\ want \in Filters(list) /\ parent \in BOOLEAN
      /\ taken = {} /\ slipped = {} /\ cache = Blank /\ asking = Quiet /\ sweep = Blank
      /\ clock = Cardinality(Ids)
  BY DEF ListsInit
<1>2. clock \in Nat
  BY <1>1, ListsAssumption, FS_CardinalityType
<1>3. PICK before \in SUBSET (IF parent THEN Ids ELSE {}) : table = {NewRow(id, id) : id \in before}
  BY DEF ListsInit
<1>4. before \subseteq Ids /\ IsFiniteSet(before) /\ (~parent => before = {})
  <2>1. before \subseteq Ids
    BY <1>3
  <2> QED BY <2>1, <1>3, ListsAssumption, FS_Subset
<1>5. \A id \in before : IsRow(list, NewRow(id, id)) /\ NewRow(id, id).id = id
  BY <1>4, ListsAssumption, NewRowParts
<1>6. IsFiniteSet(table)
  <2> DEFINE row == [id \in before |-> NewRow(id, id)]
  <2>1. row \in [before -> table] /\ \A r \in table : \E id \in before : row[id] = r
    BY <1>3
  <2>2. row \in Surjection(before, table)
    BY <2>1, Fun_IsSurj
  <2> QED BY <2>2, <1>4, FS_Surjection
<1>7. Rows(list, table)
  BY <1>3, <1>5, <1>6 DEF Rows
<1>8. ~parent => table = {}
  BY <1>3, <1>4
<1>9. ListInv
  BY <1>1, <1>2, <1>7, <1>8 DEF ListInv, TakenInv
<1>10. CacheInv /\ SweepInv
  BY <1>1, PagesParts, ReadingNothing DEF CacheInv, SweepInv
<1>11. AskInv
  <2>1. IsQuestion(asking) /\ asking.pages = <<>> /\ asking.since = {} /\ asking.half = FALSE
    BY <1>1 DEF Quiet, Question, IsQuestion
  <2>2. Reading(list, want, table, slipped, <<>>, {}) /\ GoesOn(<<>>)
    BY ReadingNothing
  <2> QED BY <2>1, <2>2 DEF AskInv
<1> QED BY <1>9, <1>10, <1>11 DEF ReadersInv

LEMMA ReadersInvStep == ReadersInv /\ [ListsNext]_listVars => ReadersInv'
<1> SUFFICES ASSUME ReadersInv, [ListsNext]_listVars PROVE ReadersInv'
  OBVIOUS
<1>1. CASE UNCHANGED listVars
  <2>1. ListStays /\ cache' = cache /\ asking' = asking /\ sweep' = sweep
    BY <1>1 DEF listVars, ListStays
  <2> QED BY <2>1, ListInvStays, CacheStays, AskStays, SweepStays DEF ReadersInv
<1>2. CASE ListReaders
  BY <1>2, OpenStep, LoadMoreStep, ReloadStep, AnswerStep, AuditRunsStep, AuditEventsStep, AskFailsStep,
     SweepStartsStep, SweepAnswerStep, SweepFailsStep DEF ListReaders
<1>3. CASE ListWriters
  BY <1>3, TakeStep, CommitInsertStep, CommitSessionStep, AppendEventStep, AdvanceStep,
     DocumentWrittenStep, ParentChangesStep DEF ListWriters
<1> QED BY <1>1, <1>2, <1>3 DEF ListsNext

\* The rows, what has been read of them and the questions underway go together in every state.
THEOREM ReadersInvHolds == ListsSpec => []ReadersInv
<1>1. ListsInit => ReadersInv
  BY ReadersInvInit
<1>2. ReadersInv /\ [ListsNext]_listVars => ReadersInv'
  BY ReadersInvStep
<1> QED BY <1>1, <1>2, PTL DEF ListsSpec

\* The order of what is shown and the places of it, said as ListsReadWell says them
LEMMA ShownIs ==
    ASSUME CacheInv
    PROVE  /\ Places = Spots(cache.pages)
           /\ \A a : Shown(a) = ItemAt(cache.pages, a)
           /\ \A a, b : InListOrder(a, b) <=> Ahead(Down(list), a, b)
<1>1. /\ Line(cache.pages)
      /\ \A p \in 1 .. Len(cache.pages) : DOMAIN cache.pages[p].items = 1 .. Len(cache.pages[p].items)
  BY DEF CacheInv, Reading
<1>2. DOMAIN cache.pages = 1 .. Len(cache.pages)
  BY <1>1, LenProperties DEF Line
<1>3. Places = Spots(cache.pages)
  BY <1>1, <1>2 DEF Places, Spots
<1> QED BY <1>3 DEF Shown, ItemAt, InListOrder, Ahead, Down

LEMMA OneSide ==
    ASSUME NEW r, r.at \in Int, r.id \in Int, NEW H \in SUBSET {r}, NEW s, SideOf(s, H, 2)
    PROVE  /\ r \in H => s = <<Activity(r)>>
           /\ r \notin H => s = <<>>
<1>1. Line(s) /\ Len(s) \in Nat
  BY DEF SideOf, Line
<1> DEFINE T == {s[i] : i \in 1 .. Len(s)}
<1>2. s \in Seq(T)
  BY <1>1 DEF Line
<1>3. \A i \in 1 .. Len(s) : r \in H /\ s[i] = Activity(r) /\ s[i].id = r.id /\ s[i].at = r.at
  BY DEF SideOf
<1>4. ~(2 \in 1 .. Len(s))
  <2> SUFFICES ASSUME 2 \in 1 .. Len(s) PROVE FALSE
    OBVIOUS
  <2>1. 1 \in 1 .. Len(s) /\ Newer(s[1], s[2])
    BY <1>1 DEF SideOf
  <2>2. s[1].at = r.at /\ s[1].id = r.id /\ s[2].at = r.at /\ s[2].id = r.id
    BY <2>1, <1>3
  <2> QED BY <2>1, <2>2 DEF Newer
<1>5. Len(s) = 0 \/ Len(s) = 1
  <2> DEFINE n == Len(s)
  <2>1. n \in Nat /\ ~(2 \in 1 .. n)
    BY <1>1, <1>4
  <2> HIDE DEF n
  <2>2. n = 0 \/ n = 1
    BY <2>1
  <2> QED BY <2>2 DEF n
<1>6. ASSUME r \in H PROVE s = <<Activity(r)>>
  <2>1. \E i \in 1 .. Len(s) : s[i] = Activity(r)
    BY <1>5, <1>6 DEF SideOf
  <2>2. Len(s) = 1 /\ s[1] = Activity(r)
    BY <2>1, <1>5
  <2> HIDE DEF T
  <2> QED BY <2>2, <1>2
<1>7. ASSUME r \notin H PROVE s = <<>>
  <2>1. Len(s) = 0
    BY <1>3, <1>5, <1>7
  <2> HIDE DEF T
  <2> QED BY <2>1, <1>2
<1> QED BY <1>6, <1>7

LEMMA MergedOne ==
    ASSUME NEW x, x.at \in Int, x.id \in Int
    PROVE  Merged(<<x>>, <<>>) = <<x>> /\ Merged(<<>>, <<x>>) = <<x>> /\ Merged(<<>>, <<>>) = <<>>
<1>1. <<x>> \in Seq({x}) /\ <<>> \in Seq({x}) /\ Len(<<x>>) = 1 /\ Len(<<>>) = 0 /\ <<x>>[1] = x
  OBVIOUS
<1>2. KeysApart(<<x>> \o <<>>) /\ KeysApart(<<>> \o <<x>>) /\ KeysApart(<<>> \o <<>>)
  BY DEF KeysApart
<1>3. \A s \in Seq({x}) : /\ Len(s) = 1 => s = <<x>>
                          /\ Len(s) = 0 => s = <<>>
  <2> SUFFICES ASSUME NEW s \in Seq({x}) PROVE (Len(s) = 1 => s = <<x>>) /\ (Len(s) = 0 => s = <<>>)
    OBVIOUS
  <2>1. ASSUME Len(s) = 1 PROVE s = <<x>>
    <3>1. s[1] = x
      <4>1. 1 \in 1 .. Len(s)
        BY <2>1
      <4>2. s[1] \in {x}
        BY <4>1, ElementOfSeq
      <4> QED BY <4>2
    <3> QED BY <2>1, <3>1
  <2>2. ASSUME Len(s) = 0 PROVE s = <<>>
    BY <2>2
  <2> QED BY <2>1, <2>2
<1>4. \A y \in {x} : y.at \in Int /\ y.id \in Int
  OBVIOUS
<1>5. LineOfBoth({x}, <<x>>, <<>>, Merged(<<x>>, <<>>))
  BY <1>1, <1>2, <1>4, MergedParts
<1>6. LineOfBoth({x}, <<>>, <<x>>, Merged(<<>>, <<x>>))
  BY <1>1, <1>2, <1>4, MergedParts
<1>7. LineOfBoth({x}, <<>>, <<>>, Merged(<<>>, <<>>))
  BY <1>1, <1>2, <1>4, MergedParts
<1> QED BY <1>1, <1>3, <1>5, <1>6, <1>7 DEF LineOfBoth

\* Every type and outcome a filter may name finds the rows that are shown with it, and no other.
LEMMA FiltersFind == FiltersFindWhatIsShown
<1> SUFFICES ASSUME NEW r \in OneOfEach, NEW type, NEW outcome
             PROVE  LET flt == [NoFilter EXCEPT !.type = type, !.outcome = outcome]
                        found == ExportOf(RunSide({r}, 1, NoCursor, flt), ActionSide({r}, 1, NoCursor, flt), 1)
                    IN found.items = IF Matches(r, flt) THEN <<Activity(r)>> ELSE <<>>
  BY DEF FiltersFindWhatIsShown
<1> DEFINE flt == [NoFilter EXCEPT !.type = type, !.outcome = outcome]
           a == RunSide({r}, 1, NoCursor, flt)
           b == ActionSide({r}, 1, NoCursor, flt)
           A == RunHits({r}, NoCursor, flt)
           B == ActionHits({r}, NoCursor, flt)
           x == Activity(r)
<1> HIDE DEF flt
<1>1. /\ r.at \in Int /\ r.id \in Int /\ r.kind \in {"run", "action"}
      /\ r.kind = "run" => r.tag \in RunStatuses
      /\ r.kind = "action" => r.tag \in Milestones \cup Passing
  BY DEF OneOfEach
<1>2. Keyed({r}) /\ 1 \in Nat /\ 1 + 1 = 2
  <2>1. IsFiniteSet({r})
    BY FS_Singleton
  <2>2. \A q \in {r} : q.at \in Int /\ q.id \in Int
    BY <1>1
  <2> QED BY <2>1, <2>2 DEF Keyed
<1>3. SideOf(a, A, 2) /\ SideOf(b, B, 2)
  BY <1>2, RunSideParts, ActionSideParts
<1>4. A \in SUBSET {r} /\ B \in SUBSET {r} /\ (r \in A => r.kind = "run") /\ (r \in B => r.kind = "action")
  BY DEF RunHits, ActionHits
<1>5. Past(NoCursor, r) /\ r \in {r}
  BY DEF Past
<1>6. r.kind = "run" => (r \in A <=> Matches(r, flt))
  BY <1>1, <1>5, RunHitsMatch
<1>7. r.kind = "action" => (r \in B <=> Matches(r, flt))
  BY <1>1, <1>5, ActionHitsMatch
<1> HIDE DEF a, b, A, B
<1>8. /\ r \in A => a = <<x>>
      /\ r \notin A => a = <<>>
      /\ r \in B => b = <<x>>
      /\ r \notin B => b = <<>>
  BY <1>1, <1>3, <1>4, OneSide
<1>9. r \in A \/ r \in B => x.at \in Int /\ x.id \in Int
  <2>1. ASSUME r \in A PROVE x = RunActivity(r)
    BY <2>1, <1>4, ActivityParts
  <2>2. ASSUME r \in B PROVE x = ActionActivity(r)
    <3>1. r.kind = "action" /\ r.tag[1] \in ActionTypes
      BY <2>2 DEF B, ActionHits
    <3> QED BY <3>1, ActivityParts
  <2> QED BY <2>1, <2>2, <1>1, ActivityParts
<1>10. r \in A => r \notin B
  BY <1>4
<1> HIDE DEF x
<1>11. Merged(a, b) = IF Matches(r, flt) THEN <<x>> ELSE <<>>
  <2>1. CASE r \in A
    BY <2>1, <1>4, <1>6, <1>8, <1>9, <1>10, MergedOne
  <2>2. CASE r \in B
    BY <2>2, <1>4, <1>7, <1>8, <1>9, <1>10, MergedOne
  <2>3. CASE r \notin A /\ r \notin B
    <3>1. Merged(<<>>, <<>>) = <<>>
      <4> DEFINE y == [at |-> 0, id |-> 0]
      <4>1. y.at \in Int /\ y.id \in Int
        OBVIOUS
      <4> HIDE DEF y
      <4> QED BY <4>1, MergedOne
    <3> QED BY <2>3, <3>1, <1>1, <1>6, <1>7, <1>8
  <2> QED BY <2>1, <2>2, <2>3
<1>12. ~(Len(Merged(a, b)) > 1)
  BY <1>11
<1>13. ExportOf(a, b, 1).items = Merged(a, b)
  BY <1>12 DEF ExportOf
<1> QED BY <1>11, <1>13 DEF a, b, x, flt

\* A page that is read while its rows are written shows them in their order, none twice but a
\* session whose time was written over, and every row that was there and stayed as far as the
\* reader has come; and a filter of the audit stream means what is shown.
THEOREM ListsAlwaysReadWell == ListsSpec => []ListsReadWell
<1>1. ReadersInv => ListsReadWell
  <2> SUFFICES ASSUME ReadersInv PROVE ListsReadWell
    OBVIOUS
  <2> DEFINE P == cache.pages
  <2>1. CacheInv /\ Rows(list, table)
    BY DEF ReadersInv, ListInv
  <2>2. /\ Places = Spots(P)
        /\ \A a : Shown(a) = ItemAt(P, a)
        /\ \A a, b : InListOrder(a, b) <=> Ahead(Down(list), a, b)
    BY <2>1, ShownIs
  <2>3. Reading(list, want, table, slipped, P, cache.since) /\ (cache.on => P # <<>>)
    BY <2>1 DEF CacheInv
  <2>4. \A a, b \in Places : Above(a, b) =>
           /\ InListOrder(Shown(a), Shown(b))
           /\ Shown(a).id = Shown(b).id => Shown(a).id \in slipped
    BY <2>2, <2>3 DEF Reading
  <2>5. ASSUME cache.on, NEW r \in table, r.id \in cache.since, Passed(r)
        PROVE  \E a \in Places : Shown(a).id = r.id
    <3>1. PassedBy(list, P, r)
      <4> DEFINE c == NextCursor(P)
                 key == [id |-> c.id, at |-> c.at]
      <4>1. c = NoCursor \/ r.id = c.id \/ Ahead(Down(list), r, key)
        BY <2>2, <2>5 DEF Passed
      <4>2. Ahead(Down(list), r, key) <=> Ahead(Down(list), r, c)
        BY DEF Ahead, Newer
      <4> HIDE DEF c, key
      <4> QED BY <4>1, <4>2 DEF PassedBy, c
    <3> QED BY <3>1, <2>2, <2>3, <2>5 DEF Reading
  <2> QED BY <2>4, <2>5, FiltersFind DEF ListsReadWell
<1> QED BY <1>1, ReadersInvHolds, PTL

-----------------------------------------------------------------------------
(* The files of the audit export *)

IsAudited(r) ==
    /\ r = [kind |-> r.kind, id |-> r.id, at |-> r.at, tag |-> r.tag, service |-> r.service]
    /\ r.id \in AuditIds /\ r.at \in Nat
    /\ \/ Even(r.id) /\ r.kind = "run" /\ r.tag \in RunStatuses
       \/ ~Even(r.id) /\ r.kind = "action" /\ r.tag \in Milestones

AuditedInv ==
    /\ IsFiniteSet(audited) /\ \A r \in audited : IsAudited(r)
    /\ \A r, q \in audited : r.id = q.id => r = q

\* What an export has read of the Runs, when its events are next.
ExportFits(x, rows) ==
    /\ SideFits(rows, x.runs, TRUE) /\ Len(x.runs) <= ExportMax + 1
    /\ x.steady \subseteq {r.id : r \in {q \in rows : Matches(q, x.filter)}}
    /\ \A r \in rows : r.kind = "run" /\ r.id \in x.steady =>
         (\E i \in 1 .. Len(x.runs) : x.runs[i].id = r.id) \/ Len(x.runs) = ExportMax + 1

IsExport(x) == x = [pc |-> x.pc, filter |-> x.filter, runs |-> x.runs, steady |-> x.steady]
UnderWay(e) == export[e].pc \in {"runs", "events"}

ExportsInv ==
    /\ DOMAIN export = Exports /\ \A e \in Exports : IsExport(export[e])
    /\ \A e \in Exports : export[e].pc = "events" => ExportFits(export[e], audited)
    /\ view = [state |-> view.state, filter |-> view.filter]

WholeFile(f) ==
    /\ \A i, j \in DOMAIN RowsOf(f) : i < j => Newer(RowsOf(f)[i], RowsOf(f)[j])
    /\ f.steady \subseteq RowIds(RowsOf(f))
    /\ f.file.count = Cardinality(RowIds(RowsOf(f))) /\ f.file.count <= ExportMax

FilesInv ==
    /\ AuditedInv /\ ExportsInv
    /\ \A f \in files : WholeFile(f)
    /\ view.state = "exporting" => \E e \in Exports : UnderWay(e)

LEMMA AuditNumbers == /\ \A n \in AuditIds : n \in Int /\ n \in Nat
                      /\ ExportMax \in Nat /\ MessageCap \in Nat /\ RunCap \in Nat
                      /\ \A t \in Turns : t \in Nat /\ t \in Int
BY ExportsAssumption

LEMMA AuditedRows ==
    ASSUME AuditedInv
    PROVE  /\ Keyed(audited)
           /\ \A r \in audited :
                /\ r.at \in Nat /\ r.id \in Int /\ r.kind \in {"run", "action"}
                /\ r.kind = "run" => Even(r.id) /\ r.tag \in RunStatuses
                /\ r.kind = "action" => ~Even(r.id) /\ r.tag \in Milestones \cup Passing
                /\ \A q \in audited : q.id = r.id => q.at = r.at
<1>1. ASSUME NEW r \in audited
      PROVE  /\ r.at \in Nat /\ r.id \in Int /\ r.at \in Int /\ r.kind \in {"run", "action"}
             /\ r.kind = "run" => Even(r.id) /\ r.tag \in RunStatuses
             /\ r.kind = "action" => ~Even(r.id) /\ r.tag \in Milestones \cup Passing
  <2>1. r.at \in Nat /\ r.id \in Int /\ r.at \in Int
    BY AuditNumbers DEF AuditedInv, IsAudited
  <2>2. \/ Even(r.id) /\ r.kind = "run" /\ r.tag \in RunStatuses
        \/ ~Even(r.id) /\ r.kind = "action" /\ r.tag \in Milestones
    BY DEF AuditedInv, IsAudited
  <2> QED BY <2>1, <2>2
<1>2. Keyed(audited)
  BY <1>1 DEF AuditedInv, Keyed
<1> QED BY <1>1, <1>2 DEF AuditedInv

\* A row stays where it is: the key that was read of it fits.
LEMMA KeyOfRow ==
    ASSUME AuditedInv, NEW r \in audited, NEW x, x.id = r.id, x.at = r.at
    PROVE  KeyFits(audited, x)
BY AuditedRows DEF KeyFits

\* The rows change under an export: those that stay as they are stay hits.
LEMMA ExportKept ==
    ASSUME NEW x, NEW rows, NEW more, NEW ids, ExportFits(x, rows),
           \A r \in rows : r.id \notin ids => r \in more,
           \A r \in rows : \E q \in more : q.id = r.id,
           \A r \in more : r \in rows \/ r.id \in ids \/ \A q \in rows : q.id # r.id,
           \A r \in rows, q \in more : r.id = q.id => q.at = r.at,
           \A r, q \in more : r.id = q.id => r.at = q.at,
           NEW y, y.runs = x.runs, y.filter = x.filter, y.steady = x.steady \ ids
    PROVE  ExportFits(y, more)
<1>1. ASSUME NEW k, KeyFits(rows, k) PROVE KeyFits(more, k)
  <2>1. PICK r \in rows : r.id = k.id
    BY <1>1 DEF KeyFits
  <2>2. r.at = k.at
    BY <1>1, <2>1 DEF KeyFits
  <2>3. \A q \in more : q.id = k.id => q.at = k.at
    BY <2>1, <2>2
  <2>4. \E q \in more : q.id = k.id
    BY <2>1
  <2> QED BY <1>1, <2>3, <2>4 DEF KeyFits
<1>2. SideFits(more, y.runs, TRUE) /\ Len(y.runs) <= ExportMax + 1
  BY <1>1 DEF ExportFits, SideFits
<1>3. ASSUME NEW k \in y.steady
      PROVE  \E r \in rows : r.id = k /\ Matches(r, x.filter) /\ r \in more
  <2>1. k \in {r.id : r \in {q \in rows : Matches(q, x.filter)}} /\ k \notin ids
    BY DEF ExportFits
  <2> QED BY <2>1
<1>4. y.steady \subseteq {r.id : r \in {q \in more : Matches(q, y.filter)}}
  BY <1>3
<1>5. \A r \in more : r.id \in y.steady => r \in rows
  BY <1>3
<1>6. \A r \in more : r.kind = "run" /\ r.id \in y.steady =>
        (\E i \in 1 .. Len(y.runs) : y.runs[i].id = r.id) \/ Len(y.runs) = ExportMax + 1
  BY <1>5 DEF ExportFits
<1> QED BY <1>2, <1>4, <1>6 DEF ExportFits

LEMMA ExportAtParts ==
    ASSUME NEW pc, NEW filter, NEW runs, NEW steady
    PROVE  /\ IsExport(ExportAt(pc, filter, runs, steady))
           /\ ExportAt(pc, filter, runs, steady).pc = pc
           /\ ExportAt(pc, filter, runs, steady).filter = filter
           /\ ExportAt(pc, filter, runs, steady).runs = runs
           /\ ExportAt(pc, filter, runs, steady).steady = steady
BY DEF ExportAt, IsExport

\* The rows and the files stay, one export moves.
LEMMA OneExportMoves ==
    ASSUME FilesInv, NEW e \in Exports, NEW x, export' = [export EXCEPT ![e] = x], IsExport(x),
           x.pc = "events" => ExportFits(x, audited), audited' = audited,
           view' = [state |-> view'.state, filter |-> view'.filter],
           \A f \in files' : WholeFile(f),
           view'.state = "exporting" => x.pc \in {"runs", "events"}
    PROVE  FilesInv'
<1>1. DOMAIN export' = Exports /\ export'[e] = x /\ \A u \in Exports \ {e} : export'[u] = export[u]
  BY DEF FilesInv, ExportsInv
<1>2. ExportsInv'
  BY <1>1 DEF FilesInv, ExportsInv
<1>3. AuditedInv'
  BY DEF FilesInv, AuditedInv
<1>4. view'.state = "exporting" => \E u \in Exports : UnderWay(u)'
  BY <1>1 DEF FilesInv, UnderWay
<1> QED BY <1>2, <1>3, <1>4 DEF FilesInv

LEMMA TriggerExportStep ==
    ASSUME FilesInv, NEW e \in Exports, TriggerExport(e)
    PROVE  FilesInv'
<1> DEFINE x == ExportAt("runs", view.filter, <<>>, {})
<1>1. export' = [export EXCEPT ![e] = x] /\ audited' = audited /\ files' = files
      /\ view' = [view EXCEPT !.state = "exporting"]
  BY DEF TriggerExport
<1>2. IsExport(x) /\ x.pc = "runs"
  BY ExportAtParts
<1>3. view = [state |-> view.state, filter |-> view.filter]
  BY DEF FilesInv, ExportsInv
<1>4. view' = [state |-> view'.state, filter |-> view'.filter]
  BY <1>1, <1>3
<1>5. x.pc # "events" /\ x.pc \in {"runs", "events"}
  BY <1>2
<1>6. \A f \in files' : WholeFile(f)
  BY <1>1 DEF FilesInv
<1> HIDE DEF x
<1> QED BY <1>1, <1>2, <1>4, <1>5, <1>6, OneExportMoves

LEMMA ExportReadsRunsStep ==
    ASSUME FilesInv, NEW e \in Exports, ExportReadsRuns(e)
    PROVE  FilesInv'
<1> DEFINE filter == export[e].filter
           side == RunSide(audited, ExportMax, NoCursor, filter)
           H == RunHits(audited, NoCursor, filter)
           x == ExportAt("events", filter, side, Matching(filter))
<1>1. export' = [export EXCEPT ![e] = x] /\ audited' = audited /\ files' = files /\ view' = view
  BY DEF ExportReadsRuns, FilesInv, ExportsInv
<1>2. IsExport(x) /\ x.pc = "events" /\ x.filter = filter /\ x.runs = side /\ x.steady = Matching(filter)
  BY ExportAtParts
<1>3. AuditedInv /\ Keyed(audited) /\ ExportMax \in Nat
  BY AuditedRows, AuditNumbers DEF FilesInv
<1>4. SideOf(side, H, ExportMax + 1)
  BY <1>3, RunSideParts
<1> HIDE DEF side
<1>5. ASSUME NEW i \in 1 .. Len(side) PROVE KeyFits(audited, side[i]) /\ Even(side[i].id)
  <2>1. PICK r \in H : side[i].id = r.id /\ side[i].at = r.at
    BY <1>4 DEF SideOf
  <2>2. r \in audited /\ r.kind = "run"
    BY DEF RunHits
  <2> QED BY <2>1, <2>2, <1>3, AuditedRows, KeyOfRow
<1>6. SideFits(audited, side, TRUE) /\ Len(side) <= ExportMax + 1
  BY <1>4, <1>5 DEF SideFits, SideOf
<1>7. ASSUME NEW r \in audited, r.kind = "run", r.id \in Matching(filter)
      PROVE  (\E i \in 1 .. Len(side) : side[i].id = r.id) \/ Len(side) = ExportMax + 1
  <2>1. PICK q \in audited : q.id = r.id /\ Matches(q, filter)
    BY <1>7 DEF Matching
  <2>2. q = r
    BY <2>1, <1>3 DEF AuditedInv
  <2>3. r \in H
    BY <2>1, <2>2, <1>3, <1>7, AuditedRows, RunHitsMatch DEF Past
  <2> QED BY <2>3, <1>4 DEF SideOf
<1> HIDE DEF x, H
<1>8. ExportFits(x, audited)
  BY <1>2, <1>6, <1>7 DEF ExportFits, Matching
<1>9. view' = [state |-> view'.state, filter |-> view'.filter]
  BY <1>1 DEF FilesInv, ExportsInv
<1> QED BY <1>1, <1>2, <1>8, <1>9, OneExportMoves DEF FilesInv

\* What an export answers with: the rows in order, each once, and all that stayed.
LEMMA AnswerIsWhole ==
    ASSUME AuditedInv, NEW x, ExportFits(x, audited), NEW b,
           b = ActionSide(audited, ExportMax, NoCursor, x.filter),
           NEW rows, rows = Merged(x.runs, b), ~(Len(rows) > ExportMax)
    PROVE  /\ \A i, j \in DOMAIN rows : i < j => Newer(rows[i], rows[j])
           /\ x.steady \subseteq RowIds(rows)
           /\ Len(rows) = Cardinality(RowIds(rows)) /\ Len(rows) <= ExportMax
<1> DEFINE a == x.runs
           H == ActionHits(audited, NoCursor, x.filter)
           X == BothSides(a, b)
<1>1. Keyed(audited) /\ ExportMax \in Nat
  BY AuditedRows, AuditNumbers
<1>2. SideOf(b, H, ExportMax + 1)
  BY <1>1, ActionSideParts
<1>3. ASSUME NEW i \in 1 .. Len(b) PROVE KeyFits(audited, b[i]) /\ ~Even(b[i].id)
  <2>1. PICK r \in H : b[i].id = r.id /\ b[i].at = r.at
    BY <1>2 DEF SideOf
  <2>2. r \in audited /\ r.kind = "action"
    BY DEF ActionHits
  <2> QED BY <2>1, <2>2, AuditedRows, KeyOfRow
<1>4. SideFits(audited, a, TRUE) /\ SideFits(audited, b, FALSE)
  BY <1>2, <1>3 DEF ExportFits, SideFits, SideOf
<1>5. LineOfBoth(X, a, b, rows) /\ \A u, v \in X : Newer(u, v) => u.id # v.id
  BY <1>4, SidesMerge
<1>6. Len(a) \in Nat /\ Len(b) \in Nat
  BY <1>4 DEF SideFits, Line
<1> HIDE DEF X, a, H
<1>7. /\ rows \in Seq(X) /\ Len(rows) = Len(a) + Len(b) /\ Len(rows) \in Nat
      /\ DOMAIN rows = 1 .. Len(rows) /\ \A i \in 1 .. Len(rows) : rows[i] \in X
  BY <1>5, LenProperties, ElementOfSeq DEF LineOfBoth
<1>8. \A i, j \in 1 .. Len(rows) : i < j => Newer(rows[i], rows[j]) /\ rows[i].id # rows[j].id
  BY <1>5, <1>7 DEF LineOfBoth
<1>9. Len(a) <= ExportMax /\ Len(b) <= ExportMax /\ Len(rows) <= ExportMax
  BY <1>1, <1>6, <1>7
<1>10. ASSUME NEW k \in x.steady PROVE k \in RowIds(rows)
  <2>1. PICK r \in audited : r.id = k /\ Matches(r, x.filter)
    BY DEF ExportFits
  <2>2. CASE r.kind = "run"
    <3>1. ~(Len(a) = ExportMax + 1)
      BY <1>1, <1>9
    <3>2. PICK i \in 1 .. Len(a) : a[i].id = r.id
      BY <2>1, <2>2, <3>1 DEF ExportFits, a
    <3>3. \E n \in 1 .. Len(rows) : rows[n] = a[i]
      BY <1>5 DEF LineOfBoth
    <3> QED BY <2>1, <3>2, <3>3, <1>7 DEF RowIds
  <2>3. CASE r.kind = "action"
    <3>1. ~(Len(b) = ExportMax + 1)
      BY <1>1, <1>9
    <3>2. r \in H
      BY <2>1, <2>3, AuditedRows, ActionHitsMatch DEF H, Past
    <3>3. PICK i \in 1 .. Len(b) : b[i].id = r.id
      BY <3>1, <3>2, <1>2 DEF SideOf
    <3>4. \E n \in 1 .. Len(rows) : rows[n] = b[i]
      BY <1>5 DEF LineOfBoth
    <3> QED BY <2>1, <3>3, <3>4, <1>7 DEF RowIds
  <2> QED BY <2>2, <2>3, AuditedRows
<1>11. Len(rows) = Cardinality(RowIds(rows))
  <2> DEFINE D == 1 .. Len(rows)
             key == [i \in D |-> rows[i].id]
  <2>1. RowIds(rows) = {rows[i].id : i \in D}
    BY <1>7 DEF RowIds
  <2>2. key \in [D -> RowIds(rows)] /\ \A k \in RowIds(rows) : \E i \in D : key[i] = k
    BY <2>1
  <2>3. \A i, j \in D : key[i] = key[j] => i = j
    BY <1>7, <1>8
  <2>4. key \in Bijection(D, RowIds(rows))
    BY <2>2, <2>3, Fun_IsBij
  <2>5. IsFiniteSet(D) /\ Cardinality(D) = Len(rows)
    BY <1>7, FS_Interval
  <2> HIDE DEF key, D
  <2> QED BY <2>4, <2>5, FS_Bijection DEF ExistsBijection
<1> QED BY <1>7, <1>8, <1>9, <1>10, <1>11

LEMMA ExportAnswersStep ==
    ASSUME FilesInv, NEW e \in Exports, ExportAnswers(e)
    PROVE  FilesInv'
<1> DEFINE a == export[e].runs
           b == ActionSide(audited, ExportMax, NoCursor, export[e].filter)
           rows == Merged(a, b)
           outcome == ExportOf(a, b, ExportMax)
           written == Rendered(outcome.items)
           new == [of |-> e, filter |-> export[e].filter, steady |-> export[e].steady, file |-> written]
           x == [export[e] EXCEPT !.pc = "done"]
<1>1. /\ export[e].pc = "events" /\ export' = [export EXCEPT ![e] = x] /\ audited' = audited
      /\ view' = [view EXCEPT !.state =
               IF outcome.refused THEN "limit" ELSE IF written.count = 0 THEN "empty" ELSE "done"]
      /\ files' = IF outcome.refused THEN files ELSE files \cup {new}
  BY DEF ExportAnswers, FilesInv, ExportsInv
<1>2. IsExport(export[e]) /\ ExportFits(export[e], audited) /\ AuditedInv
      /\ view = [state |-> view.state, filter |-> view.filter]
  BY <1>1 DEF FilesInv, ExportsInv
<1>3. IsExport(x) /\ x.pc = "done"
  BY <1>2 DEF IsExport
<1>4. view' = [state |-> view'.state, filter |-> view'.filter] /\ view'.state # "exporting"
  BY <1>1, <1>2
<1>5. ASSUME ~outcome.refused PROVE WholeFile(new)
  <2>1. ~(Len(rows) > ExportMax) /\ outcome.items = rows
    BY <1>5 DEF ExportOf
  <2> HIDE DEF outcome, rows
  <2>2. /\ \A i, j \in DOMAIN rows : i < j => Newer(rows[i], rows[j])
        /\ export[e].steady \subseteq RowIds(rows)
        /\ Len(rows) = Cardinality(RowIds(rows)) /\ Len(rows) <= ExportMax
    BY <2>1, <1>2, AnswerIsWhole DEF rows
  <2>3. written.count = Len(rows) /\ written.rows = rows
    BY <2>1 DEF Rendered
  <2>4. new.file = written /\ new.steady = export[e].steady
    OBVIOUS
  <2> HIDE DEF written, new
  <2> QED BY <2>2, <2>3, <2>4 DEF WholeFile, RowsOf
<1> HIDE DEF outcome, new, x
<1>6. \A f \in files' : WholeFile(f)
  BY <1>1, <1>5 DEF FilesInv
<1> QED BY <1>1, <1>3, <1>4, <1>6, OneExportMoves

LEMMA ExportFailsStep ==
    ASSUME FilesInv, NEW e \in Exports, ExportFails(e)
    PROVE  FilesInv'
<1> DEFINE x == [export[e] EXCEPT !.pc = "done"]
<1>1. export' = [export EXCEPT ![e] = x] /\ audited' = audited /\ files' = files
      /\ view' = [view EXCEPT !.state = "error"]
  BY DEF ExportFails, FilesInv, ExportsInv
<1>2. IsExport(export[e]) /\ view = [state |-> view.state, filter |-> view.filter]
  BY DEF FilesInv, ExportsInv
<1>3. IsExport(x) /\ x.pc = "done"
  BY <1>2 DEF IsExport
<1>4. view' = [state |-> view'.state, filter |-> view'.filter] /\ view'.state # "exporting"
  BY <1>1, <1>2
<1> HIDE DEF x
<1> QED BY <1>1, <1>3, <1>4, OneExportMoves DEF FilesInv

LEMMA FilterStep ==
    ASSUME FilesInv, UNCHANGED <<audited, export, files>>,
           view' = [state |-> view'.state, filter |-> view'.filter],
           view'.state = "exporting" => view.state = "exporting"
    PROVE  FilesInv'
BY DEF FilesInv, AuditedInv, ExportsInv, UnderWay

LEMMA SetFilterStep ==
    ASSUME FilesInv, NEW filter, SetFilter(filter)
    PROVE  FilesInv'
<1>1. view = [state |-> view.state, filter |-> view.filter]
  BY DEF FilesInv, ExportsInv
<1>2. view' = [view EXCEPT !.filter = filter] /\ UNCHANGED <<audited, export, files>>
  BY DEF SetFilter
<1>3. view' = [state |-> view'.state, filter |-> view'.filter] /\ view'.state = view.state
  BY <1>1, <1>2
<1> QED BY <1>2, <1>3, FilterStep

LEMMA ResetFiltersStep == FilesInv /\ ResetFilters => FilesInv'
<1> SUFFICES ASSUME FilesInv, ResetFilters PROVE FilesInv'
  OBVIOUS
<1>1. view' = [state |-> "idle", filter |-> NoFilter] /\ UNCHANGED <<audited, export, files>>
  BY DEF ResetFilters
<1>2. view' = [state |-> view'.state, filter |-> view'.filter] /\ view'.state = "idle"
  BY <1>1
<1> QED BY <1>1, <1>2, FilterStep

LEMMA AuditedRowIs ==
    ASSUME NEW id \in AuditIds
    PROVE  IsAudited(AuditedRow(id)) /\ AuditedRow(id).id = id
<1>1. id \in Nat
  BY AuditNumbers
<1>2. CASE Even(id)
  <2>1. AuditedRow(id) = [kind |-> "run", id |-> id, at |-> id, tag |-> "running", service |-> "s1"]
    BY <1>2 DEF AuditedRow, Even
  <2> QED BY <1>1, <1>2, <2>1 DEF IsAudited, RunStatuses
<1>3. CASE ~Even(id)
  <2> DEFINE tag == <<"action_failed", "failed">>
  <2>1. AuditedRow(id) = [kind |-> "action", id |-> id, at |-> id, service |-> "s1", tag |-> tag]
    BY <1>3 DEF AuditedRow, Even
  <2>2. tag \in Milestones
    BY DEF Milestones
  <2> HIDE DEF tag
  <2> QED BY <1>1, <1>3, <2>1, <2>2 DEF IsAudited
<1> QED BY <1>2, <1>3

\* The rows change and every export forgets those that changed.
LEMMA RowsChange ==
    ASSUME FilesInv, AuditedInv', NEW ids, UNCHANGED <<view, files>>, DOMAIN export' = Exports,
           \A e \in Exports : /\ IsExport(export'[e]) /\ export'[e].pc = export[e].pc
                              /\ export'[e].runs = export[e].runs
                              /\ export'[e].filter = export[e].filter
                              /\ export'[e].steady = export[e].steady \ ids,
           \A r \in audited : r.id \notin ids => r \in audited',
           \A r \in audited : \E q \in audited' : q.id = r.id,
           \A r \in audited' : r \in audited \/ r.id \in ids \/ \A q \in audited : q.id # r.id,
           \A r \in audited, q \in audited' : r.id = q.id => q.at = r.at
    PROVE  FilesInv'
<1>1. \A r, q \in audited' : r.id = q.id => r.at = q.at
  BY DEF AuditedInv
<1>2. ASSUME NEW e \in Exports, export'[e].pc = "events" PROVE ExportFits(export'[e], audited')
  <2>1. ExportFits(export[e], audited)
    BY <1>2 DEF FilesInv, ExportsInv
  <2>2. /\ export'[e].runs = export[e].runs /\ export'[e].filter = export[e].filter
        /\ export'[e].steady = export[e].steady \ ids
    OBVIOUS
  <2> DEFINE x == export[e]
             y == export'[e]
             rows == audited
             more == audited'
  <2>3. /\ \A r \in rows : r.id \notin ids => r \in more
        /\ \A r \in rows : \E q \in more : q.id = r.id
        /\ \A r \in more : r \in rows \/ r.id \in ids \/ \A q \in rows : q.id # r.id
        /\ \A r \in rows, q \in more : r.id = q.id => q.at = r.at
        /\ \A r, q \in more : r.id = q.id => r.at = q.at
    BY <1>1
  <2>4. ExportFits(x, rows) /\ y.runs = x.runs /\ y.filter = x.filter /\ y.steady = x.steady \ ids
    BY <2>1, <2>2
  <2> HIDE DEF x, y, rows, more
  <2>5. ExportFits(y, more)
    BY ONLY <2>3, <2>4, ExportKept
  <2> QED BY <2>5 DEF y, more
<1>3. ExportsInv'
  BY <1>2 DEF FilesInv, ExportsInv
<1>4. view'.state = "exporting" => \E u \in Exports : UnderWay(u)'
  BY DEF FilesInv, UnderWay
<1> QED BY <1>3, <1>4 DEF FilesInv

LEMMA RowWrittenStep ==
    ASSUME FilesInv, NEW id \in AuditIds, RowWritten(id)
    PROVE  FilesInv'
<1> DEFINE row == AuditedRow(id)
<1>1. audited' = audited \cup {row} /\ \A r \in audited : r.id # id
  BY DEF RowWritten
<1>2. IsAudited(row) /\ row.id = id
  BY AuditedRowIs
<1>3. UNCHANGED <<export, view, files>>
  BY DEF RowWritten
<1> HIDE DEF row
<1>4. AuditedInv'
  BY <1>1, <1>2, FS_AddElement DEF FilesInv, AuditedInv
<1>5. \A r \in audited, q \in audited' : r.id = q.id => q.at = r.at
  BY <1>1, <1>2 DEF FilesInv, AuditedInv
<1>6. \A e \in Exports : /\ IsExport(export'[e]) /\ export'[e].pc = export[e].pc
                         /\ export'[e].runs = export[e].runs
                         /\ export'[e].filter = export[e].filter
                         /\ export'[e].steady = export[e].steady \ {}
  BY <1>3 DEF FilesInv, ExportsInv
<1>7. DOMAIN export' = Exports
  BY <1>3 DEF FilesInv, ExportsInv
<1>8. \A r \in audited : r.id \notin {} => r \in audited'
  BY <1>1
<1>9. \A r \in audited : \E q \in audited' : q.id = r.id
  BY <1>1
<1>10. \A r \in audited' : r \in audited \/ r.id \in {} \/ \A q \in audited : q.id # r.id
  BY <1>1, <1>2
<1>11. UNCHANGED <<view, files>>
  BY <1>3
<1> HIDE DEF RowWritten
<1> QED BY <1>4, <1>5, <1>6, <1>7, <1>8, <1>9, <1>10, <1>11, RowsChange

LEMMA AuditedRunFailsStep ==
    ASSUME FilesInv, NEW id \in AuditIds, AuditedRunFails(id)
    PROVE  FilesInv'
<1>1. PICK r \in audited : /\ r.id = id /\ r.kind = "run" /\ r.tag = "running"
                           /\ audited' = (audited \ {r}) \cup {[r EXCEPT !.tag = "failed"]}
  BY DEF AuditedRunFails
<1> DEFINE row == [r EXCEPT !.tag = "failed"]
<1>2. export' = Steady({id}) /\ UNCHANGED <<view, files>>
  BY DEF AuditedRunFails
<1>3. IsAudited(r) /\ Even(r.id)
  BY <1>1 DEF FilesInv, AuditedInv, IsAudited
<1>4. IsAudited(row) /\ row.id = id /\ row.at = r.at
  <2>1. row = [kind |-> r.kind, id |-> r.id, at |-> r.at, tag |-> "failed", service |-> r.service]
    BY <1>3 DEF IsAudited
  <2> HIDE DEF row
  <2> QED BY <2>1, <1>1, <1>3 DEF IsAudited, RunStatuses
<1>5. audited' = (audited \ {r}) \cup {row}
  BY <1>1
<1> HIDE DEF row
<1>6. \A q \in audited : q.id = id => q = r
  BY <1>1 DEF FilesInv, AuditedInv
<1>7. AuditedInv'
  <2>1. IsFiniteSet(audited')
    BY <1>5, FS_RemoveElement, FS_AddElement DEF FilesInv, AuditedInv
  <2> QED BY <2>1, <1>4, <1>5, <1>6 DEF FilesInv, AuditedInv
<1>8. /\ \A q \in audited : q.id \notin {id} => q \in audited'
      /\ \A q \in audited : \E p \in audited' : p.id = q.id
      /\ \A q \in audited' : q \in audited \/ q.id \in {id} \/ \A p \in audited : p.id # q.id
  BY <1>1, <1>4, <1>5, <1>6
<1>9. \A q \in audited, p \in audited' : q.id = p.id => p.at = q.at
  BY <1>1, <1>4, <1>5, <1>6 DEF FilesInv, AuditedInv
<1>10. DOMAIN export' = Exports
  BY <1>2 DEF Steady
<1>11. ASSUME NEW e \in Exports
       PROVE  /\ IsExport(export'[e]) /\ export'[e].pc = export[e].pc
              /\ export'[e].runs = export[e].runs
              /\ export'[e].filter = export[e].filter
              /\ export'[e].steady = export[e].steady \ {id}
  <2>1. export'[e] = [export[e] EXCEPT !.steady = @ \ {id}]
    BY <1>2 DEF Steady
  <2>2. IsExport(export[e])
    BY DEF FilesInv, ExportsInv
  <2>3. export'[e] = [pc |-> export[e].pc, filter |-> export[e].filter, runs |-> export[e].runs,
                      steady |-> export[e].steady \ {id}]
    BY <2>1, <2>2 DEF IsExport
  <2> QED BY <2>3 DEF IsExport
<1> QED BY <1>2, <1>7, <1>8, <1>9, <1>10, <1>11, RowsChange

-----------------------------------------------------------------------------
(* The document of a session *)

Ended == {"succeeded", "failed", "cancelled"}

\* s holds the last of S, all of them unless it is cut
LastOf(s, cut, S) ==
    /\ Line(s) /\ DOMAIN s = 1 .. Len(s) /\ \A i \in 1 .. Len(s) : s[i] \in S
    /\ \A i, j \in 1 .. Len(s) : i < j => s[i] < s[j]
    /\ \A m \in S : (\E i \in 1 .. Len(s) : s[i] = m)
                      \/ (cut /\ \A i \in 1 .. Len(s) : s[i] > m)

\* order_by(sequence.desc()).limit(n), turned round
LEMMA LatestParts ==
    ASSUME NEW S, IsFiniteSet(S), S \subseteq Nat, NEW n \in Nat
    PROVE  LET s == Latest(S, n)
           IN  /\ s \in Seq(S) /\ Len(s) <= n
               /\ \A i, j \in 1 .. Len(s) : i < j => s[i] < s[j]
               /\ \A m \in S : (\E i \in 1 .. Len(s) : s[i] = m)
                                 \/ (Len(s) = n /\ \A i \in 1 .. Len(s) : s[i] > m)
<1> DEFINE R == {p \in S \X S : p[1] > p[2]}
           size == IF Cardinality(S) < n THEN Cardinality(S) ELSE n
           s == Latest(S, n)
           h == Heads(S, R, n)
<1>1. \A x, y \in S : <<x, y>> \in R <=> x > y
  OBVIOUS
<1>2. StrictOrder(S, R)
  <2>1. \A x \in S : x \in Int
    OBVIOUS
  <2> HIDE DEF R
  <2> QED BY <2>1, <1>1 DEF StrictOrder
<1>3. HeadOf(h, S, R, n)
  BY <1>2, HeadsParts
<1>4. Cardinality(S) \in Nat /\ size \in Nat /\ size <= n
  BY FS_CardinalityType
<1>5. \A m \in S : Cardinality({k \in S : k > m}) = Rank(S, R, m)
  <2> SUFFICES ASSUME NEW m \in S PROVE {k \in S : k > m} = {y \in S : <<y, m>> \in R}
    BY DEF Rank
  <2> QED BY <1>1
<1> DEFINE place(i) == CHOOSE m \in S : Cardinality({k \in S : k > m}) = size - i
           head(i) == CHOOSE m \in S : Rank(S, R, m) + 1 = i
<1>6. \A m \in S : Rank(S, R, m) \in Int
  BY <1>2, RankParts
<1>7. ASSUME NEW i \in 1 .. size PROVE size + 1 - i \in 1 .. size /\ place(i) = head(size + 1 - i)
  <2>1. \A m \in S : Cardinality({k \in S : k > m}) = size - i <=> Rank(S, R, m) + 1 = size + 1 - i
    <3> TAKE m \in S
    <3>1. Cardinality({k \in S : k > m}) = Rank(S, R, m) /\ Rank(S, R, m) \in Int
      BY <1>5, <1>6
    <3> HIDE DEF size
    <3> QED BY <3>1, <1>4
  <2>2. size + 1 - i \in 1 .. size
    <3> HIDE DEF size
    <3> QED BY <1>4
  <2> QED BY <2>1, <2>2
<1>8. s = [i \in 1 .. size |-> place(i)]
  BY DEF Latest
<1>9. h = [i \in 1 .. size |-> head(i)]
  BY DEF Heads
<1>10. h \in Seq(S) /\ Len(h) = size
  <2>1. h \in Seq(S) /\ DOMAIN h = 1 .. size
    BY <1>3, <1>9 DEF HeadOf
  <2> HIDE DEF h, size
  <2> QED BY <2>1, <1>4, LengthIs
<1> HIDE DEF size, s, h, place, head, R
<1>11. \A i \in 1 .. size : size + 1 - i \in 1 .. size /\ s[i] = h[size + 1 - i] /\ s[i] \in S
  BY <1>7, <1>8, <1>9, <1>10, ElementOfSeq
<1>12. s \in Seq(S) /\ Len(s) = size
  <2>1. s \in [1 .. size -> S]
    BY <1>8, <1>11
  <2> QED BY <2>1, <1>4, LineOf
<1>13. ASSUME NEW i \in 1 .. size, NEW j \in 1 .. size, i < j PROVE s[i] < s[j]
  <2>1. size + 1 - j < size + 1 - i
    BY <1>4, <1>13
  <2>2. <<h[size + 1 - j], h[size + 1 - i]>> \in R
    BY <2>1, <1>3, <1>10, <1>11 DEF HeadOf
  <2>3. s[j] > s[i]
    BY <2>2, <1>1, <1>11
  <2> QED BY <2>3, <1>11
<1>14. ASSUME NEW m \in S
       PROVE  (\E i \in 1 .. size : s[i] = m) \/ (size = n /\ \A i \in 1 .. size : s[i] > m)
  <2>1. CASE \E k \in 1 .. size : h[k] = m
    <3>1. PICK k \in 1 .. size : h[k] = m
      BY <2>1
    <3>2. size + 1 - k \in 1 .. size /\ size + 1 - (size + 1 - k) = k
      BY <1>4
    <3> QED BY <3>1, <3>2, <1>11
  <2>2. CASE size = n /\ \A k \in 1 .. size : <<h[k], m>> \in R
    <3>1. \A i \in 1 .. size : s[i] > m
      BY <2>2, <1>1, <1>11
    <3> QED BY <2>2, <3>1
  <2> QED BY <2>1, <2>2, <1>3, <1>10 DEF HeadOf
<1> QED BY <1>4, <1>12, <1>13, <1>14 DEF s

\* One more than the cap is read to know whether there are more, and the last are kept.
LEMMA KeptParts ==
    ASSUME NEW S, IsFiniteSet(S), S \subseteq Nat, NEW cap \in Nat \ {0}, NEW read, read = Latest(S, cap + 1)
    PROVE  LastOf(Kept(read, cap), Len(read) > cap, S)
<1> DEFINE n == Len(read)
           off == IF n > cap THEN n - cap ELSE 0
           s == Kept(read, cap)
<1>1. cap + 1 \in Nat /\ cap \in Nat
  OBVIOUS
<1>2. /\ read \in Seq(S) /\ n <= cap + 1
      /\ \A i, j \in 1 .. n : i < j => read[i] < read[j]
      /\ \A m \in S : (\E i \in 1 .. n : read[i] = m)
                        \/ (n = cap + 1 /\ \A i \in 1 .. n : read[i] > m)
  BY <1>1, LatestParts
<1>3. n \in Nat /\ off \in Nat /\ off <= n /\ (n > cap => off = 1) /\ (~(n > cap) => off = 0)
  BY <1>1, <1>2, LenProperties
<1>4. \A i \in 1 .. n : read[i] \in S
  BY <1>2, ElementOfSeq
<1>5. s = SubSeq(read, off + 1, n)
  BY <1>3 DEF Kept
<1> HIDE DEF off, n, s
<1>6. /\ s \in Seq(S) /\ Len(s) = n - off
      /\ \A i \in 1 .. n - off : s[i] = read[off + i]
  <2>1. \A i \in off + 1 .. n : read[i] \in S
    BY <1>3, <1>4
  <2> QED BY <2>1, <1>3, <1>5 DEF n
<1>7. n - off \in Nat /\ \A i \in 1 .. n - off : off + i \in 1 .. n
  BY <1>3
<1>8. Line(s) /\ DOMAIN s = 1 .. Len(s) /\ \A i \in 1 .. Len(s) : s[i] \in S
  BY <1>4, <1>6, <1>7, LineOfSeq
<1>9. \A i, j \in 1 .. Len(s) : i < j => s[i] < s[j]
  <2> SUFFICES ASSUME NEW i \in 1 .. n - off, NEW j \in 1 .. n - off, i < j PROVE s[i] < s[j]
    BY <1>6
  <2>1. off + i < off + j
    BY <1>3, <1>7
  <2> QED BY <2>1, <1>2, <1>6, <1>7
<1>10. ASSUME NEW m \in S
       PROVE  (\E i \in 1 .. Len(s) : s[i] = m) \/ (n > cap /\ \A i \in 1 .. Len(s) : s[i] > m)
  <2>1. CASE \E i \in 1 .. n : read[i] = m
    <3>1. PICK i \in 1 .. n : read[i] = m
      BY <2>1
    <3>2. CASE i > off
      <4>1. i - off \in 1 .. n - off /\ off + (i - off) = i
        BY <3>2, <1>3
      <4> QED BY <3>1, <4>1, <1>6
    <3>3. CASE ~(i > off)
      <4>1. n > cap /\ i = 1 /\ off = 1
        BY <3>3, <1>3
      <4>2. ASSUME NEW j \in 1 .. n - off PROVE s[j] > m
        <5>1. off + j \in 1 .. n /\ i < off + j
          BY <4>1, <1>3
        <5>2. read[i] < read[off + j]
          BY <5>1, <1>2
        <5>3. m \in Int /\ read[off + j] \in Int
          <6>1. \A x \in S : x \in Int
            OBVIOUS
          <6> QED BY <6>1, <5>1, <1>4
        <5> QED BY <5>2, <5>3, <3>1, <1>6
      <4> QED BY <4>1, <4>2, <1>6
    <3> QED BY <3>2, <3>3
  <2>2. CASE n = cap + 1 /\ \A i \in 1 .. n : read[i] > m
    <3>1. n > cap
      BY <2>2, <1>1
    <3>2. \A j \in 1 .. n - off : s[j] > m
      <4> TAKE j \in 1 .. n - off
      <4>1. off + j \in 1 .. n /\ s[j] = read[off + j]
        BY <1>6, <1>7
      <4> QED BY <2>2, <4>1
    <3> QED BY <3>1, <3>2, <1>6
  <2> QED BY <2>1, <2>2, <1>2
<1>11. LastOf(s, n > cap, S)
  BY <1>8, <1>9, <1>10 DEF LastOf
<1> QED BY <1>11 DEF s, n

\* what a document has said is still so
SaidFits(d, messages) ==
    /\ Line(d.messages) /\ DOMAIN d.messages = 1 .. Len(d.messages)
    /\ \A i \in 1 .. Len(d.messages) : d.messages[i] \in messages
    /\ \A m \in d.there : (\E i \in 1 .. Len(d.messages) : d.messages[i] = m)
                             \/ (d.cut.messages /\ \A i \in 1 .. Len(d.messages) : d.messages[i] > m)

\* a Run of the summary: how it ended is still so, and so is the result that was read
RunFits(x, was) ==
    /\ x = [run |-> x.run, status |-> x.status, result |-> x.result]
    /\ x.run \in Turns /\ (x.status \in Ended => was[x.run] = x.status)
    /\ x.result # "unread" =>
         /\ x.status = "succeeded" => (x.result = "read" <=> x.run % 2 = 1)
         /\ x.status \in {"failed", "cancelled"} => x.result = "absent"

SummaryFits(d, was) ==
    /\ Line(d.runs) /\ DOMAIN d.runs = 1 .. Len(d.runs)
    /\ \A i \in 1 .. Len(d.runs) : RunFits(d.runs[i], was)
    /\ \A i, j \in 1 .. Len(d.runs) : i < j => d.runs[i].run < d.runs[j].run
    /\ ~d.cut.runs => \A t \in Turns :
         /\ (\E i \in 1 .. Len(d.messages) : d.messages[i] = QuestionAt(t))
              => \E i \in 1 .. Len(d.runs) : d.runs[i].run = t
         /\ (\E i \in 1 .. Len(d.messages) : d.messages[i] = AnswerAt(t))
              => \E i \in 1 .. Len(d.runs) : d.runs[i].run = t /\ d.runs[i].status = "succeeded"

IsDocument(d) ==
    /\ d = [step |-> d.step, there |-> d.there, messages |-> d.messages, runs |-> d.runs, cut |-> d.cut]
    /\ d.cut = [messages |-> d.cut.messages, runs |-> d.cut.runs]

DocumentInv ==
    /\ turn \in [Turns -> {"absent", "running"} \cup Ended]
    /\ IsDocument(document)
    /\ document.step = "messages" => document.there \subseteq Messages
    /\ document.step \in {"runs", "results", "done"} => SaidFits(document, Messages)
    /\ document.step \in {"results", "done"} => SummaryFits(document, turn)
    /\ document.step = "done" => \A i \in 1 .. Len(document.runs) : document.runs[i].result # "unread"

LEMMA TurnsOf ==
    ASSUME NEW t \in Turns, NEW u \in Turns
    PROVE  /\ QuestionAt(t) = QuestionAt(u) => t = u
           /\ AnswerAt(t) = AnswerAt(u) => t = u
           /\ QuestionAt(t) # AnswerAt(u)
           /\ QuestionAt(t) \in Nat /\ AnswerAt(t) \in Nat
<1>1. t \in Int /\ u \in Int /\ t \in Nat /\ u \in Nat
  BY AuditNumbers
<1> QED BY <1>1 DEF QuestionAt, AnswerAt

LEMMA MessagesAre ==
    /\ \A t \in Turns : /\ QuestionAt(t) \in Messages <=> turn[t] # "absent"
                        /\ AnswerAt(t) \in Messages <=> turn[t] = "succeeded"
    /\ Messages \subseteq Nat /\ IsFiniteSet(Messages)
    /\ SessionRuns \subseteq Nat /\ SessionRuns \subseteq Turns /\ IsFiniteSet(SessionRuns)
<1> DEFINE begun == {t \in Turns : turn[t] # "absent"}
           answered == {t \in Turns : turn[t] = "succeeded"}
           Q == {QuestionAt(t) : t \in begun}
           A == {AnswerAt(t) : t \in answered}
<1>1. Messages = Q \cup A /\ SessionRuns = begun
  BY DEF Messages, SessionRuns
<1>2. IsFiniteSet(begun) /\ IsFiniteSet(answered) /\ begun \subseteq Turns /\ answered \subseteq Turns
  <2>1. begun \in SUBSET Turns /\ answered \in SUBSET Turns
    OBVIOUS
  <2> QED BY <2>1, ExportsAssumption, FS_Subset
<1>3. IsFiniteSet(Q)
  <2> DEFINE put == [t \in begun |-> QuestionAt(t)]
  <2>1. put \in Surjection(begun, Q)
    BY Fun_IsSurj
  <2> QED BY <2>1, <1>2, FS_Surjection
<1>4. IsFiniteSet(A)
  <2> DEFINE put == [t \in answered |-> AnswerAt(t)]
  <2>1. put \in Surjection(answered, A)
    BY Fun_IsSurj
  <2> QED BY <2>1, <1>2, FS_Surjection
<1>5. IsFiniteSet(Messages)
  BY <1>1, <1>3, <1>4, FS_Union
<1>6. Messages \subseteq Nat
  BY <1>1, TurnsOf
<1>7. ASSUME NEW t \in Turns
      PROVE  /\ QuestionAt(t) \in Messages <=> turn[t] # "absent"
             /\ AnswerAt(t) \in Messages <=> turn[t] = "succeeded"
  <2>1. QuestionAt(t) \in Q <=> t \in begun
    BY <1>2, TurnsOf
  <2>2. AnswerAt(t) \in A <=> t \in answered
    BY <1>2, TurnsOf
  <2>3. QuestionAt(t) \notin A /\ AnswerAt(t) \notin Q
    BY <1>2, TurnsOf
  <2> QED BY <2>1, <2>2, <2>3, <1>1
<1>8. SessionRuns \subseteq Nat
  BY <1>1, <1>2, AuditNumbers
<1> QED BY <1>1, <1>2, <1>5, <1>6, <1>7, <1>8

LEMMA MessagesGrow ==
    ASSUME turn \in [Turns -> {"absent", "running"} \cup Ended],
           \A t \in Turns : /\ turn[t] # "absent" => turn'[t] # "absent"
                            /\ turn[t] = "succeeded" => turn'[t] = "succeeded"
    PROVE  Messages \subseteq Messages'
BY DEF Messages

\* The session goes on under the document.
LEMMA TurnMoves ==
    ASSUME DocumentInv, document' = document, turn' \in [Turns -> {"absent", "running"} \cup Ended],
           \A t \in Turns : /\ turn[t] # "absent" => turn'[t] # "absent"
                            /\ turn[t] \in Ended => turn'[t] = turn[t]
    PROVE  DocumentInv'
<1>1. "succeeded" \in Ended
  BY DEF Ended
<1>2. Messages \subseteq Messages'
  BY <1>1, MessagesGrow DEF DocumentInv
<1>3. \A d : SaidFits(d, Messages) => SaidFits(d, Messages')
  BY <1>2 DEF SaidFits
<1>4. \A x : RunFits(x, turn) => RunFits(x, turn')
  BY DEF RunFits
<1>5. \A d : SummaryFits(d, turn) => SummaryFits(d, turn')
  BY <1>4 DEF SummaryFits
<1> QED BY <1>2, <1>3, <1>5 DEF DocumentInv

LEMMA AsksStep ==
    ASSUME DocumentInv, NEW t \in Turns, Asks(t)
    PROVE  DocumentInv'
<1>1. turn[t] = "absent" /\ turn' = [turn EXCEPT ![t] = "running"] /\ document' = document
  BY DEF Asks
<1>2. turn' \in [Turns -> {"absent", "running"} \cup Ended]
  BY <1>1 DEF DocumentInv
<1>3. \A u \in Turns : /\ turn[u] # "absent" => turn'[u] # "absent"
                       /\ turn[u] \in Ended => turn'[u] = turn[u]
  BY <1>1 DEF DocumentInv, Ended
<1> QED BY <1>1, <1>2, <1>3, TurnMoves

LEMMA EndsStep ==
    ASSUME DocumentInv, NEW t \in Turns, NEW status \in {"succeeded", "failed", "cancelled"}, Ends(t, status)
    PROVE  DocumentInv'
<1>1. turn[t] = "running" /\ turn' = [turn EXCEPT ![t] = status] /\ document' = document
  BY DEF Ends
<1>2. turn' \in [Turns -> {"absent", "running"} \cup Ended]
  BY <1>1 DEF DocumentInv, Ended
<1>3. \A u \in Turns : /\ turn[u] # "absent" => turn'[u] # "absent"
                       /\ turn[u] \in Ended => turn'[u] = turn[u]
  BY <1>1 DEF DocumentInv, Ended
<1> QED BY <1>1, <1>2, <1>3, TurnMoves

LEMMA NothingAskedYet ==
    ASSUME NEW d, NEW step, d = [NoDocument EXCEPT !.step = step]
    PROVE  IsDocument(d) /\ d.step = step
<1>1. d = [step |-> step, there |-> {}, messages |-> <<>>, runs |-> <<>>,
           cut |-> [messages |-> FALSE, runs |-> FALSE]]
  BY DEF NoDocument
<1>2. /\ d.step = step /\ d.there = {} /\ d.messages = <<>> /\ d.runs = <<>>
      /\ d.cut = [messages |-> FALSE, runs |-> FALSE]
  BY <1>1
<1>3. d = [step |-> d.step, there |-> d.there, messages |-> d.messages, runs |-> d.runs, cut |-> d.cut]
  BY <1>1, <1>2
<1>4. d.cut = [messages |-> d.cut.messages, runs |-> d.cut.runs]
  BY <1>2
<1>5. IsDocument(d)
  BY <1>3, <1>4 DEF IsDocument
<1> QED BY <1>2, <1>5

LEMMA DocumentAskedStep == DocumentInv /\ DocumentAsked => DocumentInv'
<1> SUFFICES ASSUME DocumentInv, DocumentAsked PROVE DocumentInv'
  OBVIOUS
<1>1. document' = [NoDocument EXCEPT !.step = "messages", !.there = Messages] /\ turn' = turn
  BY DEF DocumentAsked
<1>2. document' = [step |-> "messages", there |-> Messages, messages |-> <<>>, runs |-> <<>>,
                   cut |-> [messages |-> FALSE, runs |-> FALSE]]
  BY <1>1 DEF NoDocument
<1>3. IsDocument(document') /\ document'.step = "messages" /\ document'.there = Messages
  BY <1>2 DEF IsDocument
<1>4. Messages' = Messages
  BY <1>1 DEF Messages
<1> QED BY <1>1, <1>3, <1>4 DEF DocumentInv

LEMMA DocumentFailsStep == DocumentInv /\ DocumentFails => DocumentInv'
<1> SUFFICES ASSUME DocumentInv, DocumentFails PROVE DocumentInv'
  OBVIOUS
<1>1. document' = [NoDocument EXCEPT !.step = "failed"] /\ turn' = turn
  BY DEF DocumentFails
<1> QED BY <1>1, NothingAskedYet DEF DocumentInv

LEMMA DocumentReadsMessagesStep == DocumentInv /\ DocumentReadsMessages => DocumentInv'
<1> SUFFICES ASSUME DocumentInv, DocumentReadsMessages PROVE DocumentInv'
  OBVIOUS
<1> DEFINE read == Latest(Messages, MessageCap + 1)
           kept == Kept(read, MessageCap)
           cut == Len(read) > MessageCap
<1>1. /\ document.step = "messages" /\ turn' = turn
      /\ document' = [document EXCEPT !.step = "runs", !.messages = kept, !.cut.messages = cut]
  BY DEF DocumentReadsMessages
<1>2. IsDocument(document) /\ document.there \subseteq Messages
  BY <1>1 DEF DocumentInv
<1>3. LastOf(kept, cut, Messages)
  BY MessagesAre, KeptParts, ExportsAssumption
<1> HIDE DEF kept, cut, read
<1>4. document' = [step |-> "runs", there |-> document.there, messages |-> kept, runs |-> document.runs,
                   cut |-> [messages |-> cut, runs |-> document.cut.runs]]
  BY <1>1, <1>2 DEF IsDocument
<1>5. /\ IsDocument(document') /\ document'.step = "runs" /\ document'.there = document.there
      /\ document'.messages = kept /\ document'.cut.messages = cut
  BY <1>4 DEF IsDocument
<1>6. SaidFits(document', Messages)
  BY <1>2, <1>3, <1>5 DEF SaidFits, LastOf
<1>7. Messages' = Messages
  BY <1>1 DEF Messages
<1> QED BY <1>1, <1>5, <1>6, <1>7 DEF DocumentInv

LEMMA DocumentReadsRunsStep == DocumentInv /\ DocumentReadsRuns => DocumentInv'
<1> SUFFICES ASSUME DocumentInv, DocumentReadsRuns PROVE DocumentInv'
  OBVIOUS
<1> DEFINE read == Latest(SessionRuns, RunCap + 1)
           kept == Kept(read, RunCap)
           cut == Len(read) > RunCap
           runs == [i \in DOMAIN kept |-> RunRead(kept[i])]
<1>1. /\ document.step = "runs" /\ turn' = turn
      /\ document' = [document EXCEPT !.step = "results", !.runs = runs, !.cut.runs = cut]
  BY DEF DocumentReadsRuns
<1>2. IsDocument(document) /\ SaidFits(document, Messages)
  BY <1>1 DEF DocumentInv
<1>3. LastOf(kept, cut, SessionRuns)
  BY MessagesAre, KeptParts, ExportsAssumption
<1> HIDE DEF kept, cut, read
<1>4. /\ DOMAIN runs = 1 .. Len(kept) /\ Len(kept) \in Nat
      /\ \A i \in 1 .. Len(kept) : runs[i] = RunRead(kept[i])
  BY <1>3 DEF LastOf, Line
<1>5. Line(runs) /\ Len(runs) = Len(kept)
  BY <1>4, LenProperties DEF Line
<1> HIDE DEF runs
<1>6. document' = [step |-> "results", there |-> document.there, messages |-> document.messages,
                   runs |-> runs, cut |-> [messages |-> document.cut.messages, runs |-> cut]]
  BY <1>1, <1>2 DEF IsDocument
<1>7. /\ IsDocument(document') /\ document'.step = "results" /\ document'.there = document.there
      /\ document'.messages = document.messages /\ document'.cut.messages = document.cut.messages
      /\ document'.runs = runs /\ document'.cut.runs = cut
  BY <1>6 DEF IsDocument
<1>8. SaidFits(document', Messages)
  BY <1>2, <1>7 DEF SaidFits
<1>9. \A i \in 1 .. Len(kept) : /\ kept[i] \in Turns /\ runs[i].run = kept[i]
                                /\ runs[i].status = turn[kept[i]] /\ RunFits(runs[i], turn)
  <2> TAKE i \in 1 .. Len(kept)
  <2>1. kept[i] \in Turns
    BY <1>3, MessagesAre DEF LastOf
  <2>2. runs[i] = [run |-> kept[i], status |-> turn[kept[i]], result |-> "unread"]
    BY <1>4 DEF RunRead
  <2> QED BY <2>1, <2>2 DEF RunFits
<1>10. ASSUME ~cut, NEW t \in Turns, turn[t] # "absent"
       PROVE  \E i \in 1 .. Len(runs) : runs[i].run = t /\ runs[i].status = turn[t]
  <2>1. t \in SessionRuns
    BY <1>10 DEF SessionRuns
  <2>2. PICK i \in 1 .. Len(kept) : kept[i] = t
    BY <1>3, <1>10, <2>1 DEF LastOf
  <2> QED BY <1>5, <1>9, <2>2
<1>11. ASSUME ~cut, NEW t \in Turns
       PROVE  /\ (\E i \in 1 .. Len(document.messages) : document.messages[i] = QuestionAt(t))
                   => \E i \in 1 .. Len(runs) : runs[i].run = t
              /\ (\E i \in 1 .. Len(document.messages) : document.messages[i] = AnswerAt(t))
                   => \E i \in 1 .. Len(runs) : runs[i].run = t /\ runs[i].status = "succeeded"
  <2>1. ASSUME \E i \in 1 .. Len(document.messages) : document.messages[i] = QuestionAt(t)
        PROVE  turn[t] # "absent"
    BY <1>2, <2>1, MessagesAre DEF SaidFits
  <2>2. ASSUME \E i \in 1 .. Len(document.messages) : document.messages[i] = AnswerAt(t)
        PROVE  turn[t] = "succeeded"
    BY <1>2, <2>2, MessagesAre DEF SaidFits
  <2> QED BY <1>10, <1>11, <2>1, <2>2
<1>12. \A i, j \in 1 .. Len(runs) : i < j => runs[i].run < runs[j].run
  BY <1>3, <1>5, <1>9 DEF LastOf
<1>13. SummaryFits(document', turn)
  BY <1>4, <1>5, <1>7, <1>9, <1>11, <1>12 DEF SummaryFits
<1>14. Messages' = Messages
  BY <1>1 DEF Messages
<1> QED BY <1>1, <1>7, <1>8, <1>13, <1>14 DEF DocumentInv

LEMMA DocumentReadsResultStep == DocumentInv /\ DocumentReadsResult => DocumentInv'
<1> SUFFICES ASSUME DocumentInv, DocumentReadsResult PROVE DocumentInv'
  OBVIOUS
<1> DEFINE runs == document.runs
           i == CHOOSE k \in Unread : \A j \in Unread : k <= j
           read == ResultOf(runs[i].run)
           more == [runs EXCEPT ![i].result = read]
<1>1. /\ document.step = "results" /\ turn' = turn
      /\ document' = [document EXCEPT !.runs[i].result = read]
  BY DEF DocumentReadsResult
<1>2. IsDocument(document) /\ SaidFits(document, Messages) /\ SummaryFits(document, turn)
  BY <1>1 DEF DocumentInv
<1>3. Line(runs) /\ DOMAIN runs = 1 .. Len(runs) /\ Len(runs) \in Nat
  BY <1>2 DEF SummaryFits, Line
<1>4. document' = [document EXCEPT !.runs = more]
  BY <1>1
<1> HIDE DEF i, read
<1>5. /\ DOMAIN more = 1 .. Len(runs)
      /\ \A k \in 1 .. Len(runs) : more[k] = IF k = i THEN [runs[k] EXCEPT !.result = read] ELSE runs[k]
  BY <1>3
<1>6. DOMAIN more = 1 .. Len(runs) /\ Line(more) /\ Len(more) = Len(runs)
  <2> DEFINE T == {more[k] : k \in 1 .. Len(runs)}
  <2>1. more \in [1 .. Len(runs) -> T]
    BY <1>3
  <2> HIDE DEF T, more
  <2>2. more \in Seq(T) /\ Len(more) = Len(runs)
    BY <1>3, <2>1, LineOf
  <2> QED BY <1>3, <1>5, <2>2 DEF Line, T
<1> HIDE DEF more
<1>7. document' = [step |-> "results", there |-> document.there, messages |-> document.messages,
                   runs |-> more, cut |-> document.cut]
  BY <1>1, <1>2, <1>4 DEF IsDocument
<1>8. /\ IsDocument(document') /\ document'.step = "results" /\ document'.there = document.there
      /\ document'.messages = document.messages /\ document'.cut = document.cut /\ document'.runs = more
  BY <1>2, <1>7 DEF IsDocument
<1>9. SaidFits(document', Messages)
  BY <1>2, <1>8 DEF SaidFits
<1>10. ASSUME NEW k \in 1 .. Len(runs)
       PROVE  /\ more[k].run = runs[k].run /\ more[k].status = runs[k].status
              /\ RunFits(more[k], turn)
  <2>1. RunFits(runs[k], turn)
    BY <1>2 DEF SummaryFits
  <2>2. CASE k = i
    <3>1. more[k] = [run |-> runs[k].run, status |-> runs[k].status, result |-> read]
      BY <1>5, <2>1, <2>2 DEF RunFits
    <3>2. read = IF turn[runs[k].run] = "succeeded" /\ runs[k].run % 2 = 1 THEN "read" ELSE "absent"
      BY <2>2 DEF ResultOf, read, i
    <3> HIDE DEF runs
    <3>3. more[k].run = runs[k].run /\ more[k].status = runs[k].status /\ more[k].result = read
      BY <3>1
    <3>4. runs[k].run \in Turns /\ (runs[k].status \in Ended => turn[runs[k].run] = runs[k].status)
      BY <2>1 DEF RunFits
    <3>5. runs[k].status = "succeeded" => (read = "read" <=> runs[k].run % 2 = 1)
      BY <3>2, <3>4 DEF Ended
    <3>6. runs[k].status \in {"failed", "cancelled"} => read = "absent"
      BY <3>2, <3>4 DEF Ended
    <3> QED BY <3>1, <3>3, <3>4, <3>5, <3>6 DEF RunFits
  <2>3. CASE k # i
    BY <1>5, <2>1, <2>3
  <2> QED BY <2>2, <2>3
<1>11. SummaryFits(document', turn)
  BY <1>2, <1>6, <1>8, <1>10 DEF SummaryFits
<1>12. Messages' = Messages
  BY <1>1 DEF Messages
<1> QED BY <1>1, <1>8, <1>9, <1>11, <1>12 DEF DocumentInv

LEMMA DocumentDoneStep == DocumentInv /\ DocumentDone => DocumentInv'
<1> SUFFICES ASSUME DocumentInv, DocumentDone PROVE DocumentInv'
  OBVIOUS
<1>1. document.step = "results" /\ Unread = {} /\ document' = [document EXCEPT !.step = "done"]
      /\ turn' = turn
  BY DEF DocumentDone
<1>2. IsDocument(document) /\ SaidFits(document, Messages) /\ SummaryFits(document, turn)
  BY <1>1 DEF DocumentInv
<1>3. document' = [step |-> "done", there |-> document.there, messages |-> document.messages,
                   runs |-> document.runs, cut |-> document.cut]
  BY <1>1, <1>2 DEF IsDocument
<1>4. /\ IsDocument(document') /\ document'.step = "done" /\ document'.there = document.there
      /\ document'.messages = document.messages /\ document'.cut = document.cut
      /\ document'.runs = document.runs
  BY <1>2, <1>3 DEF IsDocument
<1>5. SaidFits(document', Messages) /\ SummaryFits(document', turn)
  BY <1>2, <1>4 DEF SaidFits, SummaryFits
<1>6. \A k \in 1 .. Len(document.runs) : document.runs[k].result # "unread"
  BY <1>1, <1>2 DEF Unread, SummaryFits
<1>7. Messages' = Messages
  BY <1>1 DEF Messages
<1> QED BY <1>1, <1>4, <1>5, <1>6, <1>7 DEF DocumentInv

-----------------------------------------------------------------------------
(* The files and the documents together *)

HandedOut == FilesInv /\ DocumentInv

LEMMA DocumentStays ==
    ASSUME DocumentInv, UNCHANGED <<turn, document>>
    PROVE  DocumentInv'
<1>1. Messages' = Messages
  BY DEF Messages
<1> QED BY <1>1 DEF DocumentInv

LEMMA FilesStay ==
    ASSUME FilesInv, UNCHANGED <<audited, export, view, files>>
    PROVE  FilesInv'
BY FilterStep DEF FilesInv, ExportsInv

LEMMA HandedOutInit == ExportsInit => HandedOut
<1> SUFFICES ASSUME ExportsInit PROVE HandedOut
  OBVIOUS
<1>1. /\ export = [e \in Exports |-> ExportAt("none", NoFilter, <<>>, {})]
      /\ view = [state |-> "idle", filter |-> NoFilter] /\ files = {}
      /\ turn = [t \in Turns |-> "absent"] /\ document = NoDocument
  BY DEF ExportsInit
<1>2. PICK before \in SUBSET AuditIds : audited = {AuditedRow(id) : id \in before}
  BY DEF ExportsInit
<1>3. \A id \in before : IsAudited(AuditedRow(id)) /\ AuditedRow(id).id = id
  BY AuditedRowIs
<1>4. IsFiniteSet(audited)
  <2> DEFINE row == [id \in before |-> AuditedRow(id)]
  <2>1. row \in [before -> audited] /\ \A r \in audited : \E id \in before : row[id] = r
    BY <1>2
  <2>2. row \in Surjection(before, audited)
    BY <2>1, Fun_IsSurj
  <2>3. IsFiniteSet(before)
    BY ExportsAssumption, FS_Subset
  <2> QED BY <2>2, <2>3, FS_Surjection
<1>5. AuditedInv
  BY <1>2, <1>3, <1>4 DEF AuditedInv
<1>6. \A e \in Exports : IsExport(export[e]) /\ export[e].pc = "none"
  BY <1>1, ExportAtParts
<1>7. FilesInv
  BY <1>1, <1>5, <1>6 DEF FilesInv, ExportsInv
<1>8. DocumentInv
  <2>1. document = [step |-> "none", there |-> {}, messages |-> <<>>, runs |-> <<>>,
                    cut |-> [messages |-> FALSE, runs |-> FALSE]]
    BY <1>1 DEF NoDocument
  <2>2. IsDocument(document) /\ document.step = "none"
    BY <2>1 DEF IsDocument
  <2> QED BY <1>1, <2>2 DEF DocumentInv
<1> QED BY <1>7, <1>8 DEF HandedOut

LEMMA HandedOutStep == HandedOut /\ [ExportsNext \/ DocumentNext]_exportVars => HandedOut'
<1> SUFFICES ASSUME HandedOut, [ExportsNext \/ DocumentNext]_exportVars PROVE HandedOut'
  OBVIOUS
<1>1. FilesInv /\ DocumentInv
  BY DEF HandedOut
<1>2. CASE UNCHANGED exportVars
  BY <1>1, <1>2, FilesStay, DocumentStays DEF exportVars, HandedOut
<1>3. CASE ExportsNext
  <2>1. UNCHANGED <<turn, document>>
    BY <1>3 DEF ExportsNext, TriggerExport, ExportReadsRuns, ExportAnswers, ExportFails, SetFilter,
                ResetFilters, RowWritten, AuditedRunFails
  <2>2. FilesInv'
    BY <1>1, <1>3, TriggerExportStep, ExportReadsRunsStep, ExportAnswersStep, ExportFailsStep,
       SetFilterStep, ResetFiltersStep, RowWrittenStep, AuditedRunFailsStep DEF ExportsNext
  <2>3. DocumentInv'
    BY <1>1, <2>1, DocumentStays
  <2> QED BY <2>2, <2>3, Zenon DEF HandedOut
<1>4. CASE DocumentNext
  <2>1. UNCHANGED <<audited, export, view, files>>
    BY <1>4 DEF DocumentNext, DocumentAsked, DocumentReadsMessages, DocumentReadsRuns,
                DocumentReadsResult, DocumentDone, DocumentFails, Asks, Ends
  <2>2. DocumentInv'
    BY <1>1, <1>4, DocumentAskedStep, DocumentReadsMessagesStep, DocumentReadsRunsStep,
       DocumentReadsResultStep, DocumentDoneStep, DocumentFailsStep, AsksStep, EndsStep DEF DocumentNext
  <2> QED BY <1>1, <2>1, <2>2, FilesStay DEF HandedOut
<1> QED BY <1>2, <1>3, <1>4

\* What the exports have read and what is still there go together in every state.
THEOREM HandedOutHolds == ExportsSpec => []HandedOut
<1> QED BY HandedOutInit, HandedOutStep, PTL DEF ExportsSpec

\* Each document that is done is a whole of what was there.
LEMMA DocumentIsTrue == DocumentInv => DocumentsAreTrue
<1> SUFFICES ASSUME DocumentInv, document.step = "done"
             PROVE  /\ \A m \in document.there : Said(m) \/ (document.cut.messages
                         /\ \A i \in DOMAIN document.messages : document.messages[i] > m)
                    /\ \A t \in Turns : ~document.cut.runs =>
                         /\ Said(QuestionAt(t)) => Told(t) # {}
                         /\ Said(AnswerAt(t)) => \E i \in Told(t) : document.runs[i].status = "succeeded"
                    /\ \A i \in DOMAIN document.runs :
                         /\ Cardinality(Told(document.runs[i].run)) = 1
                         /\ document.runs[i].status = "succeeded" =>
                              (document.runs[i].result = "read" <=> document.runs[i].run % 2 = 1)
                         /\ document.runs[i].status \in {"failed", "cancelled"} =>
                              document.runs[i].result = "absent"
  BY DEF DocumentsAreTrue
<1> DEFINE runs == document.runs
           said == document.messages
<1>1. /\ SaidFits(document, Messages) /\ SummaryFits(document, turn)
      /\ \A i \in 1 .. Len(runs) : runs[i].result # "unread"
  BY DEF DocumentInv
<1>2. DOMAIN said = 1 .. Len(said) /\ DOMAIN runs = 1 .. Len(runs) /\ Len(runs) \in Nat
  BY <1>1 DEF SaidFits, SummaryFits, Line
<1>3. \A m : Said(m) <=> \E i \in 1 .. Len(said) : said[i] = m
  BY <1>2 DEF Said
<1>4. \A t : \A i : i \in Told(t) <=> i \in 1 .. Len(runs) /\ runs[i].run = t
  BY <1>2 DEF Told
<1>5. \A i \in 1 .. Len(runs) : RunFits(runs[i], turn)
  BY <1>1 DEF SummaryFits
<1>6. ASSUME NEW i \in 1 .. Len(runs) PROVE Cardinality(Told(runs[i].run)) = 1
  <2>1. ASSUME NEW j \in 1 .. Len(runs), runs[j].run = runs[i].run PROVE j = i
    <3>1. runs[i].run \in Int
      BY <1>5, AuditNumbers DEF RunFits
    <3>2. i < j => runs[i].run < runs[j].run
      BY <1>1 DEF SummaryFits
    <3>3. j < i => runs[j].run < runs[i].run
      BY <1>1 DEF SummaryFits
    <3>4. ~(runs[i].run < runs[i].run)
      BY <3>1
    <3> QED BY <2>1, <3>2, <3>3, <3>4, <1>2
  <2>2. Told(runs[i].run) = {i}
    BY <2>1, <1>4
  <2> QED BY <2>2, FS_Singleton
<1>7. \A m \in document.there : Said(m) \/ (document.cut.messages /\ \A i \in DOMAIN said : said[i] > m)
  BY <1>1, <1>2, <1>3 DEF SaidFits
<1>8. \A t \in Turns : ~document.cut.runs =>
        /\ Said(QuestionAt(t)) => Told(t) # {}
        /\ Said(AnswerAt(t)) => \E i \in Told(t) : runs[i].status = "succeeded"
  <2> SUFFICES ASSUME NEW t \in Turns, ~document.cut.runs
               PROVE  /\ Said(QuestionAt(t)) => Told(t) # {}
                      /\ Said(AnswerAt(t)) => \E i \in Told(t) : runs[i].status = "succeeded"
    OBVIOUS
  <2>1. /\ (\E i \in 1 .. Len(said) : said[i] = QuestionAt(t))
             => \E i \in 1 .. Len(runs) : runs[i].run = t
        /\ (\E i \in 1 .. Len(said) : said[i] = AnswerAt(t))
             => \E i \in 1 .. Len(runs) : runs[i].run = t /\ runs[i].status = "succeeded"
    BY <1>1 DEF SummaryFits
  <2> HIDE DEF said, runs
  <2>2. Said(QuestionAt(t)) => Told(t) # {}
    BY <1>3, <1>4, <2>1
  <2>3. Said(AnswerAt(t)) => \E i \in Told(t) : runs[i].status = "succeeded"
    BY <1>3, <1>4, <2>1
  <2> QED BY <2>2, <2>3
<1>9. \A i \in DOMAIN runs :
        /\ Cardinality(Told(runs[i].run)) = 1
        /\ runs[i].status = "succeeded" => (runs[i].result = "read" <=> runs[i].run % 2 = 1)
        /\ runs[i].status \in {"failed", "cancelled"} => runs[i].result = "absent"
  BY <1>1, <1>2, <1>5, <1>6 DEF RunFits
<1> QED BY <1>7, <1>8, <1>9

\* What leaves the system as a file is a whole of what was there: an audit file has every row
\* that stayed as it was while it was read, each once and in order, and a session's document
\* says what is missing and does not deny in its summary of the Runs what its messages say
\* (audit_service.py, the export of AuditPage.tsx, session_export.py), however many rows,
\* exports and turns there are and whatever the limits.
THEOREM ExportsAlwaysTrue == ExportsSpec => []ExportsAreTrue
<1>1. FilesInv => FilesAreWhole
  BY DEF FilesInv, FilesAreWhole, WholeFile, UnderWay
<1>2. HandedOut => ExportsAreTrue
  BY <1>1, DocumentIsTrue DEF HandedOut, ExportsAreTrue
<1> QED BY <1>2, HandedOutHolds, PTL

-----------------------------------------------------------------------------
(* Occurrences that do not overlap *)

LEMMA LeastNumber ==
    ASSUME NEW S \in SUBSET Nat, S # {}
    PROVE  \E x \in S : \A y \in S : x <= y
<1> DEFINE less == OpToRel(<, Nat)
<1>1. less = {ss \in Nat \X Nat : ss[1] < ss[2]}
  BY DEF OpToRel
<1>2. IsWellFoundedOn(less, Nat)
  BY NatLessThanWellFounded
<1> HIDE DEF less
<1>3. PICK x \in S : \A y \in S : <<y, x>> \notin less
  BY <1>2, WFMin
<1>4. \A y \in S : x <= y
  <2> TAKE y \in S
  <2>1. x \in Nat /\ y \in Nat /\ ~(y < x)
    BY <1>1, <1>3
  <2> QED BY <2>1
<1> QED BY <1>4

IsText(body) == Len(body) \in Nat /\ DOMAIN body = 1 .. Len(body)

LEMMA KeywordIs == Len(Keyword) = 2
BY DEF Keyword

LEMMA OccursIn ==
    ASSUME NEW body, IsText(body), NEW i \in Nat, OccursAt(body, i)
    PROVE  i + 1 <= Len(body)
BY KeywordIs DEF OccursAt, IsText

\* The sets of occurrences from i on, and the size of the largest.
From(body, i) == {S \in Disjoint(body) : \A j \in S : i <= j}
IsMost(body, i, m) ==
    /\ \E S \in From(body, i) : Cardinality(S) = m
    /\ \A S \in From(body, i) : Cardinality(S) <= m
Most(body, i) == CHOOSE m \in Nat : IsMost(body, i, m)

LEMMA FromParts ==
    ASSUME NEW body, IsText(body), NEW i \in Nat
    PROVE  /\ {} \in From(body, i)
           /\ \A S \in From(body, i) :
                /\ S \subseteq 1 .. Len(body) /\ IsFiniteSet(S) /\ Cardinality(S) \in Nat
                /\ Cardinality(S) <= Len(body)
                /\ \A j \in S : i <= j /\ OccursAt(body, j)
                /\ \A j, k \in S : j < k => j + 2 <= k
<1>1. {} \in From(body, i)
  BY DEF From, Disjoint
<1>2. ASSUME NEW S \in From(body, i)
      PROVE  /\ S \subseteq 1 .. Len(body) /\ IsFiniteSet(S) /\ Cardinality(S) \in Nat
             /\ Cardinality(S) <= Len(body)
  <2>1. S \in SUBSET (1 .. Len(body))
    BY DEF From, Disjoint, IsText
  <2>2. Len(body) \in Nat
    BY DEF IsText
  <2>3. IsFiniteSet(1 .. Len(body)) /\ Cardinality(1 .. Len(body)) = Len(body)
    <3>1. 1 \in Int /\ Len(body) \in Int
      BY <2>2
    <3>2. /\ IsFiniteSet(1 .. Len(body))
          /\ Cardinality(1 .. Len(body)) = IF 1 > Len(body) THEN 0 ELSE Len(body) - 1 + 1
      BY <3>1, FS_Interval
    <3> QED BY <2>2, <3>2
  <2> QED BY <2>1, <2>3, FS_Subset, FS_CardinalityType
<1>3. ASSUME NEW S \in From(body, i)
      PROVE  /\ \A j \in S : i <= j /\ OccursAt(body, j)
             /\ \A j, k \in S : j < k => j + 2 <= k
  BY KeywordIs DEF From, Disjoint
<1> QED BY <1>1, <1>2, <1>3

LEMMA MostIs ==
    ASSUME NEW body, IsText(body), NEW i \in Nat
    PROVE  Most(body, i) \in Nat /\ IsMost(body, i, Most(body, i))
<1> DEFINE n == Len(body)
           left == {n - Cardinality(S) : S \in From(body, i)}
<1>1. n \in Nat
  BY DEF IsText
<1>2. left \in SUBSET Nat /\ left # {}
  BY <1>1, FromParts
<1>3. PICK x \in left : \A y \in left : x <= y
  BY <1>2, LeastNumber
<1>4. PICK S \in From(body, i) : x = n - Cardinality(S)
  BY <1>3
<1>5. Cardinality(S) \in Nat
  BY FromParts
<1>6. \A T \in From(body, i) : Cardinality(T) <= Cardinality(S)
  <2> TAKE T \in From(body, i)
  <2>1. n - Cardinality(S) <= n - Cardinality(T)
    BY <1>3, <1>4
  <2>2. Cardinality(T) \in Nat
    BY FromParts
  <2> HIDE DEF n
  <2> QED BY <2>1, <2>2, <1>1, <1>5
<1>7. \E m \in Nat : IsMost(body, i, m)
  BY <1>5, <1>6 DEF IsMost
<1> QED BY <1>7 DEF Most

LEMMA MostSteps ==
    ASSUME NEW body, IsText(body), NEW i \in Nat \ {0}
    PROVE  /\ i > Len(body) => Most(body, i) = 0
           /\ OccursAt(body, i) => Most(body, i) = 1 + Most(body, i + 2)
           /\ ~OccursAt(body, i) => Most(body, i) = Most(body, i + 1)
<1> DEFINE n == Len(body)
<1>1. n \in Nat /\ i \in Nat /\ i + 1 \in Nat /\ i + 2 \in Nat
  BY DEF IsText
<1>2. \A j \in {i, i + 1, i + 2} : Most(body, j) \in Nat /\ IsMost(body, j, Most(body, j))
  BY <1>1, MostIs
<1>3. ASSUME i > n PROVE Most(body, i) = 0
  <2>1. \A S \in From(body, i) : S = {}
    BY <1>1, <1>3, FromParts
  <2> QED BY <2>1, <1>2, FS_EmptySet DEF IsMost
<1>4. ASSUME ~OccursAt(body, i) PROVE Most(body, i) = Most(body, i + 1)
  <2>1. From(body, i) = From(body, i + 1)
    <3>1. \A S \in From(body, i) : S \in From(body, i + 1)
      <4> TAKE S \in From(body, i)
      <4>1. \A j \in S : i <= j /\ OccursAt(body, j) /\ j \in Nat
        BY <1>1, FromParts
      <4>2. \A j \in S : i + 1 <= j
        BY <1>1, <1>4, <4>1
      <4> QED BY <4>2 DEF From
    <3>2. \A S \in From(body, i + 1) : S \in From(body, i)
      <4> TAKE S \in From(body, i + 1)
      <4>1. \A j \in S : i + 1 <= j /\ j \in Nat
        BY <1>1, FromParts
      <4>2. \A j \in S : i <= j
        BY <1>1, <4>1
      <4> QED BY <4>2 DEF From
    <3> QED BY <3>1, <3>2
  <2> QED BY <2>1 DEF Most, IsMost
<1>5. ASSUME OccursAt(body, i) PROVE Most(body, i) = 1 + Most(body, i + 2)
  <2>1. i + 1 <= n /\ i \in 1 .. n
    BY <1>1, <1>5, OccursIn
  <2>2. PICK S \in From(body, i + 2) : Cardinality(S) = Most(body, i + 2)
    BY <1>2 DEF IsMost
  <2>3. /\ IsFiniteSet(S) /\ i \notin S /\ S \subseteq 1 .. n
        /\ \A j \in S : i + 2 <= j /\ OccursAt(body, j) /\ j \in Nat
        /\ \A j, k \in S : j < k => j + 2 <= k
    BY <1>1, FromParts
  <2>4. S \cup {i} \in From(body, i)
    <3>1. S \cup {i} \in SUBSET {j \in DOMAIN body : OccursAt(body, j)}
      BY <1>5, <2>1, <2>3 DEF IsText
    <3>2. \A j, k \in S \cup {i} : j < k => j + 2 <= k
      BY <1>1, <2>3
    <3>3. \A j \in S \cup {i} : i <= j
      BY <1>1, <2>3
    <3> QED BY <3>1, <3>2, <3>3, KeywordIs DEF From, Disjoint
  <2>5. Cardinality(S \cup {i}) = Cardinality(S) + 1
    BY <2>3, FS_AddElement
  <2>6. 1 + Most(body, i + 2) <= Most(body, i)
    BY <1>2, <2>2, <2>4, <2>5 DEF IsMost
  <2>7. PICK T \in From(body, i) : Cardinality(T) = Most(body, i)
    BY <1>2 DEF IsMost
  <2>8. /\ IsFiniteSet(T) /\ \A j \in T : i <= j /\ j \in Nat
        /\ \A j, k \in T : j < k => j + 2 <= k
    BY <1>1, FromParts
  <2> DEFINE U == {j \in T : i + 2 <= j}
             V == {j \in T : ~(i + 2 <= j)}
  <2>9. U \in From(body, i + 2)
    BY DEF From, Disjoint
  <2>10. U \subseteq T /\ V \subseteq T /\ T = U \cup V /\ U \cap V = {}
    OBVIOUS
  <2>11. IsFiniteSet(U) /\ IsFiniteSet(V)
    BY <2>8, <2>10, FS_Subset
  <2>12. \A j, k \in V : j = k
    <3> TAKE j, k \in V
    <3>1. j \in T /\ k \in T /\ j < i + 2 /\ k < i + 2 /\ i <= j /\ i <= k /\ j \in Nat /\ k \in Nat
      BY <1>1, <2>8
    <3>2. ~(j < k) /\ ~(k < j)
      BY <1>1, <2>8, <3>1
    <3> QED BY <3>1, <3>2
  <2>13. Cardinality(V) \in {0, 1}
    <3>1. CASE V = {}
      BY <3>1, FS_EmptySet
    <3>2. CASE V # {}
      <4>1. PICK j \in V : TRUE
        BY <3>2
      <4>2. V = {j}
        BY <4>1, <2>12
      <4> QED BY <4>2, FS_Singleton
    <3> QED BY <3>1, <3>2
  <2> HIDE DEF U, V
  <2>14. Cardinality(T) = Cardinality(U) + Cardinality(V)
    <3>1. Cardinality(U \cup V) = Cardinality(U) + Cardinality(V) - Cardinality(U \cap V)
      BY <2>11, FS_Union
    <3>2. Cardinality(U \cap V) = 0
      BY <2>10, FS_EmptySet
    <3>3. Cardinality(U) \in Nat /\ Cardinality(V) \in Nat
      BY <2>11, FS_CardinalityType
    <3> QED BY <2>10, <3>1, <3>2, <3>3
  <2>15. Cardinality(U) \in Nat /\ Cardinality(U) <= Most(body, i + 2)
    BY <1>2, <2>9, <2>11, FS_CardinalityType DEF IsMost
  <2>16. Most(body, i) <= 1 + Most(body, i + 2)
    BY <1>2, <2>7, <2>13, <2>14, <2>15
  <2> QED BY <1>2, <2>6, <2>16
<1> QED BY <1>3, <1>4, <1>5

\* What `count` of Hits is to be.
Goes(body, f) ==
    f = [i \in 1 .. Len(body) + 1 |->
          IF i > Len(body) THEN 0
          ELSE IF OccursAt(body, i) THEN 1 + f[i + Len(Keyword)]
          ELSE f[i + 1]]

\* find_snippets goes on behind each occurrence: it finds as many as there can be.
LEMMA HitsAre ==
    ASSUME NEW body, IsText(body)
    PROVE  Hits(body) \in Nat /\ Hits(body) = IF body = <<>> THEN 0 ELSE Most(body, 1)
<1> DEFINE n == Len(body)
           best == [i \in 1 .. n + 1 |-> Most(body, i)]
           count == CHOOSE f : Goes(body, f)
<1>1. n \in Nat
  BY DEF IsText
<1>2. \A i \in 1 .. n + 1 : i \in Nat \ {0} /\ best[i] = Most(body, i) /\ Most(body, i) \in Nat
  <2>1. \A i \in 1 .. n + 1 : i \in Nat \ {0}
    BY <1>1
  <2> QED BY <2>1, MostIs
<1>3. ASSUME NEW i \in 1 .. n + 1
      PROVE  best[i] = IF i > n THEN 0 ELSE IF OccursAt(body, i) THEN 1 + best[i + Len(Keyword)]
                       ELSE best[i + 1]
  <2>1. i \in Nat \ {0}
    BY <1>2
  <2>2. CASE i > n
    BY <1>2, <2>1, <2>2, MostSteps
  <2>3. CASE ~(i > n) /\ OccursAt(body, i)
    <3>1. i + 2 \in 1 .. n + 1
      BY <1>1, <2>1, <2>3, OccursIn
    <3> QED BY <1>2, <2>1, <2>3, <3>1, MostSteps, KeywordIs
  <2>4. CASE ~(i > n) /\ ~OccursAt(body, i)
    <3>1. i + 1 \in 1 .. n + 1
      BY <1>1, <2>1, <2>4
    <3> QED BY <1>2, <2>1, <2>4, <3>1, MostSteps
  <2> QED BY <2>2, <2>3, <2>4
<1>4. Goes(body, best)
  <2>1. best = [i \in 1 .. n + 1 |-> best[i]]
    OBVIOUS
  <2> HIDE DEF best
  <2> QED BY <1>3, <2>1 DEF Goes
<1>5. Goes(body, count)
  BY <1>4
<1> HIDE DEF best, count
<1>6. \A i \in 1 .. n + 1 :
        count[i] = IF i > n THEN 0 ELSE IF OccursAt(body, i) THEN 1 + count[i + Len(Keyword)]
                   ELSE count[i + 1]
  BY <1>5 DEF Goes
<1> DEFINE differ == {k \in 0 .. n : count[n + 1 - k] # best[n + 1 - k]}
<1>7. differ = {}
  <2> SUFFICES ASSUME differ # {} PROVE FALSE
    OBVIOUS
  <2>1. differ \in SUBSET Nat
    BY <1>1
  <2>2. PICK k \in differ : \A m \in differ : k <= m
    BY <2>1, LeastNumber
  <2> DEFINE i == n + 1 - k
  <2>3. k \in 0 .. n /\ i \in 1 .. n + 1 /\ count[i] # best[i]
    BY <1>1, <2>2
  <2>4. \A j \in 1 .. n + 1 : j > i => count[j] = best[j]
    <3> SUFFICES ASSUME NEW j \in 1 .. n + 1, j > i, count[j] # best[j] PROVE FALSE
      OBVIOUS
    <3>1. n + 1 - j \in 0 .. n /\ n + 1 - (n + 1 - j) = j /\ n + 1 - j < k
      BY <1>1, <2>3
    <3>2. n + 1 - j \in differ
      BY <3>1
    <3> QED BY <1>1, <2>2, <2>3, <3>1, <3>2
  <2> HIDE DEF i, differ
  <2>5. CASE i > n
    BY <1>3, <1>6, <2>3, <2>5
  <2>6. CASE ~(i > n) /\ OccursAt(body, i)
    <3>1. i + 2 \in 1 .. n + 1 /\ i + 2 > i
      BY <1>1, <2>3, <2>6, OccursIn
    <3> QED BY <1>3, <1>6, <2>3, <2>4, <2>6, <3>1, KeywordIs
  <2>7. CASE ~(i > n) /\ ~OccursAt(body, i)
    <3>1. i + 1 \in 1 .. n + 1 /\ i + 1 > i
      BY <1>1, <2>3, <2>7
    <3> QED BY <1>3, <1>6, <2>3, <2>4, <2>7, <3>1
  <2> QED BY <2>5, <2>6, <2>7
<1>8. count[1] = Most(body, 1) /\ Most(body, 1) \in Nat
  <2>1. n \in 0 .. n /\ n + 1 - n = 1 /\ 1 \in 1 .. n + 1
    BY <1>1
  <2> QED BY <1>2, <1>7, <2>1
<1>9. body # <<>> => Hits(body) = count[1]
  BY DEF Hits, Goes, count
<1>10. body = <<>> => Hits(body) = 0
  BY DEF Hits
<1> QED BY <1>8, <1>9, <1>10

LEMMA CountsMaximal == CountsAreMaximal
<1> SUFFICES ASSUME NEW n \in 0 .. 6, NEW body \in [1 .. n -> {"a", "#"}]
             PROVE  /\ \E S \in Disjoint(body) : Cardinality(S) = Hits(body)
                    /\ \A S \in Disjoint(body) : Cardinality(S) <= Hits(body)
  BY DEF CountsAreMaximal
<1>1. body \in Seq({"a", "#"}) /\ Len(body) = n
  BY LineOf
<1>2. IsText(body)
  BY <1>1 DEF IsText
<1>3. Disjoint(body) = From(body, 1)
  <2>1. \A S \in Disjoint(body) : \A j \in S : 1 <= j
    BY <1>1 DEF Disjoint
  <2> QED BY <2>1 DEF From
<1>4. IsMost(body, 1, Most(body, 1))
  BY <1>2, MostIs
<1>5. CASE body # <<>>
  BY <1>2, <1>3, <1>4, <1>5, HitsAre DEF IsMost
<1>6. CASE body = <<>>
  <2>1. Most(body, 1) = 0
    BY <1>2, <1>6, MostSteps
  <2> QED BY <1>2, <1>3, <1>4, <1>6, <2>1, HitsAre DEF IsMost
<1> QED BY <1>5, <1>6

-----------------------------------------------------------------------------
(* What is collected, and which hits come first *)

HitSet == [from : Paths, path : Paths, title : Nat, title_hit : BOOLEAN, count : Nat]
NameOrder(S) == {p \in S \X S : WalkedBefore(p[1], p[2])}
HitOrder(S) == {p \in S \X S : Better(p[1], p[2])}

\* A link leads to what is no link.
LinksFit ==
    /\ leads \in [Paths -> Paths \cup {Outside}]
    /\ \A p \in Paths : leads[p] # Outside => leads[leads[p]] = leads[p]

LEMMA FilesAreTexts ==
    ASSUME NEW p \in Paths, leads[p] \in Paths, NEW text \in DocumentTexts \cup {NoText}
    PROVE  HitOf(p, text) \in HitSet /\ HitOf(p, text).from = p /\ HitOf(p, text).path = leads[p]
<1>1. IsText(text.body) /\ text.title \in Nat
  BY DEF IsText, DocumentTexts, NoText, DocumentText, KeywordTitle
<1>2. Hits(text.body) \in Nat
  BY <1>1, HitsAre
<1>3. (text.title = KeywordTitle) \in BOOLEAN
  OBVIOUS
<1> QED BY <1>1, <1>2, <1>3 DEF HitOf, HitSet

LEMMA PathsAreNumbers == \A p \in Paths : p \in Nat /\ p \in Int
BY KnowledgeAssumption

LEMMA OutsideIsNoPath == Outside \notin Paths /\ Outside \in Int
BY KnowledgeAssumption DEF Outside

LEMMA NamesInOrder ==
    ASSUME LinksFit, NEW S \in SUBSET Paths
    PROVE  IsFiniteSet(S) /\ StrictOrder(S, NameOrder(S))
<1>1. IsFiniteSet(S)
  BY KnowledgeAssumption, FS_Subset
<1>2. \A x \in S : x \in Int /\ leads[x] \in Int
  BY PathsAreNumbers, OutsideIsNoPath DEF LinksFit
<1>3. \A x, y \in S : <<x, y>> \in NameOrder(S) <=> WalkedBefore(x, y)
  BY DEF NameOrder
<1>4. StrictOrder(S, NameOrder(S))
  BY <1>2, <1>3 DEF StrictOrder, WalkedBefore
<1> QED BY <1>1, <1>4

LEMMA HitIs ==
    ASSUME NEW h \in HitSet
    PROVE  /\ h.title_hit \in BOOLEAN /\ h.count \in Nat /\ h.title \in Nat
           /\ h.path \in Nat /\ h.from \in Nat /\ h.path \in Paths /\ h.from \in Paths
           /\ h = [from |-> h.from, path |-> h.path, title |-> h.title, title_hit |-> h.title_hit,
                   count |-> h.count]
<1>1. /\ h.title_hit \in BOOLEAN /\ h.count \in Nat /\ h.title \in Nat /\ h.path \in Paths /\ h.from \in Paths
      /\ h = [from |-> h.from, path |-> h.path, title |-> h.title, title_hit |-> h.title_hit,
              count |-> h.count]
  BY DEF HitSet
<1> QED BY <1>1, PathsAreNumbers

LEMMA BetterIsTotal ==
    ASSUME NEW x \in HitSet, NEW y \in HitSet
    PROVE  ~Better(x, x) /\ (x # y => Better(x, y) \/ Better(y, x))
<1>1. ~Better(x, x)
  BY HitIs DEF Better
<1>2. ASSUME ~Better(x, y), ~Better(y, x) PROVE x = y
  <2>1. x.title_hit = y.title_hit
    BY <1>2, HitIs DEF Better
  <2>2. x.count = y.count
    BY <1>2, <2>1, HitIs DEF Better
  <2>3. x.title = y.title
    BY <1>2, <2>1, <2>2, HitIs DEF Better
  <2>4. x.path = y.path
    BY <1>2, <2>1, <2>2, <2>3, HitIs DEF Better
  <2>5. x.from = y.from
    BY <1>2, <2>1, <2>2, <2>3, <2>4, HitIs DEF Better
  <2> QED BY <2>1, <2>2, <2>3, <2>4, <2>5, HitIs
<1> QED BY <1>1, <1>2

LEMMA BetterIsTransitive ==
    ASSUME NEW x \in HitSet, NEW y \in HitSet, NEW z \in HitSet, Better(x, y), Better(y, z)
    PROVE  Better(x, z)
<1>1. CASE x.title_hit # y.title_hit \/ y.title_hit # z.title_hit
  BY <1>1, HitIs DEF Better
<1>2. CASE x.title_hit = y.title_hit /\ y.title_hit = z.title_hit
  <2>1. CASE x.count # y.count \/ y.count # z.count
    BY <1>2, <2>1, HitIs DEF Better
  <2>2. CASE x.count = y.count /\ y.count = z.count
    BY <1>2, <2>2, HitIs DEF Better
  <2> QED BY <2>1, <2>2
<1> QED BY <1>1, <1>2

LEMMA BetterIsNotWorse ==
    ASSUME NEW x \in HitSet, NEW y \in HitSet, Better(x, y)
    PROVE  NotWorse(x, y)
BY HitIs DEF Better, NotWorse

LEMMA HitsInOrder ==
    ASSUME NEW S \in SUBSET HitSet
    PROVE  StrictOrder(S, HitOrder(S))
<1>1. \A x, y \in S : <<x, y>> \in HitOrder(S) <=> Better(x, y)
  BY DEF HitOrder
<1>2. \A x, y \in S : ~Better(x, x) /\ (x # y => Better(x, y) \/ Better(y, x))
  BY BetterIsTotal
<1>3. \A x, y, z \in S : Better(x, y) /\ Better(y, z) => Better(x, z)
  BY BetterIsTransitive
<1> QED BY <1>1, <1>2, <1>3 DEF StrictOrder

Candidates == {p \in Paths : Candidate(p)}

\* collect_docs takes each name once.
LEMMA CollectedParts ==
    ASSUME LinksFit
    PROVE  /\ Collected \in Seq(Candidates)
           /\ \A i, j \in 1 .. Len(Collected) : Collected[i] = Collected[j] => i = j
           /\ \A p \in Candidates : \E i \in 1 .. Len(Collected) : Collected[i] = p
<1> DEFINE C == Candidates
           R == NameOrder(C)
           n == Cardinality(C)
           size(m) == IF n < m THEN n ELSE m
           path(i) == CHOOSE p \in C : Cardinality({q \in C : WalkedBefore(q, p)}) + 1 = i
           head(i) == CHOOSE p \in C : Rank(C, R, p) + 1 = i
<1>1. C \in SUBSET Paths
  BY DEF Candidates
<1>2. IsFiniteSet(C) /\ StrictOrder(C, R) /\ n \in Nat
  BY <1>1, NamesInOrder, FS_CardinalityType
<1>3. \A p \in C : {q \in C : WalkedBefore(q, p)} = {q \in C : <<q, p>> \in R}
  BY DEF NameOrder
<1>4. \A p \in C : Cardinality({q \in C : WalkedBefore(q, p)}) = Rank(C, R, p)
  BY <1>3 DEF Rank
<1>5. \A i : path(i) = head(i)
  BY <1>4
<1>6. Collected = [i \in 1 .. size(n) |-> path(i)]
  BY DEF Collected, FirstBy, Candidates
<1>7. \A m : Heads(C, R, m) = [i \in 1 .. size(m) |-> head(i)]
  BY DEF Heads
<1>8. size(n) = size(n + 1)
  BY <1>2
<1>9. Collected = Heads(C, R, n) /\ Collected = Heads(C, R, n + 1)
  <2> HIDE DEF path, head, size, C, n, R
  <2> QED BY <1>5, <1>6, <1>7, <1>8
<1>10. n + 1 \in Nat /\ HeadOf(Collected, C, R, n) /\ HeadOf(Collected, C, R, n + 1)
  <2>1. n + 1 \in Nat
    BY <1>2
  <2> HIDE DEF C, R, n
  <2>2. HeadOf(Heads(C, R, n), C, R, n)
    BY <1>2, HeadsParts
  <2>3. HeadOf(Heads(C, R, n + 1), C, R, n + 1)
    BY <1>2, <2>1, HeadsParts
  <2> QED BY <1>9, <2>1, <2>2, <2>3
<1> HIDE DEF n
<1>11. Collected \in Seq(C) /\ Len(Collected) \in Nat /\ Len(Collected) <= n
  BY <1>10 DEF HeadOf
<1>12. \A i, j \in 1 .. Len(Collected) : i < j => WalkedBefore(Collected[i], Collected[j])
  BY <1>10 DEF HeadOf, NameOrder
<1>13. \A i, j \in 1 .. Len(Collected) : Collected[i] = Collected[j] => i = j
  <2> TAKE i, j \in 1 .. Len(Collected)
  <2>1. Collected[i] \in Paths
    BY <1>1, <1>11
  <2>2. Collected[i] \in Int /\ leads[Collected[i]] \in Int
    BY <2>1, PathsAreNumbers, OutsideIsNoPath DEF LinksFit
  <2>3. ~WalkedBefore(Collected[i], Collected[i])
    BY <2>2 DEF WalkedBefore
  <2> QED BY <1>11, <1>12, <2>3
<1>14. \A p \in C : \E i \in 1 .. Len(Collected) : Collected[i] = p
  BY <1>2, <1>10, <1>11 DEF HeadOf
<1> QED BY <1>11, <1>13, <1>14

MatchingHits(found) == {h \in Range(found) : h.title_hit \/ h.count > 0}

LEMMA RangeIs ==
    ASSUME NEW T, NEW s \in Seq(T)
    PROVE  /\ Range(s) = {s[i] : i \in 1 .. Len(s)} /\ Range(s) \subseteq T /\ IsFiniteSet(Range(s))
           /\ Len(s) \in Nat /\ DOMAIN s = 1 .. Len(s)
<1>1. Len(s) \in Nat /\ DOMAIN s = 1 .. Len(s) /\ \A i \in 1 .. Len(s) : s[i] \in T
  BY LenProperties
<1>2. Range(s) = {s[i] : i \in 1 .. Len(s)}
  BY <1>1 DEF Range
<1>3. IsFiniteSet(1 .. Len(s))
  <2>1. 1 \in Int /\ Len(s) \in Int
    BY <1>1
  <2> QED BY <2>1, FS_Interval
<1>4. IsFiniteSet(Range(s))
  <2>1. s \in Surjection(1 .. Len(s), Range(s))
    <3>1. s \in [1 .. Len(s) -> Range(s)]
      BY <1>1, <1>2, LenProperties
    <3>2. \A x \in Range(s) : \E i \in 1 .. Len(s) : s[i] = x
      BY <1>2
    <3> QED BY <3>1, <3>2, Fun_IsSurj
  <2> QED BY <1>3, <2>1, FS_Surjection
<1> QED BY <1>1, <1>2, <1>4

\* match_docs: the best of those that match.
LEMMA RankedParts ==
    ASSUME NEW found \in Seq(HitSet)
    PROVE  HeadOf(Ranked(found), MatchingHits(found), HitOrder(MatchingHits(found)), HitLimit)
<1> DEFINE H == MatchingHits(found)
           R == HitOrder(H)
           size == IF Cardinality(H) < HitLimit THEN Cardinality(H) ELSE HitLimit
           hit(i) == CHOOSE h \in H : Cardinality({g \in H : Better(g, h)}) + 1 = i
           head(i) == CHOOSE h \in H : Rank(H, R, h) + 1 = i
<1>1. H \in SUBSET HitSet /\ IsFiniteSet(H)
  BY RangeIs, FS_Subset DEF MatchingHits
<1>2. StrictOrder(H, R)
  BY <1>1, HitsInOrder
<1>3. \A h \in H : {g \in H : Better(g, h)} = {g \in H : <<g, h>> \in R}
  BY DEF HitOrder
<1>4. \A h \in H : Cardinality({g \in H : Better(g, h)}) = Rank(H, R, h)
  BY <1>3 DEF Rank
<1>5. \A i : hit(i) = head(i)
  BY <1>4
<1>6. Ranked(found) = [i \in 1 .. size |-> hit(i)]
  BY DEF Ranked, FirstBy, MatchingHits
<1>7. Heads(H, R, HitLimit) = [i \in 1 .. size |-> head(i)]
  BY DEF Heads
<1>8. Ranked(found) = Heads(H, R, HitLimit)
  <2> HIDE DEF hit, head, size, H, R
  <2> QED BY <1>5, <1>6, <1>7
<1>9. HitLimit \in Nat
  BY KnowledgeAssumption
<1> QED BY <1>1, <1>2, <1>8, <1>9, HeadsParts

-----------------------------------------------------------------------------
(* What holds of the jobs and of the answers *)

Jobs == [id : Nat, for : Askers, kind : {"survey", "search", "read"}, begun : BOOLEAN,
         todo : Seq(Paths), found : Seq(HitSet), steady : SUBSET HitSet]
Answers == [status : {"none", "not_configured", "timeout", "not_found", "empty", "no_match", "ok"},
            items : Seq(HitSet), steady : SUBSET HitSet]
Requests == [pc : {"none", "first", "second", "answered"}, kind : {"none", "list", "search", "read"},
             path : Nat, job : Nat, answer : Answers]

KnowledgeTypes ==
    /\ directory \in BOOLEAN /\ changes \in Nat
    /\ file \in [Paths -> DocumentTexts \cup {NoText}] /\ nature \in [Paths -> Natures] /\ LinksFit
    /\ ~directory => \A p \in Paths : file[p] = NoText
    /\ asked \in [Askers -> Requests]
    /\ jobs \in Seq(Jobs)

\* the names under which the walk finds what can be read, and those an answer came by
ReadableNames == {p \in Paths : Candidate(p) /\ Readable(TextAt(p))}
NamesOf(items) == {items[i].from : i \in 1 .. Len(items)}
PathsOf(items) == {items[i].path : i \in 1 .. Len(items)}

\* a name the walk may collect, whatever text it has
Walked(p) == nature[p] # "other" /\ leads[p] \in Paths /\ nature[leads[p]] # "hidden"

\* no name twice, each with the document it leads to, none that is hidden or outside
HitsFit(items) ==
    /\ \A i, j \in 1 .. Len(items) : items[i].from = items[j].from => i = j
    /\ \A i \in 1 .. Len(items) : leads[items[i].from] = items[i].path /\ nature[items[i].path] # "hidden"

\* A hit as the document is now
StillAsFound(h) == leads[h.from] = h.path /\ h = HitOf(h.from, TextAt(h.from)) /\ Readable(TextAt(h.from))

\* A survey has each steady document before it or behind it.
SurveyFits(x) ==
    /\ \A i, j \in 1 .. Len(x.todo) : x.todo[i] = x.todo[j] => i = j
    /\ \A p \in Range(x.todo) : Walked(p) /\ p \notin NamesOf(x.found)
    /\ HitsFit(x.found)
    /\ \A h \in x.steady : StillAsFound(h) /\ (h.from \in Range(x.todo) \/ h \in Range(x.found))
    /\ changes = 0 => /\ ReadableNames \subseteq Range(x.todo) \cup NamesOf(x.found)
                      /\ NamesOf(x.found) \subseteq ReadableNames

JobFits(x) ==
    /\ asked[x.for].pc # "none"
    /\ x.kind = "read" <=> asked[x.for].kind = "read"
    /\ x.kind = "search" => asked[x.for].kind = "search"
    /\ ~x.begun => x.todo = <<>> /\ x.found = <<>> /\ x.steady = {}
    /\ x.begun /\ x.kind # "read" => SurveyFits(x)

\* The worker is at the first of its jobs.
QueueFits(s) ==
    /\ \A i \in 1 .. Len(s) : JobFits(s[i])
    /\ \A i \in 2 .. Len(s) : ~s[i].begun

InWorth(items) == \A i, j \in 1 .. Len(items) : i < j => NotWorse(items[i], items[j])

\* h is among the items of an answer, or rightly not
IsAnswered(kind, items, h) ==
    \/ h \in Range(items)
    \/ /\ kind = "search"
       /\ \/ ~h.title_hit /\ h.count = 0
          \/ Len(items) = HitLimit /\ \A i \in 1 .. Len(items) : NotWorse(items[i], h)

AnswerFits(q) ==
    /\ q.answer.status = "ok" <=> q.answer.items # <<>>
    /\ HitsFit(q.answer.items)
    /\ q.kind = "search" => InWorth(q.answer.items)
    /\ \A h \in q.answer.steady : IsAnswered(q.kind, q.answer.items, h)
    /\ changes = 0 /\ q.kind = "list" /\ q.answer.status \in {"ok", "empty", "no_match"} =>
         NamesOf(q.answer.items) = ReadableNames
    /\ changes = 0 /\ q.kind = "read" /\ q.answer.status \in {"ok", "not_found"} =>
         (q.answer.status = "ok" <=> leads[q.path] \in ReadableNames /\ nature[q.path] # "odd")

RequestFits(q) ==
    /\ q.pc # "answered" => q.answer = NothingYet
    /\ q.pc = "none" <=> q.kind = "none"
    /\ q.kind = "read" => q.path \in Paths
    /\ AnswerFits(q)

KnowledgeInv == KnowledgeTypes /\ QueueFits(jobs) /\ \A r \in Askers : RequestFits(asked[r])

-----------------------------------------------------------------------------
(* The requests *)

LEMMA EmptyLists ==
    /\ <<>> \in Seq(Paths) /\ <<>> \in Seq(HitSet) /\ <<>> \in Seq(Jobs) /\ Len(<<>>) = 0
    /\ NamesOf(<<>>) = {} /\ Range(<<>>) = {} /\ HitsFit(<<>>)
<1>1. <<>> \in Seq(Paths) /\ <<>> \in Seq(HitSet) /\ <<>> \in Seq(Jobs) /\ Len(<<>>) = 0
  OBVIOUS
<1>2. 1 .. Len(<<>>) = {}
  BY <1>1
<1>3. NamesOf(<<>>) = {}
  BY <1>2 DEF NamesOf
<1>4. Range(<<>>) = {}
  BY DEF Range
<1> QED BY <1>1, <1>2, <1>3, <1>4 DEF HitsFit

LEMMA NothingFits ==
    ASSUME NEW q \in Requests, q.answer.items = <<>>, q.answer.steady = {},
           q.answer.status \in {"none", "timeout", "not_configured"}
    PROVE  AnswerFits(q)
BY EmptyLists DEF AnswerFits, InWorth

LEMMA RequestIs ==
    ASSUME NEW q \in Requests
    PROVE  /\ q.answer \in Answers /\ q.answer.items \in Seq(HitSet) /\ q.answer.steady \subseteq HitSet
           /\ q.pc \in {"none", "first", "second", "answered"} /\ q.path \in Nat /\ q.job \in Nat
           /\ q.kind \in {"none", "list", "search", "read"}
           /\ q = [pc |-> q.pc, kind |-> q.kind, path |-> q.path, job |-> q.job, answer |-> q.answer]
           /\ q.answer = [status |-> q.answer.status, items |-> q.answer.items, steady |-> q.answer.steady]
<1>1. /\ q.answer \in Answers /\ q.path \in Nat /\ q.job \in Nat
      /\ q.pc \in {"none", "first", "second", "answered"}
      /\ q.kind \in {"none", "list", "search", "read"}
      /\ q = [pc |-> q.pc, kind |-> q.kind, path |-> q.path, job |-> q.job, answer |-> q.answer]
  BY DEF Requests
<1>2. /\ q.answer.items \in Seq(HitSet) /\ q.answer.steady \subseteq HitSet
      /\ q.answer = [status |-> q.answer.status, items |-> q.answer.items, steady |-> q.answer.steady]
  BY <1>1 DEF Answers
<1> QED BY <1>1, <1>2

LEMMA JobIs ==
    ASSUME NEW x \in Jobs
    PROVE  /\ x.for \in Askers /\ x.id \in Nat /\ x.kind \in {"survey", "search", "read"}
           /\ x.begun \in BOOLEAN /\ x.todo \in Seq(Paths) /\ x.found \in Seq(HitSet)
           /\ x.steady \subseteq HitSet
           /\ x = [id |-> x.id, for |-> x.for, kind |-> x.kind, begun |-> x.begun,
                   todo |-> x.todo, found |-> x.found, steady |-> x.steady]
BY DEF Jobs

\* What does not touch the files keeps what is true of a job and of an answer.
DirectoryStays == UNCHANGED <<directory, file, nature, leads, changes>>

LEMMA AnswerKept ==
    ASSUME NEW q, RequestFits(q), UNCHANGED <<file, nature, leads, changes>>
    PROVE  RequestFits(q)'
BY DEF RequestFits, AnswerFits, HitsFit, ReadableNames, Candidate, TextAt, IsAnswered, InWorth, NamesOf

LEMMA JobKept ==
    ASSUME NEW x \in Jobs, JobFits(x), UNCHANGED <<file, nature, leads, changes>>,
           asked[x.for].pc # "none" => asked'[x.for].pc # "none" /\ asked'[x.for].kind = asked[x.for].kind
    PROVE  JobFits(x)'
<1>1. asked'[x.for].pc # "none" /\ asked'[x.for].kind = asked[x.for].kind
  BY DEF JobFits
<1>2. SurveyFits(x) => SurveyFits(x)'
  BY DEF SurveyFits, HitsFit, NamesOf, ReadableNames, Candidate, Walked, StillAsFound, TextAt, HitOf
<1> QED BY <1>1, <1>2 DEF JobFits

LEMMA OneRequestMoves ==
    ASSUME KnowledgeInv, DirectoryStays, NEW r \in Askers, NEW q \in Requests, RequestFits(q),
           asked' = [asked EXCEPT ![r] = q],
           asked[r].pc # "none" => q.pc # "none" /\ q.kind = asked[r].kind
    PROVE  /\ asked' \in [Askers -> Requests] /\ \A s \in Askers : RequestFits(asked[s])'
           /\ \A x \in Jobs : JobFits(x) => JobFits(x)'
<1>1. asked' \in [Askers -> Requests] /\ asked'[r] = q
      /\ \A s \in Askers \ {r} : asked'[s] = asked[s]
  BY DEF KnowledgeInv, KnowledgeTypes
<1>2. UNCHANGED <<file, nature, leads, changes>>
  BY DEF DirectoryStays
<1>3. ASSUME NEW s \in Askers PROVE RequestFits(asked[s])'
  <2>1. PICK a : a = asked'[s]
    OBVIOUS
  <2>2. RequestFits(a)
    BY <1>1, <2>1 DEF KnowledgeInv
  <2>3. RequestFits(a)'
    BY <1>2, <2>2, AnswerKept
  <2> QED BY <2>1, <2>3 DEF RequestFits, AnswerFits
<1>4. ASSUME NEW x \in Jobs, JobFits(x) PROVE JobFits(x)'
  <2>1. x.for \in Askers
    BY JobIs
  <2>2. asked[x.for].pc # "none" => asked'[x.for].pc # "none" /\ asked'[x.for].kind = asked[x.for].kind
    BY <1>1, <2>1
  <2> QED BY <1>2, <1>4, <2>2, JobKept
<1> QED BY <1>1, <1>3, <1>4

LEMMA QueueStays ==
    ASSUME NEW s \in Seq(Jobs), QueueFits(s), \A x \in Jobs : JobFits(x) => JobFits(x)'
    PROVE  QueueFits(s)'
<1>1. \A i \in 1 .. Len(s) : s[i] \in Jobs
  OBVIOUS
<1> QED BY <1>1 DEF QueueFits

LEMMA QueueIsJobs ==
    ASSUME NEW t, t = jobs', QueueFits(t)'
    PROVE  QueueFits(jobs)'
BY DEF QueueFits, JobFits, SurveyFits

LEMMA QueueGrows ==
    ASSUME NEW s \in Seq(Jobs), QueueFits(s)', NEW y \in Jobs, JobFits(y)', ~y.begun
    PROVE  Append(s, y) \in Seq(Jobs) /\ QueueFits(Append(s, y))'
<1>1. /\ Append(s, y) \in Seq(Jobs) /\ Len(s) \in Nat /\ Len(Append(s, y)) = Len(s) + 1
      /\ \A i \in 1 .. Len(s) : Append(s, y)[i] = s[i]
      /\ Append(s, y)[Len(s) + 1] = y
  OBVIOUS
<1>2. PICK t : t = Append(s, y)
  OBVIOUS
<1>3. ASSUME NEW i \in 1 .. Len(t) PROVE JobFits(t[i])' /\ (i \in 2 .. Len(t) => ~t[i].begun)
  <2>1. CASE i \in 1 .. Len(s)
    <3>1. t[i] = s[i]
      BY <1>1, <1>2, <2>1
    <3> QED BY <2>1, <3>1 DEF QueueFits
  <2>2. CASE i \notin 1 .. Len(s)
    <3>1. t[i] = y
      BY <1>1, <1>2, <2>2
    <3> QED BY <3>1
  <2> QED BY <2>1, <2>2
<1>4. QueueFits(t)'
  <2>1. Len(t) \in Nat
    BY <1>1, <1>2
  <2> QED BY <1>3, <2>1 DEF QueueFits
<1> QED BY <1>1, <1>2, <1>4

LEMMA QueueShrinks ==
    ASSUME NEW s \in Seq(Jobs), s # <<>>, QueueFits(s)'
    PROVE  Tail(s) \in Seq(Jobs) /\ QueueFits(Tail(s))'
<1>1. /\ Tail(s) \in Seq(Jobs) /\ Len(s) \in Nat \ {0} /\ Len(Tail(s)) = Len(s) - 1
      /\ \A i \in 1 .. Len(s) - 1 : Tail(s)[i] = s[i + 1]
  OBVIOUS
<1>2. PICK t : t = Tail(s)
  OBVIOUS
<1>3. ASSUME NEW i \in 1 .. Len(t) PROVE JobFits(t[i])' /\ ~t[i].begun
  <2>1. i + 1 \in 1 .. Len(s) /\ i + 1 \in 2 .. Len(s) /\ t[i] = s[i + 1]
    BY <1>1, <1>2
  <2> QED BY <2>1 DEF QueueFits
<1>4. QueueFits(t)'
  <2>1. Len(t) \in Nat
    BY <1>1, <1>2
  <2> QED BY <1>3, <2>1 DEF QueueFits
<1> QED BY <1>1, <1>2, <1>4

LEMMA HeadMoves ==
    ASSUME NEW s \in Seq(Jobs), s # <<>>, NEW x \in Jobs, JobFits(x)',
           \A i \in 2 .. Len(s) : JobFits(s[i])' /\ ~s[i].begun
    PROVE  [s EXCEPT ![1] = x] \in Seq(Jobs) /\ QueueFits([s EXCEPT ![1] = x])'
<1>1. PICK t : t = [s EXCEPT ![1] = x]
  OBVIOUS
<1>2. /\ t \in Seq(Jobs) /\ Len(t) = Len(s) /\ Len(s) \in Nat \ {0}
      /\ t[1] = x /\ \A i \in 2 .. Len(s) : t[i] = s[i]
  BY <1>1
<1>3. QueueFits(t)'
  <2>1. ASSUME NEW i \in 1 .. Len(t) PROVE JobFits(t[i])'
    <3>1. CASE i = 1
      BY <1>2, <3>1
    <3>2. CASE i # 1
      <4>1. i \in 2 .. Len(s) /\ t[i] = s[i]
        BY <1>2, <3>2
      <4> QED BY <4>1
    <3> QED BY <3>1, <3>2
  <2> QED BY <1>2, <2>1 DEF QueueFits
<1> QED BY <1>1, <1>2, <1>3

LEMMA QueueParts ==
    ASSUME NEW s \in Seq(Jobs), s # <<>>
    PROVE  /\ Head(s) = s[1] /\ s[1] \in Jobs /\ Len(s) \in Nat \ {0} /\ 1 \in 1 .. Len(s)
           /\ \A i \in 2 .. Len(s) : s[i] \in Jobs /\ i \in 1 .. Len(s)
OBVIOUS

LEMMA BlankJob ==
    ASSUME NEW id \in Nat, NEW r \in Askers, NEW kind \in {"survey", "search", "read"}
    PROVE  /\ JobOf(id, r, kind) \in Jobs /\ ~JobOf(id, r, kind).begun
           /\ JobOf(id, r, kind).for = r /\ JobOf(id, r, kind).kind = kind
           /\ JobOf(id, r, kind).todo = <<>> /\ JobOf(id, r, kind).found = <<>>
           /\ JobOf(id, r, kind).steady = {}
BY EmptyLists DEF JobOf, Jobs

LEMMA JobIdsAre == 2 * Cardinality({q \in Askers : asked[q].job > 0}) + 1 \in Nat
<1>1. IsFiniteSet({q \in Askers : asked[q].job > 0})
  BY KnowledgeAssumption, FS_Subset
<1> QED BY <1>1, FS_CardinalityType

LEMMA TimesOutStep ==
    ASSUME KnowledgeInv, NEW r \in Askers, TimesOut(r)
    PROVE  KnowledgeInv'
<1>1. asked[r] \in Requests /\ asked[r].pc # "answered" /\ RequestFits(asked[r])
  BY DEF TimesOut, Waits, KnowledgeInv, KnowledgeTypes
<1>2. PICK q : q = [asked[r] EXCEPT !.pc = "answered", !.answer.status = "timeout"]
  OBVIOUS
<1>3. /\ q.pc = "answered" /\ q.kind = asked[r].kind /\ q.path = asked[r].path
      /\ q.answer.status = "timeout" /\ q.answer.items = <<>> /\ q.answer.steady = {}
      /\ q \in Requests
  <2>1. PICK a \in Requests : a = asked[r]
    BY <1>1
  <2>2. PICK b \in Answers : b = a.answer
    BY RequestIs
  <2>3. b.items = <<>> /\ b.steady = {}
    BY <1>1, <2>1, <2>2 DEF RequestFits, NothingYet
  <2>4. PICK c : c = [b EXCEPT !.status = "timeout"]
    OBVIOUS
  <2>5. c \in Answers /\ c.status = "timeout" /\ c.items = b.items /\ c.steady = b.steady
    BY <2>4 DEF Answers
  <2>6. a = [pc |-> a.pc, kind |-> a.kind, path |-> a.path, job |-> a.job, answer |-> a.answer]
    BY RequestIs
  <2>7. q = [a EXCEPT !.pc = "answered", !.answer = c]
    BY <1>2, <2>1, <2>2, <2>4, <2>6
  <2>8. q = [pc |-> "answered", kind |-> a.kind, path |-> a.path, job |-> a.job, answer |-> c]
    BY <2>6, <2>7
  <2>9. q \in Requests
    BY <2>5, <2>8, RequestIs DEF Requests
  <2> QED BY <2>1, <2>3, <2>5, <2>8, <2>9
<1>4. RequestFits(q)
  <2>1. asked[r].pc # "none" /\ asked[r].kind # "none"
    BY <1>1 DEF TimesOut, Waits, RequestFits
  <2>2. AnswerFits(q)
    BY <1>3, NothingFits
  <2> QED BY <1>1, <1>3, <2>1, <2>2 DEF RequestFits
<1>5. asked' = [asked EXCEPT ![r] = q] /\ DirectoryStays /\ jobs' = jobs
  BY <1>2 DEF TimesOut, DirectoryStays
<1>6. /\ asked' \in [Askers -> Requests] /\ \A s \in Askers : RequestFits(asked[s])'
      /\ \A x \in Jobs : JobFits(x) => JobFits(x)'
  BY <1>3, <1>4, <1>5, OneRequestMoves
<1>7. QueueFits(jobs)'
  <2>1. PICK s \in Seq(Jobs) : s = jobs
    BY DEF KnowledgeInv, KnowledgeTypes
  <2>2. QueueFits(s)'
    BY <1>6, <2>1, QueueStays DEF KnowledgeInv
  <2>3. s = jobs'
    BY <1>5, <2>1
  <2> QED BY <2>2, <2>3, QueueIsJobs
<1>8. KnowledgeTypes'
  BY <1>5, <1>6 DEF KnowledgeInv, KnowledgeTypes, DirectoryStays, LinksFit
<1> QED BY <1>6, <1>7, <1>8 DEF KnowledgeInv

LEMMA AskStep ==
    ASSUME KnowledgeInv, NEW r \in Askers, NEW kind \in {"list", "search", "read"}, NEW path \in Nat,
           kind = "read" => path \in Paths, Ask(r, kind, path)
    PROVE  KnowledgeInv'
<1> DEFINE id == 2 * Cardinality({q \in Askers : asked[q].job > 0}) + 1
           work == IF kind = "read" THEN "read" ELSE "survey"
<1>1. asked[r].pc = "none" /\ DirectoryStays
  BY DEF Ask, DirectoryStays
<1>2. PICK n \in Nat : n = id
  BY JobIdsAre
<1>3. PICK s \in Seq(Jobs) : s = jobs
  BY DEF KnowledgeInv, KnowledgeTypes
<1>4. QueueFits(s)
  BY <1>3 DEF KnowledgeInv
<1>5. NothingYet \in Answers
  BY EmptyLists DEF NothingYet, Answers
<1>6. CASE ~directory
  <2>1. PICK a : a = [NothingYet EXCEPT !.status = "not_configured"]
    OBVIOUS
  <2>2. a \in Answers /\ a.items = <<>> /\ a.steady = {} /\ a.status = "not_configured"
    <3>1. NothingYet.items = <<>> /\ NothingYet.steady = {}
      BY DEF NothingYet
    <3> QED BY <1>5, <2>1, <3>1 DEF Answers
  <2>3. PICK q : q = RequestAt("answered", kind, path, 0, a)
    OBVIOUS
  <2>4. q \in Requests /\ q.pc = "answered" /\ q.kind = kind /\ q.path = path /\ q.answer = a
    BY <2>2, <2>3 DEF RequestAt, Requests
  <2>5. RequestFits(q)
    BY <2>2, <2>4, NothingFits DEF RequestFits
  <2>6. asked' = [asked EXCEPT ![r] = q] /\ jobs' = jobs
    BY <1>6, <2>1, <2>3 DEF Ask
  <2>7. /\ asked' \in [Askers -> Requests] /\ \A t \in Askers : RequestFits(asked[t])'
        /\ \A x \in Jobs : JobFits(x) => JobFits(x)'
    BY <1>1, <2>4, <2>5, <2>6, OneRequestMoves
  <2>8. QueueFits(s)'
    BY <1>4, <2>7, QueueStays
  <2>9. s = jobs'
    BY <1>3, <2>6
  <2>10. QueueFits(jobs)'
    BY <2>8, <2>9, QueueIsJobs
  <2>11. KnowledgeTypes'
    BY <1>1, <2>6, <2>7 DEF KnowledgeInv, KnowledgeTypes, DirectoryStays, LinksFit
  <2> QED BY <2>7, <2>10, <2>11 DEF KnowledgeInv
<1>7. CASE directory
  <2>1. PICK q : q = RequestAt("first", kind, path, n, NothingYet)
    OBVIOUS
  <2>2. q \in Requests /\ q.pc = "first" /\ q.kind = kind /\ q.path = path /\ q.answer = NothingYet
    BY <1>5, <2>1 DEF RequestAt, Requests
  <2>3. RequestFits(q)
    <3>1. NothingYet.items = <<>> /\ NothingYet.steady = {} /\ NothingYet.status = "none"
      BY DEF NothingYet
    <3>2. AnswerFits(q)
      BY <2>2, <3>1, NothingFits
    <3> QED BY <2>2, <3>2 DEF RequestFits
  <2>4. work \in {"survey", "search", "read"}
    OBVIOUS
  <2>5. PICK y : y = JobOf(n, r, work)
    OBVIOUS
  <2>6. /\ y \in Jobs /\ ~y.begun /\ y.for = r /\ y.kind = work
        /\ y.todo = <<>> /\ y.found = <<>> /\ y.steady = {}
    BY <2>4, <2>5, BlankJob
  <2>7. asked' = [asked EXCEPT ![r] = q] /\ jobs' = Append(s, y)
    BY <1>2, <1>3, <1>7, <2>1, <2>5 DEF Ask
  <2>8. /\ asked' \in [Askers -> Requests] /\ \A t \in Askers : RequestFits(asked[t])'
        /\ \A x \in Jobs : JobFits(x) => JobFits(x)'
    BY <1>1, <2>2, <2>3, <2>7, OneRequestMoves
  <2>9. QueueFits(s)'
    BY <1>4, <2>8, QueueStays
  <2>10. asked'[r] = q
    BY <2>7 DEF KnowledgeInv, KnowledgeTypes
  <2>11. JobFits(y)'
    BY <2>2, <2>6, <2>10 DEF JobFits
  <2>12. PICK t : t = Append(s, y)
    OBVIOUS
  <2>13. t \in Seq(Jobs) /\ QueueFits(t)' /\ t = jobs'
    BY <2>6, <2>7, <2>9, <2>11, <2>12, QueueGrows
  <2>14. QueueFits(jobs)'
    BY <2>13, QueueIsJobs
  <2>15. KnowledgeTypes'
    BY <1>1, <2>8, <2>13 DEF KnowledgeInv, KnowledgeTypes, DirectoryStays, LinksFit
  <2> QED BY <2>8, <2>14, <2>15 DEF KnowledgeInv
<1>8. directory \in BOOLEAN
  BY DEF KnowledgeInv, KnowledgeTypes
<1> QED BY <1>6, <1>7, <1>8

-----------------------------------------------------------------------------
(* The worker *)

LEMMA HeadStep ==
    ASSUME KnowledgeInv, jobs # <<>>, NEW x \in Jobs, JobFits(x),
           jobs' = [jobs EXCEPT ![1] = x], DirectoryStays, asked' = asked
    PROVE  KnowledgeInv'
<1>1. PICK s \in Seq(Jobs) : s = jobs
  BY DEF KnowledgeInv, KnowledgeTypes
<1>2. s # <<>> /\ QueueFits(s)
  BY <1>1 DEF KnowledgeInv
<1>3. ASSUME NEW y \in Jobs, JobFits(y) PROVE JobFits(y)'
  BY <1>3, JobKept DEF DirectoryStays
<1>4. \A i \in 2 .. Len(s) : JobFits(s[i])' /\ ~s[i].begun
  <2> TAKE i \in 2 .. Len(s)
  <2>1. s[i] \in Jobs /\ i \in 1 .. Len(s)
    BY <1>2, QueueParts
  <2> QED BY <1>2, <1>3, <2>1 DEF QueueFits
<1>5. PICK t : t = [s EXCEPT ![1] = x]
  OBVIOUS
<1>6. t \in Seq(Jobs) /\ QueueFits(t)' /\ t = jobs'
  BY <1>1, <1>2, <1>3, <1>4, <1>5, HeadMoves
<1>7. QueueFits(jobs)'
  BY <1>6, QueueIsJobs
<1>8. ASSUME NEW r \in Askers PROVE RequestFits(asked[r])'
  <2>1. PICK q : q = asked[r]
    OBVIOUS
  <2>2. RequestFits(q)'
    BY <2>1, AnswerKept DEF KnowledgeInv, DirectoryStays
  <2>3. q = asked'[r]
    BY <2>1
  <2> QED BY <2>2, <2>3 DEF RequestFits, AnswerFits
<1>9. KnowledgeTypes'
  BY <1>6 DEF KnowledgeInv, KnowledgeTypes, DirectoryStays, LinksFit
<1> QED BY <1>7, <1>8, <1>9 DEF KnowledgeInv

LEMMA HeadIs ==
    ASSUME KnowledgeInv, jobs # <<>>
    PROVE  /\ Head(jobs) = jobs[1] /\ jobs[1] \in Jobs /\ JobFits(jobs[1])
           /\ jobs \in Seq(Jobs) /\ DOMAIN jobs = 1 .. Len(jobs) /\ 1 \in 1 .. Len(jobs)
<1>1. jobs \in Seq(Jobs)
  BY DEF KnowledgeInv, KnowledgeTypes
<1>2. Head(jobs) = jobs[1] /\ jobs[1] \in Jobs /\ 1 \in 1 .. Len(jobs) /\ DOMAIN jobs = 1 .. Len(jobs)
  BY <1>1, QueueParts, LenProperties
<1> QED BY <1>1, <1>2 DEF KnowledgeInv, QueueFits

\* collect_docs: all that can be read is before the survey.
LEMMA SurveyBegins ==
    ASSUME KnowledgeInv, NEW x \in Jobs, x.todo = Collected, x.found = <<>>,
           x.steady = {HitOf(p, TextAt(p)) : p \in ReadableNames}
    PROVE  SurveyFits(x)
<1>0. LinksFit
  BY DEF KnowledgeInv, KnowledgeTypes
<1>1. Collected \in Seq(Candidates)
  BY <1>0, CollectedParts
<1>2. Range(Collected) = Candidates
  <2>1. Range(Collected) = {Collected[i] : i \in 1 .. Len(Collected)} /\ Range(Collected) \subseteq Candidates
    BY <1>1, RangeIs
  <2> QED BY <1>0, <2>1, CollectedParts
<1>3. ReadableNames \subseteq Candidates /\ Candidates \subseteq Paths
  BY DEF ReadableNames, Candidates
<1>4. \A p \in Candidates : Walked(p)
  BY <1>0 DEF Candidates, Candidate, Walked, LinksFit
<1>5. NamesOf(x.found) = {} /\ HitsFit(x.found)
  BY EmptyLists
<1>6. ASSUME NEW h \in x.steady PROVE StillAsFound(h) /\ h.from \in Range(x.todo)
  <2>1. PICK p \in ReadableNames : h = HitOf(p, TextAt(p))
    OBVIOUS
  <2>2. h.from = p /\ h.path = leads[p]
    BY <2>1 DEF HitOf
  <2> QED BY <1>2, <1>3, <2>1, <2>2 DEF ReadableNames, StillAsFound
<1>7. \A i, j \in 1 .. Len(x.todo) : x.todo[i] = x.todo[j] => i = j
  BY <1>0, CollectedParts
<1> QED BY <1>2, <1>3, <1>4, <1>5, <1>6, <1>7 DEF SurveyFits

\* What is read under a name that leads into the directory is a text.
LEMMA TextsAt ==
    ASSUME KnowledgeInv, NEW p \in Paths, leads[p] \in Paths
    PROVE  /\ TextAt(p) = file[leads[p]] /\ HitOf(p, TextAt(p)) \in HitSet
           /\ HitOf(p, TextAt(p)).from = p /\ HitOf(p, TextAt(p)).path = leads[p]
<1>1. TextAt(p) = file[leads[p]]
  BY OutsideIsNoPath DEF TextAt
<1>2. TextAt(p) \in DocumentTexts \cup {NoText}
  BY <1>1 DEF KnowledgeInv, KnowledgeTypes
<1> QED BY <1>1, <1>2, FilesAreTexts

LEMMA JobBeginsStep == KnowledgeInv /\ JobBegins => KnowledgeInv'
<1> SUFFICES ASSUME KnowledgeInv, JobBegins PROVE KnowledgeInv'
  OBVIOUS
<1>1. jobs # <<>> /\ ~Head(jobs).begun /\ DirectoryStays /\ asked' = asked
  BY DEF JobBegins, DirectoryStays
<1>2. PICK j \in Jobs : j = jobs[1] /\ j = Head(jobs) /\ JobFits(j)
  BY <1>1, HeadIs
<1> DEFINE steady == {HitOf(p, TextAt(p)) : p \in ReadableNames}
           todo == IF j.kind = "read" THEN <<>> ELSE Collected
<1>3. PICK x : x = [j EXCEPT !.begun = TRUE, !.todo = todo, !.steady = steady]
  OBVIOUS
<1>4. jobs' = [jobs EXCEPT ![1] = x]
  <2>1. steady = {HitOf(p, TextAt(p)) : p \in {q \in Paths : Candidate(q) /\ Readable(TextAt(q))}}
    BY DEF ReadableNames
  <2> QED BY <1>2, <1>3, <2>1 DEF JobBegins
<1>5. /\ x.begun /\ x.kind = j.kind /\ x.for = j.for /\ x.todo = todo /\ x.found = <<>>
      /\ x.steady = steady /\ x \in Jobs
  <2>1. j.found = <<>>
    BY <1>1, <1>2 DEF JobFits
  <2>2. todo \in Seq(Paths)
    <3>1. Collected \in Seq(Candidates) /\ Candidates \subseteq Paths
      BY CollectedParts DEF Candidates, KnowledgeInv, KnowledgeTypes
    <3> QED BY <3>1, EmptyLists, SeqMonotonic
  <2>3. steady \subseteq HitSet
    <3>1. ASSUME NEW p \in ReadableNames PROVE HitOf(p, TextAt(p)) \in HitSet
      <4>1. p \in Paths /\ leads[p] \in Paths
        BY DEF ReadableNames, Candidate, KnowledgeInv, KnowledgeTypes, LinksFit
      <4> QED BY <4>1, TextsAt
    <3> QED BY <3>1
  <2> HIDE DEF todo, steady
  <2>4. x = [id |-> j.id, for |-> j.for, kind |-> j.kind, begun |-> TRUE,
             todo |-> todo, found |-> j.found, steady |-> steady]
    <3>1. j = [id |-> j.id, for |-> j.for, kind |-> j.kind, begun |-> j.begun,
               todo |-> j.todo, found |-> j.found, steady |-> j.steady]
      BY JobIs
    <3> QED BY <1>3, <3>1
  <2> QED BY <2>1, <2>2, <2>3, <2>4, JobIs DEF Jobs
<1>6. JobFits(x)
  <2>1. x.kind # "read" => SurveyFits(x)
    BY <1>5, SurveyBegins
  <2> QED BY <1>2, <1>5, <2>1 DEF JobFits
<1> QED BY <1>1, <1>4, <1>5, <1>6, HeadStep

LEMMA TodoParts ==
    ASSUME NEW s \in Seq(Paths), s # <<>>, \A i, j \in 1 .. Len(s) : s[i] = s[j] => i = j
    PROVE  /\ Head(s) \in Paths /\ Tail(s) \in Seq(Paths) /\ Range(s) = {Head(s)} \cup Range(Tail(s))
           /\ Head(s) \notin Range(Tail(s))
           /\ \A i, j \in 1 .. Len(Tail(s)) : Tail(s)[i] = Tail(s)[j] => i = j
<1>1. /\ Head(s) = s[1] /\ Head(s) \in Paths /\ Tail(s) \in Seq(Paths) /\ Len(s) \in Nat \ {0}
      /\ Len(Tail(s)) = Len(s) - 1 /\ \A i \in 1 .. Len(s) - 1 : Tail(s)[i] = s[i + 1]
  OBVIOUS
<1>2. Range(s) = {s[i] : i \in 1 .. Len(s)} /\ Range(Tail(s)) = {Tail(s)[i] : i \in 1 .. Len(Tail(s))}
  <2>1. PICK t \in Seq(Paths) : t = Tail(s)
    BY <1>1
  <2>2. Range(t) = {t[i] : i \in 1 .. Len(t)}
    BY RangeIs
  <2>3. Range(s) = {s[i] : i \in 1 .. Len(s)}
    BY RangeIs
  <2> QED BY <2>1, <2>2, <2>3
<1>3. \A i \in 1 .. Len(Tail(s)) : i + 1 \in 2 .. Len(s) /\ Tail(s)[i] = s[i + 1]
  BY <1>1
<1>4. \A i \in 1 .. Len(s) : i = 1 \/ (i - 1 \in 1 .. Len(Tail(s)) /\ Tail(s)[i - 1] = s[i])
  BY <1>1
<1>5. Range(s) \subseteq {Head(s)} \cup Range(Tail(s))
  <2> SUFFICES ASSUME NEW i \in 1 .. Len(s) PROVE s[i] \in {Head(s)} \cup Range(Tail(s))
    BY <1>2
  <2>1. CASE i = 1
    BY <1>1, <2>1
  <2>2. CASE i # 1
    BY <1>2, <1>4, <2>2
  <2> QED BY <2>1, <2>2
<1>6. {Head(s)} \cup Range(Tail(s)) \subseteq Range(s)
  <2>1. Head(s) \in Range(s)
    BY <1>1, <1>2
  <2>2. \A i \in 1 .. Len(Tail(s)) : i + 1 \in 1 .. Len(s) /\ Tail(s)[i] = s[i + 1]
    BY <1>1, <1>3
  <2> QED BY <1>2, <2>1, <2>2
<1>7. Head(s) \notin Range(Tail(s))
  <2> SUFFICES ASSUME NEW i \in 1 .. Len(Tail(s)), Tail(s)[i] = Head(s) PROVE FALSE
    BY <1>2
  <2>1. i + 1 \in 1 .. Len(s) /\ 1 \in 1 .. Len(s) /\ s[i + 1] = s[1] /\ i + 1 # 1
    BY <1>1, <1>3
  <2> QED BY <2>1
<1>8. ASSUME NEW i \in 1 .. Len(Tail(s)), NEW j \in 1 .. Len(Tail(s)), Tail(s)[i] = Tail(s)[j]
      PROVE  i = j
  <2>1. i + 1 \in 1 .. Len(s) /\ j + 1 \in 1 .. Len(s) /\ s[i + 1] = s[j + 1]
    BY <1>1, <1>3, <1>8
  <2>2. i + 1 = j + 1
    BY <2>1
  <2> QED BY <2>2
<1> QED BY <1>1, <1>5, <1>6, <1>7, <1>8

LEMMA FoundParts ==
    ASSUME NEW s \in Seq(HitSet), HitsFit(s), NEW h \in HitSet, h.from \notin NamesOf(s),
           leads[h.from] = h.path, nature[h.path] # "hidden"
    PROVE  /\ Append(s, h) \in Seq(HitSet) /\ HitsFit(Append(s, h))
           /\ NamesOf(Append(s, h)) = NamesOf(s) \cup {h.from}
           /\ Range(Append(s, h)) = Range(s) \cup {h}
<1>1. PICK t : t = Append(s, h)
  OBVIOUS
<1>2. /\ t \in Seq(HitSet) /\ Len(t) = Len(s) + 1 /\ Len(s) \in Nat
      /\ \A i \in 1 .. Len(s) : t[i] = s[i]
      /\ t[Len(s) + 1] = h
  BY <1>1
<1>3. \A i \in 1 .. Len(t) : i \in 1 .. Len(s) \/ i = Len(s) + 1
  BY <1>2
<1>4. \A i \in 1 .. Len(s) : i \in 1 .. Len(t)
  BY <1>2
<1>5. Len(s) + 1 \in 1 .. Len(t)
  BY <1>2
<1>6. NamesOf(t) = NamesOf(s) \cup {h.from}
  BY <1>2, <1>3, <1>4, <1>5 DEF NamesOf
<1>7. Range(t) = {t[i] : i \in 1 .. Len(t)} /\ Range(s) = {s[i] : i \in 1 .. Len(s)}
  BY <1>2, RangeIs
<1>8. Range(t) = Range(s) \cup {h}
  BY <1>2, <1>3, <1>4, <1>5, <1>7
<1>9. ASSUME NEW i \in 1 .. Len(t), NEW j \in 1 .. Len(t), t[i].from = t[j].from PROVE i = j
  <2>1. \A k \in 1 .. Len(s) : t[k].from \in NamesOf(s) /\ t[k] = s[k]
    BY <1>2 DEF NamesOf
  <2> QED BY <1>2, <1>3, <1>9, <2>1 DEF HitsFit
<1>10. \A i \in 1 .. Len(t) : leads[t[i].from] = t[i].path /\ nature[t[i].path] # "hidden"
  BY <1>2, <1>3 DEF HitsFit
<1>11. HitsFit(t)
  BY <1>9, <1>10 DEF HitsFit
<1> QED BY <1>1, <1>2, <1>6, <1>8, <1>11

LEMMA JobReadsStep == KnowledgeInv /\ JobReads => KnowledgeInv'
<1> SUFFICES ASSUME KnowledgeInv, JobReads PROVE KnowledgeInv'
  OBVIOUS
<1>1. jobs # <<>> /\ Head(jobs).begun /\ Head(jobs).todo # <<>> /\ DirectoryStays /\ asked' = asked
  BY DEF JobReads, DirectoryStays
<1>2. PICK j \in Jobs : j = jobs[1] /\ j = Head(jobs) /\ JobFits(j)
  BY <1>1, HeadIs
<1>3. j.todo \in Seq(Paths) /\ j.todo # <<>> /\ j.begun /\ j.found \in Seq(HitSet)
  BY <1>1, <1>2, JobIs
<1> DEFINE p == Head(j.todo)
           hit == HitOf(p, TextAt(p))
           found == IF Readable(TextAt(p)) THEN Append(j.found, hit) ELSE j.found
<1>4. PICK x : x = [j EXCEPT !.todo = Tail(j.todo), !.found = found]
  OBVIOUS
<1>5. jobs' = [jobs EXCEPT ![1] = x]
  <2>1. jobs' = [jobs EXCEPT ![1] = [j EXCEPT !.todo = Tail(j.todo), !.found = found]]
    BY <1>2 DEF JobReads
  <2> QED BY <1>4, <2>1
<1>6. p \in Paths /\ Tail(j.todo) \in Seq(Paths)
  BY <1>3
<1>7. Readable(TextAt(p)) => hit \in HitSet /\ hit.from = p /\ hit.path = leads[p]
  <2> HIDE DEF p
  <2>1. leads[p] \in Paths \/ leads[p] = Outside
    BY <1>6 DEF KnowledgeInv, KnowledgeTypes, LinksFit
  <2>2. CASE leads[p] \in Paths
    BY <1>6, <2>2, TextsAt
  <2>3. CASE leads[p] = Outside
    BY <2>3 DEF TextAt, Readable
  <2> QED BY <2>1, <2>2, <2>3
<1>8. found \in Seq(HitSet)
  BY <1>3, <1>7
<1>9. /\ x.begun /\ x.kind = j.kind /\ x.for = j.for /\ x.todo = Tail(j.todo) /\ x.found = found
      /\ x.steady = j.steady /\ x \in Jobs
  <2> HIDE DEF found, p, hit
  <2>1. x = [id |-> j.id, for |-> j.for, kind |-> j.kind, begun |-> j.begun,
             todo |-> Tail(j.todo), found |-> found, steady |-> j.steady]
    <3>1. j = [id |-> j.id, for |-> j.for, kind |-> j.kind, begun |-> j.begun,
               todo |-> j.todo, found |-> j.found, steady |-> j.steady]
      BY JobIs
    <3> QED BY <1>4, <3>1
  <2> QED BY <1>3, <1>6, <1>8, <2>1, JobIs DEF Jobs
<1>10. ASSUME j.kind # "read" PROVE SurveyFits(x)
  <2>1. SurveyFits(j)
    BY <1>2, <1>3, <1>10 DEF JobFits
  <2>2. /\ Range(j.todo) = {p} \cup Range(x.todo) /\ p \notin Range(x.todo)
        /\ \A i, k \in 1 .. Len(x.todo) : x.todo[i] = x.todo[k] => i = k
    <3>1. \A i, k \in 1 .. Len(j.todo) : j.todo[i] = j.todo[k] => i = k
      BY <2>1 DEF SurveyFits
    <3>2. x.todo = Tail(j.todo)
      BY <1>9
    <3>3. PICK s \in Seq(Paths) : s = j.todo
      BY <1>3
    <3>4. /\ Range(s) = {Head(s)} \cup Range(Tail(s)) /\ Head(s) \notin Range(Tail(s))
          /\ \A i, k \in 1 .. Len(Tail(s)) : Tail(s)[i] = Tail(s)[k] => i = k
      BY <1>3, <3>1, <3>3, TodoParts
    <3> QED BY <3>2, <3>3, <3>4
  <2>3. p \notin NamesOf(j.found) /\ Walked(p) /\ HitsFit(j.found)
    BY <2>1, <2>2 DEF SurveyFits
  <2>4. CASE Readable(TextAt(p))
    <3>1. x.found = Append(j.found, hit)
      BY <1>9, <2>4
    <3>2. /\ HitsFit(x.found) /\ NamesOf(x.found) = NamesOf(j.found) \cup {p}
          /\ Range(x.found) = Range(j.found) \cup {hit}
      <4>1. hit \in HitSet /\ hit.from = p /\ leads[hit.from] = hit.path /\ nature[hit.path] # "hidden"
        BY <1>7, <2>3, <2>4 DEF Walked
      <4> HIDE DEF hit, p
      <4> QED BY <1>3, <2>3, <3>1, <4>1, FoundParts
    <3>3. \A q \in Range(x.todo) : Walked(q) /\ q \notin NamesOf(x.found)
      BY <2>1, <2>2, <3>2 DEF SurveyFits
    <3>4. ASSUME NEW h \in x.steady
          PROVE  StillAsFound(h) /\ (h.from \in Range(x.todo) \/ h \in Range(x.found))
      <4>1. StillAsFound(h) /\ (h.from \in Range(j.todo) \/ h \in Range(j.found))
        BY <1>9, <2>1 DEF SurveyFits
      <4>2. h.from = p => h = hit
        BY <4>1 DEF StillAsFound
      <4> QED BY <2>2, <3>2, <4>1, <4>2
    <3>5. changes = 0 => /\ ReadableNames \subseteq Range(x.todo) \cup NamesOf(x.found)
                         /\ NamesOf(x.found) \subseteq ReadableNames
      <4>1. p \in ReadableNames
        BY <1>6, <2>3, <2>4, OutsideIsNoPath DEF ReadableNames, Candidate, Readable, Walked
      <4> QED BY <2>1, <2>2, <3>2, <4>1 DEF SurveyFits
    <3> QED BY <2>2, <3>2, <3>3, <3>4, <3>5 DEF SurveyFits
  <2>5. CASE ~Readable(TextAt(p))
    <3>1. x.found = j.found
      BY <1>9, <2>5
    <3>2. ASSUME NEW h \in x.steady
          PROVE  StillAsFound(h) /\ (h.from \in Range(x.todo) \/ h \in Range(x.found))
      <4>1. StillAsFound(h) /\ (h.from \in Range(j.todo) \/ h \in Range(j.found))
        BY <1>9, <2>1 DEF SurveyFits
      <4>2. h.from # p
        BY <2>5, <4>1 DEF StillAsFound
      <4> QED BY <2>2, <3>1, <4>1, <4>2
    <3>3. p \notin ReadableNames
      BY <2>5 DEF ReadableNames
    <3>4. changes = 0 => /\ ReadableNames \subseteq Range(x.todo) \cup NamesOf(x.found)
                         /\ NamesOf(x.found) \subseteq ReadableNames
      BY <2>1, <2>2, <3>1, <3>3 DEF SurveyFits
    <3>5. \A q \in Range(x.todo) : Walked(q) /\ q \notin NamesOf(x.found)
      BY <2>1, <2>2, <3>1 DEF SurveyFits
    <3> QED BY <2>2, <2>3, <3>1, <3>2, <3>4, <3>5 DEF SurveyFits
  <2> QED BY <2>4, <2>5
<1>11. JobFits(x)
  BY <1>2, <1>3, <1>9, <1>10 DEF JobFits
<1> QED BY <1>1, <1>5, <1>9, <1>11, HeadStep

-----------------------------------------------------------------------------
(* What is answered *)

\* A survey that is through answers a list.
LEMMA ListAnswer ==
    ASSUME NEW x \in Jobs, SurveyFits(x), x.todo = <<>>, NEW q \in Requests,
           q.kind = "list", q.answer.items = x.found, q.answer.steady = x.steady,
           q.answer.status = IF x.found = <<>> THEN "empty" ELSE "ok"
    PROVE  AnswerFits(q)
<1>1. Range(x.todo) = {}
  BY EmptyLists
<1>2. \A h \in x.steady : h \in Range(x.found)
  BY <1>1 DEF SurveyFits
<1>3. changes = 0 => NamesOf(x.found) = ReadableNames
  BY <1>1 DEF SurveyFits
<1>4. HitsFit(x.found)
  BY DEF SurveyFits
<1> QED BY <1>2, <1>3, <1>4 DEF AnswerFits, IsAnswered

\* Nothing to search: every steady document would have been found.
LEMMA EmptyAnswer ==
    ASSUME NEW x \in Jobs, SurveyFits(x), x.todo = <<>>, x.found = <<>>, NEW q \in Requests,
           q.kind = "search", q.answer.items = <<>>, q.answer.steady = x.steady,
           q.answer.status = "empty"
    PROVE  AnswerFits(q)
<1>1. x.steady = {}
  BY EmptyLists DEF SurveyFits
<1>2. InWorth(<<>>)
  BY EmptyLists DEF InWorth
<1> QED BY <1>1, <1>2, EmptyLists DEF AnswerFits

\* A search answers with the best hits there are, as many as may be.
LEMMA SearchAnswer ==
    ASSUME NEW x \in Jobs, SurveyFits(x), x.todo = <<>>, NEW q \in Requests,
           q.kind = "search", q.answer.items = Ranked(x.found), q.answer.steady = x.steady,
           q.answer.status = IF Ranked(x.found) = <<>> THEN "no_match" ELSE "ok"
    PROVE  AnswerFits(q)
<1> DEFINE H == MatchingHits(x.found)
           R == HitOrder(H)
           items == Ranked(x.found)
<1>1. Range(x.todo) = {}
  BY EmptyLists
<1>2. x.found \in Seq(HitSet) /\ Range(x.found) = {x.found[i] : i \in 1 .. Len(x.found)}
      /\ Range(x.found) \subseteq HitSet
  BY JobIs, RangeIs
<1>3. HeadOf(items, H, R, HitLimit) /\ H \subseteq Range(x.found)
  BY <1>2, RankedParts DEF MatchingHits
<1>4. /\ items \in Seq(H) /\ Len(items) \in Nat /\ Len(items) <= HitLimit
      /\ \A i \in 1 .. Len(items) : items[i] \in H
  <2>1. items \in Seq(H) /\ Len(items) <= HitLimit
    BY <1>3 DEF HeadOf
  <2> HIDE DEF H, items
  <2> QED BY <2>1
<1>5. \A i, j \in 1 .. Len(items) : i < j => Better(items[i], items[j])
  BY <1>3 DEF HeadOf, HitOrder
<1>6. \A h \in H : (\E i \in 1 .. Len(items) : items[i] = h)
                     \/ (Len(items) = HitLimit /\ \A i \in 1 .. Len(items) : Better(items[i], h))
  BY <1>3 DEF HeadOf, HitOrder
<1> HIDE DEF items, R
<1>8. \A i \in 1 .. Len(items) : items[i] \in HitSet /\ items[i] \in Range(x.found)
  BY <1>2, <1>3, <1>4
<1>9. InWorth(items)
  BY <1>5, <1>8, BetterIsNotWorse DEF InWorth
<1>10. HitsFit(items)
  <2>1. ASSUME NEW i \in 1 .. Len(items), NEW j \in 1 .. Len(items), items[i].from = items[j].from
        PROVE  i = j
    <3>1. PICK a \in 1 .. Len(x.found), b \in 1 .. Len(x.found) :
             items[i] = x.found[a] /\ items[j] = x.found[b]
      BY <1>2, <1>8
    <3>2. items[i] = items[j]
      BY <2>1, <3>1 DEF SurveyFits, HitsFit
    <3>3. ~Better(items[i], items[j]) /\ ~Better(items[j], items[i])
      BY <1>8, <3>2, BetterIsTotal
    <3>4. ~(i < j) /\ ~(j < i)
      BY <1>5, <3>3
    <3> QED BY <1>4, <3>4
  <2>2. ASSUME NEW i \in 1 .. Len(items)
        PROVE  leads[items[i].from] = items[i].path /\ nature[items[i].path] # "hidden"
    <3>1. PICK a \in 1 .. Len(x.found) : items[i] = x.found[a]
      BY <1>2, <1>8
    <3> QED BY <3>1 DEF SurveyFits, HitsFit
  <2> QED BY <2>1, <2>2 DEF HitsFit
<1>11. ASSUME NEW h \in x.steady PROVE IsAnswered("search", items, h)
  <2>1. h \in Range(x.found) /\ h \in HitSet
    BY <1>1, <1>2 DEF SurveyFits
  <2>2. h.title_hit \in BOOLEAN /\ h.count \in Nat
    BY <2>1, HitIs
  <2>3. CASE h \notin H
    <3>1. ~h.title_hit /\ ~(h.count > 0)
      BY <2>1, <2>3 DEF MatchingHits
    <3> QED BY <2>2, <3>1 DEF IsAnswered
  <2>4. CASE \E i \in 1 .. Len(items) : items[i] = h
    <3>1. Range(items) = {items[i] : i \in 1 .. Len(items)}
      BY <1>4, RangeIs
    <3> QED BY <2>4, <3>1 DEF IsAnswered
  <2>5. CASE Len(items) = HitLimit /\ \A i \in 1 .. Len(items) : Better(items[i], h)
    BY <1>8, <2>1, <2>5, BetterIsNotWorse DEF IsAnswered
  <2> QED BY <1>6, <2>3, <2>4, <2>5
<1>12. q.answer.items = items /\ (q.answer.status = "ok" <=> items # <<>>)
       /\ q.answer.status \in {"no_match", "ok"}
  BY DEF items
<1>13. x.steady = q.answer.steady /\ q.kind = "search"
  OBVIOUS
<1>14. \A h \in q.answer.steady : IsAnswered(q.kind, q.answer.items, h)
  BY <1>11, <1>12, <1>13
<1> QED BY <1>9, <1>10, <1>12, <1>13, <1>14 DEF AnswerFits

\* What can be read is what leads to a document that the walk finds under its own name.
LEMMA PathsReadable ==
    ASSUME KnowledgeInv, NEW p \in Paths
    PROVE  ReadablePath(p) <=> leads[p] \in ReadableNames /\ nature[p] # "odd"
<1>1. LinksFit
  BY DEF KnowledgeInv, KnowledgeTypes
<1>2. CASE leads[p] = Outside
  BY <1>2, OutsideIsNoPath DEF ReadablePath, ReadableNames
<1>3. CASE leads[p] \in Paths
  <2>1. leads[leads[p]] = leads[p] /\ leads[p] # Outside
    BY <1>1, <1>3, OutsideIsNoPath DEF LinksFit
  <2>2. TextAt(p) = file[leads[p]] /\ TextAt(leads[p]) = file[leads[p]]
    BY <2>1 DEF TextAt
  <2>3. ~directory => file[leads[p]] = NoText
    BY <1>3 DEF KnowledgeInv, KnowledgeTypes
  <2> QED BY <1>3, <2>1, <2>2, <2>3 DEF ReadablePath, ReadableNames, Candidate, Readable
<1> QED BY <1>1, <1>2, <1>3 DEF LinksFit

\* A document is read as it is when the worker comes to it.
LEMMA ReadAnswer ==
    ASSUME KnowledgeInv, NEW q \in Requests, q.kind = "read", q.path \in Paths, q.answer.steady = {},
           IF ReadablePath(q.path)
             THEN q.answer.status = "ok" /\ q.answer.items = <<HitOf(q.path, TextAt(q.path))>>
             ELSE q.answer.status = "not_found" /\ q.answer.items = <<>>
    PROVE  AnswerFits(q)
<1>1. ReadablePath(q.path) <=> leads[q.path] \in ReadableNames /\ nature[q.path] # "odd"
  BY PathsReadable
<1>2. CASE ReadablePath(q.path)
  <2>1. PICK h : h = HitOf(q.path, TextAt(q.path))
    OBVIOUS
  <2>2. leads[h.from] = h.path /\ nature[h.path] # "hidden"
    BY <1>2, <2>1 DEF HitOf, ReadablePath
  <2>3. PICK s : s = <<h>>
    OBVIOUS
  <2>4. Len(s) = 1 /\ s[1] = h /\ s # <<>> /\ 1 .. Len(s) = {1}
    BY <2>3
  <2>5. HitsFit(s)
    BY <2>2, <2>4 DEF HitsFit
  <2>6. q.answer.status = "ok" /\ q.answer.items = s
    BY <1>2, <2>1, <2>3
  <2> QED BY <1>1, <1>2, <2>4, <2>5, <2>6 DEF AnswerFits
<1>3. CASE ~ReadablePath(q.path)
  BY <1>1, <1>3, EmptyLists DEF AnswerFits
<1> QED BY <1>2, <1>3

LEMMA AnsweredIs ==
    ASSUME NEW a \in Requests, NEW status \in {"not_found", "empty", "no_match", "ok"},
           NEW items \in Seq(HitSet), NEW steady \in SUBSET HitSet
    PROVE  LET q == AnsweredWith(a, status, items, steady)
           IN /\ q \in Requests /\ q.pc = "answered" /\ q.kind = a.kind /\ q.path = a.path
              /\ q.answer.status = status /\ q.answer.items = items /\ q.answer.steady = steady
<1>1. PICK c : c = [status |-> status, items |-> items, steady |-> steady]
  OBVIOUS
<1>2. c \in Answers /\ c.status = status /\ c.items = items /\ c.steady = steady
  BY <1>1 DEF Answers
<1>3. PICK q : q = AnsweredWith(a, status, items, steady)
  OBVIOUS
<1>4. a = [pc |-> a.pc, kind |-> a.kind, path |-> a.path, job |-> a.job, answer |-> a.answer]
  BY RequestIs
<1>5. q = [a EXCEPT !.pc = "answered", !.answer = c]
  BY <1>1, <1>3 DEF AnsweredWith
<1>6. q = [pc |-> "answered", kind |-> a.kind, path |-> a.path, job |-> a.job, answer |-> c]
  BY <1>4, <1>5
<1>7. q \in Requests
  BY <1>2, <1>6, RequestIs DEF Requests
<1> QED BY <1>2, <1>3, <1>6, <1>7

\* The job ends and its request is answered, or goes on.
LEMMA JobEndStep ==
    ASSUME KnowledgeInv, jobs # <<>>, DirectoryStays, NEW r \in Askers, NEW q \in Requests, RequestFits(q),
           asked[r].pc # "none", q.pc # "none", q.kind = asked[r].kind,
           asked' = [asked EXCEPT ![r] = q], NEW t \in Seq(Jobs), t = jobs',
           \A s \in Seq(Jobs) : s # <<>> /\ s = jobs /\ QueueFits(s)' => QueueFits(t)'
    PROVE  KnowledgeInv'
<1>1. /\ asked' \in [Askers -> Requests] /\ \A u \in Askers : RequestFits(asked[u])'
      /\ \A x \in Jobs : JobFits(x) => JobFits(x)'
  BY OneRequestMoves
<1>2. PICK s \in Seq(Jobs) : s = jobs
  BY DEF KnowledgeInv, KnowledgeTypes
<1>3. QueueFits(s)'
  BY <1>1, <1>2, QueueStays DEF KnowledgeInv
<1>4. QueueFits(t)'
  BY <1>2, <1>3
<1>5. QueueFits(jobs)'
  BY <1>4, QueueIsJobs
<1>6. KnowledgeTypes'
  BY <1>1 DEF KnowledgeInv, KnowledgeTypes, DirectoryStays, LinksFit
<1> QED BY <1>1, <1>5, <1>6 DEF KnowledgeInv

LEMMA JobEndsStep == KnowledgeInv /\ JobEnds => KnowledgeInv'
<1> SUFFICES ASSUME KnowledgeInv, JobEnds PROVE KnowledgeInv'
  OBVIOUS
<1>1. jobs # <<>> /\ Head(jobs).begun /\ Head(jobs).todo = <<>> /\ DirectoryStays
  BY DEF JobEnds, DirectoryStays
<1>2. PICK j \in Jobs : j = jobs[1] /\ j = Head(jobs) /\ JobFits(j)
  BY <1>1, HeadIs
<1>3. PICK r \in Askers : r = j.for
  BY JobIs
<1>4. PICK a \in Requests : a = asked[r]
  BY DEF KnowledgeInv, KnowledgeTypes
<1>5. /\ RequestFits(a) /\ a.pc # "none" /\ (j.kind = "read" <=> a.kind = "read")
      /\ j.kind = "search" => a.kind = "search"
      /\ j.begun /\ j.todo = <<>> /\ j.found \in Seq(HitSet) /\ j.steady \in SUBSET HitSet
  BY <1>1, <1>2, <1>3, <1>4, JobIs DEF JobFits, KnowledgeInv
<1>6. PICK s \in Seq(Jobs) : s = jobs /\ s # <<>>
  BY <1>1 DEF KnowledgeInv, KnowledgeTypes
<1>7. PICK t : t = Tail(s)
  OBVIOUS
<1>8. t \in Seq(Jobs) /\ t = Tail(jobs) /\ (QueueFits(s)' => QueueFits(t)')
  BY <1>6, <1>7, QueueShrinks
<1>9. \A u \in Seq(Jobs) : u # <<>> /\ u = jobs /\ QueueFits(u)' => QueueFits(t)'
  BY <1>6, <1>8
<1>10. a.kind \in {"list", "search", "read"} /\ asked[r].kind = a.kind /\ asked[r].pc # "none"
  BY <1>4, <1>5, RequestIs DEF RequestFits
<1>11. CASE ~Fits(j)
  <2>1. jobs' = t /\ asked' = asked
    BY <1>2, <1>8, <1>11 DEF JobEnds
  <2>2. asked' = [asked EXCEPT ![r] = a]
    BY <1>4, <2>1 DEF KnowledgeInv, KnowledgeTypes
  <2> QED BY <1>1, <1>4, <1>5, <1>8, <1>9, <2>1, <2>2, JobEndStep
<1> DEFINE Right(status, items, steady) ==
             \A q \in Requests : q.kind = a.kind /\ q.path = a.path /\ q.answer.status = status
                 /\ q.answer.items = items /\ q.answer.steady = steady => AnswerFits(q)
<1> HIDE DEF Right
<1>12. ASSUME NEW status \in {"not_found", "empty", "no_match", "ok"}, NEW items \in Seq(HitSet),
              NEW steady \in SUBSET HitSet, jobs' = t,
              asked' = [asked EXCEPT ![r] = AnsweredWith(a, status, items, steady)],
              Right(status, items, steady)
       PROVE  KnowledgeInv'
  <2>1. PICK q : q = AnsweredWith(a, status, items, steady)
    OBVIOUS
  <2>2. /\ q \in Requests /\ q.pc = "answered" /\ q.kind = a.kind /\ q.path = a.path
        /\ q.answer.status = status /\ q.answer.items = items /\ q.answer.steady = steady
    BY <2>1, AnsweredIs
  <2>3. RequestFits(q)
    BY <1>5, <1>10, <1>12, <2>2 DEF RequestFits, Right
  <2>4. asked' = [asked EXCEPT ![r] = q]
    BY <1>12, <2>1
  <2> QED BY <1>1, <1>5, <1>8, <1>9, <1>10, <1>12, <2>2, <2>3, <2>4, JobEndStep
<1>13. CASE Fits(j) /\ j.kind = "read"
  <2>1. a.path \in Paths /\ a.kind = "read"
    BY <1>5, <1>13 DEF RequestFits
  <2>2. jobs' = t /\ asked' = [asked EXCEPT ![r] =
          IF ReadablePath(a.path) THEN AnsweredWith(a, "ok", <<HitOf(a.path, TextAt(a.path))>>, {})
          ELSE AnsweredWith(a, "not_found", <<>>, {})]
    BY <1>2, <1>3, <1>4, <1>8, <1>13 DEF JobEnds
  <2>3. CASE ReadablePath(a.path)
    <3>1. PICK items : items = <<HitOf(a.path, TextAt(a.path))>>
      OBVIOUS
    <3>2. items \in Seq(HitSet)
      <4>1. leads[a.path] \in Paths
        BY <2>1, <2>3 DEF ReadablePath, KnowledgeInv, KnowledgeTypes, LinksFit
      <4>2. HitOf(a.path, TextAt(a.path)) \in HitSet
        BY <2>1, <4>1, TextsAt
      <4> QED BY <3>1, <4>2
    <3>3. asked' = [asked EXCEPT ![r] = AnsweredWith(a, "ok", items, {})]
      BY <2>2, <2>3, <3>1
    <3>4. Right("ok", items, {})
      BY <2>1, <2>3, <3>1, ReadAnswer DEF Right
    <3>5. {} \in SUBSET HitSet
      OBVIOUS
    <3> QED BY <1>12, <2>2, <3>2, <3>3, <3>4, <3>5
  <2>4. CASE ~ReadablePath(a.path)
    <3>1. asked' = [asked EXCEPT ![r] = AnsweredWith(a, "not_found", <<>>, {})]
      BY <2>2, <2>4
    <3>2. Right("not_found", <<>>, {})
      BY <2>1, <2>4, ReadAnswer DEF Right
    <3> QED BY <1>12, <2>2, <3>1, <3>2, EmptyLists
  <2> QED BY <2>3, <2>4
<1>14. j.kind # "read" => SurveyFits(j) /\ a.kind \in {"list", "search"}
  BY <1>2, <1>5, <1>10 DEF JobFits
<1>15. CASE Fits(j) /\ j.kind = "survey" /\ a.kind = "list"
  <2>1. PICK status : status = IF j.found = <<>> THEN "empty" ELSE "ok"
    OBVIOUS
  <2>2. jobs' = t /\ asked' = [asked EXCEPT ![r] = AnsweredWith(a, status, j.found, j.steady)]
    BY <1>2, <1>3, <1>4, <1>8, <1>15, <2>1 DEF JobEnds
  <2>3. Right(status, j.found, j.steady)
    BY <1>5, <1>14, <1>15, <2>1, ListAnswer DEF Right
  <2>4. status \in {"not_found", "empty", "no_match", "ok"}
    BY <2>1
  <2> QED BY <1>5, <1>12, <2>2, <2>3, <2>4
<1>16. CASE Fits(j) /\ j.kind = "survey" /\ a.kind # "list" /\ j.found = <<>>
  <2>1. a.kind = "search"
    BY <1>14, <1>16
  <2>2. jobs' = t /\ asked' = [asked EXCEPT ![r] = AnsweredWith(a, "empty", <<>>, j.steady)]
    BY <1>2, <1>3, <1>4, <1>8, <1>16 DEF JobEnds
  <2>3. Right("empty", <<>>, j.steady)
    BY <1>5, <1>14, <1>16, <2>1, EmptyAnswer DEF Right
  <2> QED BY <1>5, <1>12, <2>2, <2>3, EmptyLists
<1>17. CASE Fits(j) /\ j.kind = "survey" /\ a.kind # "list" /\ j.found # <<>>
  <2>1. a.kind = "search" /\ a.answer = NothingYet
    BY <1>3, <1>4, <1>5, <1>14, <1>17 DEF RequestFits, Fits, Waits
  <2>2. PICK q : q = [a EXCEPT !.pc = "second", !.job = j.id + 1]
    OBVIOUS
  <2>3. /\ q \in Requests /\ q.pc = "second" /\ q.kind = a.kind /\ q.answer = a.answer
    <3>1. a = [pc |-> a.pc, kind |-> a.kind, path |-> a.path, job |-> a.job, answer |-> a.answer]
      BY RequestIs
    <3>2. q = [pc |-> "second", kind |-> a.kind, path |-> a.path, job |-> j.id + 1, answer |-> a.answer]
      BY <2>2, <3>1
    <3>3. j.id + 1 \in Nat
      BY JobIs
    <3> QED BY <3>2, <3>3, RequestIs DEF Requests
  <2>4. RequestFits(q)
    <3>1. q.answer.items = <<>> /\ q.answer.steady = {} /\ q.answer.status = "none"
      BY <2>1, <2>3 DEF NothingYet
    <3>2. AnswerFits(q)
      BY <2>3, <3>1, NothingFits
    <3> QED BY <2>1, <2>3, <3>2 DEF RequestFits
  <2>5. PICK y : y = JobOf(j.id + 1, r, "search")
    OBVIOUS
  <2>6. /\ y \in Jobs /\ ~y.begun /\ y.for = r /\ y.kind = "search"
        /\ y.todo = <<>> /\ y.found = <<>> /\ y.steady = {}
    <3>1. j.id + 1 \in Nat
      BY JobIs
    <3> QED BY <2>5, <3>1, BlankJob
  <2>7. asked' = [asked EXCEPT ![r] = q] /\ jobs' = Append(t, y)
    BY <1>2, <1>3, <1>4, <1>8, <1>17, <2>2, <2>5 DEF JobEnds
  <2>8. asked'[r] = q
    BY <2>7 DEF KnowledgeInv, KnowledgeTypes
  <2>9. JobFits(y)'
    BY <2>1, <2>3, <2>6, <2>8 DEF JobFits
  <2>10. PICK v : v = Append(t, y)
    OBVIOUS
  <2>11. v \in Seq(Jobs) /\ (QueueFits(t)' => QueueFits(v)')
    <3>1. v \in Seq(Jobs)
      BY <1>8, <2>6, <2>10
    <3>2. ASSUME QueueFits(t)' PROVE QueueFits(v)'
      BY <1>8, <2>6, <2>9, <2>10, <3>2, QueueGrows
    <3> QED BY <3>1, <3>2
  <2>12. \A u \in Seq(Jobs) : u # <<>> /\ u = jobs /\ QueueFits(u)' => QueueFits(v)'
    BY <1>9, <2>11
  <2>13. v = jobs'
    BY <2>7, <2>10
  <2> QED BY <1>1, <1>10, <2>3, <2>4, <2>7, <2>11, <2>12, <2>13, JobEndStep
<1>18. CASE Fits(j) /\ j.kind = "search"
  <2>1. PICK items : items = Ranked(j.found)
    OBVIOUS
  <2>2. PICK status : status = IF items = <<>> THEN "no_match" ELSE "ok"
    OBVIOUS
  <2>3. items \in Seq(HitSet)
    <3>1. items \in Seq(MatchingHits(j.found))
      BY <1>5, <2>1, RankedParts DEF HeadOf
    <3>2. MatchingHits(j.found) \subseteq HitSet
      BY <1>5, RangeIs DEF MatchingHits
    <3> QED BY <3>1, <3>2, SeqMonotonic
  <2>4. jobs' = t /\ asked' = [asked EXCEPT ![r] = AnsweredWith(a, status, items, j.steady)]
    BY <1>2, <1>3, <1>4, <1>8, <1>18, <2>1, <2>2 DEF JobEnds
  <2>5. a.kind = "search"
    BY <1>5, <1>18
  <2>6. Right(status, items, j.steady)
    BY <1>5, <1>14, <1>18, <2>1, <2>2, <2>5, SearchAnswer DEF Right
  <2>7. status \in {"not_found", "empty", "no_match", "ok"}
    BY <2>2
  <2> QED BY <1>5, <1>12, <2>3, <2>4, <2>6, <2>7
<1> QED BY <1>11, <1>13, <1>15, <1>16, <1>17, <1>18, JobIs

-----------------------------------------------------------------------------
(* Files come, change and go *)

\* A change of files leaves the job that is at work with what stayed as it was.
LEMMA FilesChangeStep ==
    ASSUME KnowledgeInv, NEW ps \in SUBSET Paths, Unsteady(ps), asked' = asked, nature' = nature,
           leads' = leads,
           changes' = changes + 1, directory' \in BOOLEAN,
           file' \in [Paths -> DocumentTexts \cup {NoText}],
           ~directory' => \A p \in Paths : file'[p] = NoText,
           \A p \in Paths \ ps : file'[p] = file[p]
    PROVE  KnowledgeInv'
<1>1. changes' \in Nat /\ changes' # 0
  BY DEF KnowledgeInv, KnowledgeTypes
<1>2. ASSUME NEW s, HitsFit(s) PROVE HitsFit(s)'
  BY <1>2 DEF HitsFit
<1>3. ASSUME NEW r \in Askers PROVE RequestFits(asked[r])'
  <2>1. PICK q : q = asked[r]
    OBVIOUS
  <2>2. RequestFits(q) /\ AnswerFits(q)
    BY <2>1 DEF KnowledgeInv, RequestFits
  <2>3. HitsFit(q.answer.items)'
    BY <1>2, <2>2 DEF AnswerFits
  <2>4. AnswerFits(q)'
    BY <1>1, <2>2, <2>3 DEF AnswerFits, InWorth, IsAnswered
  <2>5. RequestFits(q)'
    BY <2>2, <2>4 DEF RequestFits
  <2>6. q = asked'[r]
    BY <2>1
  <2> QED BY <2>5, <2>6 DEF RequestFits, AnswerFits
<1>4. PICK s \in Seq(Jobs) : s = jobs
  BY DEF KnowledgeInv, KnowledgeTypes
<1>5. QueueFits(s)
  BY <1>4 DEF KnowledgeInv
<1>6. CASE s = <<>>
  <2>1. jobs' = s
    BY <1>4, <1>6 DEF Unsteady
  <2>2. jobs' = <<>>
    BY <1>6, <2>1
  <2>3. QueueFits(jobs)'
    BY <2>2, EmptyLists DEF QueueFits
  <2>4. KnowledgeTypes'
    BY <1>1, <2>1 DEF KnowledgeInv, KnowledgeTypes, LinksFit
  <2> QED BY <1>3, <2>3, <2>4 DEF KnowledgeInv
<1>7. CASE s # <<>>
  <2>1. PICK j \in Jobs : j = s[1] /\ JobFits(j)
    BY <1>5, <1>7, QueueParts DEF QueueFits
  <2> DEFINE steady == {h \in j.steady : h.path \notin ps}
  <2>2. PICK x : x = [j EXCEPT !.steady = steady]
    OBVIOUS
  <2>3. jobs' = [s EXCEPT ![1] = x]
    <3>1. jobs' = [s EXCEPT ![1].steady = {h \in s[1].steady : h.path \notin ps}]
      BY <1>4, <1>7 DEF Unsteady
    <3> QED BY <2>1, <2>2, <3>1
  <2>4. /\ x.begun = j.begun /\ x.kind = j.kind /\ x.for = j.for /\ x.todo = j.todo
        /\ x.found = j.found /\ x.steady = steady /\ x \in Jobs
    <3>1. j = [id |-> j.id, for |-> j.for, kind |-> j.kind, begun |-> j.begun,
               todo |-> j.todo, found |-> j.found, steady |-> j.steady]
      BY JobIs
    <3>2. steady \in SUBSET HitSet
      BY JobIs
    <3> HIDE DEF steady
    <3>3. x = [id |-> j.id, for |-> j.for, kind |-> j.kind, begun |-> j.begun,
               todo |-> j.todo, found |-> j.found, steady |-> steady]
      BY <2>2, <3>1
    <3> QED BY <3>2, <3>3, JobIs DEF Jobs
  <2>5. ASSUME SurveyFits(j) PROVE SurveyFits(x)'
    <3>1. HitsFit(x.found)' /\ NamesOf(x.found)' = NamesOf(j.found)
      BY <1>2, <2>4, <2>5 DEF SurveyFits, NamesOf
    <3>2. ASSUME NEW h \in x.steady
          PROVE  StillAsFound(h)' /\ (h.from \in Range(x.todo) \/ h \in Range(x.found))
      <4>1. h \in j.steady /\ h.path \notin ps /\ h \in HitSet
        BY <2>4, JobIs
      <4>2. h.path \in Paths
        BY <4>1 DEF HitSet
      <4>3. file'[h.path] = file[h.path] /\ leads[h.from] = h.path
        BY <2>5, <4>1, <4>2 DEF SurveyFits, StillAsFound
      <4>4. TextAt(h.from)' = TextAt(h.from)
        BY <4>3 DEF TextAt
      <4>5. StillAsFound(h) /\ (h.from \in Range(j.todo) \/ h \in Range(j.found))
        BY <2>5, <4>1 DEF SurveyFits
      <4> QED BY <2>4, <4>4, <4>5 DEF StillAsFound, HitOf, Readable
    <3>3. \A p \in Range(x.todo) : Walked(p)' /\ p \notin NamesOf(x.found)
      BY <2>4, <2>5 DEF SurveyFits, Walked
    <3>4. \A i, k \in 1 .. Len(x.todo) : x.todo[i] = x.todo[k] => i = k
      BY <2>4, <2>5 DEF SurveyFits
    <3> QED BY <1>1, <3>1, <3>2, <3>3, <3>4 DEF SurveyFits, NamesOf
  <2>6. JobFits(x)'
    BY <2>1, <2>4, <2>5 DEF JobFits
  <2>7. \A i \in 2 .. Len(s) : JobFits(s[i])' /\ ~s[i].begun
    <3> TAKE i \in 2 .. Len(s)
    <3>1. JobFits(s[i]) /\ ~s[i].begun
      BY <1>5, <1>7, QueueParts DEF QueueFits
    <3> QED BY <3>1 DEF JobFits
  <2>8. PICK t : t = [s EXCEPT ![1] = x]
    OBVIOUS
  <2>9. t \in Seq(Jobs) /\ QueueFits(t)' /\ t = jobs'
    BY <1>7, <2>3, <2>4, <2>6, <2>7, <2>8, HeadMoves
  <2>10. QueueFits(jobs)'
    BY <2>9, QueueIsJobs
  <2>11. KnowledgeTypes'
    BY <1>1, <2>9 DEF KnowledgeInv, KnowledgeTypes, LinksFit
  <2> QED BY <1>3, <2>10, <2>11 DEF KnowledgeInv
<1> QED BY <1>6, <1>7

LEMMA FileChangesStep ==
    ASSUME KnowledgeInv, NEW p \in Paths, FileChanges(p)
    PROVE  KnowledgeInv'
<1>1. PICK text \in DocumentTexts \cup {NoText} : file' = [file EXCEPT ![p] = text]
  BY DEF FileChanges
<1>2. /\ file' \in [Paths -> DocumentTexts \cup {NoText}]
      /\ \A q \in Paths \ {p} : file'[q] = file[q]
  BY <1>1 DEF KnowledgeInv, KnowledgeTypes
<1>3. /\ Unsteady({p}) /\ changes' = changes + 1 /\ asked' = asked /\ nature' = nature /\ leads' = leads
      /\ directory' /\ directory' \in BOOLEAN
  BY DEF FileChanges, KnowledgeInv, KnowledgeTypes
<1> QED BY <1>2, <1>3, FilesChangeStep

LEMMA DirectoryGoesStep == KnowledgeInv /\ DirectoryGoes => KnowledgeInv'
<1> SUFFICES ASSUME KnowledgeInv, DirectoryGoes PROVE KnowledgeInv'
  OBVIOUS
<1>1. /\ file' \in [Paths -> DocumentTexts \cup {NoText}] /\ \A p \in Paths : file'[p] = NoText
  BY DEF DirectoryGoes
<1>2. /\ Unsteady(Paths) /\ changes' = changes + 1 /\ asked' = asked /\ nature' = nature /\ leads' = leads
      /\ directory' \in BOOLEAN
  BY DEF DirectoryGoes
<1> QED BY <1>1, <1>2, FilesChangeStep

-----------------------------------------------------------------------------
(* The directory, its readers and the worker together *)

LEMMA KnowledgeInvInit == KnowledgeInit => KnowledgeInv
<1> SUFFICES ASSUME KnowledgeInit PROVE KnowledgeInv
  OBVIOUS
<1>1. /\ directory \in BOOLEAN /\ changes = 0 /\ jobs = <<>>
      /\ file \in [Paths -> IF directory THEN DocumentTexts \cup {NoText} ELSE {NoText}]
      /\ asked = [r \in Askers |-> RequestAt("none", "none", 0, 0, NothingYet)]
  BY DEF KnowledgeInit
<1>2. /\ file \in [Paths -> DocumentTexts \cup {NoText}]
      /\ ~directory => \A p \in Paths : file[p] = NoText
  BY <1>1
<1>3. nature \in [Paths -> Natures] /\ LinksFit
  BY DEF KnowledgeInit, LinksFit
<1>4. PICK q : q = RequestAt("none", "none", 0, 0, NothingYet)
  OBVIOUS
<1>5. q \in Requests /\ q.pc = "none" /\ q.kind = "none" /\ q.answer = NothingYet
  <2>1. NothingYet \in Answers
    BY EmptyLists DEF NothingYet, Answers
  <2> QED BY <1>4, <2>1 DEF RequestAt, Requests
<1>6. RequestFits(q)
  <2>1. q.answer.items = <<>> /\ q.answer.steady = {} /\ q.answer.status = "none"
    BY <1>5 DEF NothingYet
  <2>2. AnswerFits(q)
    BY <1>5, <2>1, NothingFits
  <2> QED BY <1>5, <2>2 DEF RequestFits
<1>7. asked \in [Askers -> Requests] /\ \A r \in Askers : asked[r] = q
  BY <1>1, <1>4, <1>5
<1>8. QueueFits(jobs)
  BY <1>1, EmptyLists DEF QueueFits
<1> QED BY <1>1, <1>2, <1>3, <1>6, <1>7, <1>8, EmptyLists DEF KnowledgeInv, KnowledgeTypes

LEMMA KnowledgeInvStep == KnowledgeInv /\ [KnowledgeNext]_knowledgeVars => KnowledgeInv'
<1> SUFFICES ASSUME KnowledgeInv, [KnowledgeNext]_knowledgeVars PROVE KnowledgeInv'
  OBVIOUS
<1>1. ASSUME NEW r \in Askers, TimesOut(r) PROVE KnowledgeInv'
  BY <1>1, TimesOutStep
<1>2. ASSUME NEW r \in Askers, Ask(r, "list", 0) \/ Ask(r, "search", 0) PROVE KnowledgeInv'
  BY <1>2, AskStep
<1>3. ASSUME NEW r \in Askers, NEW p \in Details, Ask(r, "read", p) PROVE KnowledgeInv'
  <2>1. p \in Paths /\ p \in Nat
    BY KnowledgeAssumption
  <2> QED BY <1>3, <2>1, AskStep
<1>4. ASSUME JobBegins \/ JobReads \/ JobEnds PROVE KnowledgeInv'
  BY <1>4, JobBeginsStep, JobReadsStep, JobEndsStep
<1>5. ASSUME DirectoryGoes \/ \E p \in Paths : FileChanges(p) PROVE KnowledgeInv'
  BY <1>5, DirectoryGoesStep, FileChangesStep
<1>6. CASE UNCHANGED knowledgeVars
  <2>1. DirectoryStays /\ asked' = asked /\ jobs' = jobs
    BY <1>6 DEF knowledgeVars, DirectoryStays
  <2>2. PICK s \in Seq(Jobs) : s = jobs
    BY DEF KnowledgeInv, KnowledgeTypes
  <2>3. ASSUME NEW y \in Jobs, JobFits(y) PROVE JobFits(y)'
    BY <2>1, <2>3, JobKept DEF DirectoryStays
  <2>4. QueueFits(s)' /\ s = jobs'
    BY <2>1, <2>2, <2>3, QueueStays DEF KnowledgeInv
  <2>5. QueueFits(jobs)'
    BY <2>4, QueueIsJobs
  <2>6. ASSUME NEW r \in Askers PROVE RequestFits(asked[r])'
    <3>1. PICK q : q = asked[r]
      OBVIOUS
    <3>2. RequestFits(q)' /\ q = asked'[r]
      BY <2>1, <3>1, AnswerKept DEF KnowledgeInv, DirectoryStays
    <3> QED BY <3>2 DEF RequestFits, AnswerFits
  <2>7. KnowledgeTypes'
    BY <2>1 DEF KnowledgeInv, KnowledgeTypes, DirectoryStays, LinksFit
  <2> QED BY <2>5, <2>6, <2>7 DEF KnowledgeInv
<1> QED BY <1>1, <1>2, <1>3, <1>4, <1>5, <1>6 DEF KnowledgeNext

\* The worker's survey has every steady document before it or behind it, and every answer
\* fits the request it was given for.
THEOREM KnowledgeInvHolds == KnowledgeSpec => []KnowledgeInv
BY KnowledgeInvInit, KnowledgeInvStep, PTL DEF KnowledgeSpec

LEMMA ShownAre ==
    ASSUME KnowledgeInv, NEW r \in Askers
    PROVE  /\ asked[r] \in Requests /\ RequestFits(asked[r]) /\ AnswerFits(asked[r])
           /\ ShownPaths(r) = PathsOf(asked[r].answer.items)
           /\ asked[r].answer.items \in Seq(HitSet)
           /\ DOMAIN asked[r].answer.items = 1 .. Len(asked[r].answer.items)
<1>1. asked[r] \in Requests /\ RequestFits(asked[r]) /\ AnswerFits(asked[r])
  BY DEF KnowledgeInv, KnowledgeTypes, RequestFits
<1>2. asked[r].answer.items \in Seq(HitSet)
  BY <1>1, RequestIs
<1>3. DOMAIN asked[r].answer.items = 1 .. Len(asked[r].answer.items)
  BY <1>2, LenProperties
<1> QED BY <1>1, <1>2, <1>3 DEF ShownPaths, PathsOf

LEMMA AnswersTrue ==
    ASSUME KnowledgeInv, NEW r \in Askers
    PROVE  AnswersAreSound(r) /\ NothingSteadyIsMissed(r)
<1>1. /\ AnswerFits(asked[r]) /\ asked[r].answer.items \in Seq(HitSet)
      /\ DOMAIN asked[r].answer.items = 1 .. Len(asked[r].answer.items)
  BY ShownAre
<1>2. \A h \in Range(asked[r].answer.items) :
         leads[h.from] = h.path /\ h.path \in Paths /\ nature[h.path] # "hidden"
  <2> TAKE h \in Range(asked[r].answer.items)
  <2>1. PICK i \in 1 .. Len(asked[r].answer.items) : h = asked[r].answer.items[i]
    BY <1>1, RangeIs
  <2>2. h \in HitSet
    BY <1>1, <2>1
  <2> QED BY <1>1, <2>1, <2>2, HitIs DEF AnswerFits, HitsFit
<1>3. AnswersAreSound(r)
  BY <1>1, <1>2 DEF AnswersAreSound, AnswerFits, HitsFit, InWorth
<1>4. NothingSteadyIsMissed(r)
  BY <1>1 DEF NothingSteadyIsMissed, AnswerFits, IsAnswered
<1> QED BY <1>3, <1>4

\* What a link lists has a name of its own, and under it the walk finds it, if it is of the kind.
LEMMA ListedAreReadable ==
    ASSUME KnowledgeInv, NEW r \in Askers, NEW q \in Askers
    PROVE  ListedIsReadable(r, q)
<1> DEFINE items == asked[r].answer.items
           p == asked[q].path
<1> SUFFICES ASSUME changes = 0, asked[r].kind = "list", Surveyed(r), asked[q].kind = "read",
                    asked[q].answer.status \in {"ok", "not_found"}
             PROVE  asked[q].answer.status = "ok" <=>
                      leads[p] \in ShownPaths(r) /\ nature[p] # "odd" /\ nature[leads[p]] # "other"
  BY DEF ListedIsReadable
<1>1. AnswerFits(asked[r]) /\ ShownPaths(r) = PathsOf(items) /\ items \in Seq(HitSet)
  BY ShownAre
<1>2. NamesOf(items) = ReadableNames /\ HitsFit(items)
  BY <1>1 DEF AnswerFits, Surveyed
<1>3. p \in Paths /\ LinksFit
  BY ShownAre DEF RequestFits, KnowledgeInv, KnowledgeTypes
<1>4. asked[q].answer.status = "ok" <=> leads[p] \in ReadableNames /\ nature[p] # "odd"
  BY ShownAre DEF AnswerFits
<1> HIDE DEF items, p
<1>5. ASSUME leads[p] \in ReadableNames
      PROVE  leads[p] \in ShownPaths(r) /\ nature[leads[p]] # "other"
  <2>1. leads[p] \in Paths /\ nature[leads[p]] # "other"
    BY <1>5 DEF ReadableNames, Candidate
  <2>2. leads[leads[p]] = leads[p]
    BY <1>3, <2>1, OutsideIsNoPath DEF LinksFit
  <2>3. PICK i \in 1 .. Len(items) : items[i].from = leads[p]
    BY <1>2, <1>5 DEF NamesOf
  <2>4. items[i].path = leads[p]
    BY <1>2, <2>2, <2>3 DEF HitsFit
  <2> QED BY <1>1, <2>1, <2>4 DEF PathsOf
<1>6. ASSUME leads[p] \in ShownPaths(r), nature[leads[p]] # "other"
      PROVE  leads[p] \in ReadableNames
  <2>1. PICK i \in 1 .. Len(items) : items[i].path = leads[p]
    BY <1>1, <1>6 DEF PathsOf
  <2>2. PICK e \in ReadableNames : e = items[i].from
    BY <1>2, <2>1 DEF NamesOf
  <2>3. leads[e] = leads[p] /\ nature[leads[p]] # "hidden"
    BY <1>2, <2>1, <2>2 DEF HitsFit
  <2>4. e \in Paths /\ Candidate(e) /\ Readable(TextAt(e)) /\ leads[e] # Outside
    BY <2>2 DEF ReadableNames, Candidate
  <2>5. leads[p] \in Paths /\ leads[leads[p]] = leads[p]
    BY <1>3, <2>3, <2>4 DEF LinksFit
  <2>6. TextAt(leads[p]) = TextAt(e)
    BY <2>3, <2>5 DEF TextAt
  <2> QED BY <1>6, <2>3, <2>4, <2>5, <2>6 DEF ReadableNames, Candidate
<1> QED BY <1>4, <1>5, <1>6

\* Answers of the knowledge directory, whatever is asked for together, given up and changed
\* in the meantime: they say what they hold, in the order of its worth, miss no document that
\* stayed as it was, and agree with each other; and hits are counted without overlap.
THEOREM SearchesAlwaysTrue == KnowledgeSpec => []SearchesAreTrue
<1>1. KnowledgeInv => SearchesAreTrue
  BY AnswersTrue, ListedAreReadable, CountsMaximal DEF SearchesAreTrue
<1> QED BY <1>1, KnowledgeInvHolds, PTL

-----------------------------------------------------------------------------
(* The samples of a service *)

Samples == [id : Nat, at : Nat, slow : Nat \cup {NoCount}, timeout : Nat \cup {NoCount},
            up : BOOLEAN, source : Sources]

\* samples with an identifier each
Sampling(S) == S \subseteq Samples /\ IsFiniteSet(S) /\ \A a, b \in S : a.id = b.id => a = b

\* s holds the samples S in the order of time
Chronicle(s, S) ==
    /\ s \in Seq(S)
    /\ \A i, j \in 1 .. Len(s) : i < j => Earlier(s[i], s[j])
    /\ \A m \in S : \E i \in 1 .. Len(s) : s[i] = m

TimeOrder(S) == {p \in S \X S : Earlier(p[1], p[2])}
NumberOrder(S) == {p \in S \X S : p[1] < p[2]}

LEMMA SampleParts ==
    ASSUME NEW S, Sampling(S), NEW m \in S
    PROVE  /\ m.at \in Int /\ m.id \in Int /\ m.up \in BOOLEAN /\ m.source \in Sources
           /\ Counted(m.slow) \in Nat /\ Counted(m.timeout) \in Nat
<1>1. m \in Samples
  BY DEF Sampling
<1>2. \A n \in Nat \cup {NoCount} : Counted(n) \in Nat
  BY DEF Counted
<1>3. /\ m.id \in Nat /\ m.at \in Nat /\ m.up \in BOOLEAN /\ m.source \in Sources
      /\ m.slow \in Nat \cup {NoCount} /\ m.timeout \in Nat \cup {NoCount}
  BY <1>1 DEF Samples
<1>4. m.at \in Int /\ m.id \in Int
  BY <1>3
<1>5. Counted(m.slow) \in Nat /\ Counted(m.timeout) \in Nat
  BY <1>2, <1>3
<1> QED BY <1>3, <1>4, <1>5

LEMMA EarlierOrders ==
    ASSUME NEW S, Sampling(S)
    PROVE  /\ StrictOrder(S, TimeOrder(S))
           /\ \A a, b \in S : <<a, b>> \in TimeOrder(S) <=> Earlier(a, b)
           /\ \A a, b \in S : Earlier(a, b) => ~Earlier(b, a) /\ a # b
           /\ \A a, b, c \in S : Earlier(a, b) /\ Earlier(b, c) => Earlier(a, c)
           /\ \A a, b \in S : a # b => Earlier(a, b) \/ Earlier(b, a)
<1>1. \A a, b \in S : <<a, b>> \in TimeOrder(S) <=> Earlier(a, b)
  BY DEF TimeOrder
<1>2. \A a \in S : a.at \in Int /\ a.id \in Int
  BY SampleParts
<1>3. \A a, b \in S : Earlier(a, b) => ~Earlier(b, a) /\ a # b
  BY <1>2 DEF Earlier
<1>4. \A a, b, c \in S : Earlier(a, b) /\ Earlier(b, c) => Earlier(a, c)
  BY <1>2 DEF Earlier
<1>5. \A a, b \in S : a # b => Earlier(a, b) \/ Earlier(b, a)
  <2> TAKE a, b \in S
  <2>1. a # b => a.id # b.id
    BY DEF Sampling
  <2> QED BY <1>2, <2>1 DEF Earlier
<1>6. StrictOrder(S, TimeOrder(S))
  BY <1>1, <1>3, <1>4, <1>5 DEF StrictOrder
<1> QED BY <1>1, <1>3, <1>4, <1>5, <1>6

\* A query with an order and no limit returns all there is.
LEMMA WholeHeads ==
    ASSUME NEW S, NEW R, IsFiniteSet(S), StrictOrder(S, R)
    PROVE  LET s == Heads(S, R, Cardinality(S))
           IN /\ s = [i \in 1 .. Cardinality(S) |-> CHOOSE r \in S : Rank(S, R, r) + 1 = i]
              /\ s \in Seq(S) /\ Len(s) = Cardinality(S)
              /\ \A i, j \in 1 .. Len(s) : i < j => <<s[i], s[j]>> \in R
              /\ \A r \in S : \E i \in 1 .. Len(s) : s[i] = r
<1> DEFINE n == Cardinality(S)
           pick(i) == CHOOSE r \in S : Rank(S, R, r) + 1 = i
           size(m) == IF n < m THEN n ELSE m
           s == Heads(S, R, n)
<1>1. n \in Nat /\ n + 1 \in Nat
  BY FS_CardinalityType
<1>2. \A m : Heads(S, R, m) = [i \in 1 .. size(m) |-> pick(i)]
  BY DEF Heads
<1>3. size(n) = n /\ size(n + 1) = n
  BY <1>1
<1>4. s = [i \in 1 .. n |-> pick(i)] /\ s = Heads(S, R, n + 1)
  <2> HIDE DEF pick, size, n
  <2> QED BY <1>2, <1>3
<1> HIDE DEF pick, size, n
<1>5. HeadOf(Heads(S, R, n), S, R, n) /\ HeadOf(Heads(S, R, n + 1), S, R, n + 1)
  BY <1>1, HeadsParts
<1>6. HeadOf(s, S, R, n) /\ HeadOf(s, S, R, n + 1)
  BY <1>4, <1>5
<1> HIDE DEF s
<1>7. /\ s \in Seq(S) /\ \A i, j \in 1 .. Len(s) : i < j => <<s[i], s[j]>> \in R
      /\ Len(s) \in Nat /\ Len(s) <= n
  BY <1>6 DEF HeadOf
<1>8. \A r \in S : \E i \in 1 .. Len(s) : s[i] = r
  BY <1>1, <1>6, <1>7 DEF HeadOf
<1>9. Len(s) = n
  BY <1>1, <1>4, <1>7, LengthIs
<1> QED BY <1>4, <1>7, <1>8, <1>9 DEF s, n, pick

Found(S, from, to) == {m \in S : from <= m.at /\ m.at <= to}

LEMMA SamplingLess ==
    ASSUME NEW S, Sampling(S), NEW T \in SUBSET S
    PROVE  Sampling(T)
BY FS_Subset DEF Sampling

\* list_between
LEMMA BetweenParts ==
    ASSUME NEW S, Sampling(S), NEW from, NEW to
    PROVE  Sampling(Found(S, from, to)) /\ Chronicle(Between(S, from, to), Found(S, from, to))
<1> DEFINE F == Found(S, from, to)
           R == TimeOrder(F)
           n == Cardinality(F)
           sample(i) == CHOOSE m \in F : Cardinality({x \in F : Earlier(x, m)}) + 1 = i
           head(i) == CHOOSE m \in F : Rank(F, R, m) + 1 = i
<1>1. F \in SUBSET S
  BY DEF Found
<1>2. Sampling(F) /\ IsFiniteSet(F)
  BY <1>1, SamplingLess DEF Sampling
<1>3. StrictOrder(F, R) /\ \A a, b \in F : <<a, b>> \in R <=> Earlier(a, b)
  BY <1>2, EarlierOrders
<1>4. \A m \in F : {x \in F : Earlier(x, m)} = {x \in F : <<x, m>> \in R}
  BY <1>3
<1>5. \A m \in F : Cardinality({x \in F : Earlier(x, m)}) = Rank(F, R, m)
  BY <1>4 DEF Rank
<1>6. \A i : sample(i) = head(i)
  BY <1>5
<1>7. Between(S, from, to) = [i \in 1 .. n |-> sample(i)]
  BY DEF Between, Found
<1> DEFINE s == Heads(F, R, n)
<1>8. /\ s = [i \in 1 .. n |-> head(i)]
      /\ s \in Seq(F) /\ Len(s) = n
      /\ \A i, j \in 1 .. Len(s) : i < j => <<s[i], s[j]>> \in R
      /\ \A r \in F : \E i \in 1 .. Len(s) : s[i] = r
  <2> HIDE DEF F, R
  <2> QED BY <1>2, <1>3, WholeHeads
<1>9. Between(S, from, to) = s
  <2> HIDE DEF sample, head, n, s
  <2> QED BY <1>6, <1>7, <1>8
<1> HIDE DEF s, F, R, n, sample, head
<1>10. Len(s) \in Nat /\ \A i \in 1 .. Len(s) : s[i] \in F
  <2>1. s \in Seq(F)
    BY <1>8
  <2> QED BY <2>1, LenProperties, ElementOfSeq
<1>11. \A i, j \in 1 .. Len(s) : i < j => Earlier(s[i], s[j])
  BY <1>3, <1>8, <1>10
<1>12. Chronicle(s, F)
  BY <1>8, <1>11 DEF Chronicle
<1> QED BY <1>2, <1>9, <1>12 DEF F

LEMMA ChronicleParts ==
    ASSUME NEW S, Sampling(S), NEW s, Chronicle(s, S)
    PROVE  /\ Len(s) \in Nat /\ DOMAIN s = 1 .. Len(s) /\ Range(s) = S
           /\ \A i \in 1 .. Len(s) : s[i] \in S
           /\ \A i, j \in 1 .. Len(s) : s[i] = s[j] => i = j
           /\ \A i, j \in 1 .. Len(s) : Earlier(s[i], s[j]) <=> i < j
           /\ Cardinality(S) = Len(s)
<1> DEFINE n == Len(s)
<1>1. n \in Nat /\ DOMAIN s = 1 .. n /\ \A i \in 1 .. n : s[i] \in S
  BY LenProperties, ElementOfSeq DEF Chronicle
<1>2. Range(s) = S
  <2>1. Range(s) = {s[i] : i \in 1 .. n}
    BY <1>1 DEF Range
  <2> QED BY <1>1, <2>1 DEF Chronicle
<1>3. \A i, j \in 1 .. n : s[i] = s[j] => i = j
  <2> SUFFICES ASSUME NEW i \in 1 .. n, NEW j \in 1 .. n, i < j PROVE s[i] # s[j]
    BY <1>1
  <2>1. Earlier(s[i], s[j])
    BY DEF Chronicle
  <2> QED BY <1>1, <2>1, EarlierOrders
<1>4. \A i, j \in 1 .. n : Earlier(s[i], s[j]) <=> i < j
  <2> TAKE i, j \in 1 .. n
  <2>1. s[i] \in S /\ s[j] \in S /\ i \in Int /\ j \in Int
    BY <1>1
  <2>2. CASE i < j
    BY <2>2 DEF Chronicle
  <2>3. CASE i = j
    BY <2>1, <2>3, EarlierOrders
  <2>4. CASE j < i
    <3>1. Earlier(s[j], s[i])
      BY <2>4 DEF Chronicle
    <3> QED BY <2>1, <2>4, <3>1, EarlierOrders
  <2> QED BY <2>1, <2>2, <2>3, <2>4
<1>5. Cardinality(S) = n
  <2> DEFINE b == [i \in 1 .. n |-> s[i]]
  <2>1. b \in [1 .. n -> S]
    BY <1>1
  <2>2. \A i, j \in 1 .. n : b[i] = b[j] => i = j
    BY <1>3
  <2>3. \A m \in S : \E i \in 1 .. n : b[i] = m
    BY DEF Chronicle
  <2>4. b \in Bijection(1 .. n, S)
    BY <2>1, <2>2, <2>3, Fun_IsBij
  <2> QED BY <1>1, <2>4, FS_CountingElements DEF ExistsBijection
<1> QED BY <1>1, <1>2, <1>3, <1>4, <1>5

LEMMA EmptyChronicle ==
    ASSUME NEW S, Sampling(S), NEW s, Chronicle(s, S)
    PROVE  s = <<>> <=> S = {}
<1>1. s = <<>> <=> Len(s) = 0
  <2>1. s \in Seq(S)
    BY DEF Chronicle
  <2> QED BY <2>1, EmptySeq
<1>2. IsFiniteSet(S)
  BY DEF Sampling
<1> QED BY <1>1, <1>2, ChronicleParts, FS_EmptySet

LEMMA NumbersInOrder ==
    ASSUME NEW n \in Nat, NEW K \in SUBSET (1 .. n)
    PROVE  IsFiniteSet(K) /\ StrictOrder(K, NumberOrder(K)) /\ Cardinality(K) \in Nat
<1>1. IsFiniteSet(K)
  <2>1. IsFiniteSet(1 .. n)
    BY FS_Interval
  <2> QED BY <2>1, FS_Subset
<1>2. \A x, y \in K : <<x, y>> \in NumberOrder(K) <=> x < y
  BY DEF NumberOrder
<1>3. \A x \in K : x \in Int
  OBVIOUS
<1>4. StrictOrder(K, NumberOrder(K))
  BY <1>2, <1>3 DEF StrictOrder
<1> QED BY <1>1, <1>4, FS_CardinalityType

\* what is left of a line is still in order
LEMMA MeaningfulParts ==
    ASSUME NEW S, Sampling(S), NEW s, Chronicle(s, S)
    PROVE  Sampling(Configured(S)) /\ Chronicle(Meaningful(s), Configured(S))
<1> DEFINE n == Len(s)
           C == Configured(S)
           K == {i \in 1 .. n : s[i].source # "not_configured"}
           R == NumberOrder(K)
           m == Cardinality(K)
           place(k) == CHOOSE i \in K : Cardinality({j \in K : j < i}) + 1 = k
           head(k) == CHOOSE i \in K : Rank(K, R, i) + 1 = k
           p == Heads(K, R, m)
<1>1. /\ n \in Nat /\ DOMAIN s = 1 .. n
      /\ \A i \in 1 .. n : s[i] \in S
  BY ChronicleParts
<1>2. C \in SUBSET S /\ Sampling(C)
  BY SamplingLess DEF Configured
<1>3. IsFiniteSet(K) /\ StrictOrder(K, R) /\ m \in Nat
  BY <1>1, NumbersInOrder
<1>4. \A i \in K : {j \in K : j < i} = {j \in K : <<j, i>> \in R}
  BY DEF NumberOrder
<1>5. \A i \in K : Cardinality({j \in K : j < i}) = Rank(K, R, i)
  BY <1>4 DEF Rank
<1>6. \A k : place(k) = head(k)
  BY <1>5
<1>7. Meaningful(s) = [k \in 1 .. m |-> s[place(k)]]
  BY <1>1 DEF Meaningful
<1>8. /\ p = [k \in 1 .. m |-> head(k)]
      /\ p \in Seq(K) /\ Len(p) = m
      /\ \A i, j \in 1 .. Len(p) : i < j => <<p[i], p[j]>> \in R
      /\ \A i \in K : \E k \in 1 .. Len(p) : p[k] = i
  <2> HIDE DEF K, R
  <2> QED BY <1>3, WholeHeads
<1>9. Meaningful(s) = [k \in 1 .. m |-> s[p[k]]]
  <2> HIDE DEF place, head, m, p
  <2>1. \A k \in 1 .. m : p[k] = place(k)
    BY <1>6, <1>8
  <2> QED BY <1>7, <2>1
<1>10. \A i \in 1 .. n : i \in K <=> s[i] \in C
  BY <1>1 DEF Configured
<1>11. \A i \in K : i \in 1 .. n
  OBVIOUS
<1>12. \A i, j \in K : <<i, j>> \in R => i < j
  BY DEF NumberOrder
<1> HIDE DEF K, R, m, p, place, head, C, n
<1>13. \A k \in 1 .. m : p[k] \in K
  <2>1. p \in Seq(K)
    BY <1>8
  <2> QED BY <1>8, <2>1, ElementOfSeq
<1> DEFINE t == Meaningful(s)
<1>14. \A k \in 1 .. m : t[k] = s[p[k]] /\ t[k] \in C
  BY <1>9, <1>10, <1>11, <1>13
<1>15. t \in Seq(C) /\ Len(t) = m
  <2>1. t \in [1 .. m -> C]
    BY <1>9, <1>14
  <2> HIDE DEF t
  <2> QED BY <1>3, <2>1, LineOf
<1>16. \A i, j \in 1 .. m : i < j => Earlier(t[i], t[j])
  <2> SUFFICES ASSUME NEW i \in 1 .. m, NEW j \in 1 .. m, i < j PROVE Earlier(t[i], t[j])
    OBVIOUS
  <2>1. p[i] \in K /\ p[j] \in K /\ p[i] < p[j]
    BY <1>8, <1>12, <1>13
  <2>2. p[i] \in 1 .. n /\ p[j] \in 1 .. n
    BY <1>11, <2>1
  <2>3. Earlier(s[p[i]], s[p[j]])
    BY <2>1, <2>2 DEF Chronicle, n
  <2> QED BY <1>14, <2>3
<1>17. \A x \in C : \E k \in 1 .. m : t[k] = x
  <2> TAKE x \in C
  <2>1. PICK i \in 1 .. n : s[i] = x
    BY <1>2 DEF Chronicle, n
  <2>2. i \in K
    BY <1>10, <2>1
  <2>3. PICK k \in 1 .. m : p[k] = i
    BY <1>8, <2>2
  <2> QED BY <1>14, <2>1, <2>3
<1> HIDE DEF t
<1>18. Chronicle(t, C)
  BY <1>15, <1>16, <1>17 DEF Chronicle
<1> QED BY <1>2, <1>18 DEF t, C

-----------------------------------------------------------------------------
(* Sums and changes *)

Counts(f) == UNION {{x} \X (1 .. f[x]) : x \in DOMAIN f}

LEMMA CountsParts ==
    ASSUME NEW f, IsFiniteSet(DOMAIN f), \A x \in DOMAIN f : f[x] \in Nat
    PROVE  /\ IsFiniteSet(Counts(f)) /\ Total(f) = Cardinality(Counts(f)) /\ Total(f) \in Nat
           /\ \A p : p \in Counts(f) <=> \E x \in DOMAIN f : \E k \in 1 .. f[x] : p = <<x, k>>
<1> DEFINE A == DOMAIN f
           part(x) == {x} \X (1 .. f[x])
           parts == {part(x) : x \in A}
           g == [x \in A |-> part(x)]
<1>1. \A x \in A : IsFiniteSet(part(x))
  <2> TAKE x \in A
  <2>1. IsFiniteSet({x})
    BY FS_Singleton
  <2>2. f[x] \in Int /\ 1 \in Int
    OBVIOUS
  <2>3. IsFiniteSet(1 .. f[x])
    BY <2>2, FS_Interval
  <2> QED BY <2>1, <2>3, FS_Product
<1>2. IsFiniteSet(parts)
  <2>1. g \in [A -> parts]
    OBVIOUS
  <2>2. \A y \in parts : \E x \in A : g[x] = y
    OBVIOUS
  <2> HIDE DEF g, parts, part
  <2>3. g \in Surjection(A, parts)
    BY <2>1, <2>2, Fun_IsSurj
  <2> QED BY <2>3, FS_Surjection
<1>3. \A y \in parts : IsFiniteSet(y)
  BY <1>1
<1>4. IsFiniteSet(UNION parts)
  <2> HIDE DEF parts
  <2> QED BY <1>2, <1>3, FS_UNION
<1>5. IsFiniteSet(Counts(f)) /\ Total(f) = Cardinality(Counts(f))
  BY <1>4 DEF Counts, Total
<1>6. Total(f) \in Nat
  BY <1>5, FS_CardinalityType
<1>7. \A p : p \in Counts(f) <=> \E x \in A : \E k \in 1 .. f[x] : p = <<x, k>>
  <2>1. \A p : p \in Counts(f) <=> \E x \in A : p \in part(x)
    BY DEF Counts
  <2>2. \A x, p : p \in part(x) <=> \E k \in 1 .. f[x] : p = <<x, k>>
    OBVIOUS
  <2> HIDE DEF part
  <2> QED BY <2>1, <2>2
<1> QED BY <1>5, <1>6, <1>7

\* A sum does not depend on what the counts are counted at.
LEMMA TotalsAgree ==
    ASSUME NEW A, NEW B, NEW b \in Bijection(A, B), IsFiniteSet(A),
           NEW f, NEW g, DOMAIN f = A, DOMAIN g = B, \A x \in A : f[x] \in Nat /\ g[b[x]] = f[x]
    PROVE  Total(f) = Total(g) /\ Total(f) \in Nat
<1> DEFINE P == Counts(f)
           Q == Counts(g)
           h == [p \in P |-> <<b[p[1]], p[2]>>]
<1>1. /\ b \in [A -> B] /\ \A x, y \in A : b[x] = b[y] => x = y
      /\ \A y \in B : \E x \in A : b[x] = y
  BY DEF Bijection, Injection, Surjection, IsInjective
<1>2. IsFiniteSet(B)
  BY FS_Bijection DEF ExistsBijection
<1>3. \A y \in B : g[y] \in Nat
  BY <1>1
<1>4. /\ IsFiniteSet(P) /\ Total(f) = Cardinality(P) /\ Total(f) \in Nat
      /\ \A p : p \in P <=> \E x \in A : \E k \in 1 .. f[x] : p = <<x, k>>
  BY CountsParts
<1>5. /\ Total(g) = Cardinality(Q)
      /\ \A p : p \in Q <=> \E x \in B : \E k \in 1 .. g[x] : p = <<x, k>>
  BY <1>2, <1>3, CountsParts
<1> HIDE DEF P, Q
<1>6. \A p \in P : p[1] \in A /\ p[2] \in 1 .. f[p[1]] /\ p = <<p[1], p[2]>>
  BY <1>4
<1>7. \A x \in A : \A k \in 1 .. f[x] : <<x, k>> \in P /\ h[<<x, k>>] = <<b[x], k>>
  BY <1>4
<1>8. \A p \in P : h[p] \in Q
  <2> TAKE p \in P
  <2>1. b[p[1]] \in B /\ p[2] \in 1 .. g[b[p[1]]]
    BY <1>1, <1>6
  <2> QED BY <1>5, <2>1
<1>9. \A p, q \in P : h[p] = h[q] => p = q
  <2> SUFFICES ASSUME NEW p \in P, NEW q \in P, h[p] = h[q] PROVE p = q
    OBVIOUS
  <2>1. b[p[1]] = b[q[1]] /\ p[2] = q[2]
    OBVIOUS
  <2> QED BY <1>1, <1>6, <2>1
<1>10. \A q \in Q : \E p \in P : h[p] = q
  <2> TAKE q \in Q
  <2>1. PICK y \in B : \E k \in 1 .. g[y] : q = <<y, k>>
    BY <1>5
  <2>2. PICK k \in 1 .. g[y] : q = <<y, k>>
    BY <2>1
  <2>3. PICK x \in A : b[x] = y
    BY <1>1
  <2>4. k \in 1 .. f[x]
    BY <2>2, <2>3
  <2> QED BY <1>7, <2>2, <2>3, <2>4
<1>11. h \in Bijection(P, Q)
  <2>1. h \in [P -> Q]
    BY <1>8
  <2> HIDE DEF h
  <2> QED BY <2>1, <1>9, <1>10, Fun_IsBij
<1>12. Cardinality(Q) = Cardinality(P)
  BY <1>4, <1>11, FS_Bijection DEF ExistsBijection
<1> QED BY <1>4, <1>5, <1>12

\* f and g say the same of samples that b puts side by side
SideBySide(f, g, b, A, B) ==
    /\ b \in Bijection(A, B) /\ IsFiniteSet(A) /\ DOMAIN f = A /\ DOMAIN g = B
    /\ \A x \in A : /\ g[b[x]] = f[x]
                    /\ Counted(f[x].slow) \in Nat /\ Counted(f[x].timeout) \in Nat

LEMMA SumsAgree ==
    ASSUME NEW A, NEW B, NEW b, NEW f, NEW g, SideBySide(f, g, b, A, B)
    PROVE  SumsOver(f) = SumsOver(g)
<1> DEFINE slow(a) == [x \in DOMAIN a |-> Counted(a[x].slow)]
           late(a) == [x \in DOMAIN a |-> Counted(a[x].timeout)]
<1>0. /\ b \in Bijection(A, B) /\ IsFiniteSet(A) /\ DOMAIN f = A /\ DOMAIN g = B
      /\ \A x \in A : /\ g[b[x]] = f[x]
                      /\ Counted(f[x].slow) \in Nat /\ Counted(f[x].timeout) \in Nat
  BY DEF SideBySide
<1>1. \A x \in A : b[x] \in B
  BY <1>0 DEF Bijection, Injection
<1>2. Total(slow(f)) = Total(slow(g))
  <2>1. DOMAIN slow(f) = A /\ DOMAIN slow(g) = B
    BY <1>0
  <2>2. \A x \in A : slow(f)[x] \in Nat /\ slow(g)[b[x]] = slow(f)[x]
    BY <1>0, <1>1
  <2> HIDE DEF slow
  <2> QED BY <1>0, <2>1, <2>2, TotalsAgree
<1>3. Total(late(f)) = Total(late(g))
  <2>1. DOMAIN late(f) = A /\ DOMAIN late(g) = B
    BY <1>0
  <2>2. \A x \in A : late(f)[x] \in Nat /\ late(g)[b[x]] = late(f)[x]
    BY <1>0, <1>1
  <2> HIDE DEF late
  <2> QED BY <1>0, <2>1, <2>2, TotalsAgree
<1> QED BY <1>2, <1>3 DEF SumsOver

\* The sums go over the samples of the window, wherever they stand in the line.
LEMMA WindowAgrees ==
    ASSUME NEW S, Sampling(S), NEW s, Chronicle(s, S), NEW i \in 1 .. Len(s), NEW window \in Int
    PROVE  WindowedSums(s, s[i], window) = SumsOver([c \in Within(S, s[i], window) |-> c])
<1> DEFINE n == Len(s)
           W == Within(S, s[i], window)
           J == {j \in DOMAIN s : s[j].at >= s[i].at - window /\ \A k \in 1 .. j : s[k].at <= s[i].at}
           b == [j \in J |-> s[j]]
           c == [m \in W |-> m]
<1>1. /\ n \in Nat /\ DOMAIN s = 1 .. n /\ \A j \in 1 .. n : s[j] \in S
      /\ \A j, k \in 1 .. n : s[j] = s[k] => j = k
      /\ \A j, k \in 1 .. n : Earlier(s[j], s[k]) <=> j < k
  BY ChronicleParts
<1>2. \A j \in 1 .. n : /\ s[j].at \in Int /\ Counted(s[j].slow) \in Nat
                        /\ Counted(s[j].timeout) \in Nat
  BY <1>1, SampleParts
<1>3. \A j \in 1 .. n : \A k \in 1 .. j : s[k].at <= s[j].at
  <2> TAKE j \in 1 .. n
  <2> TAKE k \in 1 .. j
  <2>1. k \in 1 .. n /\ (k = j \/ k < j)
    BY <1>1
  <2>2. CASE k = j
    BY <1>2, <2>2
  <2>3. CASE k < j
    <3>1. Earlier(s[k], s[j])
      BY <1>1, <2>1, <2>3
    <3>2. s[k].at \in Int /\ s[j].at \in Int
      BY <1>2, <2>1
    <3> QED BY <3>1, <3>2 DEF Earlier
  <2> QED BY <2>1, <2>2, <2>3
<1>4. \A j \in 1 .. n : j \in J <=> s[j] \in W
  <2> TAKE j \in 1 .. n
  <2>1. s[j].at <= s[i].at => \A k \in 1 .. j : s[k].at <= s[i].at
    <3> SUFFICES ASSUME s[j].at <= s[i].at, NEW k \in 1 .. j PROVE s[k].at <= s[i].at
      OBVIOUS
    <3>1. k \in 1 .. n /\ s[k].at <= s[j].at
      BY <1>1, <1>3
    <3>2. s[k].at \in Int /\ s[j].at \in Int /\ s[i].at \in Int
      BY <1>2, <3>1
    <3> QED BY <3>1, <3>2
  <2>2. (\A k \in 1 .. j : s[k].at <= s[i].at) => s[j].at <= s[i].at
    BY <1>1
  <2>3. s[j].at >= s[i].at - window <=> s[i].at - window <= s[j].at
    BY <1>2
  <2> QED BY <1>1, <2>1, <2>2, <2>3 DEF Within
<1>5. J \in SUBSET (1 .. n) /\ IsFiniteSet(J)
  BY <1>1, NumbersInOrder
<1>6. b \in Bijection(J, W)
  <2>1. W \subseteq S
    BY DEF Within
  <2>2. \A m \in W : \E j \in 1 .. n : s[j] = m
    BY <2>1 DEF Chronicle
  <2> HIDE DEF W, J
  <2>3. b \in [J -> W]
    BY <1>4, <1>5
  <2>4. \A j, k \in J : b[j] = b[k] => j = k
    BY <1>1, <1>5
  <2>5. \A m \in W : \E j \in J : b[j] = m
    BY <1>4, <2>2
  <2> HIDE DEF b
  <2> QED BY <2>3, <2>4, <2>5, Fun_IsBij
<1>7. /\ DOMAIN b = J /\ DOMAIN c = W
      /\ \A j \in J : c[b[j]] = b[j] /\ b[j] = s[j]
  <2> HIDE DEF W, J
  <2> QED BY <1>4, <1>5
<1>8. \A j \in J : Counted(b[j].slow) \in Nat /\ Counted(b[j].timeout) \in Nat
  <2> HIDE DEF J, b
  <2> QED BY <1>2, <1>5, <1>7
<1>9. SumsOver(b) = SumsOver(c)
  <2> HIDE DEF W, J, b, c
  <2>1. \A j \in J : /\ c[b[j]] = b[j]
                     /\ Counted(b[j].slow) \in Nat /\ Counted(b[j].timeout) \in Nat
    BY <1>7, <1>8
  <2>2. DOMAIN b = J /\ DOMAIN c = W
    BY <1>7
  <2>3. SideBySide(b, c, b, J, W)
    BY <1>5, <1>6, <2>1, <2>2 DEF SideBySide
  <2> QED BY ONLY <2>3, SumsAgree
<1>10. WindowedSums(s, s[i], window) = SumsOver(b)
  BY DEF WindowedSums
<1> QED BY <1>9, <1>10

LEMMA MetricsAgree ==
    ASSUME NEW S, Sampling(S), NEW s, Chronicle(s, S), NEW i \in 1 .. Len(s),
           NEW config, config.window \in Int
    PROVE  MetricAnomaly(s, s[i], config) <=> Over(S, s[i], config)
<1>1. WindowedSums(s, s[i], config.window) = SumsOver([c \in Within(S, s[i], config.window) |-> c])
  BY WindowAgrees
<1> QED BY <1>1 DEF MetricAnomaly, Over

\* The sample before in the line is the one before in time.
LEMMA ChangesAgree ==
    ASSUME NEW S, Sampling(S), NEW s, Chronicle(s, S), NEW i \in 1 .. Len(s)
    PROVE  (i > 1 /\ s[i].up # s[i - 1].up) <=> Changed(S, s[i])
<1> DEFINE n == Len(s)
<1>1. /\ n \in Nat /\ \A j \in 1 .. n : s[j] \in S
      /\ \A j, k \in 1 .. n : Earlier(s[j], s[k]) <=> j < k
  BY ChronicleParts
<1>2. \A m \in S : \E j \in 1 .. n : s[j] = m
  BY DEF Chronicle
<1> HIDE DEF n
<1>3. i \in 1 .. n /\ i \in Nat
  BY <1>1 DEF n
<1>4. ASSUME i > 1, s[i].up # s[i - 1].up PROVE Changed(S, s[i])
  <2>1. i - 1 \in 1 .. n /\ i - 1 < i
    BY <1>1, <1>3, <1>4
  <2>2. s[i - 1] \in S /\ Earlier(s[i - 1], s[i])
    BY <1>1, <1>3, <2>1
  <2>3. ASSUME NEW x \in S, Earlier(s[i - 1], x), Earlier(x, s[i]) PROVE FALSE
    <3>1. PICK j \in 1 .. n : s[j] = x
      BY <1>2
    <3>2. i - 1 < j /\ j < i
      BY <1>1, <1>3, <2>1, <2>3, <3>1
    <3> QED BY <1>3, <3>2
  <2>4. s[i - 1].up # s[i].up
    BY <1>4
  <2> QED BY <2>2, <2>3, <2>4 DEF Changed
<1>5. ASSUME Changed(S, s[i]) PROVE i > 1 /\ s[i].up # s[i - 1].up
  <2>1. PICK p \in S : /\ Earlier(p, s[i]) /\ p.up # s[i].up
                       /\ ~ \E x \in S : Earlier(p, x) /\ Earlier(x, s[i])
    BY <1>5 DEF Changed
  <2>2. PICK j \in 1 .. n : s[j] = p
    BY <1>2
  <2>3. j < i /\ j \in Nat
    BY <1>1, <1>3, <2>1, <2>2
  <2>4. j = i - 1
    <3> SUFFICES ASSUME j < i - 1 PROVE FALSE
      BY <1>3, <2>3
    <3>1. i - 1 \in 1 .. n /\ i - 1 < i
      BY <1>1, <1>3, <2>3
    <3>2. s[i - 1] \in S /\ Earlier(s[j], s[i - 1]) /\ Earlier(s[i - 1], s[i])
      BY <1>1, <1>3, <3>1
    <3> QED BY <2>1, <2>2, <3>2
  <2>5. i > 1
    BY <1>3, <2>3
  <2> QED BY <2>1, <2>2, <2>4, <2>5
<1> QED BY <1>4, <1>5

IsOdd(S, m, config) == Over(S, m, config) \/ (config.changes /\ Changed(S, m))

\* _trend_summary counts the samples that are odd among all of them.
LEMMA TrendAgrees ==
    ASSUME NEW S, Sampling(S), NEW s, Chronicle(s, S), NEW config, config.window \in Int
    PROVE  TrendSummary(s, config) =
             [samples |-> Cardinality(S), anomalies |-> Cardinality({m \in S : IsOdd(S, m, config)})]
<1> DEFINE n == Len(s)
           changed(i) == i > 1 /\ s[i].up # s[i - 1].up
           I == {i \in DOMAIN s : MetricAnomaly(s, s[i], config) \/ (config.changes /\ changed(i))}
           O == {m \in S : IsOdd(S, m, config)}
           b == [i \in I |-> s[i]]
<1>1. /\ n \in Nat /\ DOMAIN s = 1 .. n /\ Cardinality(S) = n
      /\ \A i \in 1 .. n : s[i] \in S
      /\ \A i, j \in 1 .. n : s[i] = s[j] => i = j
  BY ChronicleParts
<1>2. \A i \in 1 .. n : changed(i) <=> Changed(S, s[i])
  BY ChangesAgree
<1>3. \A i \in 1 .. n : MetricAnomaly(s, s[i], config) <=> Over(S, s[i], config)
  BY MetricsAgree
<1>4. \A i \in 1 .. n : i \in I <=> s[i] \in O
  <2> HIDE DEF changed
  <2> QED BY <1>1, <1>2, <1>3 DEF IsOdd
<1>5. I \in SUBSET (1 .. n)
  BY <1>1
<1>6. IsFiniteSet(I)
  <2> HIDE DEF I
  <2> QED BY <1>1, <1>5, NumbersInOrder
<1>7. O \subseteq S
  OBVIOUS
<1>8. \A m \in S : \E i \in 1 .. n : s[i] = m
  BY DEF Chronicle
<1>9. b \in Bijection(I, O)
  <2> HIDE DEF I, O
  <2>1. b \in [I -> O]
    BY <1>4, <1>5
  <2>2. \A i, j \in I : b[i] = b[j] => i = j
    BY <1>1, <1>5
  <2>3. \A m \in O : \E i \in I : b[i] = m
    BY <1>4, <1>7, <1>8
  <2> HIDE DEF b
  <2> QED BY <2>1, <2>2, <2>3, Fun_IsBij
<1>10. Cardinality(O) = Cardinality(I)
  <2> HIDE DEF I, O, b
  <2> QED BY <1>6, <1>9, FS_Bijection DEF ExistsBijection
<1>11. TrendSummary(s, config) = [samples |-> n, anomalies |-> Cardinality(I)]
  BY DEF TrendSummary
<1> HIDE DEF I, O, n
<1>12. TrendSummary(s, config) = [samples |-> Cardinality(S), anomalies |-> Cardinality(O)]
  BY <1>1, <1>10, <1>11
<1> QED BY <1>12 DEF O

\* An item that was put together from what was read.
LEMMA ItemAgrees ==
    ASSUME NEW S, Sampling(S), NEW s, Chronicle(s, S), NEW name, NEW config, config.window \in Int
    PROVE  ItemIsTrue(Item(name, s, config)) /\ Item(name, s, config).service = name
<1> DEFINE item == Item(name, s, config)
           C == Configured(S)
<1>1. /\ Len(s) \in Nat /\ DOMAIN s = 1 .. Len(s) /\ Range(s) = S /\ Cardinality(S) = Len(s)
      /\ \A i \in 1 .. Len(s) : s[i] \in S
      /\ \A i, j \in 1 .. Len(s) : Earlier(s[i], s[j]) <=> i < j
  BY ChronicleParts
<1>2. /\ item.service = name /\ item.status = OverviewStatus(s) /\ item.read = S
      /\ item.config = config /\ item.trend = TrendSummary(Meaningful(s), config)
  BY <1>1 DEF Item
<1>3. item.trend = [samples |-> Cardinality(C),
                    anomalies |-> Cardinality({m \in C : IsOdd(C, m, config)})]
  <2>1. Sampling(C) /\ Chronicle(Meaningful(s), C)
    BY MeaningfulParts
  <2> HIDE DEF C
  <2> QED BY <1>2, <2>1, TrendAgrees
<1>4. s = <<>> <=> S = {}
  BY EmptyChronicle
<1>5. s # <<>> => /\ Len(s) \in 1 .. Len(s) /\ OverviewStatus(s) = s[Len(s)].source
                  /\ s[Len(s)].source \in Sources
  <2>1. s # <<>> => Len(s) # 0
    <3>1. s \in Seq(S)
      BY DEF Chronicle
    <3> QED BY <3>1, EmptySeq
  <2>2. Len(s) # 0 => Len(s) \in 1 .. Len(s)
    BY <1>1
  <2>3. Len(s) # 0 => s[Len(s)].source \in Sources
    BY <1>1, <2>2, SampleParts
  <2> QED BY <2>1, <2>2, <2>3 DEF OverviewStatus, Last
<1>6. item.status = "not_sampled" <=> S = {}
  BY <1>2, <1>4, <1>5 DEF OverviewStatus, Sources
<1>7. ASSUME NEW m \in S, \A x \in S : x = m \/ Earlier(x, m) PROVE item.status = m.source
  <2>1. PICK i \in 1 .. Len(s) : s[i] = m
    BY DEF Chronicle
  <2>2. s # <<>>
    BY <1>4
  <2>3. Len(s) \in 1 .. Len(s) /\ OverviewStatus(s) = s[Len(s)].source
    BY <1>5, <2>2
  <2>4. s[Len(s)] = m \/ Earlier(s[Len(s)], s[i])
    BY <1>1, <1>7, <2>1, <2>3
  <2>5. s[Len(s)] = m
    BY <1>1, <2>1, <2>3, <2>4
  <2> QED BY <1>2, <2>3, <2>5
<1> HIDE DEF item
<1>8. ItemIsTrue(item)
  BY <1>2, <1>3, <1>6, <1>7 DEF ItemIsTrue, IsOdd
<1> QED BY <1>2, <1>8 DEF item

-----------------------------------------------------------------------------
(* What holds of the monitoring *)

IsConfig(c) == c = [x \in Columns |-> c[x]] /\ c.window \in Int

IsThresholdRow(row) ==
    /\ row = [state |-> row.state, config |-> row.config]
    /\ row.state \in {"absent", "stored", "damaged"} /\ IsConfig(row.config)

\* What a save has found is what is there, unless it knows better; what it has saved is there.
SaveFits(save, rows) ==
    /\ save = SaveAt(save.pc, save.service, save.config, save.found, save.stale)
    /\ save.pc # "unsent" => save.service \in Watched
    /\ IsConfig(save.config) /\ save.stale \in BOOLEAN
    /\ save.pc = "read" /\ ~save.stale => rows[save.service] = save.found
    /\ save.pc = "saved" => rows[save.service] = RowWith(save.config)

RowsAre(rows) == DOMAIN rows = Watched /\ \A s \in Watched : IsThresholdRow(rows[s])
SavesAre(saves, rows) == DOMAIN saves = Saves /\ \A q \in Saves : SaveFits(saves[q], rows)

SamplesAre(samples) == DOMAIN samples = Watched /\ \A s \in Watched : Sampling(samples[s])

ItemNames(o) == {a.service : a \in o.items}
HasItsParts(o) ==
    o = [pc |-> o.pc, todo |-> o.todo, from |-> o.from, to |-> o.to, current |-> o.current,
         items |-> o.items, failed |-> o.failed, listed |-> o.listed]
\* Each service is still to be read, being read, or has its item.
OverviewIs(o) ==
    /\ HasItsParts(o)
    /\ o.todo \subseteq Watched /\ o.todo \cap ItemNames(o) = {}
    /\ o.pc = "thresholds" =>
         /\ o.current[1] \in Watched /\ o.current[1] \notin o.todo \cup ItemNames(o)
         /\ \E S : Sampling(S) /\ Chronicle(o.current[2], S)
    /\ o.listed = ItemNames(o) \cup o.todo \cup (IF o.pc = "thresholds" THEN {o.current[1]} ELSE {})
    /\ o.pc = "done" => o.todo = {}
    /\ o.failed \subseteq ItemNames(o)
    /\ \A a, b \in o.items : a.service = b.service => a = b
    /\ \A a \in o.items : IF a.service \in o.failed THEN a = Degraded(a.service) ELSE ItemIsTrue(a)

MonitorInv ==
    /\ now \in Nat /\ registry \subseteq Watched
    /\ SamplesAre(sampled) /\ RowsAre(settings) /\ SavesAre(saving, settings) /\ OverviewIs(overview)

LEMMA ConfigsAre ==
    /\ IsConfig(DefaultThresholds) /\ \A c \in SavedThresholds : IsConfig(c)
    /\ IsThresholdRow(RowAbsent) /\ IsThresholdRow(RowDamaged)
    /\ \A c : IsConfig(c) => IsThresholdRow(RowWith(c))
<1>1. \A a, b, d, e : d \in Int => IsConfig(Thresholds(a, b, d, e))
  <2> TAKE a, b, d, e
  <2>1. Thresholds(a, b, d, e).window = d
    BY DEF Thresholds
  <2>2. Thresholds(a, b, d, e) = [x \in Columns |-> Thresholds(a, b, d, e)[x]]
    BY DEF Thresholds, Columns
  <2> QED BY <2>1, <2>2 DEF IsConfig
<1>2. IsConfig(DefaultThresholds)
  <2>1. IsConfig(Thresholds(1, 1, 0, TRUE))
    BY <1>1, 0 \in Int
  <2> QED BY <2>1 DEF DefaultThresholds
<1>3. \A c \in SavedThresholds : IsConfig(c)
  <2>1. IsConfig(Thresholds(2, Unset, 1, FALSE)) /\ IsConfig(Thresholds(Unset, 1, 1, TRUE))
    BY <1>1, 1 \in Int
  <2> QED BY <2>1 DEF SavedThresholds
<1>4. IsThresholdRow(RowAbsent) /\ IsThresholdRow(RowDamaged)
  BY <1>2 DEF IsThresholdRow, RowAbsent, RowDamaged
<1>5. \A c : IsConfig(c) => IsThresholdRow(RowWith(c))
  BY DEF IsThresholdRow, RowWith
<1> QED BY <1>2, <1>3, <1>4, <1>5

LEMMA SaveAtParts ==
    ASSUME NEW pc, NEW service, NEW config, NEW found, NEW stale, NEW save,
           save = SaveAt(pc, service, config, found, stale)
    PROVE  /\ save.pc = pc /\ save.service = service /\ save.config = config
           /\ save.found = found /\ save.stale = stale
           /\ save = SaveAt(save.pc, save.service, save.config, save.found, save.stale)
BY DEF SaveAt

LEMMA MonitorInvInit == MonitorInit => MonitorInv
<1> SUFFICES ASSUME MonitorInit PROVE MonitorInv
  OBVIOUS
<1>1. now \in Nat /\ registry \subseteq Watched
  BY DEF MonitorInit
<1>2. SamplesAre(sampled)
  <2>1. Sampling({})
    BY FS_EmptySet DEF Sampling
  <2> QED BY <2>1 DEF MonitorInit, SamplesAre
<1>3. RowsAre(settings)
  <2>1. PICK row \in {RowDamaged} \cup {RowWith(c) : c \in SavedThresholds} :
          settings = [s \in Watched |-> IF s = CHOOSE t \in Watched : TRUE THEN row ELSE RowAbsent]
    BY DEF MonitorInit
  <2>2. IsThresholdRow(row)
    BY ConfigsAre
  <2> QED BY <2>1, <2>2, ConfigsAre DEF RowsAre
<1>4. SavesAre(saving, settings)
  <2>1. ASSUME NEW s PROVE SaveFits(Unsent(s), settings)
    <3>1. /\ Unsent(s).pc = "unsent" /\ Unsent(s).config = DefaultThresholds /\ Unsent(s).stale = FALSE
          /\ Unsent(s) = SaveAt(Unsent(s).pc, Unsent(s).service, Unsent(s).config, Unsent(s).found,
                                Unsent(s).stale)
      <4> DEFINE u == Unsent(s)
      <4>1. u = SaveAt("unsent", s, DefaultThresholds, RowAbsent, FALSE)
        BY DEF Unsent
      <4> HIDE DEF u
      <4>2. /\ u.pc = "unsent" /\ u.config = DefaultThresholds /\ u.stale = FALSE
            /\ u = SaveAt(u.pc, u.service, u.config, u.found, u.stale)
        BY <4>1 DEF SaveAt
      <4> QED BY <4>2 DEF u
    <3> QED BY <3>1, ConfigsAre DEF SaveFits
  <2> QED BY <2>1 DEF MonitorInit, SavesAre
<1>5. OverviewIs(overview)
  BY DEF MonitorInit, NoOverview, OverviewAt, OverviewIs, HasItsParts, ItemNames
<1> QED BY <1>1, <1>2, <1>3, <1>4, <1>5 DEF MonitorInv

\* The steps that leave the overview and the samples alone.
LEMMA ServiceLeavesKeeps ==
    ASSUME MonitorInv, NEW s \in Watched, ServiceLeaves(s)
    PROVE  MonitorInv'
<1>1. UNCHANGED <<now, sampled, settings, saving, overview>> /\ registry' \subseteq Watched
  BY DEF ServiceLeaves, MonitorInv
<1>2. SamplesAre(sampled)' /\ RowsAre(settings)' /\ SavesAre(saving, settings)' /\ OverviewIs(overview)'
  BY <1>1 DEF MonitorInv
<1> QED BY <1>1, <1>2 DEF MonitorInv

LEMMA TickKeeps ==
    ASSUME MonitorInv, Tick
    PROVE  MonitorInv'
<1>1. UNCHANGED <<registry, sampled, settings, saving, overview>> /\ now' \in Nat
  BY DEF Tick, MonitorInv
<1>2. SamplesAre(sampled)' /\ RowsAre(settings)' /\ SavesAre(saving, settings)' /\ OverviewIs(overview)'
  BY <1>1 DEF MonitorInv
<1> QED BY <1>1, <1>2 DEF MonitorInv

\* A save that is neither read nor saved asks nothing of the rows.
LEMMA SavesElsewhere ==
    ASSUME NEW save, NEW rows, NEW others, SaveFits(save, rows),
           save.pc \in {"read", "saved"} => others[save.service] = rows[save.service]
    PROVE  SaveFits(save, others)
BY DEF SaveFits

\* A save moves on or is overtaken.
LEMMA SaveMoves ==
    ASSUME NEW save, NEW rows, SaveFits(save, rows), NEW others
    PROVE  /\ save.pc # "unsent" =>
                \A pc \in {"failed", "mixed", "replaced"} : SaveFits([save EXCEPT !.pc = pc], others)
           /\ save.pc = "read" => SaveFits([save EXCEPT !.stale = TRUE], others)
<1>1. save = [pc |-> save.pc, service |-> save.service, config |-> save.config,
              found |-> save.found, stale |-> save.stale]
  BY DEF SaveFits, SaveAt
<1>2. ASSUME save.pc # "unsent", NEW pc \in {"failed", "mixed", "replaced"}
      PROVE  SaveFits([save EXCEPT !.pc = pc], others)
  <2> DEFINE new == [save EXCEPT !.pc = pc]
  <2>1. /\ new = [pc |-> pc, service |-> save.service, config |-> save.config,
                  found |-> save.found, stale |-> save.stale]
        /\ new.pc = pc /\ new.service = save.service /\ new.config = save.config
        /\ new.found = save.found /\ new.stale = save.stale
    BY <1>1
  <2> HIDE DEF new
  <2>2. new = SaveAt(new.pc, new.service, new.config, new.found, new.stale)
    BY <2>1 DEF SaveAt
  <2>3. pc # "unsent" /\ pc # "read" /\ pc # "saved"
    BY <1>2
  <2>4. new.service \in Watched /\ IsConfig(new.config) /\ new.stale \in BOOLEAN
    BY <1>2, <2>1 DEF SaveFits
  <2>5. SaveFits(new, others)
    BY <2>1, <2>2, <2>3, <2>4 DEF SaveFits
  <2> QED BY <2>5 DEF new
<1>3. ASSUME save.pc = "read" PROVE SaveFits([save EXCEPT !.stale = TRUE], others)
  <2> DEFINE new == [save EXCEPT !.stale = TRUE]
  <2>0. new = [pc |-> save.pc, service |-> save.service, config |-> save.config,
               found |-> save.found, stale |-> TRUE]
    <3>1. \A x : [save EXCEPT !.stale = x] = [pc |-> save.pc, service |-> save.service,
                  config |-> save.config, found |-> save.found, stale |-> x]
      BY <1>1
    <3> QED BY <3>1
  <2> HIDE DEF new
  <2>1. /\ new.pc = "read" /\ new.service = save.service /\ new.config = save.config
        /\ new.found = save.found /\ new.stale = TRUE
    BY <2>0, <1>3
  <2>2. new = SaveAt(new.pc, new.service, new.config, new.found, new.stale)
    BY <2>0, <2>1, <1>3 DEF SaveAt
  <2>3. new.service \in Watched /\ IsConfig(new.config)
    BY <1>3, <2>1 DEF SaveFits
  <2>4. SaveFits(new, others)
    BY <2>1, <2>2, <2>3 DEF SaveFits
  <2> QED BY <2>4 DEF new
<1> QED BY <1>2, <1>3

LEMMA RowIsDamagedKeeps ==
    ASSUME MonitorInv, NEW s \in Watched, RowIsDamaged(s)
    PROVE  MonitorInv'
<1>1. UNCHANGED <<now, registry, sampled, overview>>
  BY DEF RowIsDamaged
<1>2. settings' = [settings EXCEPT ![s] = RowDamaged] /\ DOMAIN settings = Watched
  BY DEF RowIsDamaged, MonitorInv, RowsAre
<1>3. /\ RowsAre(settings)'
      /\ \A t \in Watched : t # s => settings'[t] = settings[t]
  BY <1>2, ConfigsAre DEF MonitorInv, RowsAre
<1>4. \A p \in Saves : ~(saving[p].pc = "read" /\ saving[p].service = s)
  BY MonitorAssumption DEF RowIsDamaged, Others
<1>5. SavesAre(saving, settings)'
  <2>1. saving' = [p \in Saves |-> IF saving[p].service = s /\ saving[p].pc \in {"saved", "mixed"}
                                    THEN [saving[p] EXCEPT !.pc = "replaced"] ELSE saving[p]]
    BY DEF RowIsDamaged
  <2>2. ASSUME NEW p \in Saves PROVE SaveFits(saving'[p], settings')
    <3>1. SaveFits(saving[p], settings)
      BY DEF MonitorInv, SavesAre
    <3>2. CASE saving[p].service = s /\ saving[p].pc \in {"saved", "mixed"}
      <4>1. saving'[p] = [saving[p] EXCEPT !.pc = "replaced"] /\ saving[p].pc # "unsent"
        BY <2>1, <3>2
      <4>2. SaveFits([saving[p] EXCEPT !.pc = "replaced"], settings')
        BY <3>1, <4>1, SaveMoves, "replaced" \in {"failed", "mixed", "replaced"}
      <4> QED BY <4>1, <4>2
    <3>3. CASE ~(saving[p].service = s /\ saving[p].pc \in {"saved", "mixed"})
      <4>1. saving'[p] = saving[p]
        BY <2>1, <3>3
      <4>2. saving[p].pc \in {"read", "saved"} => saving[p].service \in Watched /\ saving[p].service # s
        BY <1>4, <3>1, <3>3 DEF SaveFits
      <4> QED BY <1>3, <3>1, <4>1, <4>2, SavesElsewhere
    <3> QED BY <3>2, <3>3
  <2> QED BY <2>1, <2>2 DEF SavesAre
<1>6. SamplesAre(sampled)' /\ OverviewIs(overview)' /\ now' \in Nat /\ registry' \subseteq Watched
  BY <1>1 DEF MonitorInv
<1> QED BY <1>3, <1>5, <1>6 DEF MonitorInv

LEMMA SaveReadsKeeps ==
    ASSUME MonitorInv, NEW q \in Saves, NEW s \in Watched, NEW config \in SavedThresholds,
           SaveReads(q, s, config)
    PROVE  MonitorInv'
<1>1. UNCHANGED <<now, registry, sampled, settings, overview>>
  BY DEF SaveReads
<1>2. DOMAIN saving = Saves
  BY DEF MonitorInv, SavesAre
<1> DEFINE new == IF s \notin registry THEN SaveAt("not_found", s, config, RowAbsent, FALSE)
                  ELSE SaveAt("read", s, config, settings[s], FALSE)
<1>3. saving' = [saving EXCEPT ![q] = new]
  BY DEF SaveReads
<1>4. IsConfig(config)
  BY ConfigsAre
<1>5. SaveFits(new, settings)
  <2>1. CASE s \notin registry
    <3>1. new = SaveAt("not_found", s, config, RowAbsent, FALSE)
      BY <2>1
    <3> HIDE DEF new
    <3>2. /\ new.pc = "not_found" /\ new.service = s /\ new.config = config /\ new.stale = FALSE
          /\ new = SaveAt(new.pc, new.service, new.config, new.found, new.stale)
      BY <3>1 DEF SaveAt
    <3> QED BY <1>4, <3>2 DEF SaveFits
  <2>2. CASE s \in registry
    <3>1. new = SaveAt("read", s, config, settings[s], FALSE)
      BY <2>2
    <3> HIDE DEF new
    <3>2. /\ new.pc = "read" /\ new.service = s /\ new.config = config /\ new.stale = FALSE
          /\ new.found = settings[s]
          /\ new = SaveAt(new.pc, new.service, new.config, new.found, new.stale)
      BY <3>1 DEF SaveAt
    <3> QED BY <1>4, <3>2 DEF SaveFits
  <2> QED BY <2>1, <2>2
<1> HIDE DEF new
<1>6. SavesAre(saving, settings)'
  <2>1. \A p \in Saves : SaveFits(saving[p], settings)
    BY DEF MonitorInv, SavesAre
  <2>2. DOMAIN saving' = Saves /\ \A p \in Saves : SaveFits(saving'[p], settings)
    BY <1>2, <1>3, <1>5, <2>1
  <2> QED BY <1>1, <2>2 DEF SavesAre
<1>7. /\ SamplesAre(sampled)' /\ OverviewIs(overview)' /\ RowsAre(settings)'
      /\ now' \in Nat /\ registry' \subseteq Watched
  BY <1>1 DEF MonitorInv
<1> QED BY <1>6, <1>7 DEF MonitorInv

\* What a save writes is a threshold, and what was asked for where nobody came between.
LEMMA WrittenParts ==
    ASSUME NEW save, NEW row, IsConfig(save.config), IsThresholdRow(row)
    PROVE  IsConfig(Written(save, row)) /\ (row = save.found => Written(save, row) = save.config)
<1> DEFINE w == Written(save, row)
           v(c) == IF save.found.state = "absent" \/ save.config[c] # save.found.config[c]
                     THEN save.config[c] ELSE row.config[c]
<1>1. w = [c \in Columns |-> v(c)]
  BY DEF Written
<1>2. "window" \in Columns
  BY DEF Columns
<1>3. save.config.window \in Int /\ row.config.window \in Int
  BY DEF IsConfig, IsThresholdRow
<1>4. save.config = [c \in Columns |-> save.config[c]]
  BY DEF IsConfig
<1>5. v("window") \in Int
  BY <1>3
<1>6. row = save.found => \A c \in Columns : v(c) = save.config[c]
  OBVIOUS
<1> HIDE DEF v
<1>7. w = [c \in Columns |-> w[c]] /\ w.window \in Int
  BY <1>1, <1>2, <1>5
<1>8. row = save.found => w = save.config
  <2> SUFFICES ASSUME row = save.found PROVE w = save.config
    OBVIOUS
  <2>1. w = [c \in Columns |-> save.config[c]]
    BY <1>1, <1>6
  <2> HIDE DEF w
  <2> QED BY <1>4, <2>1
<1> QED BY <1>7, <1>8 DEF IsConfig

LEMMA SaveCommitsKeeps ==
    ASSUME MonitorInv, NEW q \in Saves, SaveCommits(q)
    PROVE  MonitorInv'
<1> DEFINE save == saving[q]
           s == save.service
<1>1. /\ UNCHANGED <<now, registry, sampled, overview>> /\ save.pc = "read"
      /\ IF save.found.state = "absent" /\ settings[s].state # "absent"
           THEN saving' = [saving EXCEPT ![q].pc = "failed"] /\ UNCHANGED settings
           ELSE /\ settings' = [settings EXCEPT ![s] = RowWith(Written(save, settings[s]))]
                /\ saving' = [p \in Saves |->
                     IF p = q THEN [save EXCEPT !.pc = IF save.stale THEN "mixed" ELSE "saved"]
                     ELSE IF p \in Others(q, s) THEN [saving[p] EXCEPT !.stale = TRUE]
                     ELSE IF saving[p].service = s /\ saving[p].pc \in {"saved", "mixed"}
                       THEN [saving[p] EXCEPT !.pc = "replaced"]
                     ELSE saving[p]]
  BY DEF SaveCommits, MonitorInv, RowsAre
<1>2. DOMAIN saving = Saves /\ \A p \in Saves : SaveFits(saving[p], settings)
  BY DEF MonitorInv, SavesAre
<1>3. SaveFits(save, settings) /\ s \in Watched /\ IsConfig(save.config)
  BY <1>1, <1>2 DEF SaveFits
<1>4. DOMAIN settings = Watched /\ \A t \in Watched : IsThresholdRow(settings[t])
  BY DEF MonitorInv, RowsAre
<1>5. SamplesAre(sampled)' /\ OverviewIs(overview)' /\ now' \in Nat /\ registry' \subseteq Watched
  BY <1>1 DEF MonitorInv
<1> HIDE DEF save, s
<1>6. CASE save.found.state = "absent" /\ settings[s].state # "absent"
  <2>1. saving' = [saving EXCEPT ![q] = [save EXCEPT !.pc = "failed"]] /\ settings' = settings
    BY <1>1, <1>6 DEF save
  <2>2. SaveFits([save EXCEPT !.pc = "failed"], settings)
    BY <1>1, <1>3, SaveMoves, "failed" \in {"failed", "mixed", "replaced"}
  <2>3. DOMAIN saving' = Saves /\ \A p \in Saves : SaveFits(saving'[p], settings')
    BY <1>2, <2>1, <2>2
  <2>4. SavesAre(saving, settings)' /\ RowsAre(settings)'
    BY <1>4, <2>1, <2>3 DEF SavesAre, RowsAre
  <2> QED BY <1>5, <2>4 DEF MonitorInv
<1>7. CASE ~(save.found.state = "absent" /\ settings[s].state # "absent")
  <2> DEFINE row == RowWith(Written(save, settings[s]))
             won == [save EXCEPT !.pc = IF save.stale THEN "mixed" ELSE "saved"]
  <2>1. /\ settings' = [settings EXCEPT ![s] = row]
        /\ saving' = [p \in Saves |->
             IF p = q THEN won
             ELSE IF p \in Others(q, s) THEN [saving[p] EXCEPT !.stale = TRUE]
             ELSE IF saving[p].service = s /\ saving[p].pc \in {"saved", "mixed"}
               THEN [saving[p] EXCEPT !.pc = "replaced"]
             ELSE saving[p]]
    BY <1>1, <1>7
  <2>2. /\ IsConfig(Written(save, settings[s])) /\ IsThresholdRow(settings[s])
        /\ settings[s] = save.found => Written(save, settings[s]) = save.config
    BY <1>3, <1>4, WrittenParts
  <2>3. IsThresholdRow(row)
    BY <2>2, ConfigsAre
  <2> HIDE DEF row, won
  <2>4. /\ RowsAre(settings)' /\ settings'[s] = row
        /\ \A t \in Watched : t # s => settings'[t] = settings[t]
    BY <1>3, <1>4, <2>1, <2>3 DEF RowsAre
  <2>5. SaveFits(won, settings')
    <3>1. CASE save.stale
      <4>1. won = [save EXCEPT !.pc = "mixed"]
        BY <3>1 DEF won
      <4> QED BY <1>1, <1>3, <4>1, SaveMoves, "mixed" \in {"failed", "mixed", "replaced"}
    <3>2. CASE ~save.stale
      <4>1. save = [pc |-> save.pc, service |-> save.service, config |-> save.config,
                    found |-> save.found, stale |-> save.stale]
        BY <1>3 DEF SaveFits, SaveAt
      <4>2. won = [pc |-> "saved", service |-> save.service, config |-> save.config,
                   found |-> save.found, stale |-> save.stale]
        BY <3>2, <4>1 DEF won
      <4>3. /\ won.pc = "saved" /\ won.service = s /\ won.config = save.config
            /\ won.found = save.found /\ won.stale = save.stale
        BY <4>2 DEF s
      <4>4. won = SaveAt(won.pc, won.service, won.config, won.found, won.stale)
        BY <4>2, <4>3 DEF SaveAt, s
      <4>5. settings[s] = save.found
        BY <1>1, <1>3, <3>2 DEF SaveFits, s
      <4>6. settings'[s] = RowWith(won.config)
        BY <2>2, <2>4, <4>3, <4>5 DEF row
      <4>7. won.stale \in BOOLEAN
        BY <1>3, <4>3 DEF SaveFits
      <4> QED BY <1>3, <4>3, <4>4, <4>6, <4>7 DEF SaveFits
    <3>3. save.stale \in BOOLEAN
      BY <1>3 DEF SaveFits
    <3> QED BY <3>1, <3>2
  <2>6. ASSUME NEW p \in Saves, p # q PROVE SaveFits(saving'[p], settings')
    <3>1. SaveFits(saving[p], settings)
      BY <1>2
    <3>2. CASE p \in Others(q, s)
      <4>1. saving'[p] = [saving[p] EXCEPT !.stale = TRUE] /\ saving[p].pc = "read"
        BY <2>1, <2>6, <3>2 DEF Others
      <4> QED BY <3>1, <4>1, SaveMoves
    <3>3. CASE p \notin Others(q, s) /\ saving[p].service = s /\ saving[p].pc \in {"saved", "mixed"}
      <4>1. saving'[p] = [saving[p] EXCEPT !.pc = "replaced"] /\ saving[p].pc # "unsent"
        BY <2>1, <2>6, <3>3
      <4>2. SaveFits([saving[p] EXCEPT !.pc = "replaced"], settings')
        BY <3>1, <4>1, SaveMoves, "replaced" \in {"failed", "mixed", "replaced"}
      <4> QED BY <4>1, <4>2
    <3>4. CASE p \notin Others(q, s) /\ ~(saving[p].service = s /\ saving[p].pc \in {"saved", "mixed"})
      <4>1. saving'[p] = saving[p]
        BY <2>1, <2>6, <3>4
      <4>2. saving[p].pc = "read" => saving[p].service # s
        BY <2>6, <3>4 DEF Others
      <4>3. saving[p].pc = "saved" => saving[p].service # s
        BY <3>4
      <4>4. saving[p].pc \in {"read", "saved"} => saving[p].service \in Watched
        BY <3>1 DEF SaveFits
      <4>5. saving[p].pc \in {"read", "saved"} => settings'[saving[p].service] = settings[saving[p].service]
        BY <2>4, <4>2, <4>3, <4>4
      <4> QED BY <3>1, <4>1, <4>5, SavesElsewhere
    <3> QED BY <3>2, <3>3, <3>4
  <2>7. DOMAIN saving' = Saves /\ \A p \in Saves : SaveFits(saving'[p], settings')
    <3>1. saving'[q] = won /\ DOMAIN saving' = Saves
      BY <2>1
    <3> QED BY <2>5, <2>6, <3>1
  <2>8. SavesAre(saving, settings)'
    BY <2>7 DEF SavesAre
  <2> QED BY <1>5, <2>4, <2>8 DEF MonitorInv
<1> QED BY <1>6, <1>7

\* The values of a function with a finite domain are finitely many.
LEMMA ValuesAreFinite ==
    ASSUME NEW S, IsFiniteSet(S), NEW f, f = [x \in S |-> f[x]]
    PROVE  IsFiniteSet({f[x] : x \in S})
<1> DEFINE T == {f[x] : x \in S}
<1>1. f \in [S -> T] /\ \A t \in T : \E x \in S : f[x] = t
  OBVIOUS
<1> HIDE DEF T
<1>2. f \in Surjection(S, T)
  BY <1>1, Fun_IsSurj
<1>3. IsFiniteSet(T)
  BY <1>2, FS_Surjection
<1> QED BY <1>3 DEF T

\* The samples of all services together are finitely many, so that there is a next identifier.
LEMMA NextIdIsNew ==
    ASSUME SamplesAre(sampled)
    PROVE  NextId \in Nat /\ \A s \in Watched : \A m \in sampled[s] : m.id < NextId
<1> DEFINE I == {m.id : m \in AllSamples}
<1>1. \A s \in Watched : Sampling(sampled[s])
  BY DEF SamplesAre
<1>2. IsFiniteSet(AllSamples)
  <2> DEFINE T == {sampled[s] : s \in Watched}
  <2>1. IsFiniteSet(T)
    <3> DEFINE f == [s \in Watched |-> sampled[s]]
    <3>1. T = {f[s] : s \in Watched} /\ f = [s \in Watched |-> f[s]]
      OBVIOUS
    <3> HIDE DEF f, T
    <3>2. IsFiniteSet({f[s] : s \in Watched})
      BY <3>1, MonitorAssumption, ValuesAreFinite
    <3> QED BY <3>1, <3>2
  <2>2. \A t \in T : IsFiniteSet(t)
    BY <1>1 DEF Sampling
  <2> HIDE DEF T
  <2>3. IsFiniteSet(UNION T)
    BY <2>1, <2>2, FS_UNION
  <2> QED BY <2>3 DEF T, AllSamples
<1>3. \A m \in AllSamples : m.id \in Nat
  BY <1>1 DEF AllSamples, Sampling, Samples
<1>4. IsFiniteSet(I) /\ \A i \in I : i \in Nat
  <2> DEFINE f == [m \in AllSamples |-> m.id]
  <2>1. I = {f[m] : m \in AllSamples} /\ f = [m \in AllSamples |-> f[m]]
    OBVIOUS
  <2>2. \A i \in I : i \in Nat
    BY <1>3
  <2> HIDE DEF f, I
  <2>3. IsFiniteSet({f[m] : m \in AllSamples})
    BY <1>2, <2>1, ValuesAreFinite
  <2> QED BY <2>1, <2>2, <2>3
<1>5. CASE AllSamples = {}
  BY <1>5 DEF NextId, AllSamples
<1>6. CASE AllSamples # {}
  <2>1. I # {}
    BY <1>6
  <2>2. NextId = 1 + Max(I)
    BY <1>6 DEF NextId
  <2> HIDE DEF I
  <2>3. \A x, y \in I : <<x, y>> \in NumberOrder(I) <=> x < y
    BY DEF NumberOrder
  <2>4. StrictOrder(I, NumberOrder(I))
    BY <1>4, <2>3 DEF StrictOrder
  <2>5. Cardinality(I) \in Nat /\ Cardinality(I) # 0
    BY <1>4, <2>1, FS_CardinalityType, FS_EmptySet
  <2>6. Cardinality(I) - 1 \in 0 .. (Cardinality(I) - 1)
    BY <2>5
  <2>7. PICK x \in I : Rank(I, NumberOrder(I), x) = Cardinality(I) - 1
    BY <1>4, <2>4, <2>6, RankParts
  <2>8. \A y \in I : x >= y
    <3> SUFFICES ASSUME NEW y \in I, x < y PROVE FALSE
      BY <1>4
    <3>1. Rank(I, NumberOrder(I), x) < Rank(I, NumberOrder(I), y)
      BY <1>4, <2>3, <2>4, RankParts
    <3>2. Rank(I, NumberOrder(I), y) \in 0 .. (Cardinality(I) - 1)
      BY <1>4, <2>4, RankParts
    <3> QED BY <2>5, <2>7, <3>1, <3>2
  <2>9. Max(I) \in I /\ \A y \in I : Max(I) >= y
    BY <2>8 DEF Max
  <2>10. NextId \in Nat /\ \A y \in I : y < NextId
    BY <1>4, <2>2, <2>9
  <2>11. \A s \in Watched : \A m \in sampled[s] : m.id \in I
    BY DEF I, AllSamples
  <2> QED BY <2>10, <2>11
<1> QED BY <1>5, <1>6

LEMMA SampledKeeps ==
    ASSUME MonitorInv, NEW s \in Watched, Sampled(s)
    PROVE  MonitorInv'
<1>1. UNCHANGED <<now, registry, settings, saving, overview>>
  BY DEF Sampled
<1>2. PICK shape \in Shapes :
        sampled' = [sampled EXCEPT ![s] = @ \cup
          {[id |-> NextId, at |-> now, slow |-> shape.slow, timeout |-> shape.timeout,
            up |-> shape.up, source |-> shape.source]}]
  BY DEF Sampled
<1> DEFINE new == [id |-> NextId, at |-> now, slow |-> shape.slow, timeout |-> shape.timeout,
                   up |-> shape.up, source |-> shape.source]
<1>3. NextId \in Nat /\ \A m \in sampled[s] : m.id < NextId
  BY NextIdIsNew DEF MonitorInv
<1>4. /\ shape.slow \in Nat \cup {NoCount} /\ shape.timeout \in Nat \cup {NoCount}
      /\ shape.up \in BOOLEAN /\ shape.source \in Sources
  <2>1. Shapes \subseteq [slow : {0, 1, NoCount}, timeout : {0, 1, NoCount}, up : BOOLEAN, source : Sources]
    BY DEF Shapes, Sources
  <2>2. \A n \in {0, 1, NoCount} : n \in Nat \cup {NoCount}
    OBVIOUS
  <2> QED BY <2>1, <2>2
<1>5. new \in Samples /\ new.id = NextId
  BY <1>3, <1>4 DEF Samples, MonitorInv
<1> HIDE DEF new
<1>6. DOMAIN sampled = Watched /\ \A t \in Watched : Sampling(sampled[t])
  BY DEF MonitorInv, SamplesAre
<1>7. Sampling(sampled[s] \cup {new})
  <2> DEFINE S == sampled[s]
  <2>1. S \subseteq Samples /\ IsFiniteSet(S) /\ \A a, b \in S : a.id = b.id => a = b
    BY <1>6 DEF Sampling
  <2>2. \A a \in S : a.id < NextId /\ a.id \in Nat
    BY <1>3, <2>1 DEF Samples
  <2>3. IsFiniteSet(S \cup {new})
    BY <2>1, FS_AddElement
  <2>4. \A a, b \in S \cup {new} : a.id = b.id => a = b
    BY <1>3, <1>5, <2>1, <2>2
  <2> QED BY <1>5, <2>1, <2>3, <2>4 DEF Sampling
<1>8. sampled' = [sampled EXCEPT ![s] = @ \cup {new}]
  BY <1>2 DEF new
<1>9. SamplesAre(sampled)'
  BY <1>6, <1>7, <1>8 DEF SamplesAre
<1>10. /\ SavesAre(saving, settings)' /\ OverviewIs(overview)' /\ RowsAre(settings)'
       /\ now' \in Nat /\ registry' \subseteq Watched
  BY <1>1 DEF MonitorInv
<1> QED BY <1>9, <1>10 DEF MonitorInv

LEMMA PruneKeeps ==
    ASSUME MonitorInv, Prune
    PROVE  MonitorInv'
<1>1. /\ UNCHANGED <<now, registry, settings, saving, overview>>
      /\ sampled' = [s \in Watched |-> {m \in sampled[s] : m.at >= now - Retention}]
  BY DEF Prune
<1>2. \A s \in Watched : Sampling(sampled'[s])
  <2> TAKE s \in Watched
  <2>1. Sampling(sampled[s]) /\ sampled'[s] \in SUBSET sampled[s]
    BY <1>1 DEF MonitorInv, SamplesAre
  <2> QED BY <2>1, SamplingLess
<1>3. SamplesAre(sampled)'
  BY <1>1, <1>2 DEF SamplesAre
<1>4. /\ SavesAre(saving, settings)' /\ OverviewIs(overview)' /\ RowsAre(settings)'
      /\ now' \in Nat /\ registry' \subseteq Watched
  BY <1>1 DEF MonitorInv
<1> QED BY <1>3, <1>4 DEF MonitorInv

-----------------------------------------------------------------------------
(* The overview, service by service *)

LEMMA OverviewStartsKeeps ==
    ASSUME MonitorInv, OverviewStarts
    PROVE  MonitorInv'
<1>1. UNCHANGED <<now, registry, sampled, settings, saving>>
  BY DEF OverviewStarts
<1> DEFINE o == OverviewAt("reading", registry, now - Retention, now)
<1>2. overview' = o
  BY DEF OverviewStarts
<1>3. o = [pc |-> "reading", todo |-> registry, from |-> now - Retention, to |-> now,
           current |-> <<>>, items |-> {}, failed |-> {}, listed |-> registry]
  BY DEF OverviewAt
<1> HIDE DEF o
<1>4. /\ o.pc = "reading" /\ o.todo = registry /\ o.items = {} /\ o.failed = {} /\ o.listed = registry
      /\ HasItsParts(o)
  BY <1>3 DEF HasItsParts
<1>5. registry \subseteq Watched /\ ItemNames(o) = {}
  BY <1>4 DEF MonitorInv, ItemNames
<1>6. OverviewIs(o)
  BY <1>4, <1>5 DEF OverviewIs
<1>7. /\ SamplesAre(sampled)' /\ SavesAre(saving, settings)' /\ RowsAre(settings)'
      /\ now' \in Nat /\ registry' \subseteq Watched
  BY <1>1 DEF MonitorInv
<1> QED BY <1>2, <1>6, <1>7 DEF MonitorInv

LEMMA OverviewReadsSamplesKeeps ==
    ASSUME MonitorInv, OverviewReadsSamples
    PROVE  MonitorInv'
<1> DEFINE s == CHOOSE t \in overview.todo : TRUE
           read == Between(sampled[s], overview.from, overview.to)
           o == [pc |-> "thresholds", todo |-> overview.todo \ {s}, from |-> overview.from,
                 to |-> overview.to, current |-> <<s, read>>, items |-> overview.items,
                 failed |-> overview.failed, listed |-> overview.listed]
<1>1. UNCHANGED <<now, registry, sampled, settings, saving>>
  BY DEF OverviewReadsSamples
<1>2. OverviewIs(overview) /\ overview.pc = "reading" /\ s \in overview.todo
  BY DEF OverviewReadsSamples, MonitorInv
<1>3. overview' = [overview EXCEPT !.pc = "thresholds", !.todo = overview.todo \ {s},
                                   !.current = <<s, read>>]
  BY DEF OverviewReadsSamples
<1> HIDE DEF s, read
<1>4. overview' = o
  <2>1. HasItsParts(overview)
    BY <1>2 DEF OverviewIs
  <2> QED BY <1>3, <2>1 DEF HasItsParts
<1>5. s \in Watched /\ Sampling(sampled[s])
  BY <1>2 DEF OverviewIs, MonitorInv, SamplesAre
<1>6. \E S : Sampling(S) /\ Chronicle(read, S)
  BY <1>5, BetweenParts DEF read
<1>7. /\ o.pc = "thresholds" /\ o.todo = overview.todo \ {s} /\ o.current = <<s, read>>
      /\ o.items = overview.items /\ o.failed = overview.failed /\ o.listed = overview.listed
      /\ HasItsParts(o)
  BY DEF HasItsParts
<1> HIDE DEF o
<1>8. o.current[1] = s /\ o.current[2] = read /\ ItemNames(o) = ItemNames(overview)
  BY <1>7 DEF ItemNames
<1>9. /\ o.todo \subseteq Watched /\ o.todo \cap ItemNames(o) = {}
      /\ o.listed = ItemNames(o) \cup o.todo \cup {s} /\ s \notin o.todo \cup ItemNames(o)
      /\ o.failed \subseteq ItemNames(o)
  BY <1>2, <1>7, <1>8 DEF OverviewIs
<1>10. /\ \A a, b \in o.items : a.service = b.service => a = b
       /\ \A a \in o.items : IF a.service \in o.failed THEN a = Degraded(a.service) ELSE ItemIsTrue(a)
  BY <1>2, <1>7 DEF OverviewIs
<1>11. OverviewIs(o)
  BY <1>5, <1>6, <1>7, <1>8, <1>9, <1>10 DEF OverviewIs
<1>12. /\ SamplesAre(sampled)' /\ SavesAre(saving, settings)' /\ RowsAre(settings)'
       /\ now' \in Nat /\ registry' \subseteq Watched
  BY <1>1 DEF MonitorInv
<1> QED BY <1>4, <1>11, <1>12 DEF MonitorInv

WithItem(p, o, item, failed) ==
    p = [o EXCEPT !.pc = IF o.todo = {} THEN "done" ELSE "reading", !.current = <<>>,
                  !.failed = failed, !.items = o.items \cup {item}]

NewItemFits(item, o, failed) ==
    /\ item.service = o.current[1]
    /\ failed \in {o.failed, o.failed \cup {o.current[1]}}
    /\ IF failed = o.failed THEN ItemIsTrue(item) ELSE item = Degraded(o.current[1])

\* The service that is being read gets its item, and the next one is turned to.
LEMMA ItemIsAdded ==
    ASSUME NEW o, OverviewIs(o), o.pc = "thresholds",
           NEW item, NEW failed, NewItemFits(item, o, failed), NEW p, WithItem(p, o, item, failed)
    PROVE  OverviewIs(p)
<1> DEFINE s == o.current[1]
<1>0. /\ item.service = o.current[1] /\ failed \in {o.failed, o.failed \cup {o.current[1]}}
      /\ IF failed = o.failed THEN ItemIsTrue(item) ELSE item = Degraded(o.current[1])
  BY DEF NewItemFits
<1>1. /\ o.todo \subseteq Watched /\ o.todo \cap ItemNames(o) = {} /\ s \notin o.todo \cup ItemNames(o)
      /\ o.listed = ItemNames(o) \cup o.todo \cup {s} /\ o.failed \subseteq ItemNames(o)
      /\ \A a, b \in o.items : a.service = b.service => a = b
      /\ \A a \in o.items : IF a.service \in o.failed THEN a = Degraded(a.service) ELSE ItemIsTrue(a)
  BY DEF OverviewIs
<1>2. p = [pc |-> IF o.todo = {} THEN "done" ELSE "reading", todo |-> o.todo, from |-> o.from,
           to |-> o.to, current |-> <<>>, items |-> o.items \cup {item}, failed |-> failed,
           listed |-> o.listed]
  BY DEF OverviewIs, HasItsParts, WithItem
<1>3. /\ p.pc = (IF o.todo = {} THEN "done" ELSE "reading") /\ p.todo = o.todo
      /\ p.items = o.items \cup {item} /\ p.failed = failed /\ p.listed = o.listed
      /\ HasItsParts(p)
  BY <1>2 DEF HasItsParts
<1> HIDE DEF s
<1>4. p.pc # "thresholds" /\ (p.pc = "done" => p.todo = {})
  BY <1>3
<1>5. ItemNames(p) = ItemNames(o) \cup {s}
  <2>1. p.items = o.items \cup {item} /\ item.service = s
    BY <1>0, <1>3 DEF s
  <2> QED BY <2>1 DEF ItemNames
<1>6. /\ p.todo \subseteq Watched /\ p.todo \cap ItemNames(p) = {}
      /\ p.listed = ItemNames(p) \cup p.todo
      /\ p.failed \subseteq ItemNames(p)
  <2>1. p.failed \subseteq ItemNames(p)
    BY <1>0, <1>1, <1>3, <1>5 DEF s
  <2>2. p.todo \subseteq Watched /\ p.todo \cap ItemNames(p) = {}
    <3>1. p.todo = o.todo
      BY <1>3
    <3>2. o.todo \cap ItemNames(o) = {} /\ s \notin o.todo /\ o.todo \subseteq Watched
      BY <1>1
    <3> QED BY <1>5, <3>1, <3>2
  <2>3. p.listed = ItemNames(p) \cup p.todo
    BY <1>1, <1>3, <1>5
  <2> QED BY <2>1, <2>2, <2>3
<1>7. \A a \in o.items : a.service \in ItemNames(o) /\ a.service # s
  BY <1>1 DEF ItemNames
<1>8. \A a, b \in p.items : a.service = b.service => a = b
  BY <1>0, <1>1, <1>3, <1>7 DEF s
<1>9. \A a \in p.items : IF a.service \in p.failed THEN a = Degraded(a.service) ELSE ItemIsTrue(a)
  <2> TAKE a \in p.items
  <2>1. CASE a \in o.items
    <3>1. a.service \in p.failed <=> a.service \in o.failed
      BY <1>0, <1>3, <1>7, <2>1 DEF s
    <3> QED BY <1>1, <2>1, <3>1
  <2>2. CASE a = item
    <3>1. a.service = s
      BY <1>0, <2>2 DEF s
    <3>2. s \notin o.failed
      BY <1>1
    <3>3. CASE failed = o.failed
      BY <1>0, <1>3, <2>2, <3>1, <3>2, <3>3
    <3>4. CASE failed # o.failed
      <4>1. failed = o.failed \cup {s} /\ item = Degraded(s)
        BY <1>0, <3>4 DEF s
      <4> QED BY <1>3, <2>2, <3>1, <4>1
    <3> QED BY <3>3, <3>4
  <2> QED BY <1>3, <2>1, <2>2
<1> QED BY <1>3, <1>4, <1>6, <1>8, <1>9 DEF OverviewIs

LEMMA OverviewReadsThresholdsKeeps ==
    ASSUME MonitorInv, OverviewReadsThresholds
    PROVE  MonitorInv'
<1> DEFINE s == overview.current[1]
           read == overview.current[2]
           config == Effective(settings[s])
           item == Item(s, read, config)
<1>1. UNCHANGED <<now, registry, sampled, settings, saving>>
  BY DEF OverviewReadsThresholds
<1>2. OverviewIs(overview) /\ overview.pc = "thresholds"
  BY DEF OverviewReadsThresholds, MonitorInv
<1>3. s \in Watched /\ \E S : Sampling(S) /\ Chronicle(read, S)
  BY <1>2 DEF OverviewIs
<1>4. config.window \in Int
  <2>1. IsThresholdRow(settings[s])
    BY <1>3 DEF MonitorInv, RowsAre
  <2>2. IsConfig(DefaultThresholds)
    BY ConfigsAre
  <2> QED BY <2>1, <2>2 DEF IsThresholdRow, IsConfig, Effective
<1>5. overview' = [overview EXCEPT !.pc = IF overview.todo = {} THEN "done" ELSE "reading",
                     !.current = <<>>, !.items = overview.items \cup {item}]
  BY DEF OverviewReadsThresholds
<1> HIDE DEF s, read, config
<1>6. ItemIsTrue(item) /\ item.service = s
  <2>1. PICK S : Sampling(S) /\ Chronicle(read, S)
    BY <1>3
  <2> QED BY <1>4, <2>1, ItemAgrees
<1> HIDE DEF item
<1>7. WithItem(overview', overview, item, overview.failed)
  <2>1. HasItsParts(overview)
    BY <1>2 DEF OverviewIs
  <2> QED BY <1>5, <2>1 DEF HasItsParts, WithItem
<1>8. OverviewIs(overview')
  <2>1. NewItemFits(item, overview, overview.failed)
    BY <1>6 DEF NewItemFits, s
  <2> QED BY <1>2, <1>7, <2>1, ItemIsAdded
<1>9. /\ SamplesAre(sampled)' /\ SavesAre(saving, settings)' /\ RowsAre(settings)'
      /\ now' \in Nat /\ registry' \subseteq Watched
  BY <1>1 DEF MonitorInv
<1> QED BY <1>8, <1>9 DEF MonitorInv

LEMMA OverviewFailsKeeps ==
    ASSUME MonitorInv, OverviewFails
    PROVE  MonitorInv'
<1> DEFINE s == overview.current[1]
           item == Degraded(s)
           failed == overview.failed \cup {s}
<1>1. UNCHANGED <<now, registry, sampled, settings, saving>>
  BY DEF OverviewFails
<1>2. OverviewIs(overview) /\ overview.pc = "thresholds"
  BY DEF OverviewFails, MonitorInv
<1>3. WithItem(overview', overview, item, failed)
  BY DEF OverviewFails, WithItem
<1>4. item.service = s
  BY DEF Degraded
<1>5. failed # overview.failed
  BY <1>2 DEF OverviewIs
<1>6. OverviewIs(overview')
  <2>1. NewItemFits(item, overview, failed)
    BY <1>4, <1>5 DEF NewItemFits
  <2> HIDE DEF item, failed
  <2> QED BY <1>2, <1>3, <2>1, ItemIsAdded
<1>7. /\ SamplesAre(sampled)' /\ SavesAre(saving, settings)' /\ RowsAre(settings)'
      /\ now' \in Nat /\ registry' \subseteq Watched
  BY <1>1 DEF MonitorInv
<1> QED BY <1>6, <1>7 DEF MonitorInv

LEMMA MonitorInvStep ==
    ASSUME MonitorInv, [SavingNext \/ ReadingNext]_monitorVars
    PROVE  MonitorInv'
<1>1. CASE SavingNext
  BY <1>1, ServiceLeavesKeeps, RowIsDamagedKeeps, SaveReadsKeeps, SaveCommitsKeeps DEF SavingNext
<1>2. CASE ReadingNext
  BY <1>2, TickKeeps, PruneKeeps, OverviewStartsKeeps, OverviewReadsSamplesKeeps,
     OverviewReadsThresholdsKeeps, OverviewFailsKeeps, SampledKeeps DEF ReadingNext
<1>3. CASE UNCHANGED monitorVars
  <2>1. UNCHANGED <<now, registry, sampled, settings, saving, overview>>
    BY <1>3 DEF monitorVars
  <2>2. /\ SamplesAre(sampled)' /\ SavesAre(saving, settings)' /\ RowsAre(settings)'
        /\ OverviewIs(overview)' /\ now' \in Nat /\ registry' \subseteq Watched
    BY <2>1 DEF MonitorInv
  <2> QED BY <2>2 DEF MonitorInv
<1> QED BY <1>1, <1>2, <1>3

\* The overview is put together service by service from what was read, and a save finds what
\* is there.
THEOREM MonitorInvHolds == MonitorSpec => []MonitorInv
BY MonitorInvInit, MonitorInvStep, PTL DEF MonitorSpec

-----------------------------------------------------------------------------
(* What the readings of the monitoring say *)

LEMMA HistoryIsTrueThen ==
    ASSUME MonitorInv
    PROVE  HistoryIsTrue
<1> SUFFICES ASSUME NEW s \in registry, NEW from \in {Unset, 1, MaxTime}, NEW to \in {Unset, 1, MaxTime},
                    NEW hours \in {Unset, 0, 1, Retention + 1},
                    HistoryOf(s, from, to, hours).status # "refused"
             PROVE  LET h == HistoryOf(s, from, to, hours)
                        read == Range(h.read)
                    IN /\ h.window.from <= h.window.to /\ h.window.to - h.window.from <= Retention
                       /\ Range(h.shown) = Configured(read)
                       /\ \A i, j \in DOMAIN h.shown : i < j => Earlier(h.shown[i], h.shown[j])
                       /\ h.status = "not_sampled" <=> read = {}
                       /\ h.status = "not_configured" <=> read # {} /\ Configured(read) = {}
  BY DEF HistoryIsTrue
<1> DEFINE w == Window(from, to, hours)
           F == Found(sampled[s], w.from, w.to)
           line == Between(sampled[s], w.from, w.to)
           h == HistoryOf(s, from, to, hours)
<1>1. s \in Watched /\ Sampling(sampled[s]) /\ now \in Int
  BY DEF MonitorInv, SamplesAre
<1>2. /\ w.error = "none" /\ h.status = HistoryStatus(line) /\ h.window = w
      /\ h.read = line /\ h.shown = Meaningful(line)
  BY DEF HistoryOf
<1>3. w.from <= w.to /\ w.to - w.from <= Retention
  <2>1. /\ from \in Int /\ to \in Int /\ hours \in Int /\ Retention \in Int
    BY MonitorAssumption DEF Unset
  <2>2. CASE hours # Unset
    BY <1>1, <1>2, <2>1, <2>2 DEF Window
  <2>3. CASE hours = Unset
    BY <1>1, <1>2, <2>1, <2>3 DEF Window
  <2> QED BY <2>2, <2>3
<1> HIDE DEF w, h
<1>4. Sampling(F) /\ Chronicle(line, F)
  BY <1>1, BetweenParts
<1> HIDE DEF F, line
<1>5. /\ Range(line) = F /\ DOMAIN line = 1 .. Len(line)
      /\ \A i \in 1 .. Len(line) : line[i] \in F
      /\ line = <<>> <=> F = {}
  BY <1>4, ChronicleParts, EmptyChronicle
<1> DEFINE C == Configured(F)
           kept == Meaningful(line)
<1>6. Sampling(C) /\ Chronicle(kept, C)
  BY <1>4, MeaningfulParts
<1> HIDE DEF C, kept
<1>7. /\ Range(kept) = C /\ DOMAIN kept = 1 .. Len(kept)
      /\ \A i, j \in 1 .. Len(kept) : Earlier(kept[i], kept[j]) <=> i < j
      /\ kept = <<>> <=> C = {}
  BY <1>6, ChronicleParts, EmptyChronicle
<1>8. /\ h.status = "not_sampled" <=> F = {}
      /\ h.status = "not_configured" <=> F # {} /\ C = {}
  BY <1>2, <1>5, <1>7 DEF HistoryStatus, kept
<1>9. \A i, j \in DOMAIN h.shown : i < j => Earlier(h.shown[i], h.shown[j])
  BY <1>2, <1>7 DEF kept
<1>10. Range(h.read) = F /\ Range(h.shown) = Configured(F) /\ h.window = w
  BY <1>2, <1>5, <1>7 DEF kept, C
<1> HIDE DEF kept, line, F, w
<1>11. h.window.from <= h.window.to /\ h.window.to - h.window.from <= Retention
  BY <1>3, <1>10
<1>12. /\ h.status = "not_sampled" <=> Range(h.read) = {}
       /\ h.status = "not_configured" <=> Range(h.read) # {} /\ Configured(Range(h.read)) = {}
  BY <1>8, <1>10 DEF C
<1>13. Range(h.shown) = Configured(Range(h.read))
  BY <1>10
<1> QED BY <1>9, <1>11, <1>12, <1>13 DEF h

LEMMA OverviewIsWholeThen ==
    ASSUME MonitorInv
    PROVE  OverviewIsWhole
<1>1. OverviewIs(overview)
  BY DEF MonitorInv
<1>2. overview.pc = "done" => {a.service : a \in overview.items} = overview.listed
  BY <1>1 DEF OverviewIs, ItemNames
<1> QED BY <1>1, <1>2 DEF OverviewIs, OverviewIsWhole

LEMMA SavesAreWholeThen ==
    ASSUME MonitorInv
    PROVE  SavesAreWhole
<1>1. \A q \in Saves : SaveFits(saving[q], settings)
  BY DEF MonitorInv, SavesAre
<1> QED BY <1>1 DEF SaveFits, SavesAreWhole

\* What is counted over the windows, shown of a history and kept of a save is what was
\* sampled and asked for, with every number of services and samples.
THEOREM ReadingsAlwaysTrue == MonitorSpec => []ReadingsAreTrue
<1>1. MonitorInv => ReadingsAreTrue
  BY HistoryIsTrueThen, OverviewIsWholeThen, SavesAreWholeThen DEF ReadingsAreTrue
<1> QED BY <1>1, MonitorInvHolds, PTL

-----------------------------------------------------------------------------
(* The live view of a Run                                                  *)
(*                                                                         *)
(* The row lock makes the log an initial segment 1 .. n.  What lies        *)
(* between the Last-Event-ID and the cursor is on the wire, and a page     *)
(* starts after the cursor, so each event received is the next one.        *)

InitialSegment(S) == \E n \in Nat : S = 1 .. n

\* One transaction holds the row, and its number is the next one.
OneWriter == \A v, w \in Writers : tx[v].open /\ tx[w].open => v = w

LogInv ==
    /\ next >= 1
    /\ (\A w \in Writers : ~tx[w].open) => log = 1 .. (next - 1)
    /\ \A w \in Writers : tx[w].open =>
         /\ tx[w].seq = next - 1 /\ next >= 2 /\ log = 1 .. (next - 2)
         /\ tx[w].end => endAt = 0

WriterInv == OneWriter /\ LogInv

\* The events between the Last-Event-ID and the cursor are on the wire, and a
\* page starts after the cursor.
WireInv ==
    /\ server.pc = "none" => wire = {}
    /\ server.pc # "none" => server.cursor >= last /\ wire = (last + 1) .. server.cursor

PageInv ==
    /\ server.pc = "sending" => \E n \in Nat : server.page = (server.cursor + 1) .. n
    /\ server.pc # "sending" => server.page = {}

ViewInv ==
    /\ InitialSegment(events)
    /\ InitialSegment(rest.items)
    /\ last \in events \cup {0}

\* A terminal status was read before the page, which has or is past the end.
CloseInv ==
    /\ server.seen => endAt # 0
    /\ server.pc = "sending" /\ server.seen => endAt <= server.cursor \/ endAt \in server.page
    /\ ClosesAfterTheEnd

StreamInv == TypeOK /\ WriterInv /\ WireInv /\ PageInv /\ ViewInv /\ CloseInv

USE DEF dbVars, streamVars, viewVars

-----------------------------------------------------------------------------
(* What a server can be *)

LEMMA AtIsServer ==
    ASSUME NEW pc \in ServerPcs, NEW cursor \in Nat, NEW seen \in BOOLEAN,
           NEW page \in SUBSET Nat
    PROVE  /\ At(pc, cursor, seen, page) \in Server
           /\ At(pc, cursor, seen, page).pc = pc
           /\ At(pc, cursor, seen, page).cursor = cursor
           /\ At(pc, cursor, seen, page).seen = seen
           /\ At(pc, cursor, seen, page).page = page
  BY DEF At, Server

\* A server that has sent its page.
LEMMA EmptyAt ==
    ASSUME NEW pc \in ServerPcs, NEW cursor \in Nat
    PROVE  /\ At(pc, cursor, FALSE, {}) \in Server
           /\ At(pc, cursor, FALSE, {}).pc = pc
           /\ At(pc, cursor, FALSE, {}).cursor = cursor
           /\ At(pc, cursor, FALSE, {}).seen = FALSE
           /\ At(pc, cursor, FALSE, {}).page = {}
  BY DEF At, Server

LEMMA NoServerParts ==
    /\ NoServer \in Server
    /\ NoServer.pc = "none" /\ ~NoServer.seen /\ NoServer.page = {}
  BY DEF NoServer, At, Server, ServerPcs

LEMMA ServerParts ==
    ASSUME TypeOK
    PROVE  /\ server.pc \in ServerPcs /\ server.cursor \in Nat
           /\ server.seen \in BOOLEAN /\ server.page \in SUBSET Nat
  BY DEF TypeOK, Server

LEMMA InitialSegmentsJoin ==
    ASSUME NEW S, NEW T, InitialSegment(S), InitialSegment(T)
    PROVE  InitialSegment(S \cup T)
<1>1. PICK m \in Nat : S = 1 .. m
  BY DEF InitialSegment
<1>2. PICK n \in Nat : T = 1 .. n
  BY DEF InitialSegment
<1>3. IF m <= n THEN S \cup T = 1 .. n ELSE S \cup T = 1 .. m
  BY <1>1, <1>2
<1> QED
  BY <1>3 DEF InitialSegment

-----------------------------------------------------------------------------
(* The writers *)

\* Nothing but a writer touches the log.
LEMMA WritersAlone ==
    ASSUME TypeOK, WriterInv, UNCHANGED dbVars
    PROVE  WriterInv'
  BY DEF WriterInv, OneWriter, LogInv

LEMMA TypeOfTx ==
    ASSUME TypeOK, NEW w \in Writers
    PROVE  tx[w].open \in BOOLEAN /\ tx[w].seq \in Nat /\ tx[w].end \in BOOLEAN
  BY DEF TypeOK, Tx

LEMMA ReserveKeepsWriterInv ==
    ASSUME TypeOK, WriterInv, NEW w \in Writers, NEW end \in BOOLEAN, Reserve(w, end)
    PROVE  WriterInv' /\ TypeOK'
<1> DEFINE t == [open |-> TRUE, seq |-> next, end |-> end]
<1>1. t \in Tx /\ t.open /\ t.seq = next /\ t.end = end
  BY DEF TypeOK, Tx
<1> HIDE DEF t
<1>2. /\ tx' = [tx EXCEPT ![w] = t] /\ next' = next + 1
      /\ \A v \in Writers : ~tx[v].open
      /\ end => endAt = 0
      /\ UNCHANGED <<log, endAt, streamVars, viewVars, faults>>
  BY DEF Reserve, MayReserve, t, TypeOK
<1>3. tx \in [Writers -> Tx] /\ next \in Nat
  BY DEF TypeOK
<1>4. tx'[w] = t /\ \A v \in Writers \ {w} : tx'[v] = tx[v]
  BY <1>2, <1>3
<1>5. tx' \in [Writers -> Tx]
  BY <1>1, <1>2, <1>3
<1>6. OneWriter'
  BY <1>2, <1>4 DEF OneWriter
<1>7. next >= 1 /\ log = 1 .. (next - 1)
  BY <1>2 DEF WriterInv, LogInv
<1>8. next' - 1 = next /\ next' - 2 = next - 1 /\ next' >= 2
  BY <1>2, <1>3, <1>7
<1>9. LogInv'
  BY <1>1, <1>2, <1>4, <1>7, <1>8 DEF LogInv
<1>10. TypeOK'
  BY <1>2, <1>3, <1>5 DEF TypeOK
<1> QED
  BY <1>6, <1>9, <1>10 DEF WriterInv

LEMMA CloseTx ==
    ASSUME TypeOK, WriterInv, NEW w \in Writers, tx[w].open,
           tx' = [tx EXCEPT ![w] = NoTx]
    PROVE  tx' \in [Writers -> Tx] /\ \A v \in Writers : ~tx'[v].open
<1>1. NoTx \in Tx /\ ~NoTx.open
  BY DEF NoTx, Tx
<1>2. tx \in [Writers -> Tx]
  BY DEF TypeOK
<1>3. \A v \in Writers : tx'[v] = IF v = w THEN NoTx ELSE tx[v]
  BY <1>2
<1>4. \A v \in Writers : v # w => ~tx[v].open
  BY DEF WriterInv, OneWriter
<1> QED
  BY <1>1, <1>2, <1>3, <1>4

LEMMA CommitKeepsWriterInv ==
    ASSUME TypeOK, WriterInv, NEW w \in Writers, Commit(w)
    PROVE  WriterInv' /\ TypeOK' /\ (endAt # 0 => endAt' = endAt)
<1>1. /\ tx[w].open /\ tx' = [tx EXCEPT ![w] = NoTx]
      /\ log' = log \cup {tx[w].seq}
      /\ endAt' = IF tx[w].end THEN tx[w].seq ELSE endAt
      /\ UNCHANGED <<next, streamVars, viewVars, faults>>
  BY DEF Commit
<1>2. tx' \in [Writers -> Tx] /\ \A v \in Writers : ~tx'[v].open
  BY <1>1, CloseTx
<1>3. /\ tx[w].seq = next - 1 /\ next >= 2 /\ log = 1 .. (next - 2)
      /\ tx[w].end => endAt = 0
  BY <1>1 DEF WriterInv, LogInv
<1>4. next \in Nat /\ tx[w].seq \in Nat /\ tx[w].end \in BOOLEAN
  BY TypeOfTx DEF TypeOK
<1>5. log' = 1 .. (next' - 1)
  BY <1>1, <1>3, <1>4
<1>6. WriterInv'
  BY <1>1, <1>2, <1>3, <1>5 DEF WriterInv, OneWriter, LogInv
<1>7. TypeOK'
  BY <1>1, <1>2, <1>4 DEF TypeOK
<1> QED
  BY <1>1, <1>3, <1>6, <1>7

LEMMA RollbackKeepsWriterInv ==
    ASSUME TypeOK, WriterInv, NEW w \in Writers, Rollback(w)
    PROVE  WriterInv' /\ TypeOK'
<1>1. /\ tx[w].open /\ tx' = [tx EXCEPT ![w] = NoTx]
      /\ next' = tx[w].seq
      /\ UNCHANGED <<log, endAt, streamVars, viewVars, faults>>
  BY DEF Rollback
<1>2. tx' \in [Writers -> Tx] /\ \A v \in Writers : ~tx'[v].open
  BY <1>1, CloseTx
<1>3. tx[w].seq = next - 1 /\ next >= 2 /\ log = 1 .. (next - 2)
  BY <1>1 DEF WriterInv, LogInv
<1>4. next \in Nat
  BY DEF TypeOK
<1>5. next' \in Nat /\ next' >= 1 /\ log' = 1 .. (next' - 1)
  BY <1>1, <1>3, <1>4
<1>6. WriterInv'
  BY <1>2, <1>5 DEF WriterInv, OneWriter, LogInv
<1>7. TypeOK'
  BY <1>1, <1>2, <1>5 DEF TypeOK
<1> QED
  BY <1>6, <1>7

\* The log only grows, its end stays, and readers are left alone.
LEMMA WriteStep ==
    ASSUME StreamInv, Write
    PROVE  StreamInv'
<1>1. TypeOK /\ WriterInv
  BY DEF StreamInv
<1>2. PICK w \in Writers : (\E end \in BOOLEAN : Reserve(w, end)) \/ Commit(w) \/ Rollback(w)
  BY DEF Write
<1>3. WriterInv' /\ TypeOK' /\ (endAt # 0 => endAt' = endAt)
  <2>1. ASSUME NEW end \in BOOLEAN, Reserve(w, end)
               PROVE  WriterInv' /\ TypeOK' /\ (endAt # 0 => endAt' = endAt)
    BY <1>1, <2>1, ReserveKeepsWriterInv DEF Reserve
  <2>2. CASE Commit(w)
    BY <1>1, <2>2, CommitKeepsWriterInv
  <2>3. CASE Rollback(w)
    BY <1>1, <2>3, RollbackKeepsWriterInv DEF Rollback
  <2> QED
    BY <1>2, <2>1, <2>2, <2>3
<1>4. UNCHANGED <<streamVars, viewVars, faults>>
  BY <1>2 DEF Reserve, Commit, Rollback
<1>5. WireInv' /\ PageInv' /\ ViewInv'
  BY <1>4 DEF StreamInv, WireInv, PageInv, ViewInv, InitialSegment
<1>6. CloseInv'
  BY <1>3, <1>4 DEF StreamInv, CloseInv, ClosesAfterTheEnd
<1> QED
  BY <1>3, <1>5, <1>6 DEF StreamInv

-----------------------------------------------------------------------------
(* The readers *)

\* A reader leaves the database, and what it read stays true.
LEMMA StreamUnfolds ==
    ASSUME StreamInv
    PROVE  TypeOK /\ WriterInv /\ WireInv /\ PageInv /\ ViewInv /\ CloseInv
  BY DEF StreamInv

LEMMA LogSegment ==
    ASSUME TypeOK, WriterInv
    PROVE  InitialSegment(log)
<1>1. next \in Nat /\ next >= 1
  BY DEF TypeOK, WriterInv, LogInv
<1>2. CASE \A w \in Writers : ~tx[w].open
  BY <1>1, <1>2 DEF WriterInv, LogInv, InitialSegment
<1>3. CASE \E w \in Writers : tx[w].open
  BY <1>1, <1>3 DEF WriterInv, LogInv, InitialSegment
<1> QED
  BY <1>2, <1>3

LEMMA PollStatusStep ==
    ASSUME StreamInv, PollStatus
    PROVE  StreamInv'
<1>0. TypeOK /\ WriterInv /\ WireInv /\ PageInv /\ ViewInv /\ CloseInv
  BY StreamUnfolds
<1>1. /\ server.pc = "polling"
      /\ server' = At("listing", server.cursor, endAt # 0, {})
      /\ UNCHANGED <<dbVars, wire, source, last, viewVars, faults>>
  BY DEF PollStatus
<1>2. PICK seen \in BOOLEAN : seen = (endAt # 0)
  OBVIOUS
<1>3. /\ server' \in Server /\ server'.pc = "listing" /\ server'.cursor = server.cursor
      /\ (server'.seen <=> endAt # 0) /\ server'.page = {}
  <2>1. server.cursor \in Nat /\ {} \in SUBSET Nat /\ "listing" \in ServerPcs
    BY <1>0, ServerParts DEF ServerPcs
  <2>2. server' = At("listing", server.cursor, seen, {})
    BY <1>1, <1>2
  <2>3. /\ server' \in Server /\ server'.pc = "listing" /\ server'.cursor = server.cursor
        /\ server'.seen = seen /\ server'.page = {}
    BY <2>1, <2>2, AtIsServer
  <2> QED
    BY <2>3, <1>2
<1>4. TypeOK'
  BY <1>0, <1>1, <1>3 DEF TypeOK
<1>5. WireInv' /\ PageInv'
  BY <1>0, <1>1, <1>3 DEF WireInv, PageInv
<1>6. ViewInv' /\ WriterInv'
  BY <1>0, <1>1, WritersAlone DEF ViewInv, InitialSegment
<1>7. CloseInv'
  BY <1>0, <1>1, <1>3 DEF CloseInv, ClosesAfterTheEnd
<1> QED
  BY <1>4, <1>5, <1>6, <1>7 DEF StreamInv

LEMMA ListPageStep ==
    ASSUME StreamInv, ListPage
    PROVE  StreamInv'
<1>0. TypeOK /\ WriterInv /\ WireInv /\ PageInv /\ ViewInv /\ CloseInv
  BY StreamUnfolds
<1> DEFINE page == PageAfter(server.cursor)
<1>1. /\ server.pc = "listing"
      /\ server' = At("sending", server.cursor, server.seen, page)
      /\ UNCHANGED <<dbVars, wire, source, last, viewVars, faults>>
  BY DEF ListPage
<1>2. /\ server.cursor \in Nat /\ server.seen \in BOOLEAN
      /\ log \subseteq Nat /\ endAt \in log \cup {0}
  BY <1>0, ServerParts DEF TypeOK
<1>3. /\ page \subseteq log /\ page \in SUBSET Nat
      /\ endAt # 0 => endAt <= server.cursor \/ endAt \in page
  <2>1. page \subseteq log /\ page \in SUBSET Nat
    BY <1>2 DEF PageAfter
  <2>2. ASSUME endAt # 0 PROVE endAt <= server.cursor \/ endAt \in page
    <3>1. endAt \in log /\ endAt \in Nat
      BY <1>2, <2>2
    <3> QED
      BY <3>1, <1>2 DEF PageAfter
  <2> QED
    BY <2>1, <2>2
<1>4. PICK n \in Nat : log = 1 .. n
  BY <1>0, LogSegment DEF InitialSegment
<1>5. page = (server.cursor + 1) .. n
  BY <1>2, <1>4 DEF PageAfter
<1> HIDE DEF page
<1>6. /\ server' \in Server /\ server'.pc = "sending" /\ server'.cursor = server.cursor
      /\ server'.seen = server.seen /\ server'.page = page
  <2>1. "sending" \in ServerPcs
    BY DEF ServerPcs
  <2>2. server'.pc = "sending" /\ server'.cursor = server.cursor
    BY <1>1 DEF At
  <2>3. server'.seen = server.seen /\ server'.page = page
    BY <1>1 DEF At
  <2>4. At("sending", server.cursor, server.seen, page) \in Server
    BY <2>1, <1>2, <1>3, AtIsServer
  <2> QED
    BY <2>2, <2>3, <2>4, <1>1
<1>7. TypeOK'
  BY <1>0, <1>1, <1>3, <1>6 DEF TypeOK
<1>8. WireInv' /\ PageInv'
  BY <1>0, <1>1, <1>5, <1>6 DEF WireInv, PageInv
<1>9. ViewInv' /\ WriterInv'
  BY <1>0, <1>1, WritersAlone DEF ViewInv, InitialSegment
<1>10. CloseInv'
  BY <1>0, <1>1, <1>3, <1>6 DEF CloseInv, ClosesAfterTheEnd
<1> QED
  BY <1>7, <1>8, <1>9, <1>10 DEF StreamInv

LEMMA SendStep ==
    ASSUME StreamInv, Send
    PROVE  StreamInv'
<1>0. TypeOK /\ WriterInv /\ WireInv /\ PageInv /\ ViewInv /\ CloseInv
  BY StreamUnfolds
<1>1. PICK s \in server.page :
        /\ Least(s, server.page)
        /\ wire' = wire \cup {s}
        /\ server' = IF s = endAt THEN At("closed", s, FALSE, {})
                     ELSE At("sending", s, server.seen, server.page \ {s})
  BY DEF Send
<1>2. server.pc = "sending" /\ UNCHANGED <<dbVars, source, last, viewVars, faults>>
  BY DEF Send
<1>3. /\ server.cursor \in Nat /\ server.seen \in BOOLEAN /\ server.page \in SUBSET Nat
      /\ s \in Nat /\ s \in log /\ log \subseteq Nat /\ last \in Nat
      /\ endAt \in log \cup {0}
  BY <1>0, ServerParts DEF TypeOK
<1>4. PICK n \in Nat : server.page = (server.cursor + 1) .. n
  BY <1>0, <1>2 DEF PageInv
<1>5. s = server.cursor + 1 /\ server.page \ {s} = (s + 1) .. n
  <2>1. server.cursor + 1 \in server.page
    BY <1>1, <1>3, <1>4
  <2> QED
    BY <2>1, <1>1, <1>3, <1>4 DEF Least
<1>6. server.cursor >= last /\ wire = (last + 1) .. server.cursor
  BY <1>0, <1>2 DEF WireInv
<1>7. s >= last /\ wire' = (last + 1) .. s
  BY <1>1, <1>3, <1>5, <1>6
<1>8. /\ server' \in Server /\ server'.cursor = s /\ server'.page \subseteq log
      /\ IF s = endAt
           THEN server'.pc = "closed" /\ ~server'.seen /\ server'.page = {}
           ELSE /\ server'.pc = "sending" /\ server'.seen = server.seen
                /\ server'.page = server.page \ {s}
  <2>1. CASE s = endAt
    BY <2>1, <1>1, <1>3, EmptyAt DEF ServerPcs
  <2>2. CASE s # endAt
    <3>1. server.page \ {s} \in SUBSET Nat /\ server.page \ {s} \subseteq log
      BY <1>0, <1>3 DEF TypeOK
    <3> QED
      BY <2>2, <3>1, <1>1, <1>3, AtIsServer DEF ServerPcs
  <2> QED
    BY <2>1, <2>2
<1>9. TypeOK'
  BY <1>0, <1>1, <1>2, <1>3, <1>8 DEF TypeOK
<1>10. WireInv' /\ PageInv'
  BY <1>2, <1>4, <1>5, <1>7, <1>8 DEF WireInv, PageInv
<1>11. ViewInv' /\ WriterInv'
  BY <1>0, <1>2, WritersAlone DEF ViewInv, InitialSegment
<1>12. CloseInv'
  BY <1>0, <1>2, <1>3, <1>5, <1>8 DEF CloseInv, ClosesAfterTheEnd
<1> QED
  BY <1>9, <1>10, <1>11, <1>12 DEF StreamInv

LEMMA EndPageStep ==
    ASSUME StreamInv, EndPage
    PROVE  StreamInv'
<1>0. TypeOK /\ WriterInv /\ WireInv /\ PageInv /\ ViewInv /\ CloseInv
  BY StreamUnfolds
<1>1. /\ server.pc = "sending" /\ server.page = {}
      /\ server' = At(IF server.seen THEN "closed" ELSE "polling", server.cursor, FALSE, {})
      /\ UNCHANGED <<dbVars, wire, source, last, viewVars, faults>>
  BY DEF EndPage
<1>2. server.cursor \in Nat /\ server.seen \in BOOLEAN
  BY <1>0, ServerParts
<1>3. /\ server' \in Server /\ server'.cursor = server.cursor /\ server'.page = {}
      /\ server'.pc = (IF server.seen THEN "closed" ELSE "polling") /\ ~server'.seen
  <2>1. CASE server.seen
    BY <2>1, <1>1, <1>2, EmptyAt DEF ServerPcs
  <2>2. CASE ~server.seen
    BY <2>2, <1>1, <1>2, EmptyAt DEF ServerPcs
  <2> QED
    BY <2>1, <2>2
<1>4. TypeOK'
  BY <1>0, <1>1, <1>3 DEF TypeOK
<1>5. WireInv' /\ PageInv'
  BY <1>0, <1>1, <1>2, <1>3 DEF WireInv, PageInv
<1>6. ViewInv' /\ WriterInv'
  BY <1>0, <1>1, WritersAlone DEF ViewInv, InitialSegment
<1>7. CloseInv'
  BY <1>0, <1>1, <1>2, <1>3 DEF CloseInv, ClosesAfterTheEnd
<1> QED
  BY <1>4, <1>5, <1>6, <1>7 DEF StreamInv

\* Whatever ends a connection leaves no server and nothing on the wire.
LEMMA Disconnect ==
    ASSUME StreamInv, UNCHANGED dbVars, server' = NoServer, wire' = {},
           source' \in {"connecting", "open", "closed", "refused"},
           last' \in events' \cup {0}, InitialSegment(events'), InitialSegment(rest'.items),
           events' \cup rest'.items \subseteq log, rest' \in List,
           shown' \in {"live", "ended"}, refresh' \in BOOLEAN, faults' \in Nat
    PROVE  StreamInv'
<1>0. TypeOK /\ WriterInv
  BY StreamUnfolds
<1>1. last' \in Nat
  <2>1. log \subseteq Nat
    BY <1>0 DEF TypeOK
  <2>2. last' \in log \cup {0}
    OBVIOUS
  <2> QED
    BY <2>1, <2>2
<1>2. TypeOK'
  BY <1>0, <1>1, NoServerParts DEF TypeOK
<1>3. WireInv' /\ PageInv' /\ CloseInv'
  BY NoServerParts DEF WireInv, PageInv, CloseInv, ClosesAfterTheEnd
<1>4. ViewInv' /\ WriterInv'
  BY <1>0, WritersAlone DEF ViewInv
<1> QED
  BY <1>2, <1>3, <1>4 DEF StreamInv

LEMMA ConnectStep ==
    ASSUME StreamInv, Connect
    PROVE  StreamInv'
<1>0. TypeOK /\ WriterInv /\ ViewInv
  BY StreamUnfolds
<1>1. /\ source' = "open" /\ server' = At("polling", last, FALSE, {}) /\ wire' = {}
      /\ UNCHANGED <<dbVars, last, viewVars, faults>>
  BY DEF Connect
<1>2. last \in Nat
  BY <1>0 DEF TypeOK
<1>3. /\ server' \in Server /\ server'.pc = "polling" /\ server'.cursor = last
      /\ ~server'.seen /\ server'.page = {}
  BY <1>1, <1>2, EmptyAt DEF ServerPcs
<1>4. TypeOK'
  BY <1>0, <1>1, <1>3 DEF TypeOK
<1>5. WireInv' /\ PageInv' /\ CloseInv'
  <2>1. (last + 1) .. last = {} /\ last >= last
    BY <1>2
  <2> QED
    BY <2>1, <1>1, <1>3 DEF WireInv, PageInv, CloseInv, ClosesAfterTheEnd
<1>6. ViewInv' /\ WriterInv'
  BY <1>0, <1>1, WritersAlone DEF ViewInv, InitialSegment
<1> QED
  BY <1>4, <1>5, <1>6 DEF StreamInv

\* The event received is the one after the Last-Event-ID.
LEMMA ReceiveStep ==
    ASSUME StreamInv, Receive
    PROVE  StreamInv'
<1>0. TypeOK /\ WriterInv /\ WireInv /\ PageInv /\ ViewInv /\ CloseInv
  BY StreamUnfolds
<1>1. PICK s \in wire :
        /\ Least(s, wire)
        /\ last' = s
        /\ events' = events \cup {s}
        /\ IF s = endAt
             THEN /\ source' = "closed" /\ server' = NoServer /\ wire' = {}
                  /\ refresh' = TRUE
             ELSE wire' = wire \ {s} /\ UNCHANGED <<source, server, refresh>>
  BY DEF Receive
<1>2. UNCHANGED <<dbVars, rest, shown, faults>>
  BY DEF Receive
<1>3. /\ server.cursor \in Nat /\ last \in Nat /\ s \in log /\ s \in Nat /\ log \subseteq Nat
      /\ events \subseteq log
  BY <1>0, ServerParts DEF TypeOK
<1>4. server.pc # "none" /\ server.cursor >= last /\ wire = (last + 1) .. server.cursor
  BY <1>0, <1>1 DEF WireInv
<1>5. s = last + 1 /\ wire \ {s} = (s + 1) .. server.cursor /\ server.cursor >= s
  <2>1. last + 1 \in wire
    BY <1>1, <1>3, <1>4
  <2> QED
    BY <2>1, <1>1, <1>3, <1>4 DEF Least
<1>6. InitialSegment(events')
  <2>1. PICK m \in Nat : events = 1 .. m
    BY <1>0 DEF ViewInv, InitialSegment
  <2>2. last <= m
    BY <1>0, <1>3, <2>1 DEF ViewInv
  <2>3. IF s <= m THEN events' = 1 .. m ELSE events' = 1 .. (m + 1)
    BY <1>1, <1>3, <1>5, <2>1, <2>2
  <2> QED
    BY <2>1, <2>3 DEF InitialSegment
<1>7. InitialSegment(rest'.items) /\ last' \in events' \cup {0}
  BY <1>0, <1>1, <1>2 DEF ViewInv
<1>8. CASE s = endAt
  <2>1. events' \cup rest'.items \subseteq log /\ rest' \in List
    BY <1>0, <1>1, <1>2, <1>3 DEF TypeOK
  <2> QED
    BY <2>1, <1>0, <1>1, <1>2, <1>6, <1>7, <1>8, Disconnect DEF TypeOK
<1>9. CASE s # endAt
  <2>1. TypeOK'
    BY <1>0, <1>1, <1>2, <1>3, <1>9 DEF TypeOK
  <2>2. WireInv' /\ PageInv'
    BY <1>0, <1>1, <1>4, <1>5, <1>9 DEF WireInv, PageInv
  <2>3. ViewInv' /\ WriterInv'
    BY <1>0, <1>2, <1>6, <1>7, WritersAlone DEF ViewInv
  <2>4. CloseInv'
    BY <1>0, <1>1, <1>2, <1>9 DEF CloseInv, ClosesAfterTheEnd
  <2> QED
    BY <2>1, <2>2, <2>3, <2>4 DEF StreamInv
<1> QED
  BY <1>8, <1>9

\* The steps that leave the server and the wire alone.
LEMMA ViewOnly ==
    ASSUME StreamInv, UNCHANGED <<dbVars, server, wire, last>>,
           source' \in {"connecting", "open", "closed", "refused"},
           events \subseteq events', InitialSegment(events'), InitialSegment(rest'.items),
           events' \cup rest'.items \subseteq log, rest' \in List,
           shown' \in {"live", "ended"}, refresh' \in BOOLEAN, faults' \in Nat
    PROVE  StreamInv'
<1>0. TypeOK /\ WriterInv /\ WireInv /\ PageInv /\ ViewInv /\ CloseInv
  BY StreamUnfolds
<1>1. TypeOK'
  BY <1>0 DEF TypeOK
<1>2. WireInv' /\ PageInv' /\ CloseInv'
  BY <1>0 DEF WireInv, PageInv, CloseInv, ClosesAfterTheEnd
<1>3. ViewInv' /\ WriterInv'
  BY <1>0, WritersAlone DEF ViewInv
<1> QED
  BY <1>1, <1>2, <1>3 DEF StreamInv

\* What the steps below start from.
LEMMA ViewParts ==
    ASSUME StreamInv
    PROVE  /\ source \in {"connecting", "open", "closed", "refused"}
           /\ InitialSegment(events) /\ InitialSegment(rest.items) /\ InitialSegment(log)
           /\ last \in events \cup {0} /\ events \cup rest.items \subseteq log /\ rest \in List
           /\ shown \in {"live", "ended"} /\ refresh \in BOOLEAN /\ faults \in Nat
           /\ log \subseteq Nat
<1>1. TypeOK /\ WriterInv /\ ViewInv
  BY StreamUnfolds
<1> QED
  BY <1>1, LogSegment DEF TypeOK, ViewInv

LEMMA NoListParts == NoList \in List /\ NoList.items = {} /\ InitialSegment({})
<1>1. {} = 1 .. 0
  OBVIOUS
<1> QED
  BY <1>1 DEF NoList, List, InitialSegment

LEMMA SourceStep ==
    ASSUME StreamInv, Refuse \/ Drop
    PROVE  StreamInv'
<1>1. CASE Refuse
  BY <1>1, ViewParts, ViewOnly DEF Refuse, Fault
<1>2. CASE Drop
  BY <1>2, ViewParts, Disconnect DEF Drop, Fault
<1> QED
  BY <1>1, <1>2

LEMMA ViewStep ==
    ASSUME StreamInv, View
    PROVE  StreamInv'
<1>1. CASE ReadList
  <2>1. rest' = [sent |-> TRUE, items |-> log] /\ log \subseteq Nat
    BY <1>1, ViewParts DEF ReadList
  <2>2. rest' \in List /\ rest'.items = log
    BY <2>1 DEF List
  <2> QED
    BY <1>1, <2>2, ViewParts, ViewOnly DEF ReadList
<1>2. CASE Merge
  <2>1. events' = events \cup rest.items /\ rest' = NoList
    BY <1>2 DEF Merge
  <2>2. InitialSegment(events')
    BY <2>1, ViewParts, InitialSegmentsJoin
  <2> QED
    BY <1>2, <2>1, <2>2, ViewParts, NoListParts, ViewOnly DEF Merge
<1>3. CASE Invalidate
  BY <1>3, ViewParts, ViewOnly DEF Invalidate
<1>4. CASE Refetch
  <2>1. CASE endAt = 0
    BY <1>4, <2>1, ViewParts, ViewOnly DEF Refetch
  <2>2. CASE endAt # 0
    BY <1>4, <2>2, ViewParts, Disconnect DEF Refetch
  <2> QED
    BY <2>1, <2>2
<1>5. CASE RefetchFails
  <2>1. UNCHANGED <<dbVars, streamVars, events, rest, shown>>
    BY <1>5 DEF RefetchFails
  <2>2. ~refresh' /\ refresh' \in BOOLEAN
    BY <1>5 DEF RefetchFails
  <2>3. faults' \in Nat
    BY <1>5, ViewParts DEF RefetchFails, Fault
  <2> QED
    BY <2>1, <2>2, <2>3, ViewParts, ViewOnly
<1>6. CASE Remount
  BY <1>6, ViewParts, NoListParts, Disconnect DEF Remount, Fault
<1> QED
  BY <1>1, <1>2, <1>3, <1>4, <1>5, <1>6 DEF View

-----------------------------------------------------------------------------
(* The theorems *)

LEMMA StreamInvInit == Init => StreamInv
<1> SUFFICES ASSUME Init PROVE StreamInv
  OBVIOUS
<1>1. NoTx \in Tx /\ ~NoTx.open
  BY DEF NoTx, Tx
<1>2. tx \in [Writers -> Tx] /\ \A w \in Writers : ~tx[w].open
  BY <1>1 DEF Init
<1>3. log = 1 .. 1
  BY DEF Init
<1>4. rest \in List /\ rest.items = {} /\ InitialSegment({})
  BY NoListParts DEF Init
<1>5. server \in Server /\ server.pc = "none" /\ ~server.seen /\ server.page = {}
  BY NoServerParts DEF Init
<1>6. TypeOK
  <2>1. server.page \cup wire \cup rest.items \cup events \subseteq log
    BY <1>4, <1>5 DEF Init
  <2>2. next \in Nat /\ log \subseteq Nat /\ endAt \in log \cup {0} /\ last \in Nat
    BY DEF Init
  <2>3. /\ source \in {"connecting", "open", "closed", "refused"}
        /\ shown \in {"live", "ended"} /\ faults \in Nat
    BY DEF Init
  <2>4. refresh \in BOOLEAN
    BY DEF Init
  <2> QED
    BY <2>1, <2>2, <2>3, <2>4, <1>2, <1>4, <1>5 DEF TypeOK
<1>7. WriterInv
  BY <1>2, <1>3 DEF Init, WriterInv, OneWriter, LogInv
<1>8. WireInv /\ PageInv /\ CloseInv
  BY <1>5 DEF Init, WireInv, PageInv, CloseInv, ClosesAfterTheEnd
<1>9. ViewInv
  BY <1>4 DEF Init, ViewInv
<1> QED
  BY <1>6, <1>7, <1>8, <1>9 DEF StreamInv

LEMMA StreamInvStep == StreamInv /\ [Next]_vars => StreamInv'
<1> SUFFICES ASSUME StreamInv, [Next]_vars PROVE StreamInv'
  OBVIOUS
<1>1. CASE Write
  BY <1>1, WriteStep
<1>2. CASE Replay
  BY <1>2, PollStatusStep, ListPageStep, SendStep, EndPageStep DEF Replay
<1>3. CASE Source
  BY <1>3, ConnectStep, ReceiveStep, SourceStep DEF Source
<1>4. CASE View
  BY <1>4, ViewStep
<1>5. CASE UNCHANGED vars
  BY <1>5, ViewParts, ViewOnly DEF vars
<1> QED
  BY <1>1, <1>2, <1>3, <1>4, <1>5 DEF Next

LEMMA StreamInvAlways == Spec => []StreamInv
  BY StreamInvInit, StreamInvStep, PTL DEF Spec

\* Only committed events are listed, sent and shown, for any number of writers
\* and faults.
THEOREM StreamTypeCorrect == Spec => []TypeOK
<1>1. StreamInv => TypeOK
  BY DEF StreamInv
<1> QED
  BY <1>1, StreamInvAlways, PTL

\* The view never shows an event and misses an earlier one.
THEOREM ViewHasNoGaps == Spec => []NoGaps
<1>1. StreamInv => NoGaps
  <2> SUFFICES ASSUME StreamInv, NEW s \in events PROVE 1 .. s \subseteq events
    BY DEF NoGaps
  <2>1. PICK n \in Nat : events = 1 .. n
    BY ViewParts DEF InitialSegment
  <2> QED
    BY <2>1
<1> QED
  BY <1>1, StreamInvAlways, PTL

\* The stream is never closed before the end was sent.
THEOREM StreamClosesAfterTheEnd == Spec => []ClosesAfterTheEnd
<1>1. StreamInv => ClosesAfterTheEnd
  BY DEF StreamInv, CloseInv
<1> QED
  BY <1>1, StreamInvAlways, PTL
\* For any number of events, writers and faults the view shows the log up to
\* some event, and its stream stays open for the rest.
THEOREM ViewAlwaysFollowsTheLog == Spec => []ViewFollowsTheLog
<1>1. TypeOK /\ NoGaps /\ ClosesAfterTheEnd => ViewFollowsTheLog
  BY DEF ViewFollowsTheLog
<1> QED
  BY <1>1, StreamTypeCorrect, ViewHasNoGaps, StreamClosesAfterTheEnd, PTL

\* What the view shows it keeps until the user leaves: a page, an event and a
\* merged list only add, in whatever order they arrive.
THEOREM ShownEventsStay == Spec => ShownStays
<1>1. [Next]_vars => [events \subseteq events' \/ Remount]_vars
  <2> SUFFICES ASSUME Next PROVE events \subseteq events' \/ Remount
    BY DEF vars
  <2>1. CASE Write
    BY <2>1 DEF Write, Reserve, Commit, Rollback
  <2>2. CASE Replay
    BY <2>2 DEF Replay, PollStatus, ListPage, Send, EndPage
  <2>3. CASE Source
    BY <2>3 DEF Source, Connect, Refuse, Receive, Drop
  <2>4. CASE View
    BY <2>4 DEF View, ReadList, Merge, Invalidate, Refetch, RefetchFails
  <2> QED
    BY <2>1, <2>2, <2>3, <2>4 DEF Next
<1> QED
  BY <1>1, PTL DEF Spec, ShownStays
=============================================================================
