----------------------------- MODULE PaginationProofs -----------------------------
(***************************************************************************)
(* TLAPS proofs about Pagination, for any identifiers, page size, limits   *)
(* and precision of a timestamp, and however long the clock runs.          *)
(***************************************************************************)
EXTENDS Pagination, FiniteSetTheorems, SequenceTheorems, TLAPS

Time      == Nat
TableRow  == [createdAt : Time, id : Ids]
Cursor    == [c : Int, i : Ids]

(* What a cursor lets through; the first page has none.                        *)
Below(r, cursor) == cursor = NoCursor \/ keysetBefore(r, cursor)

(* No cursor comes after one it did not pass.                                  *)
NotAfter(c2, cursor) ==
  \/ cursor = NoCursor
  \/ c2.c < cursor.c
  \/ c2.c = cursor.c /\ c2.i <= cursor.i

-------------------------------------------------------------------------------
(* The inductive invariant.                                                    *)

(* Rows have one identifier each.                                              *)
TablesInv ==
  /\ clock \in Time
  /\ open \subseteq TableRow /\ rows \subseteq TableRow
  /\ IsFiniteSet(open) /\ IsFiniteSet(rows)
  /\ \A r, q \in open \cup rows : r.id = q.id => r = q
  /\ present \subseteq rows

(* A cursor was handed out with the page "before": a row of the "table" is let *)
(* through, or cut off.                                                        *)
LeadsOn(cursor, before, table) ==
  /\ cursor \in Cursor
  /\ \E r \in table : keysetBefore(r, cursor) \/ \E q \in before : CutOffBy(q, r)

(* The page "shown", read with "cursor" from the page "before", and the cursor *)
(* "next" that came with it: of the rows "seen", those from one to the other   *)
(* but what "next" cuts off.  All of them are rows of the "table".             *)
PageFits(shown, cursor, next, before, seen, table) ==
  /\ shown \subseteq table
  /\ \A r \in shown : Below(r, cursor)
  /\ cursor # NoCursor /\ shown = {} =>
       \E r \in table : \E q \in before : CutOffBy(q, r)
  /\ next = NoCursor => \A r \in seen : Below(r, cursor) => r \in shown
  /\ next # NoCursor =>
       /\ LeadsOn(next, shown, table) /\ NotAfter(next, cursor)
       /\ \A r \in shown : ~keysetBefore(r, next)
       /\ \A r \in seen : Below(r, cursor) =>
            r \in shown \/ keysetBefore(r, next) \/ \E q \in shown : CutOffBy(q, r)

(* What the pages "shown" before depth e of the "stack" have: each what its    *)
(* cursor lets through but nothing that the one at e does, and together all    *)
(* the rest of the rows "seen" but what was cut off.                           *)
Passed(e, stack, shown, seen) ==
  /\ \A d \in 1..(e - 1) : \A r \in shown[d] :
       Below(r, stack[d]) /\ ~Below(r, stack[e])
  /\ \A r \in seen :
       \/ Below(r, stack[e])
       \/ \E d \in 1..(e - 1) : r \in shown[d] \/ \E q \in shown[d] : CutOffBy(q, r)

Depth == Len(cursorStack)

Before == IF Depth = 1 THEN {} ELSE pages[Depth - 1]

(* The page's cursors, and the pages that led to them.                         *)
StackInv ==
  /\ cursorStack \in Seq(Cursor \cup {NoCursor})
  /\ Depth > 0 /\ cursorStack[1] = NoCursor
  /\ \A e \in 2..Depth : LeadsOn(cursorStack[e], pages[e - 1], rows)
  /\ pages \in Seq(SUBSET rows)
  /\ Len(pages) >= Depth - 1
  /\ \A e \in 1..Depth : Passed(e, cursorStack, pages, present)

(* The answer that is on its way, and the page that is on the screen.          *)
AnswerInv ==
  state = "answered" =>
    /\ answer.items \in Seq(rows)
    /\ answer.nextCursor \in Cursor \cup {NoCursor}
    /\ PageFits(ToSet(answer.items), cursorStack[Depth], answer.nextCursor, Before, present, rows)

ShownInv ==
  state = "shown" =>
    /\ Len(pages) = Depth
    /\ items \in Seq(rows) /\ pages[Depth] = ToSet(items)
    /\ nextCursor \in Cursor \cup {NoCursor}
    /\ PageFits(ToSet(items), cursorStack[Depth], nextCursor, Before, present, rows)

PagesInv == TablesInv /\ StackInv /\ AnswerInv /\ ShownInv

-------------------------------------------------------------------------------
(* ORDER BY created_at DESC, id DESC: a strict total order, so a finite set of *)
(* rows has one sequence from the newest to the oldest.                        *)

Table(S) ==
  /\ S \subseteq TableRow /\ IsFiniteSet(S)
  /\ \A r, q \in S : r.id = q.id => r = q

LEMMA IdsArePositive == \A i \in Ids : i \in Int /\ i > 0
<1> SUFFICES ASSUME NEW i \in Ids PROVE i \in Int /\ i > 0
  OBVIOUS
<1>1. i \in Nat /\ i # 0
  BY IdsAreNumbers
<1>2. QED
  BY <1>1

LEMMA NewerOrder ==
  ASSUME NEW S, Table(S)
  PROVE  /\ \A r \in S : ~Newer(r, r)
         /\ \A r, q \in S : r = q \/ Newer(r, q) \/ Newer(q, r)
         /\ \A r, q, p \in S : Newer(r, q) /\ Newer(q, p) => Newer(r, p)
<1>1. ASSUME NEW r \in S PROVE r.createdAt \in Int /\ r.id \in Int
  <2>1. r \in TableRow
    BY DEF Table
  <2>2. r.createdAt \in Nat /\ r.id \in Ids
    BY <2>1 DEF TableRow, Time
  <2>3. r.id \in Int
    BY <2>2, IdsArePositive
  <2>4. r.createdAt \in Int
    BY <2>2
  <2>5. QED
    BY <2>3, <2>4
<1>2. \A r \in S : ~Newer(r, r)
  BY <1>1 DEF Newer
<1>3. \A r, q \in S : r = q \/ Newer(r, q) \/ Newer(q, r)
  BY <1>1 DEF Newer, Table
<1>4. \A r, q, p \in S : Newer(r, q) /\ Newer(q, p) => Newer(r, p)
  BY <1>1 DEF Newer
<1>5. QED
  BY <1>2, <1>3, <1>4

(* The place of a row is one more than the rows before it, and no two rows     *)
(* have the same.                                                              *)
LEMMA SortedExists ==
  ASSUME NEW S, Table(S)
  PROVE  \E sorted \in [1..Cardinality(S) -> S] :
           \A i, j \in DOMAIN sorted : i < j => Newer(sorted[i], sorted[j])
<1> DEFINE n           == Cardinality(S)
           AreNewer(r) == {q \in S : Newer(q, r)}
           place       == [r \in S |-> Cardinality(AreNewer(r)) + 1]
<1>1. IsFiniteSet(S) /\ n \in Nat
  BY FS_CardinalityType DEF Table
<1>2. ASSUME NEW r \in S
      PROVE  /\ IsFiniteSet(AreNewer(r))
             /\ Cardinality(AreNewer(r)) \in 0..(n - 1)
  <2>1. /\ IsFiniteSet(S \ {r}) /\ Cardinality(S \ {r}) = n - 1
    BY <1>1, FS_RemoveElement
  <2>2. AreNewer(r) \subseteq S \ {r}
    BY NewerOrder
  <2>3. /\ IsFiniteSet(AreNewer(r)) /\ Cardinality(AreNewer(r)) <= n - 1
    BY <2>1, <2>2, FS_Subset
  <2>4. Cardinality(AreNewer(r)) \in Nat
    BY <2>3, FS_CardinalityType
  <2>5. QED
    BY <1>1, <2>3, <2>4
<1>3. place \in [S -> 1..n]
  <2> SUFFICES ASSUME NEW r \in S PROVE Cardinality(AreNewer(r)) + 1 \in 1..n
    OBVIOUS
  <2>1. Cardinality(AreNewer(r)) \in 0..(n - 1)
    BY <1>2
  <2> HIDE DEF AreNewer, n
  <2>2. QED
    BY <1>1, <2>1
<1>4. ASSUME NEW r \in S, NEW q \in S, Newer(r, q)
      PROVE  place[r] < place[q]
  <2>1. AreNewer(r) \subseteq AreNewer(q)
    BY <1>4, NewerOrder
  <2>2. r \in AreNewer(q) /\ r \notin AreNewer(r)
    BY <1>4, NewerOrder
  <2>3. IsFiniteSet(AreNewer(q)) /\ Cardinality(AreNewer(q)) \in Int
        /\ Cardinality(AreNewer(r)) \in Int
    BY <1>2
  <2> HIDE DEF AreNewer
  <2>4. /\ Cardinality(AreNewer(r)) <= Cardinality(AreNewer(q))
        /\ Cardinality(AreNewer(r)) # Cardinality(AreNewer(q))
    BY <2>1, <2>2, <2>3, FS_Subset
  <2>5. QED
    BY <2>3, <2>4
<1>5. \A r \in S : place[r] \in Int
  BY <1>3
<1> HIDE DEF place, n
<1>6. \A r, q \in S : place[r] = place[q] => r = q
  BY <1>4, <1>5, NewerOrder
<1>7. place \in Surjection(S, 1..n)
  <2>1. place \in Injection(S, 1..n)
    BY <1>3, <1>6 DEF Injection, IsInjective
  <2>2. IsFiniteSet(1..n) /\ Cardinality(1..n) = n
    BY <1>1, FS_Interval
  <2>3. QED
    BY <2>1, <2>2, FS_Injection DEF n
<1> DEFINE sorted == [i \in 1..n |-> CHOOSE r \in S : place[r] = i]
<1>8. ASSUME NEW i \in 1..n PROVE sorted[i] \in S /\ place[sorted[i]] = i
  <2>1. \E r \in S : place[r] = i
    BY <1>7 DEF Surjection
  <2>2. QED
    BY <2>1
<1>9. sorted \in [1..n -> S]
  BY <1>8
<1>10. ASSUME NEW i \in 1..n, NEW j \in 1..n, i < j
       PROVE  Newer(sorted[i], sorted[j])
  <2> PICK r \in S : r = sorted[i]
    BY <1>8
  <2> PICK q \in S : q = sorted[j]
    BY <1>8
  <2>1. place[r] = i /\ place[q] = j
    BY <1>8
  <2>2. r # q /\ ~(place[q] < place[r])
    BY <1>10, <2>1
  <2>3. Newer(r, q)
    BY <1>4, <2>2, NewerOrder
  <2>4. QED
    BY <2>3
<1> HIDE DEF sorted
<1>11. QED
  BY <1>9, <1>10 DEF n

LEMMA NewestFirstSorts ==
  ASSUME NEW S, Table(S)
  PROVE  /\ Cardinality(S) \in Nat
         /\ NewestFirst(S) \in [1..Cardinality(S) -> S]
         /\ \A i, j \in 1..Cardinality(S) :
              i < j => Newer(NewestFirst(S)[i], NewestFirst(S)[j])
         /\ \A r \in S : \E i \in 1..Cardinality(S) : NewestFirst(S)[i] = r
<1> DEFINE n == Cardinality(S)
           s == NewestFirst(S)
<1>1. IsFiniteSet(S) /\ n \in Nat
  BY FS_CardinalityType DEF Table
<1>2. /\ s \in [1..n -> S]
      /\ \A i, j \in DOMAIN s : i < j => Newer(s[i], s[j])
  BY SortedExists DEF NewestFirst
<1>3. \A i, j \in 1..n : i < j => Newer(s[i], s[j])
  BY <1>2
<1> HIDE DEF s, n
<1>4. \A i, j \in 1..n : s[i] = s[j] => i = j
  <2>1. \A i \in 1..n : s[i] \in S
    BY <1>2
  <2>2. \A i, j \in 1..n : i = j \/ i < j \/ j < i
    BY <1>1
  <2>3. QED
    BY <1>3, <2>1, <2>2, NewerOrder
<1>5. s \in Surjection(1..n, S)
  <2>1. s \in Injection(1..n, S)
    BY <1>2, <1>4 DEF Injection, IsInjective
  <2>2. Cardinality(1..n) = n
    BY <1>1, FS_Interval
  <2>3. QED
    BY <1>1, <2>1, <2>2, FS_Injection DEF n
<1>6. \A r \in S : \E i \in 1..n : s[i] = r
  BY <1>5 DEF Surjection
<1>7. QED
  BY <1>1, <1>2, <1>3, <1>6 DEF s, n

-------------------------------------------------------------------------------
(* Cursors: what the cut to milliseconds does to the order.                    *)

LEMMA Remainder ==
  ASSUME NEW x \in Nat
  PROVE  /\ x \div TICKS_PER_MS \in Int
         /\ x = (TICKS_PER_MS * (x \div TICKS_PER_MS)) + (x % TICKS_PER_MS)
         /\ x % TICKS_PER_MS \in 0..(TICKS_PER_MS - 1)
         /\ x % TICKS_PER_MS \in Nat
  BY LimitsAssumption

(* Whole milliseconds are at least one apart.                                  *)
LEMMA Milliseconds ==
  ASSUME NEW a \in Int, NEW b \in Int, a < b
  PROVE  (TICKS_PER_MS * a) + TICKS_PER_MS <= TICKS_PER_MS * b
<1>1. (TICKS_PER_MS * a) + TICKS_PER_MS = TICKS_PER_MS * (a + 1)
  BY LimitsAssumption
<1>2. TICKS_PER_MS * (a + 1) <= TICKS_PER_MS * b
  BY LimitsAssumption
<1>3. QED
  BY <1>1, <1>2, LimitsAssumption

(* A time not after x and not before the start of x's millisecond is in it.    *)
LEMMA SameMillisecond ==
  ASSUME NEW x \in Nat, NEW y \in Nat, x - (x % TICKS_PER_MS) <= y, y <= x
  PROVE  y - (y % TICKS_PER_MS) = x - (x % TICKS_PER_MS)
<1> DEFINE a == x \div TICKS_PER_MS
           b == y \div TICKS_PER_MS
<1>1. /\ a \in Int /\ x = (TICKS_PER_MS * a) + (x % TICKS_PER_MS)
      /\ x % TICKS_PER_MS \in 0..(TICKS_PER_MS - 1)
  BY Remainder
<1>2. /\ b \in Int /\ y = (TICKS_PER_MS * b) + (y % TICKS_PER_MS)
      /\ y % TICKS_PER_MS \in 0..(TICKS_PER_MS - 1)
  BY Remainder
<1> HIDE DEF a, b
<1>3. TICKS_PER_MS * a \in Int /\ TICKS_PER_MS * b \in Int
  BY <1>1, <1>2, LimitsAssumption
<1>4. ~(a < b)
  BY <1>1, <1>2, <1>3, Milliseconds, LimitsAssumption
<1>5. ~(b < a)
  BY <1>1, <1>2, <1>3, Milliseconds, LimitsAssumption
<1>6. a = b
  BY <1>1, <1>2, <1>4, <1>5
<1>7. QED
  BY <1>1, <1>2, <1>3, <1>6, LimitsAssumption

LEMMA CursorOf ==
  ASSUME NEW q \in TableRow
  PROVE  /\ encodeCursor(q) \in Cursor
         /\ encodeCursor(q).i = q.id
         /\ encodeCursor(q).c <= q.createdAt
         /\ q.createdAt % TICKS_PER_MS = 0 => encodeCursor(q).c = q.createdAt
         /\ encodeCursor(q) # NoCursor
<1> DEFINE x == q.createdAt
           m == x % TICKS_PER_MS
<1>1. x \in Nat /\ q.id \in Ids
  BY DEF TableRow, Time
<1>2. m \in Nat
  BY <1>1, Remainder
<1>3. encodeCursor(q) = [c |-> x - m, i |-> q.id]
  BY DEF encodeCursor
<1> HIDE DEF x, m
<1>4. x - m \in Int /\ x - m <= x /\ (m = 0 => x - m = x)
  BY <1>1, <1>2
<1>5. q.id # 0
  BY <1>1, IdsArePositive
<1>6. QED
  BY <1>1, <1>3, <1>4, <1>5 DEF Cursor, NoCursor, x, m

LEMMA CursorOrder ==
  ASSUME NEW q \in TableRow, NEW r \in TableRow
  PROVE  /\ r = q \/ Newer(r, q) => ~keysetBefore(r, encodeCursor(q))
         /\ Newer(q, r) => keysetBefore(r, encodeCursor(q)) \/ CutOffBy(q, r)
         /\ CutOffBy(q, r) => r # q /\ encodeCursor(r).c = encodeCursor(q).c
<1> DEFINE c == encodeCursor(q).c
<1>1. /\ q.createdAt \in Int /\ r.createdAt \in Int
      /\ q.id \in Int /\ r.id \in Int
  BY IdsArePositive DEF TableRow, Time
<1>2. /\ c \in Int /\ c <= q.createdAt /\ encodeCursor(q).i = q.id
      /\ q.createdAt % TICKS_PER_MS = 0 => c = q.createdAt
  BY CursorOf DEF Cursor
<1> HIDE DEF c
<1>4. r = q \/ Newer(r, q) => ~keysetBefore(r, encodeCursor(q))
  BY <1>1, <1>2 DEF Newer, keysetBefore, c
<1>5. Newer(q, r) => keysetBefore(r, encodeCursor(q)) \/ CutOffBy(q, r)
  BY <1>1, <1>2 DEF Newer, keysetBefore, CutOffBy, c
<1>6. ASSUME CutOffBy(q, r) PROVE r # q /\ encodeCursor(r).c = encodeCursor(q).c
  <2>1. Newer(q, r) /\ r.createdAt >= encodeCursor(q).c
    BY <1>6 DEF CutOffBy
  <2>2. r # q /\ r.createdAt <= q.createdAt
    BY <1>1, <2>1 DEF Newer
  <2>3. encodeCursor(q).c = q.createdAt - (q.createdAt % TICKS_PER_MS)
        /\ encodeCursor(r).c = r.createdAt - (r.createdAt % TICKS_PER_MS)
    BY DEF encodeCursor
  <2>4. q.createdAt \in Nat /\ r.createdAt \in Nat
        /\ q.createdAt - (q.createdAt % TICKS_PER_MS) <= r.createdAt
    BY <1>1, <1>2, <2>1, <2>3 DEF TableRow, Time, c
  <2>5. QED
    BY <2>2, <2>3, <2>4, SameMillisecond
<1>7. QED
  BY <1>4, <1>5, <1>6

(* The cursor of a row is not after one that lets the row through.             *)
LEMMA CursorDescends ==
  ASSUME NEW q \in TableRow, NEW cursor \in Cursor \cup {NoCursor}, Below(q, cursor)
  PROVE  NotAfter(encodeCursor(q), cursor)
<1> SUFFICES ASSUME cursor # NoCursor PROVE NotAfter(encodeCursor(q), cursor)
  BY DEF NotAfter
<1> DEFINE c == encodeCursor(q).c
<1>1. /\ q.createdAt \in Int /\ q.id \in Int
      /\ cursor.c \in Int /\ cursor.i \in Int
  BY IdsArePositive DEF TableRow, Time, Cursor
<1>2. /\ c \in Int /\ c <= q.createdAt /\ encodeCursor(q).i = q.id
  BY CursorOf DEF Cursor
<1>3. keysetBefore(q, cursor)
  BY DEF Below
<1> HIDE DEF c
<1>4. c < cursor.c \/ (c = cursor.c /\ q.id <= cursor.i)
  BY <1>1, <1>2, <1>3 DEF keysetBefore
<1>5. QED
  BY <1>2, <1>4 DEF NotAfter, c

(* What a cursor lets through, those that it is not after let through too.     *)
LEMMA BelowDescends ==
  ASSUME NEW r \in TableRow, NEW next \in Cursor, NEW cursor \in Cursor \cup {NoCursor},
         NotAfter(next, cursor), keysetBefore(r, next)
  PROVE  Below(r, cursor)
<1> SUFFICES ASSUME cursor # NoCursor PROVE keysetBefore(r, cursor)
  BY DEF Below
<1>1. /\ r.createdAt \in Int /\ r.id \in Int
      /\ cursor.c \in Int /\ cursor.i \in Int
      /\ next.c \in Int /\ next.i \in Int
  BY IdsArePositive DEF TableRow, Time, Cursor
<1>2. QED
  BY <1>1 DEF NotAfter, keysetBefore

LEMMA NoCursorIsNone == NoCursor \notin Cursor
<1>1. \A cursor \in Cursor : cursor.i \in Ids
  BY DEF Cursor
<1>2. NoCursor.i = 0
  BY DEF NoCursor
<1>3. QED
  BY <1>1, <1>2, IdsArePositive

-------------------------------------------------------------------------------
(* One page: a first part of what the cursor lets through, newest first.       *)

Found(cursor) == {r \in rows : Below(r, cursor)}

LEMMA FoundIsTable ==
  ASSUME TablesInv, NEW cursor
  PROVE  Table(Found(cursor)) /\ Table(rows) /\ Found(cursor) \subseteq rows
<1>1. Found(cursor) \subseteq rows
  BY DEF Found
<1>2. Table(rows)
  BY DEF TablesInv, Table
<1>3. IsFiniteSet(Found(cursor))
  BY <1>1, <1>2, FS_Subset DEF Table
<1>4. QED
  BY <1>1, <1>2, <1>3 DEF Table

LEMMA LimitType == normalizeLimit(PAGE_SIZE) \in Nat \ {0}
  BY LimitsAssumption DEF normalizeLimit

LEMMA RowsRead ==
  ASSUME TablesInv, NEW cursor, NEW limit \in Nat \ {0}
  PROVE  LET found == Found(cursor)
             n     == Cardinality(found)
             s     == NewestFirst(found)
             size  == IF n > limit THEN limit ELSE n
             got   == paginate(Rows(cursor, limit), limit)
         IN  /\ got.items \in Seq(found) /\ Len(got.items) = size
             /\ \A i \in 1..size : got.items[i] = s[i]
             /\ got.nextCursor = IF n > limit THEN encodeCursor(s[limit]) ELSE NoCursor
<1> DEFINE found == Found(cursor)
           n     == Cardinality(found)
           s     == NewestFirst(found)
           m     == IF n < limit + 1 THEN n ELSE limit + 1
           read  == SubSeq(s, 1, m)
           shown == IF n > limit THEN SubSeq(read, 1, limit) ELSE read
           size  == IF n > limit THEN limit ELSE n
<1>1. /\ n \in Nat /\ s \in [1..n -> found]
  BY FoundIsTable, NewestFirstSorts
<1>2. s \in Seq(found) /\ Len(s) = n
  BY <1>1
<1>3. Rows(cursor, limit) = read
  <2>1. found = IF cursor = NoCursor THEN rows ELSE {r \in rows : keysetBefore(r, cursor)}
    BY DEF Found, Below
  <2> HIDE DEF found
  <2>2. QED
    BY <1>2, <2>1 DEF Rows
<1> HIDE DEF n, s
<1>4. m \in Nat /\ m <= n /\ m <= limit + 1 /\ (m > limit <=> n > limit)
      /\ (n > limit => m = limit + 1) /\ (~(n > limit) => m = n)
  BY <1>1
<1> HIDE DEF m
<1>5. /\ read \in Seq(found) /\ Len(read) = m
      /\ \A i \in 1..m : read[i] = s[i]
  <2>1. \A i \in 1..m : s[i] \in found
    BY <1>1, <1>4
  <2> HIDE DEF found
  <2>2. QED
    BY <1>4, <2>1, SubSeqProperties
<1> HIDE DEF read
<1>6. /\ shown \in Seq(found) /\ Len(shown) = size
      /\ \A i \in 1..size : shown[i] = s[i]
  <2>1. CASE n > limit
    <3>1. \A i \in 1..limit : read[i] \in found /\ read[i] = s[i]
      BY <1>4, <1>5, <2>1
    <3> HIDE DEF found
    <3>2. /\ SubSeq(read, 1, limit) \in Seq(found)
          /\ Len(SubSeq(read, 1, limit)) = limit
          /\ \A i \in 1..limit : SubSeq(read, 1, limit)[i] = read[i]
      BY <3>1, SubSeqProperties
    <3>3. QED
      BY <2>1, <3>1, <3>2
  <2>2. CASE ~(n > limit)
    BY <1>4, <1>5, <2>2
  <2>3. QED
    BY <2>1, <2>2
<1>7. n > limit => Last(shown) = s[limit]
  <2> SUFFICES ASSUME n > limit PROVE shown[Len(shown)] = s[limit]
    BY DEF Last
  <2>1. size = limit /\ limit \in 1..limit
    OBVIOUS
  <2> HIDE DEF shown, size
  <2>2. QED
    BY <1>6, <2>1
<1>8. paginate(read, limit) =
        [items |-> shown,
         nextCursor |-> IF n > limit THEN encodeCursor(Last(shown)) ELSE NoCursor]
  BY <1>4, <1>5 DEF paginate
<1> HIDE DEF shown
<1>9. /\ paginate(read, limit).items = shown
      /\ paginate(read, limit).nextCursor =
           IF n > limit THEN encodeCursor(s[limit]) ELSE NoCursor
  BY <1>7, <1>8
<1>10. QED
  BY <1>3, <1>6, <1>9 DEF n, s

(* A page is all there is, or ends with a row that is newer than all the rest. *)
LEMMA PageRead ==
  ASSUME TablesInv, NEW cursor, NEW limit \in Nat \ {0}
  PROVE  LET got   == paginate(Rows(cursor, limit), limit)
             shown == ToSet(got.items)
         IN  /\ got.items \in Seq(rows) /\ shown \subseteq Found(cursor)
             /\ Found(cursor) # {} => shown # {}
             /\ \/ got.nextCursor = NoCursor /\ shown = Found(cursor)
                \/ \E last \in shown : \E more \in Found(cursor) :
                     /\ got.nextCursor = encodeCursor(last)
                     /\ \A q \in shown : q = last \/ Newer(q, last)
                     /\ \A r \in Found(cursor) : r \in shown \/ Newer(last, r)
                     /\ Newer(last, more)
<1> DEFINE found == Found(cursor)
           n     == Cardinality(found)
           s     == NewestFirst(found)
           size  == IF n > limit THEN limit ELSE n
           got   == paginate(Rows(cursor, limit), limit)
           shown == ToSet(got.items)
<1>1. /\ got.items \in Seq(found) /\ Len(got.items) = size
      /\ \A i \in 1..size : got.items[i] = s[i]
      /\ got.nextCursor = IF n > limit THEN encodeCursor(s[limit]) ELSE NoCursor
  BY RowsRead
<1>2. /\ n \in Nat
      /\ \A i \in 1..n : s[i] \in found
      /\ \A i, j \in 1..n : i < j => Newer(s[i], s[j])
      /\ \A r \in found : \E i \in 1..n : s[i] = r
  BY FoundIsTable, NewestFirstSorts
<1>3. found \subseteq rows
  BY FoundIsTable
<1> HIDE DEF s, n, found, got
<1>4. size \in 0..n /\ (n > limit => size = limit)
  BY <1>2
<1>5. got.items \in Seq(rows)
  BY <1>1, <1>3, SeqMonotonic
<1>6. shown = {s[i] : i \in 1..size}
  <2>1. shown = {got.items[i] : i \in 1..size}
    BY <1>1 DEF ToSet
  <2> HIDE DEF size, shown
  <2>2. QED
    BY <1>1, <2>1
<1>7. shown \subseteq found
  <2> HIDE DEF shown, size
  <2>1. \A i \in 1..size : i \in 1..n
    BY <1>2, <1>4
  <2>2. QED
    BY <1>2, <1>6, <2>1
<1>8. found # {} => shown # {}
  <2> SUFFICES ASSUME NEW r \in found PROVE shown # {}
    OBVIOUS
  <2>1. PICK i \in 1..n : s[i] = r
    BY <1>2
  <2>2. 1 \in 1..size
    BY <1>2, <2>1
  <2> HIDE DEF shown, size
  <2>3. QED
    BY <1>6, <2>2
<1>9. CASE ~(n > limit)
  <2>1. size = n /\ got.nextCursor = NoCursor
    BY <1>1, <1>9
  <2> HIDE DEF shown, size
  <2>2. found \subseteq shown
    BY <1>2, <1>6, <2>1
  <2>3. QED
    BY <1>5, <1>7, <1>8, <2>1, <2>2 DEF found, got, shown
<1>10. CASE n > limit
  <2> DEFINE last == s[limit]
             more == s[limit + 1]
  <2>1. size = limit /\ limit \in 1..n /\ limit + 1 \in 1..n /\ limit < limit + 1
        /\ got.nextCursor = encodeCursor(last)
    BY <1>1, <1>2, <1>10
  <2> HIDE DEF shown, size
  <2>2. limit \in 1..limit
    OBVIOUS
  <2>3. last \in shown /\ more \in found /\ Newer(last, more)
    BY <1>2, <1>6, <2>1, <2>2
  <2>4. ASSUME NEW q \in shown PROVE q = last \/ Newer(q, last)
    <3>1. PICK i \in 1..limit : s[i] = q
      BY <1>6, <2>1
    <3>2. i = limit \/ i < limit
      BY <3>1
    <3>3. i \in 1..n /\ limit \in 1..n
      BY <1>2, <2>1, <3>1
    <3>4. CASE i < limit
      BY <1>2, <3>1, <3>3, <3>4
    <3>5. QED
      BY <3>1, <3>2, <3>4
  <2>5. ASSUME NEW r \in found PROVE r \in shown \/ Newer(last, r)
    <3>1. PICK i \in 1..n : s[i] = r
      BY <1>2
    <3>2. i \in 1..limit \/ limit < i
      BY <3>1
    <3>3. QED
      BY <1>2, <1>6, <2>1, <3>1, <3>2
  <2> HIDE DEF last, more
  <2>6. \E l \in shown : \E k \in found :
          /\ got.nextCursor = encodeCursor(l)
          /\ \A q \in shown : q = l \/ Newer(q, l)
          /\ \A r \in found : r \in shown \/ Newer(l, r)
          /\ Newer(l, k)
    BY <2>1, <2>3, <2>4, <2>5
  <2>7. QED
    BY <1>5, <1>7, <1>8, <2>6 DEF found, got, shown
<1>11. QED
  BY <1>9, <1>10

(* A page fits as it is read.                                                  *)
LEMMA PageReadFits ==
  ASSUME TablesInv, NEW cursor \in Cursor \cup {NoCursor}, NEW before,
         cursor # NoCursor => LeadsOn(cursor, before, rows),
         NEW limit \in Nat \ {0}
  PROVE  LET got == paginate(Rows(cursor, limit), limit)
         IN  /\ got.items \in Seq(rows)
             /\ got.nextCursor \in Cursor \cup {NoCursor}
             /\ PageFits(ToSet(got.items), cursor, got.nextCursor, before, rows, rows)
<1> DEFINE got   == paginate(Rows(cursor, limit), limit)
           next  == got.nextCursor
           shown == ToSet(got.items)
           found == Found(cursor)
<1>1. /\ got.items \in Seq(rows) /\ shown \subseteq found
      /\ found # {} => shown # {}
      /\ \/ next = NoCursor /\ shown = found
         \/ \E last \in shown : \E more \in found :
              /\ next = encodeCursor(last)
              /\ \A q \in shown : q = last \/ Newer(q, last)
              /\ \A r \in found : r \in shown \/ Newer(last, r)
              /\ Newer(last, more)
  BY PageRead
<1>2. \A r : r \in found <=> r \in rows /\ Below(r, cursor)
  BY DEF Found
<1>3. rows \subseteq TableRow
  BY DEF TablesInv
<1> HIDE DEF found, shown, got
<1>4. /\ shown \subseteq rows
      /\ \A r \in shown : Below(r, cursor)
  BY <1>1, <1>2
<1>5. cursor # NoCursor /\ shown = {} => \E r \in rows : \E q \in before : CutOffBy(q, r)
  BY <1>1, <1>2 DEF LeadsOn, Below
<1>6. CASE next = NoCursor /\ shown = found
  BY <1>1, <1>2, <1>4, <1>5, <1>6 DEF PageFits, got, shown
<1>7. CASE \E last \in shown : \E more \in found :
              /\ next = encodeCursor(last)
              /\ \A q \in shown : q = last \/ Newer(q, last)
              /\ \A r \in found : r \in shown \/ Newer(last, r)
              /\ Newer(last, more)
  <2>1. PICK last \in shown : \E more \in found :
              /\ next = encodeCursor(last)
              /\ \A q \in shown : q = last \/ Newer(q, last)
              /\ \A r \in found : r \in shown \/ Newer(last, r)
              /\ Newer(last, more)
    BY <1>7
  <2>2. PICK more \in found : Newer(last, more)
    BY <2>1
  <2>3. last \in TableRow /\ more \in TableRow /\ more \in rows
    BY <1>2, <1>3, <1>4
  <2>4. next = encodeCursor(last) /\ next \in Cursor /\ next # NoCursor
    BY <2>1, <2>3, CursorOf
  <2>5. NotAfter(next, cursor)
    BY <1>4, <2>3, <2>4, CursorDescends
  <2>6. \A r \in shown : ~keysetBefore(r, next)
    BY <1>3, <1>4, <2>1, <2>3, <2>4, CursorOrder
  <2>7. \A r \in rows : Below(r, cursor) =>
          r \in shown \/ keysetBefore(r, next) \/ CutOffBy(last, r)
    BY <1>2, <1>3, <2>1, <2>3, <2>4, CursorOrder
  <2>8. LeadsOn(next, shown, rows)
    BY <2>2, <2>3, <2>4, CursorOrder DEF LeadsOn
  <2> HIDE DEF next
  <2>9. PageFits(shown, cursor, next, before, rows, rows)
    BY <1>4, <1>5, <2>4, <2>5, <2>6, <2>7, <2>8 DEF PageFits
  <2>10. QED
    BY <1>1, <2>4, <2>9 DEF got, shown, next
<1>8. QED
  BY <1>1, <1>6, <1>7

-------------------------------------------------------------------------------
(* Steps.                                                                      *)

LEMMA FitsLater ==
  ASSUME NEW shown, NEW cursor, NEW next, NEW before, NEW seen,
         NEW table, PageFits(shown, cursor, next, before, seen, table),
         NEW more, NEW fewer, table \subseteq more, fewer \subseteq seen
  PROVE  PageFits(shown, cursor, next, before, fewer, more)
  BY DEF PageFits, LeadsOn

(* Whatever the transactions do, the page stays as it is.                      *)
LEMMA TablesStep ==
  ASSUME PagesInv, TablesInv', rows \subseteq rows', UNCHANGED <<page, answer, history>>
  PROVE  PagesInv'
<1>1. /\ cursorStack' = cursorStack /\ items' = items /\ nextCursor' = nextCursor
      /\ state' = state /\ answer' = answer /\ pages' = pages /\ present' = present
      /\ Before' = Before
  BY DEF page, history, Before, Depth
<1>2. StackInv'
  <2>1. pages \in Seq(SUBSET rows')
    <3>1. SUBSET rows \subseteq SUBSET rows'
      OBVIOUS
    <3>2. QED
      BY <3>1, SeqMonotonic DEF PagesInv, StackInv
  <2>2. \A e \in 2..Depth : LeadsOn(cursorStack[e], pages[e - 1], rows')
    BY DEF PagesInv, StackInv, LeadsOn
  <2>3. Depth' = Depth
    BY <1>1 DEF Depth
  <2>4. QED
    BY <1>1, <2>1, <2>2, <2>3 DEF PagesInv, StackInv
<1>3. AnswerInv'
  <2> SUFFICES ASSUME state = "answered"
               PROVE  /\ answer.items \in Seq(rows')
                      /\ answer.nextCursor \in Cursor \cup {NoCursor}
                      /\ PageFits(ToSet(answer.items), cursorStack[Depth],
                                  answer.nextCursor, Before, present, rows')
    BY <1>1 DEF AnswerInv, Depth
  <2>1. /\ answer.items \in Seq(rows)
        /\ answer.nextCursor \in Cursor \cup {NoCursor}
        /\ PageFits(ToSet(answer.items), cursorStack[Depth], answer.nextCursor, Before, present, rows)
    BY DEF PagesInv, AnswerInv
  <2>2. QED
    BY <2>1, FitsLater, SeqMonotonic
<1>4. ShownInv'
  <2> SUFFICES ASSUME state = "shown"
               PROVE  /\ Len(pages) = Depth
                      /\ items \in Seq(rows') /\ pages[Depth] = ToSet(items)
                      /\ nextCursor \in Cursor \cup {NoCursor}
                      /\ PageFits(ToSet(items), cursorStack[Depth], nextCursor, Before, present, rows')
    BY <1>1 DEF ShownInv, Depth
  <2>1. /\ Len(pages) = Depth
        /\ items \in Seq(rows) /\ pages[Depth] = ToSet(items)
        /\ nextCursor \in Cursor \cup {NoCursor}
        /\ PageFits(ToSet(items), cursorStack[Depth], nextCursor, Before, present, rows)
    BY DEF PagesInv, ShownInv
  <2>2. QED
    BY <2>1, FitsLater, SeqMonotonic
<1>5. QED
  BY <1>2, <1>3, <1>4 DEF PagesInv

LEMMA BeginStep ==
  ASSUME PagesInv, NEW id \in Ids, Begin(id)
  PROVE  PagesInv'
<1> DEFINE row == [createdAt |-> clock, id |-> id]
<1>1. /\ id \notin {r.id : r \in open \cup rows}
      /\ open' = open \cup {row} /\ rows' = rows /\ clock' = clock /\ present' = present
      /\ UNCHANGED <<page, answer, history>>
  BY DEF Begin, history
<1>2. row \in TableRow /\ row.id = id
  BY DEF PagesInv, TablesInv, TableRow
<1> HIDE DEF row
<1>3. IsFiniteSet(open')
  BY <1>1, FS_AddElement DEF PagesInv, TablesInv
<1>4. \A r, q \in open' \cup rows' : r.id = q.id => r = q
  BY <1>1, <1>2 DEF PagesInv, TablesInv
<1>5. TablesInv'
  BY <1>1, <1>2, <1>3, <1>4 DEF PagesInv, TablesInv
<1>6. QED
  BY <1>1, <1>5, TablesStep

LEMMA CommitStep ==
  ASSUME PagesInv, NEW r \in open, Commit(r)
  PROVE  PagesInv'
<1>1. /\ open' = open \ {r} /\ rows' = rows \cup {r} /\ clock' = clock /\ present' = present
      /\ UNCHANGED <<page, answer, history>>
  BY DEF Commit, history
<1>2. IsFiniteSet(open') /\ IsFiniteSet(rows')
  BY <1>1, FS_AddElement, FS_RemoveElement DEF PagesInv, TablesInv
<1>3. TablesInv'
  BY <1>1, <1>2 DEF PagesInv, TablesInv
<1>4. QED
  BY <1>1, <1>3, TablesStep

LEMMA RollbackStep ==
  ASSUME PagesInv, NEW r \in open, Rollback(r)
  PROVE  PagesInv'
<1>1. /\ open' = open \ {r} /\ rows' = rows /\ clock' = clock /\ present' = present
      /\ UNCHANGED <<page, answer, history>>
  BY DEF Rollback, history
<1>2. IsFiniteSet(open')
  BY <1>1, FS_RemoveElement DEF PagesInv, TablesInv
<1>3. TablesInv'
  BY <1>1, <1>2 DEF PagesInv, TablesInv
<1>4. QED
  BY <1>1, <1>3, TablesStep

LEMMA TickStep ==
  ASSUME PagesInv, Tick
  PROVE  PagesInv'
<1>1. /\ open' = open /\ rows' = rows /\ clock' = clock + 1 /\ present' = present
      /\ UNCHANGED <<page, answer, history>>
  BY DEF Tick, history
<1>2. TablesInv'
  BY <1>1 DEF PagesInv, TablesInv, Time
<1>3. QED
  BY <1>1, <1>2, TablesStep

LEMMA FetchStep ==
  ASSUME PagesInv, Fetch
  PROVE  PagesInv'
<1> DEFINE limit  == normalizeLimit(PAGE_SIZE)
           cursor == cursorStack[Depth]
<1>1. /\ state = "loading" /\ state' = "answered"
      /\ answer' = paginate(Rows(Last(cursorStack), limit), limit)
      /\ present' = IF Len(cursorStack) = 1 THEN rows ELSE present
      /\ UNCHANGED <<tables, cursorStack, items, nextCursor, pages>>
  BY DEF Fetch
<1>2. /\ open' = open /\ rows' = rows /\ clock' = clock
      /\ cursorStack' = cursorStack /\ pages' = pages /\ Depth' = Depth /\ Before' = Before
  BY <1>1 DEF tables, Depth, Before
<1>3. Last(cursorStack) = cursor
  BY DEF Last, Depth
<1>4. /\ Depth \in Nat /\ Depth > 0 /\ cursor \in Cursor \cup {NoCursor}
      /\ cursorStack[1] = NoCursor
  BY DEF PagesInv, StackInv, Depth
<1>5. cursor # NoCursor => LeadsOn(cursor, Before, rows)
  <2>1. Depth # 1 => Depth \in 2..Depth
    BY <1>4
  <2>2. QED
    BY <1>4, <2>1 DEF PagesInv, StackInv, Before
<1> HIDE DEF cursor
<1>6. /\ answer'.items \in Seq(rows)
      /\ answer'.nextCursor \in Cursor \cup {NoCursor}
      /\ PageFits(ToSet(answer'.items), cursor, answer'.nextCursor, Before, rows, rows)
  <2>1. limit \in Nat \ {0}
    BY LimitType
  <2>2. answer' = paginate(Rows(cursor, limit), limit)
    BY <1>1, <1>3
  <2> HIDE DEF limit
  <2>3. QED
    BY <1>4, <1>5, <2>1, <2>2, PageReadFits DEF PagesInv
<1>7. present' \subseteq rows
  BY <1>1 DEF PagesInv, TablesInv
<1>8. TablesInv'
  BY <1>2, <1>7 DEF PagesInv, TablesInv
<1>9. StackInv'
  <2>1. CASE Depth = 1
    <3>1. \A e \in 1..Depth : Passed(e, cursorStack, pages, present')
      BY <1>4, <2>1 DEF Passed, Below
    <3>2. QED
      BY <1>2, <3>1 DEF PagesInv, StackInv
  <2>2. CASE Depth # 1
    <3>1. present' = present
      BY <1>1, <2>2 DEF Depth
    <3>2. QED
      BY <1>2, <3>1 DEF PagesInv, StackInv
  <2>3. QED
    BY <2>1, <2>2
<1>10. AnswerInv'
  BY <1>2, <1>6, <1>7, FitsLater DEF AnswerInv, cursor
<1>11. ShownInv'
  BY <1>1 DEF ShownInv
<1>12. QED
  BY <1>8, <1>9, <1>10, <1>11 DEF PagesInv

(* A page that fits takes the place of the pages from its depth on.            *)
LEMMA ShowStep ==
  ASSUME PagesInv, Show
  PROVE  PagesInv'
<1> DEFINE shown == ToSet(answer.items)
           kept  == SubSeq(pages, 1, Depth - 1)
<1>1. /\ state = "answered" /\ state' = "shown"
      /\ items' = answer.items /\ nextCursor' = answer.nextCursor
      /\ pages' = Append(kept, shown)
      /\ UNCHANGED <<tables, cursorStack, present>>
  BY DEF Show, Depth
<1>2. /\ open' = open /\ rows' = rows /\ clock' = clock
      /\ cursorStack' = cursorStack /\ present' = present /\ Depth' = Depth
  BY <1>1 DEF tables, Depth
<1>3. /\ answer.items \in Seq(rows)
      /\ answer.nextCursor \in Cursor \cup {NoCursor}
      /\ PageFits(shown, cursorStack[Depth], answer.nextCursor, Before, present, rows)
  BY <1>1 DEF PagesInv, AnswerInv
<1>4. /\ Depth \in Nat /\ Depth > 0 /\ Len(pages) \in Nat /\ Len(pages) >= Depth - 1
      /\ pages \in Seq(SUBSET rows)
  BY DEF PagesInv, StackInv, Depth
<1>5. shown \in SUBSET rows
  BY <1>3 DEF PageFits
<1> HIDE DEF shown
<1>6. /\ kept \in Seq(SUBSET rows) /\ Len(kept) = Depth - 1
      /\ \A d \in 1..(Depth - 1) : kept[d] = pages[d]
  <2>1. \A d \in 1..(Depth - 1) : pages[d] \in SUBSET rows
    BY <1>4
  <2>2. Depth - 1 \in Int /\ Depth - 1 >= 0
    BY <1>4
  <2>3. QED
    BY <2>1, <2>2, SubSeqProperties
<1> HIDE DEF kept
<1>7. /\ pages' \in Seq(SUBSET rows) /\ Len(pages') = Depth /\ pages'[Depth] = shown
      /\ \A d \in 1..(Depth - 1) : pages'[d] = pages[d]
  <2>1. Len(kept) + 1 = Depth
    BY <1>4, <1>6
  <2>2. QED
    BY <1>1, <1>5, <1>6, <2>1, AppendProperties
<1>8. ASSUME NEW e \in 1..Depth
      PROVE  Passed(e, cursorStack, pages', present)
  <2>1. Passed(e, cursorStack, pages, present)
    BY DEF PagesInv, StackInv
  <2>2. \A d \in 1..(e - 1) : pages'[d] = pages[d]
    BY <1>4, <1>7
  <2>3. QED
    BY <2>1, <2>2 DEF Passed
<1>9. TablesInv'
  BY <1>2 DEF PagesInv, TablesInv
<1>10. StackInv'
  BY <1>2, <1>4, <1>7, <1>8 DEF PagesInv, StackInv
<1>11. AnswerInv'
  BY <1>1 DEF AnswerInv
<1>12. ShownInv'
  <2>1. Before' = Before
    BY <1>2, <1>4, <1>7 DEF Before
  <2>2. QED
    BY <1>1, <1>2, <1>3, <1>7, <2>1 DEF ShownInv, shown
<1>13. QED
  BY <1>9, <1>10, <1>11, <1>12 DEF PagesInv

(* Steps that leave the stack and the pages alone, and show nothing.           *)
LEMMA FailReloadStep ==
  ASSUME PagesInv, Fail \/ reload
  PROVE  PagesInv'
<1>1. /\ state' \in {"error", "loading"}
      /\ UNCHANGED <<tables, cursorStack, history>>
  BY DEF Fail, reload
<1>2. /\ open' = open /\ rows' = rows /\ clock' = clock
      /\ cursorStack' = cursorStack /\ pages' = pages /\ present' = present
      /\ Depth' = Depth
  BY <1>1 DEF tables, history, Depth
<1>3. TablesInv'
  BY <1>2 DEF PagesInv, TablesInv
<1>4. StackInv'
  BY <1>2 DEF PagesInv, StackInv
<1>5. AnswerInv' /\ ShownInv'
  BY <1>1 DEF AnswerInv, ShownInv
<1>6. QED
  BY <1>3, <1>4, <1>5 DEF PagesInv

(* An empty list: what Init and Mount have in common.                          *)
LEMMA FirstPage ==
  cursorStack = <<NoCursor>> /\ pages = <<>> /\ present = {} /\ state = "loading"
    => StackInv /\ AnswerInv /\ ShownInv
<1> SUFFICES ASSUME cursorStack = <<NoCursor>>, pages = <<>>, present = {},
                    state = "loading"
             PROVE  StackInv /\ AnswerInv /\ ShownInv
  OBVIOUS
<1>1. /\ cursorStack \in Seq(Cursor \cup {NoCursor}) /\ Depth = 1
      /\ cursorStack[1] = NoCursor
  BY DEF Depth
<1>2. pages \in Seq(SUBSET rows) /\ Len(pages) = 0
  BY EmptySeq
<1>3. \A e \in 1..1 : Passed(e, cursorStack, pages, present)
  BY DEF Passed
<1>4. QED
  BY <1>1, <1>2, <1>3 DEF StackInv, AnswerInv, ShownInv

LEMMA PagesInit == Init => PagesInv
<1> SUFFICES ASSUME Init PROVE PagesInv
  OBVIOUS
<1>1. TablesInv
  BY FS_EmptySet DEF Init, TablesInv, Time
<1>2. QED
  BY <1>1, FirstPage DEF Init, PagesInv

LEMMA MountStep ==
  ASSUME PagesInv, Mount
  PROVE  PagesInv'
<1>1. /\ cursorStack' = <<NoCursor>> /\ pages' = <<>> /\ present' = {} /\ state' = "loading"
      /\ open' = open /\ rows' = rows /\ clock' = clock
  BY DEF Mount, tables
<1>2. TablesInv'
  BY <1>1 DEF PagesInv, TablesInv
<1>3. (cursorStack = <<NoCursor>> /\ pages = <<>> /\ present = {} /\ state = "loading"
         => StackInv /\ AnswerInv /\ ShownInv)'
  BY FirstPage, PTL
<1>4. QED
  BY <1>1, <1>2, <1>3 DEF PagesInv

(* The page that is left fits between its cursor and the new one.              *)
LEMMA NextStep ==
  ASSUME PagesInv, onNext
  PROVE  PagesInv'
<1> DEFINE cursor == cursorStack[Depth]
<1>1. /\ state = "shown" /\ state' = "loading" /\ nextCursor # NoCursor
      /\ cursorStack' = Append(cursorStack, nextCursor)
      /\ UNCHANGED <<tables, history>>
  BY DEF onNext
<1>2. /\ open' = open /\ rows' = rows /\ clock' = clock
      /\ pages' = pages /\ present' = present
  BY <1>1 DEF tables, history
<1>3. /\ Len(pages) = Depth /\ nextCursor \in Cursor
      /\ PageFits(pages[Depth], cursor, nextCursor, Before, present, rows)
  BY <1>1 DEF PagesInv, ShownInv
<1>4. /\ Depth \in Nat /\ Depth > 0
      /\ cursorStack \in Seq(Cursor \cup {NoCursor}) /\ cursor \in Cursor \cup {NoCursor}
  BY DEF PagesInv, StackInv, Depth
<1>5. /\ cursorStack' \in Seq(Cursor \cup {NoCursor}) /\ Depth' = Depth + 1
      /\ cursorStack'[Depth + 1] = nextCursor
      /\ \A e \in 1..Depth : cursorStack'[e] = cursorStack[e]
  BY <1>1, <1>3, <1>4, AppendProperties DEF Depth
<1>6. /\ rows \subseteq TableRow /\ present \subseteq rows
      /\ \A d \in 1..Depth : pages[d] \subseteq rows
  <2>1. pages \in Seq(SUBSET rows)
    BY DEF PagesInv, StackInv
  <2>2. QED
    BY <1>3, <2>1 DEF PagesInv, TablesInv
<1>7. ASSUME NEW e \in 1..Depth
      PROVE  Passed(e, cursorStack', pages, present)
  <2>1. Passed(e, cursorStack, pages, present)
    BY DEF PagesInv, StackInv
  <2>2. \A d \in 1..e : cursorStack'[d] = cursorStack[d]
    BY <1>4, <1>5
  <2>3. e \in 1..e /\ \A d \in 1..(e - 1) : d \in 1..e
    OBVIOUS
  <2>4. QED
    BY <2>1, <2>2, <2>3 DEF Passed
<1>8. Passed(Depth + 1, cursorStack', pages, present)
  <2>1. Passed(Depth, cursorStack, pages, present)
    BY <1>4 DEF PagesInv, StackInv
  <2>2. ASSUME NEW d \in 1..Depth, NEW r \in pages[d]
        PROVE  Below(r, cursorStack[d]) /\ ~Below(r, nextCursor)
    <3>1. CASE d = Depth
      BY <1>1, <1>3, <3>1 DEF PageFits, Below
    <3>2. CASE d # Depth
      <4>1. d \in 1..(Depth - 1)
        BY <1>4, <3>2
      <4>2. Below(r, cursorStack[d]) /\ ~Below(r, cursor)
        BY <2>1, <4>1 DEF Passed
      <4>3. NotAfter(nextCursor, cursor) /\ r \in TableRow
        BY <1>1, <1>3, <1>6 DEF PageFits
      <4>4. ~keysetBefore(r, nextCursor)
        BY <1>3, <1>4, <4>2, <4>3, BelowDescends
      <4>5. QED
        BY <1>1, <4>2, <4>4 DEF Below
    <3>3. QED
      BY <3>1, <3>2
  <2>3. ASSUME NEW r \in present
        PROVE  \/ Below(r, nextCursor)
               \/ \E d \in 1..Depth : r \in pages[d] \/ \E q \in pages[d] : CutOffBy(q, r)
    <3>1. CASE Below(r, cursor)
      BY <1>1, <1>3, <1>4, <3>1 DEF PageFits, Below
    <3>2. CASE ~Below(r, cursor)
      <4>1. PICK d \in 1..(Depth - 1) :
              r \in pages[d] \/ \E q \in pages[d] : CutOffBy(q, r)
        BY <2>1, <3>2 DEF Passed
      <4>2. d \in 1..Depth
        BY <1>4
      <4>3. QED
        BY <4>1, <4>2
    <3>3. QED
      BY <3>1, <3>2
  <2>4. /\ (Depth + 1) - 1 = Depth
        /\ \A d \in 1..Depth : cursorStack'[d] = cursorStack[d]
        /\ cursorStack'[Depth + 1] = nextCursor
    BY <1>4, <1>5
  <2>5. QED
    BY <2>2, <2>3, <2>4 DEF Passed
<1>9. ASSUME NEW e \in 2..(Depth + 1)
      PROVE  LeadsOn(cursorStack'[e], pages[e - 1], rows)
  <2>1. CASE e = Depth + 1
    <3>1. e - 1 = Depth
      BY <1>4, <2>1
    <3>2. QED
      BY <1>1, <1>3, <1>5, <2>1, <3>1 DEF PageFits
  <2>2. CASE e # Depth + 1
    <3>1. e \in 2..Depth /\ cursorStack'[e] = cursorStack[e]
      BY <1>4, <1>5, <2>2
    <3>2. QED
      BY <3>1 DEF PagesInv, StackInv
  <2>3. QED
    BY <2>1, <2>2
<1>10. cursorStack'[1] = NoCursor
  BY <1>4, <1>5 DEF PagesInv, StackInv
<1>11. \A e \in 1..(Depth + 1) : Passed(e, cursorStack', pages, present)
  <2>1. \A e \in 1..(Depth + 1) : e \in 1..Depth \/ e = Depth + 1
    BY <1>4
  <2>2. QED
    BY <1>7, <1>8, <2>1
<1>12. StackInv'
  <2>1. Depth' > 0 /\ Len(pages) >= Depth' - 1 /\ Depth' = Depth + 1
    BY <1>3, <1>4, <1>5
  <2>2. QED
    BY <1>2, <1>5, <1>9, <1>10, <1>11, <2>1 DEF PagesInv, StackInv
<1>13. TablesInv' /\ AnswerInv' /\ ShownInv'
  BY <1>1, <1>2 DEF PagesInv, TablesInv, AnswerInv, ShownInv
<1>14. QED
  BY <1>12, <1>13 DEF PagesInv

LEMMA PreviousStep ==
  ASSUME PagesInv, onPrevious
  PROVE  PagesInv'
<1>1. /\ state' = "loading" /\ Depth > 1
      /\ cursorStack' = SubSeq(cursorStack, 1, Depth - 1)
      /\ UNCHANGED <<tables, history>>
  BY DEF onPrevious, Front, Depth
<1>2. /\ open' = open /\ rows' = rows /\ clock' = clock
      /\ pages' = pages /\ present' = present
  BY <1>1 DEF tables, history
<1>3. /\ Depth \in Nat /\ Depth > 1 /\ Len(pages) \in Nat /\ Len(pages) >= Depth - 1
      /\ cursorStack \in Seq(Cursor \cup {NoCursor})
  BY <1>1 DEF PagesInv, StackInv, Depth
<1>4. /\ cursorStack' \in Seq(Cursor \cup {NoCursor}) /\ Depth' = Depth - 1
      /\ \A e \in 1..(Depth - 1) : cursorStack'[e] = cursorStack[e]
  <2>1. \A e \in 1..(Depth - 1) : cursorStack[e] \in Cursor \cup {NoCursor}
    BY <1>3 DEF Depth
  <2>2. Len(cursorStack)' = Depth'
    BY DEF Depth
  <2> DEFINE n == Depth - 1
  <2>3. n \in Int /\ n >= 1
    BY <1>3
  <2> HIDE DEF n
  <2>4. /\ SubSeq(cursorStack, 1, n) \in Seq(Cursor \cup {NoCursor})
        /\ Len(SubSeq(cursorStack, 1, n)) = n
        /\ \A e \in 1..n : SubSeq(cursorStack, 1, n)[e] = cursorStack[e]
    BY <2>1, <2>3, SubSeqProperties DEF n
  <2>5. QED
    BY <1>1, <2>2, <2>4 DEF n
<1>5. ASSUME NEW e \in 1..(Depth - 1)
      PROVE  Passed(e, cursorStack', pages, present)
  <2>1. Passed(e, cursorStack, pages, present)
    BY <1>3 DEF PagesInv, StackInv
  <2>2. \A d \in 1..e : cursorStack'[d] = cursorStack[d]
    BY <1>3, <1>4
  <2>3. e \in 1..e /\ \A d \in 1..(e - 1) : d \in 1..e
    OBVIOUS
  <2>4. QED
    BY <2>1, <2>2, <2>3 DEF Passed
<1>6. \A e \in 2..(Depth - 1) : LeadsOn(cursorStack'[e], pages[e - 1], rows)
  BY <1>3, <1>4 DEF PagesInv, StackInv
<1>7. cursorStack'[1] = NoCursor
  BY <1>3, <1>4 DEF PagesInv, StackInv
<1>8. StackInv'
  <2>1. Depth' > 0 /\ Len(pages) >= Depth' - 1
    BY <1>3, <1>4
  <2>2. QED
    BY <1>2, <1>4, <1>5, <1>6, <1>7, <2>1 DEF PagesInv, StackInv
<1>9. TablesInv' /\ AnswerInv' /\ ShownInv'
  BY <1>1, <1>2 DEF PagesInv, TablesInv, AnswerInv, ShownInv
<1>10. QED
  BY <1>8, <1>9 DEF PagesInv

LEMMA PagesNext == PagesInv /\ [Next]_vars => PagesInv'
<1> SUFFICES ASSUME PagesInv, [Next]_vars PROVE PagesInv'
  OBVIOUS
<1>1. CASE \E id \in Ids : Begin(id)
  BY <1>1, BeginStep
<1>2. CASE \E r \in open : Commit(r) \/ Rollback(r)
  BY <1>2, CommitStep, RollbackStep
<1>3. CASE Tick
  BY <1>3, TickStep
<1>4. CASE Mount
  BY <1>4, MountStep
<1>5. CASE Fetch
  BY <1>5, FetchStep
<1>6. CASE Show
  BY <1>6, ShowStep
<1>7. CASE Fail \/ reload
  BY <1>7, FailReloadStep
<1>8. CASE onNext
  BY <1>8, NextStep
<1>9. CASE onPrevious
  BY <1>9, PreviousStep
<1>10. CASE UNCHANGED vars
  <2>1. /\ UNCHANGED <<page, answer, history>>
        /\ open' = open /\ rows' = rows /\ clock' = clock /\ present' = present
    BY <1>10 DEF vars, page, history
  <2>2. TablesInv'
    BY <2>1 DEF PagesInv, TablesInv
  <2>3. QED
    BY <2>1, <2>2, TablesStep
<1>11. QED
  BY <1>1, <1>2, <1>3, <1>4, <1>5, <1>6, <1>7, <1>8, <1>9, <1>10 DEF Next

(* The pages up to the one on the screen are always what their cursors cut the *)
(* list into, whatever is inserted, refused, retried, paged back or forth      *)
(* (listOrders, listProducts, paginate; the list page's cursorStack).          *)
THEOREM PagesInvariant == Spec => []PagesInv
  BY PagesInit, PagesNext, PTL DEF Spec

-------------------------------------------------------------------------------
(* What the invariant says of a page that is shown.                            *)

LEMMA ShownPages ==
  ASSUME PagesInv, state = "shown"
  PROVE  /\ Depth \in Nat /\ Depth > 0
         /\ DOMAIN pages = 1..Depth
         /\ \A d \in 1..Depth : pages[d] \subseteq rows
         /\ PageFits(pages[Depth], cursorStack[Depth], nextCursor, Before, present, rows)
         /\ \A e \in 1..Depth : Passed(e, cursorStack, pages, present)
<1>1. pages \in Seq(SUBSET rows) /\ Len(pages) = Depth
  BY DEF PagesInv, StackInv, ShownInv
<1>2. Depth \in Nat /\ Depth > 0
  BY DEF PagesInv, StackInv, Depth
<1>3. DOMAIN pages = 1..Depth /\ \A d \in 1..Depth : pages[d] \subseteq rows
  BY <1>1
<1>4. PageFits(pages[Depth], cursorStack[Depth], nextCursor, Before, present, rows)
  BY DEF PagesInv, ShownInv
<1>5. \A e \in 1..Depth : Passed(e, cursorStack, pages, present)
  BY DEF PagesInv, StackInv
<1>6. QED
  BY <1>2, <1>3, <1>4, <1>5

(* The later page has only rows that its cursor lets through, the earlier one  *)
(* none of them.                                                               *)
LEMMA PagesDisjoint ==
  ASSUME PagesInv, state = "shown"
  PROVE  \A d, e \in DOMAIN pages : d # e => pages[d] \cap pages[e] = {}
<1>1. ASSUME NEW e \in 1..Depth, NEW r \in pages[e] PROVE Below(r, cursorStack[e])
  <2>1. CASE e = Depth
    BY <2>1, ShownPages DEF PageFits
  <2>2. CASE e # Depth
    <3>1. e \in 1..(Depth - 1) /\ Depth \in 1..Depth
      BY <2>2, ShownPages
    <3>2. Passed(Depth, cursorStack, pages, present)
      BY <3>1, ShownPages
    <3>3. QED
      BY <3>1, <3>2 DEF Passed
  <2>3. QED
    BY <2>1, <2>2
<1>2. ASSUME NEW d \in 1..Depth, NEW e \in 1..Depth, d < e
      PROVE  pages[d] \cap pages[e] = {}
  <2>1. d \in 1..(e - 1)
    BY <1>2
  <2>2. Passed(e, cursorStack, pages, present)
    BY ShownPages
  <2>3. \A r \in pages[d] : ~Below(r, cursorStack[e])
    BY <2>1, <2>2 DEF Passed
  <2>4. QED
    BY <1>1, <2>3
<1>3. \A d, e \in 1..Depth : d = e \/ d < e \/ e < d
  OBVIOUS
<1>4. QED
  BY <1>2, <1>3, ShownPages

(* A row that the last cursor passed was shown or cut off before; one that it  *)
(* did not is on the last page.                                                *)
LEMMA PagesComplete ==
  ASSUME PagesInv, state = "shown", nextCursor = NoCursor
  PROVE  \A r \in present : \E d \in DOMAIN pages :
           r \in pages[d] \/ \E q \in pages[d] : CutOffBy(q, r)
<1> SUFFICES ASSUME NEW r \in present
             PROVE  \E d \in 1..Depth : r \in pages[d] \/ \E q \in pages[d] : CutOffBy(q, r)
  BY ShownPages
<1>1. Depth \in 1..Depth /\ \A d \in 1..(Depth - 1) : d \in 1..Depth
  BY ShownPages
<1>2. CASE Below(r, cursorStack[Depth])
  <2>1. r \in pages[Depth]
    BY <1>2, ShownPages DEF PageFits
  <2>2. QED
    BY <1>1, <2>1
<1>3. CASE ~Below(r, cursorStack[Depth])
  <2>1. Passed(Depth, cursorStack, pages, present)
    BY <1>1, ShownPages
  <2>2. QED
    BY <1>1, <1>3, <2>1 DEF Passed
<1>4. QED
  BY <1>2, <1>3

(* For every precision of a timestamp, PostgreSQL's microseconds among them:   *)
(* paging shows no row twice, and skips none but rows that share a millisecond *)
(* with a row that was shown (keysetBefore, encodeCursor, paginate).           *)
THEOREM OnlyAMillisecondIsSkipped == Spec => []SkipsShareAMillisecond
<1>1. PagesInv => SkipsShareAMillisecond
  BY PagesDisjoint, PagesComplete DEF SkipsShareAMillisecond
<1>2. QED
  BY <1>1, PagesInvariant, PTL

(* No two rows were created in the same millisecond, the finest a cursor tells.*)
MillisecondEach == \A r, q \in rows : encodeCursor(r).c = encodeCursor(q).c => r = q

(* For every precision of a timestamp and every page size: while no two rows   *)
(* share a millisecond, paging from the first page to the last shows each row  *)
(* once, whatever is inserted in between (encodeCursor, keysetBefore,          *)
(* paginate).                                                                  *)
THEOREM EachRowOnceIfApart == Spec => [](MillisecondEach => EachRowOnce)
<1>1. PagesInv => (MillisecondEach => EachRowOnce)
  <2> SUFFICES ASSUME PagesInv, MillisecondEach, state = "shown" PROVE EachRowOnce
    BY DEF EachRowOnce
  <2>1. /\ rows \subseteq TableRow /\ present \subseteq rows
        /\ \A d \in DOMAIN pages : pages[d] \subseteq rows
    BY ShownPages DEF PagesInv, TablesInv
  <2>2. ASSUME nextCursor = NoCursor, NEW r \in present
        PROVE  \E d \in DOMAIN pages : r \in pages[d]
    <3>1. PICK d \in DOMAIN pages : r \in pages[d] \/ \E q \in pages[d] : CutOffBy(q, r)
      BY <2>2, PagesComplete
    <3>2. ASSUME NEW q \in pages[d], CutOffBy(q, r) PROVE FALSE
      <4>1. q \in rows /\ r \in rows /\ q \in TableRow /\ r \in TableRow
        BY <2>1, <2>2
      <4>2. r # q /\ encodeCursor(r).c = encodeCursor(q).c
        BY <3>2, <4>1, CursorOrder
      <4>3. QED
        BY <4>1, <4>2 DEF MillisecondEach
    <3>3. QED
      BY <3>1, <3>2
  <2>3. nextCursor = NoCursor => present \subseteq UNION {pages[d] : d \in DOMAIN pages}
    BY <2>2
  <2>4. QED
    BY <2>3, PagesDisjoint DEF EachRowOnce
<1>2. QED
  BY <1>1, PagesInvariant, PTL

(* For every precision of a timestamp: where the list page has no controls to  *)
(* go back by, its cursor was cut off (paginate's hasMore; the list page's     *)
(* EmptyState).                                                                *)
THEOREM DeadEndsAreCutOff == Spec => []DeadEndIsCutOff
<1>1. PagesInv => DeadEndIsCutOff
  <2> SUFFICES ASSUME PagesInv, state = "shown", Depth > 1, items = <<>>
               PROVE  \E r \in rows : \E q \in pages[Depth - 1] : CutOffBy(q, r)
    BY DEF DeadEndIsCutOff, Depth
  <2>1. Depth \in 2..Depth /\ Before = pages[Depth - 1]
    BY ShownPages DEF Before
  <2>2. cursorStack[Depth] # NoCursor
    BY <2>1, NoCursorIsNone DEF PagesInv, StackInv, LeadsOn
  <2>3. ToSet(items) = {}
    BY DEF ToSet
  <2>4. QED
    BY <2>1, <2>2, <2>3 DEF PagesInv, ShownInv, PageFits
<1>2. QED
  BY <1>1, PagesInvariant, PTL

===============================================================================
