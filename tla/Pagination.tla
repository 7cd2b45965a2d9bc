------------------------------- MODULE Pagination -------------------------------
(***************************************************************************)
(* GET /orders and GET /products page by page (common/pagination.util.ts,  *)
(* which both share), read by the list page of the web client, while rows  *)
(* are inserted: each by a transaction that dates the row when it begins   *)
(* and shows it when it commits.                                           *)
(*                                                                         *)
(* Time is counted in the units of a timestamptz; a Date, and so a cursor, *)
(* counts TICKS_PER_MS of them as one.                                     *)
(*                                                                         *)
(* Operators named Faulty_... are variants with one plausible mistake.  No *)
(* action uses them: they show that the properties can fail.               *)
(***************************************************************************)
EXTENDS Naturals, Sequences, FiniteSets, SequencesExt

CONSTANTS
  Ids,           \* what gen_random_uuid() may return, ordered as uuids are
  PAGE_SIZE,     \* what the page asks for
  DEFAULT_LIMIT,
  MAX_LIMIT,
  TICKS_PER_MS,
  MaxTime        \* bound on the clock

ASSUME IdsAreNumbers == Ids \subseteq Nat \ {0}
ASSUME LimitsAssumption ==
  /\ PAGE_SIZE \in Nat
  /\ DEFAULT_LIMIT \in Nat \ {0}
  /\ MAX_LIMIT \in Nat \ {0}
  /\ TICKS_PER_MS \in Nat \ {0}

VARIABLES
  clock,         \* now() of a transaction that begins
  open,          \* rows of transactions that have not ended,
  rows,          \* the committed rows: sets of [createdAt, id]
  cursorStack,   \* the page: the cursors of the pages up to the current one,
  items,         \*   the rows last shown,
  nextCursor,    \*   the cursor that came with them,
  state,         \*   "loading", "answered", "shown" or "error"
  answer,        \* the answer on its way
  pages,         \* history: the rows last shown at each depth of the stack
  present        \* history: the rows there were when the first page was read

vars == <<clock, open, rows, cursorStack, items, nextCursor, state, answer, pages, present>>
tables  == <<clock, open, rows>>
page    == <<cursorStack, items, nextCursor, state>>
history == <<pages, present>>

NoCursor == [c |-> 0, i |-> 0]
NoAnswer == [items |-> <<>>, nextCursor |-> NoCursor]

Init ==
  /\ clock = 0 /\ open = {} /\ rows = {}
  /\ cursorStack = <<NoCursor>>
  /\ items = <<>> /\ nextCursor = NoCursor /\ state = "loading"
  /\ answer = NoAnswer
  /\ pages = <<>> /\ present = {}

-------------------------------------------------------------------------------
normalizeLimit(limit) ==
  IF limit < 1 THEN DEFAULT_LIMIT ELSE IF limit > MAX_LIMIT THEN MAX_LIMIT ELSE limit

(* toISOString keeps milliseconds; decodeCursor reads back what is there.      *)
encodeCursor(row) == [c |-> row.createdAt - (row.createdAt % TICKS_PER_MS), i |-> row.id]

(* Faulty: rows of the cursor's own timestamp are not looked at.               *)
Faulty_NoTiebreaker(row, cursor) == row.createdAt < cursor.c

keysetBefore(row, cursor) ==
  \/ row.createdAt < cursor.c
  \/ row.createdAt = cursor.c /\ row.id < cursor.i

(* ORDER BY created_at DESC, id DESC.                                          *)
Newer(r, q) == r.createdAt > q.createdAt \/ (r.createdAt = q.createdAt /\ r.id > q.id)

NewestFirst(found) ==
  CHOOSE sorted \in [1..Cardinality(found) -> found] :
    \A i, j \in DOMAIN sorted : i < j => Newer(sorted[i], sorted[j])

(* The statement of listOrders and listProducts.                               *)
Rows(cursor, limit) ==
  LET found  == IF cursor = NoCursor THEN rows
                ELSE {r \in rows : keysetBefore(r, cursor)}
      sorted == NewestFirst(found) IN
  SubSeq(sorted, 1, IF Len(sorted) < limit + 1 THEN Len(sorted) ELSE limit + 1)

(* Faulty: a full page is taken for one that others follow.                    *)
Faulty_FullPageHasMore(found, limit) ==
  LET shown == IF Len(found) > limit THEN SubSeq(found, 1, limit) ELSE found IN
  [items |-> shown,
   nextCursor |-> IF Len(found) >= limit THEN encodeCursor(Last(shown)) ELSE NoCursor]

paginate(found, limit) ==
  LET hasMore == Len(found) > limit
      shown   == IF hasMore THEN SubSeq(found, 1, limit) ELSE found IN
  [items |-> shown,
   nextCursor |-> IF hasMore THEN encodeCursor(Last(shown)) ELSE NoCursor]

-------------------------------------------------------------------------------
(* Transactions that insert a row.                                             *)

Begin(id) ==
  /\ id \notin {r.id : r \in open \cup rows}
  /\ open' = open \cup {[createdAt |-> clock, id |-> id]}
  /\ UNCHANGED <<clock, rows, page, answer, history>>

Commit(r) ==
  /\ open' = open \ {r}
  /\ rows' = rows \cup {r}
  /\ UNCHANGED <<clock, page, answer, history>>

Rollback(r) ==
  /\ open' = open \ {r}
  /\ UNCHANGED <<clock, rows, page, answer, history>>

Tick ==
  /\ clock < MaxTime
  /\ clock' = clock + 1
  /\ UNCHANGED <<open, rows, page, answer, history>>

-------------------------------------------------------------------------------
(* The list page.  While it loads it shows no control, so one request is on    *)
(* its way at a time.                                                          *)

(* The effect, or reload(), sends the request and the API answers it.          *)
Fetch ==
  /\ state = "loading"
  /\ LET limit == normalizeLimit(PAGE_SIZE) IN
     answer' = paginate(Rows(Last(cursorStack), limit), limit)
  /\ state' = "answered"
  /\ present' = IF Len(cursorStack) = 1 THEN rows ELSE present
  /\ UNCHANGED <<tables, cursorStack, items, nextCursor, pages>>

Show ==
  /\ state = "answered"
  /\ items' = answer.items
  /\ nextCursor' = answer.nextCursor
  /\ state' = "shown"
  /\ pages' = Append(SubSeq(pages, 1, Len(cursorStack) - 1), ToSet(answer.items))
  /\ answer' = NoAnswer
  /\ UNCHANGED <<tables, cursorStack, present>>

(* The request or its answer is lost.                                          *)
Fail ==
  /\ state = "answered"
  /\ state' = "error"
  /\ answer' = NoAnswer
  /\ UNCHANGED <<tables, cursorStack, items, nextCursor, history>>

reload ==
  /\ state = "error"
  /\ state' = "loading"
  /\ UNCHANGED <<tables, cursorStack, items, nextCursor, answer, history>>

(* Leaving the page and coming back: a new page; the effect's cleanup aborts   *)
(* what is on its way.                                                         *)
Mount ==
  /\ cursorStack' = <<NoCursor>>
  /\ items' = <<>> /\ nextCursor' = NoCursor /\ state' = "loading"
  /\ answer' = NoAnswer
  /\ pages' = <<>> /\ present' = {}
  /\ UNCHANGED tables

(* The controls are there when the page shows rows.                            *)
onNext ==
  /\ state = "shown" /\ items # <<>>
  /\ nextCursor # NoCursor
  /\ cursorStack' = Append(cursorStack, nextCursor)
  /\ state' = "loading"
  /\ UNCHANGED <<tables, items, nextCursor, answer, history>>

onPrevious ==
  /\ state = "shown" /\ items # <<>>
  /\ Len(cursorStack) > 1
  /\ cursorStack' = Front(cursorStack)
  /\ state' = "loading"
  /\ UNCHANGED <<tables, items, nextCursor, answer, history>>

Next ==
  \/ \E id \in Ids : Begin(id)
  \/ \E r \in open : Commit(r) \/ Rollback(r)
  \/ Tick
  \/ Mount \/ Fetch \/ Show \/ Fail \/ reload \/ onNext \/ onPrevious

Spec == Init /\ [][Next]_vars

-------------------------------------------------------------------------------
(* Paging from the first page to the last shows every row there was when the   *)
(* first page was read, and none twice, whatever is inserted in between and    *)
(* however often one pages back: 'a page is "rows strictly after this cursor   *)
(* position"' (docs/architecture/order-lifecycle.md:184, and in the same words *)
(* common/pagination.util.ts:5-6).                                             *)
EachRowOnce ==
  state = "shown" =>
    /\ \A d, e \in DOMAIN pages : d # e => pages[d] \cap pages[e] = {}
    /\ nextCursor = NoCursor => present \subseteq UNION {pages[d] : d \in DOMAIN pages}

(* A row that the cut of the cursor to milliseconds skips: older than the last *)
(* row q of a page, but not older than the start of q's millisecond.           *)
CutOffBy(q, r) ==
  /\ q.createdAt % TICKS_PER_MS # 0
  /\ Newer(q, r) /\ r.createdAt >= encodeCursor(q).c

(* However fine a timestamp is, no row is shown twice, and paging to the end   *)
(* skips no row but those that share a millisecond with a row that was shown   *)
(* (encodeCursor's toISOString, keysetBefore).                                 *)
SkipsShareAMillisecond ==
  state = "shown" =>
    /\ \A d, e \in DOMAIN pages : d # e => pages[d] \cap pages[e] = {}
    /\ nextCursor = NoCursor =>
         \A r \in present : \E d \in DOMAIN pages :
           r \in pages[d] \/ \E q \in pages[d] : CutOffBy(q, r)

(* A page past the first is empty, and so has no controls to leave it by, only *)
(* if all that its cursor was to lead to has been cut off: the page before had *)
(* seen one row more than it showed (pagination.util.ts:76-79).                *)
DeadEndIsCutOff ==
  state = "shown" /\ Len(cursorStack) > 1 /\ items = <<>> =>
    \E r \in rows : \E q \in pages[Len(cursorStack) - 1] : CutOffBy(q, r)
===============================================================================
