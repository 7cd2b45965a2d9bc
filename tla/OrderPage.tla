-------------------------------- MODULE OrderPage --------------------------------
(***************************************************************************)
(* The page of one order (order-detail-view.tsx): it loads the order with  *)
(* the two statements of OrdersService.getOrder, fulfils or cancels it     *)
(* through a confirmation dialog, and loads it again after every attempt,  *)
(* while the order is created and ended by others and requests are delayed *)
(* or lost.  The API handles a fulfil or a cancel in one step              *)
(* (StockContract, which its statements implement).                        *)
(*                                                                         *)
(* Operators named Faulty_... are variants with one plausible mistake.  No *)
(* action uses them: they show that the properties can fail.               *)
(***************************************************************************)
EXTENDS Naturals, Sequences

CONSTANTS
  Items,         \* the lines of the order
  MaxKeys        \* bound on the keys drawn

ASSUME KeysAssumption == MaxKeys \in Nat /\ Items # {}

Ops == {"fulfil", "cancel"}
Ended(op) == IF op = "fulfil" THEN "fulfilled" ELSE "cancelled"
Statuses == {"none", "pending", "fulfilled", "cancelled"}

VARIABLES
  status,        \* the order's row: "none" before it is committed,
  orderItems,    \*   its lines,
  keys,          \* and the outcome recorded for each key
  network,       \* transition requests on their way: one that is sent again is the
                 \* same element, and one that was handled may be handled again
  attempt,       \* the request handleFulfill or handleCancel awaits
  getOrder,      \* the GET on its way: its next statement, and what it has read
  page,          \* loading, the order loaded last, the notice of a conflict, and
                 \* whether the last load was answered 401
  dialog,        \* per operation: open, and the key of its hook
  drawn,         \* keys drawn so far
  told           \* history: the operation this user was told to have succeeded

vars == <<status, orderItems, keys, network, attempt, getOrder, page, dialog, drawn, told>>
api == <<status, orderItems, keys>>

Nobody    == "none"
NoAttempt == [op |-> Nobody, key |-> 0, outcome |-> "none"]
NotAsked  == [next |-> 0, status |-> "none", items |-> {}]
Asked     == [NotAsked EXCEPT !.next = 1]
Answer    == 3
NewPage   == [loading |-> TRUE, error |-> FALSE, status |-> "none", items |-> {},
              conflict |-> FALSE, expired |-> FALSE]

Init ==
  /\ status = "none" /\ orderItems = {}
  /\ keys = [k \in 1..MaxKeys |-> "none"]
  /\ network = {}
  /\ attempt = NoAttempt
  /\ getOrder = Asked
  /\ page = NewPage
  /\ dialog = [op \in Ops |-> [open |-> FALSE, key |-> 0]]
  /\ drawn = 0
  /\ told = Nobody

-------------------------------------------------------------------------------
(* The API.                                                                    *)

(* createReservation commits the order and its items together.                 *)
Create ==
  /\ status = "none"
  /\ status' = "pending"
  /\ orderItems' = Items
  /\ UNCHANGED <<keys, network, attempt, getOrder, page, dialog, drawn, told>>

Others(op) ==
  /\ status = "pending"
  /\ status' = Ended(op)
  /\ UNCHANGED <<orderItems, keys, network, attempt, getOrder, page, dialog, drawn, told>>

(* A recorded outcome is replayed; a pending order is ended; another is not.   *)
Outcome(r) ==
  IF keys[r.key] # "none" THEN keys[r.key]
  ELSE IF status = "pending" THEN "done" ELSE "conflict"

(* The answer is kept until the page takes it, unless the page gave it up.     *)
Handle(r) ==
  /\ keys' = [keys EXCEPT ![r.key] = Outcome(r)]
  /\ status' = IF keys[r.key] = "none" /\ status = "pending" THEN Ended(r.op) ELSE status
  /\ attempt' = IF attempt.op = r.op /\ attempt.key = r.key
                  THEN [attempt EXCEPT !.outcome = Outcome(r)] ELSE attempt
  /\ UNCHANGED <<orderItems, network, getOrder, page, dialog, drawn, told>>

(* Faulty: the items are read first.                                           *)
Faulty_ItemsFirst == <<"items", "order">>

(* The statements of getOrder.                                                 *)
Statements == <<"order", "items">>

(* Without the order's row the answer is 404.                                  *)
ReadStatement ==
  /\ getOrder.next \in DOMAIN Statements
  /\ getOrder' =
       IF Statements[getOrder.next] = "items"
         THEN [getOrder EXCEPT !.next = @ + 1, !.items = orderItems]
         ELSE [getOrder EXCEPT !.next = IF status = "none" THEN Answer ELSE @ + 1,
                               !.status = status]
  /\ UNCHANGED <<api, network, attempt, page, dialog, drawn, told>>

-------------------------------------------------------------------------------
(* The page.                                                                   *)

(* Without an order (null, here "none") the page is an error.                  *)
Shown == ~page.loading /\ ~page.error /\ page.status # "none"

(* The answer of getOrder.  A 404 or another failure is shown as an error.  A  *)
(* 401 is none: the page is pushed to /login, and shows the order it had until *)
(* /login is rendered.                                                         *)
Show ==
  /\ getOrder.next = Answer
  /\ \/ /\ getOrder.status # "none"
        /\ page' = [page EXCEPT !.loading = FALSE, !.status = getOrder.status,
                                !.items = getOrder.items, !.expired = FALSE]
     \/ page' = [page EXCEPT !.loading = FALSE, !.error = TRUE, !.expired = FALSE]
     \/ page' = [page EXCEPT !.loading = FALSE, !.expired = TRUE]
  /\ getOrder' = NotAsked
  /\ UNCHANGED <<api, network, attempt, dialog, drawn, told>>

(* onClick of the button: a new key, and the dialog opens.  An open dialog     *)
(* covers the page.                                                            *)
Open(op) ==
  /\ Shown /\ page.status = "pending"
  /\ \A o \in Ops : ~dialog[o].open
  /\ drawn < MaxKeys
  /\ drawn' = drawn + 1
  /\ dialog' = [dialog EXCEPT ![op] = [open |-> TRUE, key |-> drawn + 1]]
  /\ UNCHANGED <<api, network, attempt, getOrder, page, told>>

Visible(op) == Shown /\ page.status = "pending" /\ dialog[op].open

Close(op) ==
  /\ Visible(op) /\ attempt = NoAttempt
  /\ dialog' = [dialog EXCEPT ![op].open = FALSE]
  /\ UNCHANGED <<api, network, attempt, getOrder, page, drawn, told>>

(* handleConfirm, and handleFulfill or handleCancel up to its await.           *)
Confirm(op) ==
  /\ Visible(op) /\ attempt = NoAttempt
  /\ attempt' = [op |-> op, key |-> dialog[op].key, outcome |-> "none"]
  /\ network' = network \cup {[op |-> op, key |-> dialog[op].key]}
  /\ UNCHANGED <<api, getOrder, page, dialog, drawn, told>>

(* Faulty: only a success loads the order again.                               *)
Faulty_LoadOnSuccess(outcome, conflict) ==
  IF outcome = "done"
  THEN /\ page' = [page EXCEPT !.loading = TRUE, !.error = FALSE, !.conflict = conflict]
       /\ getOrder' = Asked
  ELSE page' = [page EXCEPT !.conflict = conflict] /\ UNCHANGED getOrder

(* Faulty: after a success the page is taken to be up to date.                 *)
Faulty_LoadOnFailure(outcome, conflict) ==
  IF outcome # "done"
  THEN /\ page' = [page EXCEPT !.loading = TRUE, !.error = FALSE, !.conflict = conflict]
       /\ getOrder' = Asked
  ELSE page' = [page EXCEPT !.conflict = conflict] /\ UNCHANGED getOrder

(* finally: load().                                                            *)
Reload(outcome, conflict) ==
  /\ page' = [page EXCEPT !.loading = TRUE, !.error = FALSE, !.conflict = conflict]
  /\ getOrder' = Asked

(* The awaited answer: success closes the dialog, a 409 leaves a notice.       *)
Answered ==
  /\ attempt.outcome # "none"
  /\ LET done == attempt.outcome = "done" IN
     /\ Reload(attempt.outcome, ~done)
     /\ dialog' = IF done THEN [dialog EXCEPT ![attempt.op].open = FALSE] ELSE dialog
     /\ told' = IF done THEN attempt.op ELSE told
  /\ attempt' = NoAttempt
  /\ UNCHANGED <<api, network, drawn>>

(* fetch rejects, for a request that is lost, handled, or still on its way.    *)
GiveUp ==
  /\ attempt # NoAttempt
  /\ Reload("unreachable", page.conflict)
  /\ attempt' = NoAttempt
  /\ UNCHANGED <<api, network, dialog, drawn, told>>

Lose(r) ==
  /\ network' = network \ {r}
  /\ UNCHANGED <<api, attempt, getOrder, page, dialog, drawn, told>>

(* The user leaves and comes back: what was awaited finds no page to change.   *)
Visit ==
  /\ page' = NewPage
  /\ getOrder' = Asked
  /\ dialog' = [op \in Ops |-> [open |-> FALSE, key |-> 0]]
  /\ attempt' = NoAttempt
  /\ UNCHANGED <<api, network, drawn, told>>

Next ==
  \/ Create \/ ReadStatement \/ Show
  \/ \E op \in Ops : Others(op) \/ Open(op) \/ Close(op) \/ Confirm(op)
  \/ \E r \in network : Handle(r) \/ Lose(r)
  \/ Answered \/ GiveUp \/ Visit

Spec == Init /\ [][Next]_vars

-------------------------------------------------------------------------------
(* The notice that the order changed is not shown over an order that still     *)
(* looks pending: "reload authoritative data so the UI reflects what actually  *)
(* happened" (order-detail-view.tsx:107-108).  Only a reload that is answered  *)
(* 401 leaves the old order under the notice, and its dialog open again, until *)
(* /login is rendered (order-detail-view.tsx:67-79).                           *)
ConflictIsShown ==
  Shown /\ page.conflict /\ ~page.expired => page.status \in {"fulfilled", "cancelled"}

(* What its user was told has succeeded is how the order ended, whatever else  *)
(* was sent before, is still on its way, is sent from a page that is out of    *)
(* date or is replayed; and no page shows it otherwise afterwards, but one     *)
(* whose last load was answered 401.                                           *)
ToldIsShown ==
  told # Nobody =>
    /\ status = Ended(told)
    /\ Shown /\ ~page.expired => page.status = Ended(told)

(* An order on the screen is there with all its items, although getOrder reads *)
(* them after the order and in no transaction (orders.service.ts:95-117).      *)
ShownOrderIsWhole ==
  Shown => status # "none" /\ page.items = Items
===============================================================================
