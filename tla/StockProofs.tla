------------------------------ MODULE StockProofs ------------------------------
(***************************************************************************)
(* Theorems about StockEngine, for every set of organizations, products,   *)
(* orders, keys, processes and requests that meets the assumptions of      *)
(* StockRules and StockEngine.  First types, mutual exclusion, idempotency *)
(* and the order in which locks are taken; then what the locks protect:    *)
(* one transition per order, stock that is never oversold, movements that  *)
(* account for it, tenants that keep apart; and with all of these, that    *)
(* StockEngine implements StockContract.                                   *)
(***************************************************************************)
EXTENDS StockEngine, StockRefinement, FiniteSetTheorems, FunctionTheorems,
        WellFoundedInduction, TLAPS

-------------------------------------------------------------------------------
(* The inductive invariant, a conjunction of named parts.                      *)

(* Lines fit to be reserved: what BadRequest and the DTO let through.          *)
GoodLines(org, lines) ==
  /\ lines \in Seq(Line)
  /\ ~HasDuplicateLines(lines)
  /\ \A i \in DOMAIN lines :
       lines[i].quantity > 0 /\ Owns(org, lines[i].product)

(* A request being served passed the checks made in advance, and its order     *)
(* exists.                                                                     *)
RequestsInv ==
  \A t \in Procs : pc[t] \notin {"idle", "reply"} =>
    /\ req[t].op = CreateOp => GoodLines(req[t].org, req[t].lines)
    /\ req[t].op \in OrderOps => orders[req[t].order].status # "none"

(* An order that exists was made from good lines of products with rows.        *)
OrdersInv ==
  \A o \in OrderIds : orders[o].status # "none" =>
    /\ orders[o].org \in Orgs
    /\ GoodLines(orders[o].org, orders[o].lines)
    /\ \A i \in DOMAIN orders[o].lines : inventory[orders[o].lines[i].product].exists

(* A row that is not locked reads as absent.                                   *)
LockedInv ==
  \A t \in Procs : \A p \in Products :
    ~locked[t][p].exists => locked[t][p] = Absent

(* A product without a row reads as absent.                                    *)
RowsInv == \A p \in Products : ~inventory[p].exists => inventory[p] = Absent

(* Only rows that were inserted are locked.                                    *)
HeldRowsInv ==
  \A t \in Procs : \A p \in Products : locked[t][p].exists => inventory[p].exists

BaseInv ==
  TypeOK /\ RequestsInv /\ OrdersInv /\ LockedInv /\ RowsInv /\ HeldRowsInv

-------------------------------------------------------------------------------
(* Facts about the rules.                                                      *)

(* Without duplicate lines, the quantity written for a product is that of its  *)
(* only line.                                                                  *)
LEMMA QuantityOfLine ==
  ASSUME NEW lines \in Seq(Line), ~HasDuplicateLines(lines), NEW i \in DOMAIN lines
  PROVE  Quantity(lines, lines[i].product) = lines[i].quantity
<1> DEFINE p == lines[i].product
           Last(k) == /\ lines[k].product = p
                      /\ \A j \in DOMAIN lines : lines[j].product = p => j <= k
<1>1. \A j \in DOMAIN lines : lines[j].product = p => j = i
  BY DEF HasDuplicateLines
<1>2. Last(i)
  BY <1>1
<1>3. LastLine(lines, p) = CHOOSE k \in DOMAIN lines : Last(k)
  BY DEF LastLine
<1>4. LastLine(lines, p) = i
  BY <1>1, <1>2, <1>3
<1>5. QED
  BY <1>4 DEF Quantity

(* The request of a process is one of the well-formed requests.                *)
LEMMA RequestType ==
  ASSUME NEW r \in Requests
  PROVE  /\ r \in Request
         /\ r.op \in Ops /\ r.org \in Orgs /\ r.key \in Keys
         /\ r.lines \in Seq(Line)
         /\ r.op \in OrderOps => r.order \in OrderIds
         /\ r.op = CreateOp => \A i \in DOMAIN r.lines : r.lines[i].quantity > 0
         /\ r.op = AdjustOp => /\ DOMAIN r.lines = {1}
                               /\ r.lines[1] \in Line
<1>1. r \in Request /\ WellFormed(r)
  BY RequestsAssumption
<1>2. /\ r.op \in Ops /\ r.org \in Orgs /\ r.key \in Keys
      /\ r.lines \in Seq(Line)
  BY <1>1 DEF Request
<1>3. r.op \in OrderOps => r.order \in OrderIds
  BY <1>1 DEF WellFormed
<1>4. r.op = CreateOp => \A i \in DOMAIN r.lines : r.lines[i].quantity > 0
  BY <1>1 DEF WellFormed
<1>5. r.op = AdjustOp => DOMAIN r.lines = {1} /\ r.lines[1] \in Line
  <2> SUFFICES ASSUME r.op = AdjustOp
               PROVE  DOMAIN r.lines = {1} /\ r.lines[1] \in Line
    OBVIOUS
  <2>1. Len(r.lines) = 1
    BY <1>1 DEF WellFormed
  <2>2. QED
    BY <1>2, <2>1
<1>6. QED
  BY <1>1, <1>2, <1>3, <1>4, <1>5

(* The single line of an adjustment is its own last line.                      *)
LEMMA AdjustmentLine ==
  ASSUME NEW r \in Requests, r.op = AdjustOp
  PROVE  /\ ProductsOf(r.lines) = {r.lines[1].product}
         /\ Quantity(r.lines, r.lines[1].product) = r.lines[1].quantity
         /\ r.lines[1].product \in Products
         /\ r.lines[1].quantity \in Int
<1>1. r.lines \in Seq(Line) /\ DOMAIN r.lines = {1} /\ r.lines[1] \in Line
  BY RequestType
<1>2. ~HasDuplicateLines(r.lines)
  BY <1>1 DEF HasDuplicateLines
<1>3. Quantity(r.lines, r.lines[1].product) = r.lines[1].quantity
  BY <1>1, <1>2, QuantityOfLine
<1>4. ProductsOf(r.lines) = {r.lines[1].product}
  BY <1>1 DEF ProductsOf
<1>5. r.lines[1].product \in Products /\ r.lines[1].quantity \in Int
  BY <1>1, Int4Assumption DEF Line
<1>6. QED
  BY <1>3, <1>4, <1>5

LEMMA GoodLine ==
  ASSUME NEW org, NEW lines, GoodLines(org, lines), NEW i \in DOMAIN lines
  PROVE  /\ lines[i].product \in Products /\ Owns(org, lines[i].product)
         /\ lines[i].quantity \in 1..Int4Max
         /\ lines[i].product \in ProductsOf(lines)
<1>1. lines[i] \in Line /\ lines[i].quantity > 0 /\ Owns(org, lines[i].product)
  BY DEF GoodLines
<1>2. lines[i].product \in Products /\ lines[i].quantity \in (-Int4Max - 1)..Int4Max
  BY <1>1 DEF Line
<1>3. QED
  BY <1>1, <1>2, Int4Assumption DEF ProductsOf

(* Good lines give every product they name a positive quantity.                *)
LEMMA GoodQuantity ==
  ASSUME NEW org, NEW lines, GoodLines(org, lines), NEW p \in ProductsOf(lines)
  PROVE  /\ p \in Products /\ Owns(org, p)
         /\ Quantity(lines, p) \in 1..Int4Max
<1>1. PICK i \in DOMAIN lines : p = lines[i].product
  BY DEF ProductsOf
<1>2. Quantity(lines, p) = lines[i].quantity
  BY <1>1, QuantityOfLine DEF GoodLines
<1>3. QED
  BY <1>1, <1>2, GoodLine

(* A row stays a row.                                                          *)
LEMMA WrittenType ==
  ASSUME NEW op \in Ops, NEW row \in Row, NEW read \in Row, NEW q \in Int
  PROVE  /\ Written(op, row, read, q) \in Row
         /\ row.exists \/ op = AdjustOp => Written(op, row, read, q).exists
<1>1. CASE op = CreateOp
  BY <1>1 DEF Written, Row, CreateOp, ReleaseOp, FulfillOp, AdjustOp
<1>2. CASE op = ReleaseOp
  BY <1>2 DEF Written, Row, CreateOp, ReleaseOp, FulfillOp, AdjustOp
<1>3. CASE op = FulfillOp
  BY <1>3 DEF Written, Row, CreateOp, ReleaseOp, FulfillOp, AdjustOp
<1>4. CASE op = AdjustOp
  <2>1. Written(op, row, read, q) = [exists |-> TRUE, onHand |-> read.onHand + q,
                                     reserved |-> row.reserved]
    BY <1>4 DEF Written, CreateOp, ReleaseOp, FulfillOp, AdjustOp
  <2>2. read.onHand + q \in Int /\ row.reserved \in Int
    BY DEF Row
  <2>3. QED
    BY <2>1, <2>2 DEF Row
<1>5. QED
  BY <1>1, <1>2, <1>3, <1>4 DEF Ops

-------------------------------------------------------------------------------
(* How the actions move the variables.                                         *)

(* The type invariant, split into the tables and the processes.                *)
TablesOK ==
  /\ inventory \in [Products -> Row]
  /\ orders \in [OrderIds -> Order]
  /\ \A k \in keys : k.scope \in Orgs \X Ops \X Keys
  /\ ledger \in [Products -> [MovementTypes -> Int]]
  /\ audit \in [OrderIds -> [AuditActions -> Nat]]

ProcsOK ==
  /\ pc \in [Procs -> Control]
  /\ req \in [Procs -> Requests \cup {NoRequest}]
  /\ \A t \in Procs : pc[t] # "idle" => req[t] \in Requests
  /\ need \in [Procs -> SUBSET Products]
  /\ locked \in [Procs -> [Products -> Row]]
  /\ \A t \in Procs : pc[t] # "lock" => need[t] = {} /\ locked[t] = NothingLocked

LEMMA TypeParts == TypeOK <=> TablesOK /\ ProcsOK
  BY DEF TypeOK, TablesOK, ProcsOK

LEMMA NothingLockedType ==
  NothingLocked \in [Products -> Row] /\ \A p \in Products : NothingLocked[p] = Absent
  BY DEF NothingLocked, Absent, Row

(* Rows that were locked when they existed still exist if none vanishes.       *)
LEMMA HeldRowsAfter ==
  ASSUME HeldRowsInv,
         \A p \in Products : inventory[p].exists => inventory'[p].exists,
         \A u \in Procs : \A p \in Products : locked'[u][p].exists => locked[u][p].exists
  PROVE  HeldRowsInv'
  BY DEF HeldRowsInv

(* Answering leaves the processes well typed, and the other processes alone.   *)
LEMMA AnswerStep ==
  ASSUME ProcsOK, LockedInv, NEW t \in Procs, pc[t] # "idle", NEW result,
         Answer(t, result)
  PROVE  /\ ProcsOK' /\ LockedInv'
         /\ \A u \in Procs : \A p \in Products :
              locked'[u][p].exists => locked[u][p].exists
<1>1. /\ pc' \in [Procs -> Control] /\ req' = req
      /\ need' \in [Procs -> SUBSET Products]
      /\ locked' \in [Procs -> [Products -> Row]]
  BY NothingLockedType DEF Answer, ProcsOK, Control
<1>2. ASSUME NEW u \in Procs
      PROVE  /\ pc'[u] # "idle" => req'[u] \in Requests
             /\ pc'[u] # "lock" => need'[u] = {} /\ locked'[u] = NothingLocked
  BY DEF Answer, ProcsOK
<1>3. LockedInv'
  BY NothingLockedType DEF Answer, LockedInv, ProcsOK
<1>4. \A u \in Procs : \A p \in Products : locked'[u][p].exists => locked[u][p].exists
  BY NothingLockedType DEF Answer, ProcsOK, Absent
<1>5. QED
  BY <1>1, <1>2, <1>3, <1>4 DEF ProcsOK

(* So does leaving.                                                            *)
LEMMA LeaveStep ==
  ASSUME BaseInv, NEW t \in Procs, Leave(t)
  PROVE  BaseInv'
<1>1. ProcsOK /\ TablesOK /\ LockedInv
  BY TypeParts DEF BaseInv
<1>2. /\ pc' \in [Procs -> Control] /\ req' \in [Procs -> Requests \cup {NoRequest}]
      /\ need' \in [Procs -> SUBSET Products]
      /\ locked' \in [Procs -> [Products -> Row]]
  BY <1>1, NothingLockedType DEF Leave, ProcsOK, Control
<1>3. ASSUME NEW u \in Procs
      PROVE  /\ pc'[u] # "idle" => req'[u] \in Requests
             /\ pc'[u] # "lock" => need'[u] = {} /\ locked'[u] = NothingLocked
  BY <1>1 DEF Leave, ProcsOK
<1>4. LockedInv'
  BY <1>1, NothingLockedType DEF Leave, LockedInv, ProcsOK
<1>5. TablesOK'
  BY <1>1 DEF Leave, database, TablesOK
<1>6. RequestsInv'
  BY <1>1 DEF Leave, database, BaseInv, RequestsInv, ProcsOK
<1>7. OrdersInv' /\ RowsInv'
  BY DEF Leave, database, BaseInv, OrdersInv, RowsInv
<1>8. \A u \in Procs : \A p \in Products : locked'[u][p].exists => locked[u][p].exists
  BY <1>1, NothingLockedType DEF Leave, ProcsOK, Absent
<1>9. HeldRowsInv'
  BY <1>8, HeldRowsAfter DEF Leave, database, BaseInv
<1>10. QED
  BY <1>2, <1>3, <1>4, <1>5, <1>6, <1>7, <1>9, TypeParts DEF BaseInv, ProcsOK, TypeOK, TablesOK

(* An answer disturbs no other request, if no order vanishes.                  *)
LEMMA RequestsAfterAnswer ==
  ASSUME BaseInv, NEW t \in Procs, NEW result, Answer(t, result),
         \A o \in OrderIds : orders[o].status # "none" => orders'[o].status # "none"
  PROVE  RequestsInv'
<1> SUFFICES ASSUME NEW u \in Procs, pc'[u] \notin {"idle", "reply"}
             PROVE  /\ req'[u].op = CreateOp => GoodLines(req'[u].org, req'[u].lines)
                    /\ req'[u].op \in OrderOps => orders'[req'[u].order].status # "none"
  BY DEF RequestsInv
<1>1. u # t /\ pc[u] = pc'[u] /\ req'[u] = req[u]
  BY TypeParts DEF Answer, BaseInv, ProcsOK
<1>2. req[u] \in Requests
  BY <1>1, TypeParts DEF BaseInv, ProcsOK
<1>3. QED
  BY <1>1, <1>2, RequestType DEF BaseInv, RequestsInv

(* Orders stay as they should be while none changes and no row vanishes.       *)
LEMMA OrdersAfterWrite ==
  ASSUME BaseInv, orders' = orders,
         \A p \in Products : inventory[p].exists => inventory'[p].exists
  PROVE  OrdersInv'
<1> SUFFICES ASSUME NEW o \in OrderIds, orders[o].status # "none"
             PROVE  /\ orders[o].org \in Orgs
                    /\ GoodLines(orders[o].org, orders[o].lines)
                    /\ \A i \in DOMAIN orders[o].lines :
                         inventory'[orders[o].lines[i].product].exists
  BY DEF OrdersInv
<1>1. /\ orders[o].org \in Orgs
      /\ GoodLines(orders[o].org, orders[o].lines)
      /\ \A i \in DOMAIN orders[o].lines : inventory[orders[o].lines[i].product].exists
  BY DEF BaseInv, OrdersInv
<1>2. \A i \in DOMAIN orders[o].lines : orders[o].lines[i].product \in Products
  BY <1>1, GoodLine
<1>3. QED
  BY <1>1, <1>2

(* What a transaction writes to stock and movements.                           *)
LEMMA StockWritten ==
  ASSUME BaseInv, NEW t \in Procs, pc[t] = "lock", NEW lines,
         \A p \in ProductsOf(lines) :
           /\ p \in Products /\ Quantity(lines, p) \in Int
           /\ locked[t][p].exists \/ req[t].op = AdjustOp,
         WriteStock(t, lines)
  PROVE  /\ inventory' \in [Products -> Row]
         /\ ledger' \in [Products -> [MovementTypes -> Int]]
         /\ \A p \in Products : inventory[p].exists => inventory'[p].exists
         /\ \A p \in ProductsOf(lines) : inventory'[p].exists
         /\ RowsInv'
<1> DEFINE op == req[t].op
<1>1. op \in Ops
  BY TypeParts, RequestType DEF BaseInv, ProcsOK
<1>2. inventory \in [Products -> Row] /\ locked[t] \in [Products -> Row]
      /\ ledger \in [Products -> [MovementTypes -> Int]]
  BY TypeParts DEF BaseInv, ProcsOK, TablesOK
<1>3. ASSUME NEW p \in ProductsOf(lines)
      PROVE  /\ Written(op, inventory[p], locked[t][p], Quantity(lines, p)) \in Row
             /\ Written(op, inventory[p], locked[t][p], Quantity(lines, p)).exists
  <2>1. inventory[p] \in Row /\ locked[t][p] \in Row /\ Quantity(lines, p) \in Int
    BY <1>2, <1>3
  <2>2. Written(op, inventory[p], locked[t][p], Quantity(lines, p)) \in Row
    BY <1>1, <2>1, WrittenType
  <2>3. inventory[p].exists \/ op = AdjustOp
    BY <1>3 DEF BaseInv, HeldRowsInv
  <2>4. QED
    BY <1>1, <2>1, <2>2, <2>3, WrittenType
<1>4. inventory' = [p \in Products |->
         IF p \in ProductsOf(lines)
         THEN Written(op, inventory[p], locked[t][p], Quantity(lines, p)) ELSE inventory[p]]
  BY DEF WriteStock
<1>5. inventory' \in [Products -> Row]
  BY <1>2, <1>3, <1>4
<1>6. MovementType(op) \in MovementTypes
  BY <1>1 DEF MovementType, MovementTypes, Ops, CreateOp, ReleaseOp, FulfillOp, AdjustOp
<1>7. ledger' = [p \in Products |->
         IF p \in ProductsOf(lines)
         THEN [ledger[p] EXCEPT ![MovementType(op)] = @ + Quantity(lines, p)]
         ELSE ledger[p]]
  BY DEF WriteStock
<1>8. ledger' \in [Products -> [MovementTypes -> Int]]
  BY <1>2, <1>6, <1>7
<1>9. RowsInv'
  BY <1>3, <1>4 DEF BaseInv, RowsInv
<1>10. QED
  BY <1>3, <1>4, <1>5, <1>8, <1>9

(* The refusals and failures change no table but idempotency_keys.             *)
LEMMA RefusalStep ==
  ASSUME BaseInv, NEW t \in Procs, pc[t] \notin {"idle", "reply"}, NEW result,
         CommitRefusal(t, result) \/ Fail(t, result)
  PROVE  BaseInv'
<1>1. TablesOK /\ ProcsOK /\ LockedInv /\ req[t] \in Requests
  BY TypeParts DEF BaseInv, ProcsOK
<1>2. /\ Answer(t, result)
      /\ UNCHANGED <<inventory, orders, ledger, audit>>
      /\ keys' = keys \/ Complete(t, result)
  BY DEF CommitRefusal, Fail, database
<1>3. ProcsOK' /\ LockedInv' /\ HeldRowsInv'
  BY <1>1, <1>2, AnswerStep, HeldRowsAfter DEF BaseInv
<1>4. Scope(req[t]) \in Orgs \X Ops \X Keys
  BY <1>1, RequestType DEF Scope
<1>5. TablesOK'
  BY <1>1, <1>2, <1>4 DEF TablesOK, Complete
<1>6. RequestsInv'
  BY <1>2, RequestsAfterAnswer
<1>7. OrdersInv' /\ RowsInv'
  BY <1>2, OrdersAfterWrite DEF BaseInv, RowsInv
<1>8. TypeOK'
  BY <1>3, <1>5 DEF TypeOK, TablesOK, ProcsOK
<1>9. QED
  BY <1>3, <1>6, <1>7, <1>8 DEF BaseInv

(* A statement that only decides which statement comes next.                   *)
LEMMA ControlStep ==
  ASSUME BaseInv, NEW t \in Procs, pc[t] \in {"claim", "update"},
         NEW next \in {"resolve", "update", "select", "reread"},
         pc' = [pc EXCEPT ![t] = next],
         UNCHANGED <<database, req, need, locked, outcome>>
  PROVE  BaseInv'
<1>1. TablesOK /\ ProcsOK
  BY TypeParts DEF BaseInv
<1>2. TablesOK'
  BY <1>1 DEF TablesOK, database
<1>3. ProcsOK'
  BY <1>1 DEF ProcsOK, Control
<1>4. RequestsInv'
  BY <1>1 DEF BaseInv, RequestsInv, ProcsOK, database
<1>5. OrdersInv' /\ LockedInv' /\ RowsInv' /\ HeldRowsInv'
  BY DEF BaseInv, OrdersInv, LockedInv, RowsInv, HeldRowsInv, database
<1>6. QED
  BY <1>2, <1>3, <1>4, <1>5 DEF BaseInv, TypeOK, TablesOK, ProcsOK

LEMMA SendStep ==
  ASSUME BaseInv, NEW t \in Procs, NEW r \in Requests, Send(t, r)
  PROVE  BaseInv'
<1>1. TablesOK /\ ProcsOK
  BY TypeParts DEF BaseInv
<1>2. TablesOK'
  BY <1>1 DEF Send, TablesOK, database
<1>3. ProcsOK'
  BY <1>1 DEF Send, ProcsOK, Control
<1>4. ASSUME r.op = CreateOp, ~BadRequest(r)
      PROVE  GoodLines(r.org, r.lines)
  <2>1. ~HasDuplicateLines(r.lines) /\ ~ForeignProduct(r)
    BY <1>4 DEF BadRequest
  <2>2. \A i \in DOMAIN r.lines : Owns(r.org, r.lines[i].product)
    BY <2>1 DEF ForeignProduct, ProductsOf
  <2>3. QED
    BY <1>4, <2>1, <2>2, RequestType DEF GoodLines
<1>5. ASSUME NEW u \in Procs, pc'[u] \notin {"idle", "reply"}
      PROVE  /\ req'[u].op = CreateOp => GoodLines(req'[u].org, req'[u].lines)
             /\ req'[u].op \in OrderOps => orders'[req'[u].order].status # "none"
  <2>1. CASE u = t
    <3>1. req'[u] = r /\ ~BadRequest(r) /\ orders' = orders
      BY <1>1, <1>5, <2>1 DEF Send, ProcsOK, database
    <3>2. QED
      BY <1>4, <3>1 DEF Send
  <2>2. CASE u # t
    BY <1>1, <1>5, <2>2 DEF Send, BaseInv, RequestsInv, ProcsOK, database
  <2>3. QED
    BY <2>1, <2>2
<1>6. OrdersInv' /\ LockedInv' /\ RowsInv' /\ HeldRowsInv'
  BY DEF Send, BaseInv, OrdersInv, LockedInv, RowsInv, HeldRowsInv, database
<1>7. QED
  BY <1>2, <1>3, <1>5, <1>6 DEF BaseInv, TypeOK, TablesOK, ProcsOK, RequestsInv

(* The lines a transaction works on when it has reached its locks.             *)
LEMMA LinesAtLock ==
  ASSUME BaseInv, NEW t \in Procs, pc[t] \in {"select", "lock"}
  PROVE  /\ req[t] \in Requests
         /\ req[t].op # AdjustOp =>
              \E org \in Orgs : GoodLines(org, LinesOf(req[t]))
         /\ ProductsOf(LinesOf(req[t])) \subseteq Products
<1>1. req[t] \in Requests
  BY TypeParts DEF BaseInv, ProcsOK
<1>2. CASE req[t].op = CreateOp
  <2>1. GoodLines(req[t].org, LinesOf(req[t]))
    BY <1>2 DEF BaseInv, RequestsInv, LinesOf, OrderOps, CreateOp, ReleaseOp, FulfillOp
  <2>2. QED
    BY <1>1, <2>1, GoodQuantity, RequestType
<1>3. CASE req[t].op \in OrderOps
  <2>1. orders[req[t].order].status # "none" /\ req[t].order \in OrderIds
    BY <1>1, <1>3, RequestType DEF BaseInv, RequestsInv
  <2>2. /\ GoodLines(orders[req[t].order].org, LinesOf(req[t]))
        /\ orders[req[t].order].org \in Orgs
    BY <1>3, <2>1 DEF BaseInv, OrdersInv, LinesOf
  <2>3. QED
    BY <1>1, <2>2, GoodQuantity
<1>4. CASE req[t].op = AdjustOp
  <2>1. LinesOf(req[t]) = req[t].lines
    BY <1>4 DEF LinesOf, OrderOps, AdjustOp, ReleaseOp, FulfillOp
  <2>2. QED
    BY <1>1, <1>4, <2>1, AdjustmentLine
<1>5. req[t].op \in Ops
  BY <1>1, RequestType
<1>6. QED
  BY <1>2, <1>3, <1>4, <1>5 DEF Ops, OrderOps

LEMMA SelectStep ==
  ASSUME BaseInv, NEW t \in Procs, SelectRows(t)
  PROVE  BaseInv'
<1>1. TablesOK /\ ProcsOK
  BY TypeParts DEF BaseInv
<1>2. TablesOK'
  BY <1>1 DEF SelectRows, TablesOK, database
<1>3. ProductsOf(LinesOf(req[t])) \subseteq Products
  BY LinesAtLock DEF SelectRows
<1>4. need' \in [Procs -> SUBSET Products] /\ pc' \in [Procs -> Control]
  BY <1>1, <1>3 DEF SelectRows, ProcsOK, Control
<1>5. ProcsOK'
  BY <1>1, <1>4 DEF SelectRows, ProcsOK
<1>6. RequestsInv'
  BY <1>1 DEF SelectRows, BaseInv, RequestsInv, ProcsOK, database
<1>7. OrdersInv' /\ LockedInv' /\ RowsInv' /\ HeldRowsInv'
  BY DEF SelectRows, BaseInv, OrdersInv, LockedInv, RowsInv, HeldRowsInv, database
<1>8. QED
  BY <1>2, <1>5, <1>6, <1>7 DEF BaseInv, TypeOK, TablesOK, ProcsOK

(* A non-empty set of product ids has a least element.                         *)
LEMMA LeastProduct ==
  ASSUME NEW S \in SUBSET Products, S # {}
  PROVE  \E p \in S : \A q \in S : p <= q
<1> DEFINE Below == {pair \in Nat \X Nat : pair[1] < pair[2]}
<1>1. S \subseteq Nat
  BY ProductsAssumption
<1>2. IsWellFoundedOn(Below, Nat)
  BY NatLessThanWellFounded DEF OpToRel
<1> HIDE DEF Below
<1>3. PICK p \in S : \A q \in S : ~(<<q, p>> \in Below)
  BY <1>1, <1>2, WFMin
<1>4. ASSUME NEW q \in S
      PROVE  p <= q
  <2>1. <<q, p>> \in Nat \X Nat /\ <<q, p>> \notin Below
    BY <1>1, <1>3
  <2>2. ~(q < p)
    BY <2>1 DEF Below
  <2>3. QED
    BY <1>1, <2>2
<1>5. QED
  BY <1>4

LEMMA NextRowIsLeast ==
  ASSUME TypeOK, NEW t \in Procs, Missing(t) # {}
  PROVE  /\ NextRow(t) \in need[t] /\ NextRow(t) \notin Held(t)
         /\ NextRow(t) \in Products
         /\ \A q \in Missing(t) : NextRow(t) <= q
<1>1. Missing(t) \in SUBSET Products
  BY DEF TypeOK, Missing
<1>2. \E p \in Missing(t) : \A q \in Missing(t) : p <= q
  BY <1>1, LeastProduct
<1>3. NextRow(t) \in Missing(t) /\ \A q \in Missing(t) : NextRow(t) <= q
  BY <1>2 DEF NextRow
<1>4. QED
  BY <1>1, <1>3 DEF Missing

LEMMA LockStep ==
  ASSUME BaseInv, NEW t \in Procs, LockRow(t)
  PROVE  BaseInv'
<1>1. TablesOK /\ ProcsOK
  BY TypeParts DEF BaseInv
<1>2. TablesOK'
  BY <1>1 DEF LockRow, TablesOK, database
<1>3. NextRow(t) \in Products
  BY NextRowIsLeast DEF LockRow, BaseInv
<1>4. inventory[NextRow(t)] \in Row
  BY <1>1, <1>3 DEF TablesOK
<1>5. ProcsOK'
  BY <1>1, <1>3, <1>4 DEF LockRow, ProcsOK
<1>6. RequestsInv' /\ OrdersInv' /\ RowsInv'
  BY DEF LockRow, BaseInv, RequestsInv, OrdersInv, RowsInv, database
<1>7. LockedInv'
  BY <1>1, <1>3 DEF LockRow, BaseInv, LockedInv, RowsInv, ProcsOK
<1>8. HeldRowsInv'
  BY <1>1, <1>3 DEF LockRow, BaseInv, HeldRowsInv, ProcsOK, database
<1>9. QED
  BY SMTT(30), <1>2, <1>5, <1>6, <1>7, <1>8 DEF BaseInv, TypeOK, TablesOK, ProcsOK

(* A granted reservation had every row it names under lock.                    *)
LEMMA ReservationRows ==
  ASSUME BaseInv, NEW t \in Procs, pc[t] = "lock", req[t].op = CreateOp,
         ShortLines(req[t].lines, locked[t]) = {},
         NEW i \in DOMAIN req[t].lines
  PROVE  /\ locked[t][req[t].lines[i].product].exists
         /\ req[t].lines[i].quantity
              <= Available(locked[t][req[t].lines[i].product])
<1> DEFINE p == req[t].lines[i].product
<1>1. GoodLines(req[t].org, req[t].lines)
  BY DEF BaseInv, RequestsInv
<1>2. p \in Products /\ req[t].lines[i].quantity \in 1..Int4Max
  BY <1>1, GoodLine
<1>3. locked[t][p] \in Row
  BY <1>2, TypeParts DEF BaseInv, ProcsOK
<1>4. ~(Available(locked[t][p]) < req[t].lines[i].quantity)
  BY DEF ShortLines
<1>5. locked[t][p] # Absent
  BY <1>2, <1>4, Int4Assumption DEF Available, Absent
<1>6. locked[t][p].exists
  BY <1>2, <1>5 DEF BaseInv, LockedInv
<1>7. req[t].lines[i].quantity <= Available(locked[t][p])
  <2>1. locked[t][p].onHand \in Int /\ locked[t][p].reserved \in Int
    BY <1>3 DEF Row
  <2>2. Available(locked[t][p]) \in Int
    BY <2>1 DEF Available
  <2>3. req[t].lines[i].quantity \in Int
    BY <1>2, Int4Assumption
  <2> HIDE DEF p
  <2>4. QED
    BY <1>4, <2>2, <2>3
<1>8. QED
  BY <1>6, <1>7

LEMMA ReservationStep ==
  ASSUME BaseInv, NEW t \in Procs, CommitReservation(t)
  PROVE  BaseInv'
<1> DEFINE lines == req[t].lines
<1>1. PICK o \in OrderIds :
        /\ orders[o].status = "none"
        /\ orders' = [orders EXCEPT ![o] = [status |-> "pending", org |-> req[t].org,
                                            lines |-> lines]]
        /\ audit' = [audit EXCEPT ![o][CreateOp] = @ + 1]
        /\ Complete(t, Outcome(201, <<"created", o>>))
        /\ Answer(t, Outcome(201, <<"created", o>>))
  BY DEF CommitReservation
<1>2. /\ pc[t] = "lock" /\ req[t].op = CreateOp /\ ShortLines(lines, locked[t]) = {}
      /\ WriteStock(t, lines)
  BY DEF CommitReservation, AllLocked
<1>3. TablesOK /\ ProcsOK /\ LockedInv /\ req[t] \in Requests
  BY <1>2, TypeParts DEF BaseInv, ProcsOK
<1>4. GoodLines(req[t].org, lines)
  BY <1>2 DEF BaseInv, RequestsInv
<1>5. \A p \in ProductsOf(lines) : /\ p \in Products /\ Quantity(lines, p) \in Int
                                   /\ locked[t][p].exists
  BY <1>2, <1>4, GoodQuantity, ReservationRows, Int4Assumption DEF ProductsOf
<1>6. /\ inventory' \in [Products -> Row]
      /\ ledger' \in [Products -> [MovementTypes -> Int]]
      /\ \A p \in Products : inventory[p].exists => inventory'[p].exists
      /\ \A p \in ProductsOf(lines) : inventory'[p].exists
      /\ RowsInv'
  BY <1>2, <1>5, StockWritten
<1>7. req[t].org \in Orgs /\ lines \in Seq(Line)
  BY <1>3, RequestType
<1>8. orders' \in [OrderIds -> Order] /\ audit' \in [OrderIds -> [AuditActions -> Nat]]
  <2>1. [status |-> "pending", org |-> req[t].org, lines |-> lines] \in Order
    BY <1>7 DEF Order, OrderStatus
  <2>2. orders' \in [OrderIds -> Order]
    BY <1>1, <1>3, <2>1 DEF TablesOK
  <2>3. audit[o][CreateOp] + 1 \in Nat /\ CreateOp \in AuditActions
    BY <1>3 DEF TablesOK, AuditActions
  <2>4. audit' \in [OrderIds -> [AuditActions -> Nat]]
    BY <1>1, <1>3, <2>3 DEF TablesOK
  <2>5. QED
    BY <2>2, <2>4
<1>9. \A k \in keys' : k.scope \in Orgs \X Ops \X Keys
  BY <1>1, <1>3, RequestType DEF TablesOK, Complete, Scope
<1>10. ProcsOK' /\ LockedInv' /\ HeldRowsInv'
  BY <1>1, <1>2, <1>3, <1>6, AnswerStep, HeldRowsAfter DEF BaseInv
<1>11. RequestsInv'
  BY <1>1, <1>3, RequestsAfterAnswer DEF TablesOK
<1>12. OrdersInv'
  <2> SUFFICES ASSUME NEW oo \in OrderIds, orders'[oo].status # "none"
               PROVE  /\ orders'[oo].org \in Orgs
                      /\ GoodLines(orders'[oo].org, orders'[oo].lines)
                      /\ \A i \in DOMAIN orders'[oo].lines :
                           inventory'[orders'[oo].lines[i].product].exists
    BY DEF OrdersInv
  <2>1. CASE oo = o
    <3>1. orders'[oo].org = req[t].org /\ orders'[oo].lines = lines
      BY <1>1, <1>3, <2>1 DEF TablesOK
    <3>2. QED
      BY <1>4, <1>6, <1>7, <3>1 DEF ProductsOf
  <2>2. CASE oo # o
    <3>1. orders'[oo] = orders[oo]
      BY <1>1, <1>3, <2>2 DEF TablesOK
    <3>2. /\ orders[oo].org \in Orgs
          /\ GoodLines(orders[oo].org, orders[oo].lines)
          /\ \A i \in DOMAIN orders[oo].lines :
               inventory[orders[oo].lines[i].product].exists
      BY <3>1 DEF BaseInv, OrdersInv
    <3>3. \A i \in DOMAIN orders[oo].lines : orders[oo].lines[i].product \in Products
      BY <3>2, GoodLine
    <3>4. QED
      BY <1>6, <3>1, <3>2, <3>3
  <2>3. QED
    BY <2>1, <2>2
<1>13. TypeOK'
  BY <1>6, <1>8, <1>9, <1>10 DEF TypeOK, ProcsOK
<1>14. QED
  BY <1>6, <1>10, <1>11, <1>12, <1>13 DEF BaseInv

LEMMA FinishStep ==
  ASSUME BaseInv, NEW t \in Procs, FinishOrder(t)
  PROVE  BaseInv'
<1> DEFINE r     == req[t]
           lines == LinesOf(r)
<1>1. /\ pc[t] = "lock" /\ r.op \in OrderOps
      /\ TablesOK /\ ProcsOK /\ LockedInv /\ r \in Requests
  BY TypeParts DEF BaseInv, ProcsOK, FinishOrder, AllLocked
<1>2. CASE CannotConsume(r.op, lines, locked[t])
  BY <1>1, <1>2, RefusalStep DEF FinishOrder
<1>3. CASE ~CannotConsume(r.op, lines, locked[t])
  <2>1. ConsumeStock(t)
    BY <1>3 DEF FinishOrder
  <2>2. r.order \in OrderIds /\ orders[r.order].status # "none"
    BY <1>1, RequestType DEF BaseInv, RequestsInv
  <2>3. GoodLines(orders[r.order].org, lines) /\ lines = orders[r.order].lines
    BY <1>1, <2>2 DEF BaseInv, OrdersInv, LinesOf
  <2>4. \A i \in DOMAIN lines : locked[t][lines[i].product].exists
    BY <1>3 DEF CannotConsume
  <2>5. \A p \in ProductsOf(lines) : /\ p \in Products /\ Quantity(lines, p) \in Int
                                     /\ locked[t][p].exists
    <3> SUFFICES ASSUME NEW p \in ProductsOf(lines)
                 PROVE  /\ p \in Products /\ Quantity(lines, p) \in Int
                        /\ locked[t][p].exists
      OBVIOUS
    <3>1. p \in Products /\ Quantity(lines, p) \in 1..Int4Max
      BY <2>3, GoodQuantity
    <3>2. locked[t][p].exists
      BY <2>4 DEF ProductsOf
    <3>3. QED
      BY <3>1, <3>2, Int4Assumption
  <2>6. /\ inventory' \in [Products -> Row]
        /\ ledger' \in [Products -> [MovementTypes -> Int]]
        /\ \A p \in Products : inventory[p].exists => inventory'[p].exists
        /\ RowsInv'
    BY <1>1, <2>1, <2>5, StockWritten DEF ConsumeStock
  <2>7. /\ orders' = [orders EXCEPT ![r.order].status = StatusAfter(r.op)]
        /\ audit' = [audit EXCEPT ![r.order][r.op] = @ + 1]
        /\ \E result : Complete(t, result) /\ Answer(t, result)
    BY <2>1 DEF ConsumeStock
  <2>8. StatusAfter(r.op) \in OrderStatus \ {"none"}
    BY DEF StatusAfter, OrderStatus
  <2>9. orders' \in [OrderIds -> Order]
    <3> DEFINE status == StatusAfter(r.op)
    <3> HIDE DEF status
    <3>1. status \in OrderStatus /\ orders[r.order] \in Order
      BY <1>1, <2>2, <2>8 DEF status, TablesOK
    <3>2. [orders[r.order] EXCEPT !.status = status] \in Order
      BY <3>1 DEF Order
    <3>3. orders' = [orders EXCEPT ![r.order] =
                       [orders[r.order] EXCEPT !.status = status]]
      BY <2>7 DEF status
    <3>4. QED
      BY <1>1, <2>2, <3>2, <3>3 DEF TablesOK
  <2>10. r.op \in AuditActions
    BY <1>1 DEF AuditActions, OrderOps
  <2>11. audit' \in [OrderIds -> [AuditActions -> Nat]]
    <3>1. audit[r.order][r.op] + 1 \in Nat
      BY <1>1, <2>2, <2>10 DEF TablesOK
    <3>2. QED
      BY <1>1, <2>2, <2>7, <2>10, <3>1 DEF TablesOK
  <2>12. \A k \in keys' : k.scope \in Orgs \X Ops \X Keys
    BY <1>1, <2>7, RequestType DEF TablesOK, Complete, Scope
  <2>13. ProcsOK' /\ LockedInv' /\ HeldRowsInv'
    BY <1>1, <2>6, <2>7, AnswerStep, HeldRowsAfter DEF BaseInv
  <2>14. \A o \in OrderIds :
           /\ orders'[o].org = orders[o].org /\ orders'[o].lines = orders[o].lines
           /\ orders[o].status # "none" <=> orders'[o].status # "none"
    BY <1>1, <2>2, <2>7, <2>8 DEF TablesOK, Order
  <2>15. RequestsInv'
    BY <2>7, <2>14, RequestsAfterAnswer
  <2>16. OrdersInv'
    <3> SUFFICES ASSUME NEW o \in OrderIds, orders'[o].status # "none"
                 PROVE  /\ orders'[o].org \in Orgs
                        /\ GoodLines(orders'[o].org, orders'[o].lines)
                        /\ \A i \in DOMAIN orders'[o].lines :
                             inventory'[orders'[o].lines[i].product].exists
      BY DEF OrdersInv
    <3>1. /\ orders[o].org \in Orgs
          /\ GoodLines(orders[o].org, orders[o].lines)
          /\ \A i \in DOMAIN orders[o].lines :
               inventory[orders[o].lines[i].product].exists
      BY <2>14 DEF BaseInv, OrdersInv
    <3>2. \A i \in DOMAIN orders[o].lines : orders[o].lines[i].product \in Products
      BY <3>1, GoodLine
    <3>3. QED
      BY <2>6, <2>14, <3>1, <3>2
  <2>17. TypeOK'
    BY <2>6, <2>9, <2>11, <2>12, <2>13 DEF TypeOK, ProcsOK
  <2>18. QED
    BY <2>6, <2>13, <2>15, <2>16, <2>17 DEF BaseInv
<1>4. QED
  BY <1>2, <1>3

LEMMA AdjustmentStep ==
  ASSUME BaseInv, NEW t \in Procs, CommitAdjustment(t)
  PROVE  BaseInv'
<1> DEFINE lines == req[t].lines
<1>1. /\ pc[t] = "lock" /\ req[t].op = AdjustOp
      /\ TablesOK /\ ProcsOK /\ LockedInv /\ req[t] \in Requests
  BY TypeParts DEF BaseInv, ProcsOK, CommitAdjustment, AllLocked
<1>2. /\ WriteStock(t, lines)
      /\ \E result : Complete(t, result) /\ Answer(t, result)
      /\ UNCHANGED <<orders, audit>>
  BY DEF CommitAdjustment
<1>3. \A p \in ProductsOf(lines) : p \in Products /\ Quantity(lines, p) \in Int
  BY <1>1, AdjustmentLine
<1>4. /\ inventory' \in [Products -> Row]
      /\ ledger' \in [Products -> [MovementTypes -> Int]]
      /\ \A p \in Products : inventory[p].exists => inventory'[p].exists
      /\ RowsInv'
  BY <1>1, <1>2, <1>3, StockWritten
<1>5. \A k \in keys' : k.scope \in Orgs \X Ops \X Keys
  BY <1>1, <1>2, RequestType DEF TablesOK, Complete, Scope
<1>6. ProcsOK' /\ LockedInv' /\ HeldRowsInv'
  BY <1>1, <1>2, <1>4, AnswerStep, HeldRowsAfter DEF BaseInv
<1>7. RequestsInv'
  BY <1>2, RequestsAfterAnswer
<1>8. OrdersInv'
  BY <1>2, <1>4, OrdersAfterWrite
<1>9. TypeOK'
  BY <1>1, <1>2, <1>4, <1>5, <1>6 DEF TypeOK, ProcsOK, TablesOK
<1>10. QED
  BY <1>4, <1>6, <1>7, <1>8, <1>9 DEF BaseInv

-------------------------------------------------------------------------------
(* Type correctness.                                                           *)

LEMMA BaseInit == Init => BaseInv
<1> SUFFICES ASSUME Init PROVE BaseInv
  OBVIOUS
<1>1. TablesOK
  <2>1. NoSuchOrder \in Order
    BY DEF NoSuchOrder, Order, OrderStatus
  <2>2. QED
    BY <2>1, OpeningAssumption DEF Init, TablesOK
<1>2. ProcsOK
  BY NothingLockedType DEF Init, ProcsOK, Control
<1>3. RequestsInv
  BY DEF Init, RequestsInv
<1>4. OrdersInv
  BY DEF Init, OrdersInv, NoSuchOrder
<1>5. LockedInv
  BY NothingLockedType DEF Init, LockedInv
<1>6. RowsInv
  BY OpeningAssumption DEF Init, RowsInv
<1>7. HeldRowsInv
  BY NothingLockedType DEF Init, HeldRowsInv, Absent
<1>8. QED
  BY <1>1, <1>2, <1>3, <1>4, <1>5, <1>6, <1>7, TypeParts DEF BaseInv

LEMMA BaseNext == BaseInv /\ [Next]_vars => BaseInv'
<1> SUFFICES ASSUME BaseInv, [Next]_vars PROVE BaseInv'
  OBVIOUS
<1>1. ASSUME NEW t \in Procs, NEW r \in Requests, Send(t, r)
      PROVE  BaseInv'
  BY <1>1, SendStep
<1>2. ASSUME NEW t \in Procs, Claim(t)
      PROVE  BaseInv'
  BY <1>2, ControlStep DEF Claim
<1>3. ASSUME NEW t \in Procs, Resolve(t)
      PROVE  BaseInv'
  BY <1>3, RefusalStep DEF Resolve, Fail
<1>4. ASSUME NEW t \in Procs, UpdateOrder(t)
      PROVE  BaseInv'
  BY <1>4, ControlStep DEF UpdateOrder
<1>5. ASSUME NEW t \in Procs, RereadOrder(t)
      PROVE  BaseInv'
  BY <1>5, RefusalStep DEF RereadOrder
<1>6. ASSUME NEW t \in Procs, SelectRows(t)
      PROVE  BaseInv'
  BY <1>6, SelectStep
<1>7. ASSUME NEW t \in Procs, LockRow(t)
      PROVE  BaseInv'
  BY <1>7, LockStep
<1>8. ASSUME NEW t \in Procs, RefuseReservation(t)
      PROVE  BaseInv'
  BY <1>8, RefusalStep DEF RefuseReservation, AllLocked
<1>9. ASSUME NEW t \in Procs, CommitReservation(t)
      PROVE  BaseInv'
  BY <1>9, ReservationStep
<1>10. ASSUME NEW t \in Procs, FinishOrder(t)
       PROVE  BaseInv'
  BY <1>10, FinishStep
<1>11. ASSUME NEW t \in Procs, RefuseAdjustment(t)
       PROVE  BaseInv'
  BY <1>11, RefusalStep DEF RefuseAdjustment, AllLocked
<1>12. ASSUME NEW t \in Procs, CommitAdjustment(t)
       PROVE  BaseInv'
  BY <1>12, AdjustmentStep
<1>13. ASSUME NEW t \in Procs, FailInsert(t)
       PROVE  BaseInv'
  BY <1>13, RefusalStep DEF FailInsert, AllLocked
<1>14. ASSUME NEW t \in Procs, Reply(t) \/ Crash(t)
       PROVE  BaseInv'
  BY <1>14, LeaveStep DEF Reply, Crash
<1>15. CASE UNCHANGED vars
  BY <1>15 DEF vars, BaseInv, TypeOK, RequestsInv, OrdersInv, LockedInv, RowsInv,
              HeldRowsInv
<1>16. QED
  BY <1>1, <1>2, <1>3, <1>4, <1>5, <1>6, <1>7, <1>8, <1>9, <1>10, <1>11, <1>12,
     <1>13, <1>14, <1>15 DEF Next, Statement

(* Every table and every process keeps its type, and the facts it rests on:    *)
(* requests past their validation have good lines, orders that exist were made *)
(* from good lines of products with an inventory row.                          *)
THEOREM BaseInvariant == Spec => []BaseInv
<1>1. QED
  BY BaseInit, BaseNext, PTL DEF Spec

(* Every variable has its type in every reachable state, the tables the types  *)
(* of database/schema.                                                         *)
THEOREM TypeCorrect == Spec => []TypeOK
<1>1. BaseInv => TypeOK
  BY DEF BaseInv
<1>2. QED
  BY <1>1, BaseInvariant, PTL

-------------------------------------------------------------------------------
(* Mutual exclusion and what follows from it.  Idempotency rows, order rows    *)
(* and inventory rows each have one holder; a transaction that holds a row has *)
(* read it as it still is.                                                     *)

TxControl == {"update", "reread", "select", "lock"}

(* An open transaction is alone with its claim, and its claim is the first.    *)
ClaimsInv ==
  /\ \A t, u \in Procs :
       t # u /\ pc[t] \in TxControl /\ pc[u] \in TxControl =>
         Scope(req[t]) # Scope(req[u])
  /\ \A t \in Procs : pc[t] \in TxControl =>
       \A k \in keys : k.scope # Scope(req[t])

(* A transaction that flipped an order is alone with it, and to the others the *)
(* order is still pending.                                                     *)
OrderLocksInv ==
  /\ \A t \in Procs :
       pc[t] \in {"select", "lock"} /\ req[t].op \in OrderOps => Flippable(req[t])
  /\ \A t, u \in Procs : \A o \in OrderIds :
       HoldsOrder(t, o) /\ HoldsOrder(u, o) => t = u

(* A locked row is needed, as it was read, and locked by nobody else.          *)
RowLocksInv ==
  /\ \A t \in Procs : \A p \in Products : locked[t][p].exists =>
       p \in need[t] /\ locked[t][p] = inventory[p]
  /\ \A t, u \in Procs : \A p \in Products :
       locked[t][p].exists /\ locked[u][p].exists => t = u

LockInv == ClaimsInv /\ OrderLocksInv /\ RowLocksInv

-------------------------------------------------------------------------------
(* The end of an attempt disturbs nobody: it changes at most the rows and the  *)
(* order it holds, rows and orders that did not exist, and the claim it holds. *)
Ends(t) ==
  /\ pc'[t] \in {"idle", "reply"} /\ locked'[t] = NothingLocked
  /\ \A u \in Procs \ {t} : /\ pc'[u] = pc[u] /\ req'[u] = req[u]
                            /\ need'[u] = need[u] /\ locked'[u] = locked[u]

Confined(t) ==
  /\ \A k \in keys' : k \in keys \/ (pc[t] \in TxControl /\ k.scope = Scope(req[t]))
  /\ \A o \in OrderIds :
       orders'[o] = orders[o] \/ orders[o].status = "none" \/ HoldsOrder(t, o)
  /\ \A p \in Products :
       inventory'[p] = inventory[p] \/ locked[t][p].exists \/ ~inventory[p].exists

LEMMA EndStep ==
  ASSUME BaseInv, LockInv, NEW t \in Procs, Ends(t), Confined(t)
  PROVE  LockInv'
<1>1. ASSUME NEW u \in Procs, pc'[u] \in TxControl
      PROVE  u # t /\ pc'[u] = pc[u] /\ req'[u] = req[u] /\ req[u] \in Requests
  BY <1>1, TypeParts DEF Ends, TxControl, BaseInv, ProcsOK
<1>2. ASSUME NEW u \in Procs, NEW p \in Products, locked'[u][p].exists
      PROVE  u # t /\ locked'[u] = locked[u] /\ need'[u] = need[u]
  BY <1>2, NothingLockedType DEF Ends, Absent
<1>3. ClaimsInv'
  <2>1. ASSUME NEW u \in Procs, NEW v \in Procs, u # v,
               pc'[u] \in TxControl, pc'[v] \in TxControl
        PROVE  Scope(req'[u]) # Scope(req'[v])
    BY <1>1, <2>1 DEF LockInv, ClaimsInv
  <2>2. ASSUME NEW u \in Procs, pc'[u] \in TxControl, NEW k \in keys'
        PROVE  k.scope # Scope(req'[u])
    <3>1. u # t /\ pc[u] \in TxControl /\ req'[u] = req[u]
      BY <1>1, <2>2
    <3>2. CASE k \in keys
      BY <3>1, <3>2 DEF LockInv, ClaimsInv
    <3>3. CASE pc[t] \in TxControl /\ k.scope = Scope(req[t])
      BY <3>1, <3>3 DEF LockInv, ClaimsInv
    <3>4. QED
      BY <2>2, <3>2, <3>3 DEF Confined
  <2>3. QED
    BY <2>1, <2>2 DEF ClaimsInv, Scope
<1>4. OrderLocksInv'
  <2>1. ASSUME NEW u \in Procs, NEW o \in OrderIds,
               pc'[u] \in {"select", "lock"}, req'[u].op \in OrderOps, req'[u].order = o
        PROVE  HoldsOrder(u, o) /\ u # t
    BY <1>1, <2>1 DEF HoldsOrder, TxControl
  <2>2. ASSUME NEW u \in Procs, pc'[u] \in {"select", "lock"}, req'[u].op \in OrderOps
        PROVE  orders'[req'[u].order].org = req'[u].org
               /\ orders'[req'[u].order].status = "pending"
    <3> DEFINE o == req[u].order
    <3>1. /\ u # t /\ req'[u] = req[u] /\ pc[u] \in {"select", "lock"}
          /\ req[u] \in Requests
      BY <1>1, <2>2 DEF TxControl
    <3>2. o \in OrderIds
      BY <2>2, <3>1, RequestType
    <3>3. orders[o].org = req[u].org /\ orders[o].status = "pending"
      BY <2>2, <3>1 DEF LockInv, OrderLocksInv, Flippable
    <3>4. HoldsOrder(u, o)
      BY <2>2, <3>1 DEF HoldsOrder
    <3>5. ~HoldsOrder(t, o)
      BY <3>1, <3>2, <3>4 DEF LockInv, OrderLocksInv
    <3>6. orders'[o] = orders[o]
      BY <3>2, <3>3, <3>5 DEF Confined
    <3>7. QED
      BY <3>1, <3>3, <3>6
  <2>3. ASSUME NEW u \in Procs, NEW v \in Procs, NEW o \in OrderIds,
               HoldsOrder(u, o)', HoldsOrder(v, o)'
        PROVE  u = v
    BY <2>1, <2>3 DEF HoldsOrder, LockInv, OrderLocksInv
  <2>4. QED
    BY <2>2, <2>3 DEF OrderLocksInv, Flippable
<1>5. RowLocksInv'
  <2>1. ASSUME NEW u \in Procs, NEW p \in Products, locked'[u][p].exists
        PROVE  p \in need'[u] /\ locked'[u][p] = inventory'[p]
    <3>1. u # t /\ locked'[u] = locked[u] /\ need'[u] = need[u] /\ locked[u][p].exists
      BY <1>2, <2>1
    <3>2. p \in need[u] /\ locked[u][p] = inventory[p] /\ ~locked[t][p].exists
      BY <3>1 DEF LockInv, RowLocksInv
    <3>3. inventory'[p] = inventory[p]
      BY <3>1, <3>2 DEF Confined
    <3>4. QED
      BY <3>1, <3>2, <3>3
  <2>2. ASSUME NEW u \in Procs, NEW v \in Procs, NEW p \in Products,
               locked'[u][p].exists, locked'[v][p].exists
        PROVE  u = v
    <3>1. locked[u][p].exists /\ locked[v][p].exists
      BY <1>2, <2>2
    <3>2. QED
      BY <3>1 DEF LockInv, RowLocksInv
  <2>3. QED
    BY <2>1, <2>2 DEF RowLocksInv
<1>6. QED
  BY <1>3, <1>4, <1>5 DEF LockInv

LEMMA AnswerEnds ==
  ASSUME BaseInv, NEW t \in Procs, NEW result, Answer(t, result)
  PROVE  Ends(t)
  BY TypeParts DEF Answer, Ends, BaseInv, ProcsOK

LEMMA LeaveEnds ==
  ASSUME BaseInv, NEW t \in Procs, Leave(t)
  PROVE  Ends(t) /\ Confined(t)
  BY TypeParts DEF Leave, Ends, Confined, BaseInv, ProcsOK, database

LEMMA FailLocks ==
  ASSUME BaseInv, LockInv, NEW t \in Procs, NEW result, Fail(t, result)
  PROVE  LockInv'
  BY AnswerEnds, EndStep DEF Fail, Confined, database

LEMMA RefusalLocks ==
  ASSUME BaseInv, LockInv, NEW t \in Procs, pc[t] \in TxControl, NEW result,
         CommitRefusal(t, result)
  PROVE  LockInv'
<1>1. Ends(t)
  BY AnswerEnds DEF CommitRefusal
<1>2. Confined(t)
  BY DEF CommitRefusal, Confined, Complete
<1>3. QED
  BY <1>1, <1>2, EndStep

-------------------------------------------------------------------------------
(* The statements that take locks.                                             *)

LEMMA SendLocks ==
  ASSUME BaseInv, LockInv, NEW t \in Procs, NEW r \in Requests, Send(t, r)
  PROVE  LockInv'
<1>1. ASSUME NEW u \in Procs, pc'[u] \in TxControl
      PROVE  pc'[u] = pc[u] /\ req'[u] = req[u]
  BY <1>1, TypeParts DEF Send, TxControl, BaseInv, ProcsOK
<1>2. ClaimsInv'
  BY <1>1 DEF Send, LockInv, ClaimsInv, Scope, database
<1>3. OrderLocksInv'
  BY <1>1 DEF Send, LockInv, OrderLocksInv, HoldsOrder, Flippable, TxControl, database
<1>4. RowLocksInv'
  BY DEF Send, LockInv, RowLocksInv, database
<1>5. QED
  BY <1>2, <1>3, <1>4 DEF LockInv

LEMMA ClaimLocks ==
  ASSUME BaseInv, LockInv, NEW t \in Procs, Claim(t)
  PROVE  LockInv'
<1>1. /\ pc[t] = "claim" /\ pc \in [Procs -> Control]
      /\ UNCHANGED <<inventory, orders, keys, req, need, locked>>
  BY TypeParts DEF Claim, BaseInv, ProcsOK, database
<1>2. ASSUME NEW u \in Procs, u # t
      PROVE  pc'[u] = pc[u]
  BY <1>1, <1>2 DEF Claim
<1>3. ASSUME pc'[t] \in TxControl
      PROVE  /\ \A k \in keys : k.scope # Scope(req[t])
             /\ pc'[t] = IF req[t].op \in OrderOps THEN "update" ELSE "select"
  BY <1>1, <1>3 DEF Claim, TxControl
<1>4. ASSUME NEW u \in Procs, u # t, pc[u] \in TxControl
      PROVE  Scope(req[u]) # Scope(req[t])
  BY <1>4 DEF Claim, HoldsKey, TxControl
<1>5. ClaimsInv'
  <2>1. ASSUME NEW u \in Procs, NEW v \in Procs, u # v,
               pc'[u] \in TxControl, pc'[v] \in TxControl
        PROVE  Scope(req[u]) # Scope(req[v])
    <3>1. CASE u = t
      BY <1>2, <1>4, <2>1, <3>1
    <3>2. CASE v = t
      BY <1>2, <1>4, <2>1, <3>2
    <3>3. CASE u # t /\ v # t
      BY <1>2, <2>1, <3>3 DEF LockInv, ClaimsInv
    <3>4. QED
      BY <3>1, <3>2, <3>3
  <2>2. ASSUME NEW u \in Procs, pc'[u] \in TxControl, NEW k \in keys
        PROVE  k.scope # Scope(req[u])
    BY <1>2, <1>3, <2>2 DEF LockInv, ClaimsInv
  <2>3. QED
    BY <1>1, <2>1, <2>2 DEF ClaimsInv, Scope
<1>6. ASSUME NEW u \in Procs, pc'[u] \in {"select", "lock"}, req[u].op \in OrderOps
      PROVE  u # t /\ pc[u] = pc'[u]
  BY <1>1, <1>2, <1>3, <1>6 DEF TxControl
<1>7. OrderLocksInv'
  BY <1>1, <1>6 DEF LockInv, OrderLocksInv, HoldsOrder, Flippable
<1>8. RowLocksInv'
  BY <1>1 DEF LockInv, RowLocksInv
<1>9. QED
  BY <1>5, <1>7, <1>8 DEF LockInv

LEMMA UpdateLocks ==
  ASSUME BaseInv, LockInv, NEW t \in Procs, UpdateOrder(t)
  PROVE  LockInv'
<1>1. /\ pc[t] = "update" /\ pc \in [Procs -> Control]
      /\ UNCHANGED <<inventory, orders, keys, req, need, locked>>
      /\ pc' = [pc EXCEPT ![t] = IF Flippable(req[t]) THEN "select" ELSE "reread"]
  BY TypeParts DEF UpdateOrder, BaseInv, ProcsOK, database
<1>2. ASSUME NEW u \in Procs
      PROVE  pc'[u] \in TxControl => pc[u] \in TxControl
  BY <1>1 DEF TxControl
<1>3. ClaimsInv'
  BY <1>1, <1>2 DEF LockInv, ClaimsInv, Scope
<1>4. ASSUME NEW u \in Procs, pc'[u] \in {"select", "lock"}, req[u].op \in OrderOps
      PROVE  /\ Flippable(req[u])
             /\ u # t => HoldsOrder(u, req[u].order)
  BY <1>1, <1>4 DEF LockInv, OrderLocksInv, HoldsOrder
<1>5. ASSUME NEW u \in Procs, u # t, HoldsOrder(u, req[t].order), Flippable(req[t])
      PROVE  FALSE
  BY <1>5 DEF UpdateOrder
<1>6. ASSUME NEW u \in Procs, NEW v \in Procs, NEW o \in OrderIds,
             HoldsOrder(u, o)', HoldsOrder(v, o)'
      PROVE  u = v
  <2>1. /\ pc'[u] \in {"select", "lock"} /\ req[u].op \in OrderOps /\ req[u].order = o
        /\ pc'[v] \in {"select", "lock"} /\ req[v].op \in OrderOps /\ req[v].order = o
    BY <1>1, <1>6 DEF HoldsOrder
  <2>2. CASE u = t \/ v = t
    BY <1>4, <1>5, <2>1, <2>2
  <2>3. CASE u # t /\ v # t
    BY <1>4, <2>1, <2>3 DEF LockInv, OrderLocksInv
  <2>4. QED
    BY <2>2, <2>3
<1>7. OrderLocksInv'
  BY <1>1, <1>4, <1>6 DEF OrderLocksInv, Flippable
<1>8. RowLocksInv'
  BY <1>1 DEF LockInv, RowLocksInv
<1>9. QED
  BY <1>3, <1>7, <1>8 DEF LockInv

LEMMA SelectLocks ==
  ASSUME BaseInv, LockInv, NEW t \in Procs, SelectRows(t)
  PROVE  LockInv'
<1>1. /\ pc[t] = "select" /\ pc \in [Procs -> Control]
      /\ UNCHANGED <<inventory, orders, keys, req, locked>>
      /\ pc' = [pc EXCEPT ![t] = "lock"]
      /\ locked[t] = NothingLocked
  BY TypeParts DEF SelectRows, BaseInv, ProcsOK, database
<1>2. ClaimsInv'
  BY <1>1 DEF LockInv, ClaimsInv, Scope, TxControl
<1>3. OrderLocksInv'
  BY <1>1 DEF LockInv, OrderLocksInv, HoldsOrder, Flippable
<1>4. ASSUME NEW u \in Procs, NEW p \in Products, locked[u][p].exists
      PROVE  need'[u] = need[u]
  <2>1. u # t
    BY <1>1, <1>4, NothingLockedType DEF Absent
  <2>2. QED
    BY <2>1 DEF SelectRows
<1>5. RowLocksInv'
  BY <1>1, <1>4 DEF LockInv, RowLocksInv
<1>6. QED
  BY <1>2, <1>3, <1>5 DEF LockInv

LEMMA RowLocks ==
  ASSUME BaseInv, LockInv, NEW t \in Procs, LockRow(t)
  PROVE  LockInv'
<1> DEFINE p == NextRow(t)
<1>1. p \in Products /\ p \in need[t]
  BY NextRowIsLeast DEF LockRow, BaseInv
<1>2. /\ UNCHANGED <<inventory, orders, keys, pc, req, need>>
      /\ locked' = [locked EXCEPT ![t][p] = inventory[p]]
      /\ \A u \in Procs \ {t} : ~locked[u][p].exists
  BY <1>1 DEF LockRow, RowBusy, Held, database
<1>3. locked \in [Procs -> [Products -> Row]]
  BY TypeParts DEF BaseInv, ProcsOK
<1> HIDE DEF p
<1>4. ClaimsInv' /\ OrderLocksInv'
  BY <1>2 DEF LockInv, ClaimsInv, OrderLocksInv, Scope, HoldsOrder, Flippable
<1>5. ASSUME NEW u \in Procs, NEW q \in Products, ~(u = t /\ q = p)
      PROVE  locked'[u][q] = locked[u][q]
  BY <1>2, <1>3, <1>5
<1>6. locked'[t][p] = inventory[p]
  BY <1>1, <1>2, <1>3
<1>7. ASSUME NEW u \in Procs, NEW q \in Products, locked'[u][q].exists
      PROVE  q \in need'[u] /\ locked'[u][q] = inventory'[q]
  BY <1>1, <1>2, <1>5, <1>6, <1>7 DEF LockInv, RowLocksInv
<1>8. ASSUME NEW u \in Procs, NEW v \in Procs, NEW q \in Products,
             locked'[u][q].exists, locked'[v][q].exists
      PROVE  u = v
  <2>1. CASE q # p
    BY <1>5, <1>8, <2>1 DEF LockInv, RowLocksInv
  <2>2. CASE q = p
    BY <1>2, <1>5, <1>8, <2>2
  <2>3. QED
    BY <2>1, <2>2
<1>9. RowLocksInv'
  BY <1>7, <1>8 DEF RowLocksInv
<1>10. QED
  BY <1>4, <1>9 DEF LockInv

-------------------------------------------------------------------------------
(* The commits.                                                                *)

LEMMA WriteConfined ==
  ASSUME BaseInv, NEW t \in Procs, NEW lines, WriteStock(t, lines),
         \A p \in ProductsOf(lines) :
           p \in Products => locked[t][p].exists \/ ~inventory[p].exists
  PROVE  \A p \in Products :
           inventory'[p] = inventory[p] \/ locked[t][p].exists \/ ~inventory[p].exists
  BY TypeParts DEF WriteStock, BaseInv, TablesOK

LEMMA ReservationEnds ==
  ASSUME BaseInv, NEW t \in Procs, CommitReservation(t)
  PROVE  Ends(t) /\ Confined(t)
<1> DEFINE lines == req[t].lines
<1>1. /\ pc[t] = "lock" /\ req[t].op = CreateOp /\ ShortLines(lines, locked[t]) = {}
      /\ WriteStock(t, lines)
  BY DEF CommitReservation, AllLocked
<1>2. PICK o \in OrderIds :
        /\ orders[o].status = "none"
        /\ orders' = [orders EXCEPT ![o] = [status |-> "pending", org |-> req[t].org,
                                            lines |-> lines]]
        /\ Complete(t, Outcome(201, <<"created", o>>))
        /\ Answer(t, Outcome(201, <<"created", o>>))
  BY DEF CommitReservation
<1>3. Ends(t)
  BY <1>2, AnswerEnds
<1>4. \A oo \in OrderIds : orders'[oo] = orders[oo] \/ orders[oo].status = "none"
  BY <1>2, TypeParts DEF BaseInv, TablesOK
<1>5. \A k \in keys' : k \in keys \/ (pc[t] \in TxControl /\ k.scope = Scope(req[t]))
  BY <1>1, <1>2 DEF Complete, TxControl
<1>6. \A p \in ProductsOf(lines) : locked[t][p].exists
  BY <1>1, ReservationRows DEF ProductsOf
<1>7. \A p \in Products :
        inventory'[p] = inventory[p] \/ locked[t][p].exists \/ ~inventory[p].exists
  BY <1>1, <1>6, WriteConfined
<1>8. QED
  BY <1>3, <1>4, <1>5, <1>7 DEF Confined

LEMMA ConsumeEnds ==
  ASSUME BaseInv, NEW t \in Procs, AllLocked(t), req[t].op \in OrderOps,
         ~CannotConsume(req[t].op, LinesOf(req[t]), locked[t]), ConsumeStock(t)
  PROVE  Ends(t) /\ Confined(t)
<1> DEFINE r     == req[t]
           lines == LinesOf(r)
<1>1. /\ pc[t] = "lock"
      /\ WriteStock(t, lines)
      /\ orders' = [orders EXCEPT ![r.order].status = StatusAfter(r.op)]
      /\ \E result : Complete(t, result) /\ Answer(t, result)
  BY DEF ConsumeStock, AllLocked
<1>2. Ends(t)
  BY <1>1, AnswerEnds
<1>3. \A o \in OrderIds : orders'[o] = orders[o] \/ HoldsOrder(t, o)
  <2> SUFFICES ASSUME NEW o \in OrderIds, o # r.order
               PROVE  orders'[o] = orders[o]
    BY <1>1 DEF HoldsOrder
  <2>1. QED
    BY <1>1, TypeParts DEF BaseInv, TablesOK
<1>4. \A k \in keys' : k \in keys \/ (pc[t] \in TxControl /\ k.scope = Scope(r))
  BY <1>1 DEF Complete, TxControl
<1>5. \A p \in ProductsOf(lines) : locked[t][p].exists
  BY DEF CannotConsume, ProductsOf
<1>6. \A p \in Products :
        inventory'[p] = inventory[p] \/ locked[t][p].exists \/ ~inventory[p].exists
  BY <1>1, <1>5, WriteConfined
<1>7. QED
  BY <1>2, <1>3, <1>4, <1>6 DEF Confined

LEMMA AdjustmentEnds ==
  ASSUME BaseInv, NEW t \in Procs, CommitAdjustment(t)
  PROVE  Ends(t) /\ Confined(t)
<1> DEFINE lines == req[t].lines
<1>1. /\ pc[t] = "lock" /\ req[t].op = AdjustOp /\ req[t] \in Requests
      /\ WriteStock(t, lines)
      /\ orders' = orders
      /\ \E result : Complete(t, result) /\ Answer(t, result)
      /\ InsertsRow(t) => ~inventory[lines[1].product].exists
  BY TypeParts DEF CommitAdjustment, AllLocked, BaseInv, ProcsOK
<1>2. Ends(t)
  BY <1>1, AnswerEnds
<1>3. \A k \in keys' : k \in keys \/ (pc[t] \in TxControl /\ k.scope = Scope(req[t]))
  BY <1>1 DEF Complete, TxControl
<1>4. \A p \in ProductsOf(lines) : locked[t][p].exists \/ ~inventory[p].exists
  BY <1>1, AdjustmentLine DEF InsertsRow
<1>5. \A p \in Products :
        inventory'[p] = inventory[p] \/ locked[t][p].exists \/ ~inventory[p].exists
  BY <1>1, <1>4, WriteConfined
<1>6. QED
  BY <1>1, <1>2, <1>3, <1>5 DEF Confined

-------------------------------------------------------------------------------
(* The locks exclude.                                                          *)

LEMMA LockInit == Init => LockInv
<1> SUFFICES ASSUME Init PROVE LockInv
  OBVIOUS
<1>1. ClaimsInv
  BY DEF Init, ClaimsInv, TxControl
<1>2. OrderLocksInv
  BY DEF Init, OrderLocksInv, HoldsOrder
<1>3. RowLocksInv
  BY NothingLockedType DEF Init, RowLocksInv, Absent
<1>4. QED
  BY <1>1, <1>2, <1>3 DEF LockInv

LEMMA LockNext == BaseInv /\ LockInv /\ [Next]_vars => LockInv'
<1> SUFFICES ASSUME BaseInv, LockInv, [Next]_vars PROVE LockInv'
  OBVIOUS
<1>1. ASSUME NEW t \in Procs, NEW r \in Requests, Send(t, r)
      PROVE  LockInv'
  BY <1>1, SendLocks
<1>2. ASSUME NEW t \in Procs, Claim(t)
      PROVE  LockInv'
  BY <1>2, ClaimLocks
<1>3. ASSUME NEW t \in Procs, Resolve(t)
      PROVE  LockInv'
  BY <1>3, FailLocks DEF Resolve, Fail
<1>4. ASSUME NEW t \in Procs, UpdateOrder(t)
      PROVE  LockInv'
  BY <1>4, UpdateLocks
<1>5. ASSUME NEW t \in Procs, RereadOrder(t)
      PROVE  LockInv'
  BY <1>5, RefusalLocks DEF RereadOrder, TxControl
<1>6. ASSUME NEW t \in Procs, SelectRows(t)
      PROVE  LockInv'
  BY <1>6, SelectLocks
<1>7. ASSUME NEW t \in Procs, LockRow(t)
      PROVE  LockInv'
  BY <1>7, RowLocks
<1>8. ASSUME NEW t \in Procs, RefuseReservation(t)
      PROVE  LockInv'
  BY <1>8, RefusalLocks DEF RefuseReservation, AllLocked, TxControl
<1>9. ASSUME NEW t \in Procs, CommitReservation(t)
      PROVE  LockInv'
  BY <1>9, ReservationEnds, EndStep
<1>10. ASSUME NEW t \in Procs, FinishOrder(t)
       PROVE  LockInv'
  BY <1>10, ConsumeEnds, EndStep, FailLocks DEF FinishOrder
<1>11. ASSUME NEW t \in Procs, RefuseAdjustment(t)
       PROVE  LockInv'
  BY <1>11, RefusalLocks DEF RefuseAdjustment, AllLocked, TxControl
<1>12. ASSUME NEW t \in Procs, CommitAdjustment(t)
       PROVE  LockInv'
  BY <1>12, AdjustmentEnds, EndStep
<1>13. ASSUME NEW t \in Procs, FailInsert(t)
       PROVE  LockInv'
  BY <1>13, FailLocks DEF FailInsert
<1>14. ASSUME NEW t \in Procs, Reply(t) \/ Crash(t)
       PROVE  LockInv'
  BY <1>14, LeaveEnds, EndStep DEF Reply, Crash
<1>15. CASE UNCHANGED vars
  BY <1>15 DEF vars, LockInv, ClaimsInv, OrderLocksInv, RowLocksInv, Scope, HoldsOrder,
               Flippable
<1>16. QED
  BY <1>1, <1>2, <1>3, <1>4, <1>5, <1>6, <1>7, <1>8, <1>9, <1>10, <1>11, <1>12,
     <1>13, <1>14, <1>15 DEF Next, Statement

(* In every reachable state a claim, an order and an inventory row have at     *)
(* most one holder each, which sees them as they are (claimIdempotencyKey, the *)
(* conditional UPDATE of orders, SELECT ... FOR UPDATE).                       *)
THEOREM LocksExclude == Spec => []LockInv
<1>1. Spec => []BaseInv
  BY BaseInvariant
<1>2. BaseInv /\ LockInv /\ [Next]_vars => LockInv'
  BY LockNext
<1>3. QED
  BY <1>1, <1>2, LockInit, PTL DEF Spec

-------------------------------------------------------------------------------
(* Idempotency.                                                                *)

(* What a transaction may record as the outcome of its request.                *)
Records(t, result) ==
  /\ pc[t] \in TxControl
  /\ Complete(t, result)
  /\ \/ pc[t] = "reread" /\ result = WhyNotFlipped(req[t])
     \/ result = ShortfallReply(req[t].lines, locked[t])
     \/ result = AdjustmentResult(t)
     \/ result.status \in {200, 201}

(* What the actions have in common: how an attempt proceeds, and how it ends.  *)
LEMMA StepKinds ==
  ASSUME [Next]_vars
  PROVE  \/ UNCHANGED vars
         \/ \E t \in Procs :
              \/ \E r \in Requests : Send(t, r)
              \/ Claim(t) \/ UpdateOrder(t) \/ SelectRows(t) \/ LockRow(t)
              \/ \E result : Answer(t, result)
              \/ Leave(t)
<1>1. ASSUME NEW t \in Procs,
             \/ Resolve(t) \/ RereadOrder(t) \/ RefuseReservation(t)
             \/ RefuseAdjustment(t) \/ FailInsert(t)
      PROVE  \E result : Answer(t, result)
  BY <1>1 DEF Resolve, RereadOrder, RefuseReservation, RefuseAdjustment, FailInsert,
              CommitRefusal, Fail
<1>2. ASSUME NEW t \in Procs,
             CommitReservation(t) \/ CommitAdjustment(t) \/ FinishOrder(t)
      PROVE  \E result : Answer(t, result)
  BY <1>2 DEF CommitReservation, CommitAdjustment, FinishOrder, ConsumeStock, Fail
<1>3. QED
  BY <1>1, <1>2 DEF Next, Statement, Reply, Crash

(* A transaction that commits records its answer.                              *)
LEMMA CommitRecords ==
  ASSUME NEW t \in Procs,
         \/ RereadOrder(t) \/ RefuseReservation(t) \/ RefuseAdjustment(t)
         \/ CommitReservation(t) \/ CommitAdjustment(t)
         \/ AllLocked(t) /\ ConsumeStock(t)
  PROVE  \E result : Records(t, result) /\ Answer(t, result)
<1>1. pc[t] \in TxControl
  BY DEF RereadOrder, RefuseReservation, RefuseAdjustment, CommitReservation,
         CommitAdjustment, AllLocked, TxControl
<1>2. CASE RereadOrder(t) \/ RefuseReservation(t) \/ RefuseAdjustment(t)
  BY <1>1, <1>2 DEF RereadOrder, RefuseReservation, RefuseAdjustment, CommitRefusal,
                    Records
<1>3. CASE CommitAdjustment(t)
  BY <1>1, <1>3 DEF CommitAdjustment, Records
<1>4. CASE CommitReservation(t)
  <2>1. PICK o \in OrderIds : /\ Complete(t, Outcome(201, <<"created", o>>))
                              /\ Answer(t, Outcome(201, <<"created", o>>))
    BY <1>4 DEF CommitReservation
  <2>2. Records(t, Outcome(201, <<"created", o>>))
    BY <1>1, <2>1 DEF Records, Outcome
  <2>3. QED
    BY <2>1, <2>2
<1>5. CASE ConsumeStock(t)
  <2> DEFINE result == Outcome(200, <<StatusAfter(req[t].op), req[t].order>>)
  <2>1. Complete(t, result) /\ Answer(t, result)
    BY <1>5 DEF ConsumeStock
  <2>2. result.status = 200
    BY DEF Outcome
  <2> HIDE DEF result
  <2>3. Records(t, result)
    BY <1>1, <2>1, <2>2 DEF Records
  <2>4. QED
    BY <2>1, <2>3
<1>6. QED
  BY <1>2, <1>3, <1>4, <1>5

(* An idempotency row is only ever added, by the transaction that claimed it.  *)
LEMMA KeySteps ==
  ASSUME [Next]_vars
  PROVE  keys' = keys \/ \E t \in Procs : \E result : Records(t, result)
<1>1. CASE UNCHANGED vars
  BY <1>1 DEF vars
<1>2. ASSUME NEW t \in Procs,
             \/ \E r \in Requests : Send(t, r)
             \/ Claim(t) \/ Resolve(t) \/ UpdateOrder(t)
             \/ SelectRows(t) \/ LockRow(t) \/ FailInsert(t)
             \/ Reply(t) \/ Crash(t)
      PROVE  keys' = keys
  BY <1>2 DEF Send, Claim, Resolve, UpdateOrder, SelectRows, LockRow, FailInsert, Reply,
              Crash, Leave, Fail, database
<1>3. ASSUME NEW t \in Procs, FinishOrder(t)
      PROVE  keys' = keys \/ (AllLocked(t) /\ ConsumeStock(t))
  BY <1>3 DEF FinishOrder, Fail, database
<1>4. QED
  BY <1>1, <1>2, <1>3, CommitRecords DEF Next, Statement

LEMMA OutcomesNext ==
  ASSUME LockInv, OneOutcomePerKey, [Next]_vars
  PROVE  OneOutcomePerKey'
<1>1. CASE keys' = keys
  BY <1>1 DEF OneOutcomePerKey
<1>2. ASSUME NEW t \in Procs, NEW result, pc[t] \in TxControl, Complete(t, result)
      PROVE  OneOutcomePerKey'
  <2> DEFINE row == [scope |-> Scope(req[t]), fingerprint |-> Fingerprint(req[t]),
                     outcome |-> result]
  <2>1. keys' = keys \cup {row} /\ row.scope = Scope(req[t])
    BY <1>2 DEF Complete
  <2>2. \A k \in keys : k.scope # row.scope
    BY <1>2, <2>1 DEF LockInv, ClaimsInv
  <2> HIDE DEF row
  <2>3. QED
    BY <2>1, <2>2 DEF OneOutcomePerKey
<1>3. QED
  BY <1>1, <1>2, KeySteps DEF Records

(* For every key of every organization and operation, at most one attempt      *)
(* takes effect, whatever the retries and crashes (claimIdempotencyKey).       *)
THEOREM KeysHaveOneOutcome == Spec => []OneOutcomePerKey
<1>1. Init => OneOutcomePerKey
  BY DEF Init, OneOutcomePerKey
<1>2. LockInv /\ OneOutcomePerKey /\ [Next]_vars => OneOutcomePerKey'
  BY OutcomesNext
<1>3. QED
  BY <1>1, <1>2, LocksExclude, PTL DEF Spec

(* A process comes to read the outcome of a key only after its own INSERT met  *)
(* that key among the committed ones.                                          *)
LEMMA ResolveSteps ==
  ASSUME BaseInv, [Next]_vars, NEW u \in Procs, pc'[u] = "resolve"
  PROVE  /\ req'[u] = req[u]
         /\ pc[u] = "resolve" \/ \E k \in keys : k.scope = Scope(req[u])
<1>1. pc \in [Procs -> Control] /\ req \in [Procs -> Requests \cup {NoRequest}]
  BY TypeParts DEF BaseInv, ProcsOK
<1>2. CASE UNCHANGED vars
  BY <1>2 DEF vars
<1>3. ASSUME NEW t \in Procs, NEW r \in Requests, Send(t, r)
      PROVE  pc[u] = "resolve" /\ req'[u] = req[u]
  BY <1>1, <1>3 DEF Send
<1>4. ASSUME NEW t \in Procs, Claim(t)
      PROVE  /\ req'[u] = req[u]
             /\ pc[u] = "resolve" \/ \E k \in keys : k.scope = Scope(req[u])
  BY <1>1, <1>4 DEF Claim
<1>5. ASSUME NEW t \in Procs, UpdateOrder(t) \/ SelectRows(t) \/ LockRow(t)
      PROVE  pc[u] = "resolve" /\ req'[u] = req[u]
  BY <1>1, <1>5 DEF UpdateOrder, SelectRows, LockRow
<1>6. ASSUME NEW t \in Procs, NEW result, Answer(t, result)
      PROVE  pc[u] = "resolve" /\ req'[u] = req[u]
  BY <1>1, <1>6 DEF Answer
<1>7. ASSUME NEW t \in Procs, Leave(t)
      PROVE  pc[u] = "resolve" /\ req'[u] = req[u]
  BY <1>1, <1>7 DEF Leave
<1>8. QED
  BY <1>2, <1>3, <1>4, <1>5, <1>6, <1>7, StepKinds

(* The reader of a lost claim always finds the winner's row: the branch of     *)
(* resolveIdempotencyConflict for a claim that vanished is dead.               *)
THEOREM LosersFindWinners == Spec => []ClaimLoserFindsWinner
<1>1. Init => ClaimLoserFindsWinner
  BY DEF Init, ClaimLoserFindsWinner
<1>2. BaseInv /\ ClaimLoserFindsWinner /\ [Next]_vars => ClaimLoserFindsWinner'
  <2> SUFFICES ASSUME BaseInv, ClaimLoserFindsWinner, [Next]_vars,
                      NEW u \in Procs, pc'[u] = "resolve"
               PROVE  \E k \in keys' : k.scope = Scope(req'[u])
    BY DEF ClaimLoserFindsWinner, RecordedUnder, Scope
  <2>1. keys \subseteq keys'
    BY KeySteps DEF Records, Complete
  <2>2. req'[u] = req[u] /\ \E k \in keys : k.scope = Scope(req[u])
    BY ResolveSteps DEF ClaimLoserFindsWinner, RecordedUnder
  <2>3. QED
    BY <2>1, <2>2 DEF Scope
<1>3. QED
  BY <1>1, <1>2, BaseInvariant, PTL DEF Spec

(* An attempt has an outcome only once it is answered.                         *)
OutcomesInv ==
  /\ outcome = [t \in Procs |-> outcome[t]]
  /\ \A t \in Procs : pc[t] # "reply" => outcome[t] = NoOutcome

LEMMA OutcomesStep ==
  ASSUME BaseInv, OutcomesInv, [Next]_vars
  PROVE  OutcomesInv'
<1>1. pc \in [Procs -> Control]
  BY TypeParts DEF BaseInv, ProcsOK
<1>2. ASSUME NEW t \in Procs, pc' = [pc EXCEPT ![t] = pc'[t]],
             NEW x, outcome' = [outcome EXCEPT ![t] = x],
             pc'[t] = "reply" \/ x = NoOutcome
      PROVE  OutcomesInv'
  BY <1>1, <1>2 DEF OutcomesInv
<1>3. CASE UNCHANGED vars
  BY <1>3 DEF vars, OutcomesInv
<1>4. ASSUME NEW t \in Procs, NEW r \in Requests, Send(t, r)
      PROVE  OutcomesInv'
  BY <1>1, <1>4 DEF Send, OutcomesInv
<1>5. ASSUME NEW t \in Procs, Claim(t) \/ UpdateOrder(t) \/ SelectRows(t)
      PROVE  OutcomesInv'
  <2>1. /\ outcome' = outcome /\ pc[t] # "reply" /\ \E x : pc' = [pc EXCEPT ![t] = x]
    BY <1>5 DEF Claim, UpdateOrder, SelectRows
  <2>2. QED
    BY <1>1, <2>1 DEF OutcomesInv
<1>6. ASSUME NEW t \in Procs, LockRow(t)
      PROVE  OutcomesInv'
  BY <1>6 DEF LockRow, OutcomesInv
<1>7. ASSUME NEW t \in Procs, NEW result, Answer(t, result)
      PROVE  OutcomesInv'
  BY <1>1, <1>2, <1>7 DEF Answer
<1>8. ASSUME NEW t \in Procs, Leave(t)
      PROVE  OutcomesInv'
  BY <1>1, <1>2, <1>8 DEF Leave
<1>9. QED
  BY <1>3, <1>4, <1>5, <1>6, <1>7, <1>8, StepKinds

LEMMA OutcomesKept == Spec => []OutcomesInv
<1>1. Init => OutcomesInv
  BY DEF Init, OutcomesInv
<1>2. QED
  BY <1>1, OutcomesStep, BaseInvariant, PTL DEF Spec

(* How an attempt comes by its answer: it keeps the one it has, is refused in  *)
(* advance, fails, reads a recorded one, or records its own.                   *)
Answers(t, result) ==
  /\ req'[t] = req[t] /\ outcome'[t] = result
  /\ \/ pc[t] = "reply" /\ result = outcome[t]
     \/ AllLocked(t) /\ result = Duplicate
     \/ /\ AllLocked(t) /\ req[t].op \in OrderOps
        /\ CannotConsume(req[t].op, LinesOf(req[t]), locked[t])
        /\ result = Broken
     \/ pc[t] = "resolve" /\ result = Resolution(req[t])
     \/ Records(t, result)

LEMMA ErrorStatus ==
  Refused.status = 400 /\ Broken.status = 500 /\ Duplicate.status = 500
  BY DEF Refused, Broken, Duplicate, Outcome

LEMMA AnswerSteps ==
  ASSUME BaseInv, OutcomesInv, [Next]_vars, NEW u \in Procs, pc'[u] = "reply"
  PROVE  outcome'[u] = Refused \/ \E result : Answers(u, result)
<1>1. /\ pc \in [Procs -> Control] /\ req \in [Procs -> Requests \cup {NoRequest}]
      /\ outcome = [t \in Procs |-> outcome[t]]
  BY TypeParts DEF BaseInv, ProcsOK, OutcomesInv
<1>2. ASSUME pc[u] = "reply", req'[u] = req[u], outcome'[u] = outcome[u]
      PROVE  \E result : Answers(u, result)
  BY <1>2 DEF Answers
<1>3. CASE UNCHANGED vars
  BY <1>2, <1>3 DEF vars
<1>4. ASSUME NEW t \in Procs, NEW r \in Requests, Send(t, r)
      PROVE  outcome'[u] = Refused \/ \E result : Answers(u, result)
  <2>1. CASE u = t
    BY <1>1, <1>4, <2>1 DEF Send
  <2>2. CASE u # t
    BY <1>1, <1>2, <1>4, <2>2 DEF Send
  <2>3. QED
    BY <2>1, <2>2
<1>5. ASSUME NEW t \in Procs,
             Claim(t) \/ UpdateOrder(t) \/ SelectRows(t) \/ LockRow(t)
      PROVE  pc[u] = "reply" /\ req'[u] = req[u] /\ outcome'[u] = outcome[u]
  BY <1>1, <1>5 DEF Claim, UpdateOrder, SelectRows, LockRow
<1>6. ASSUME NEW t \in Procs, NEW result, Answer(t, result)
      PROVE  /\ req'[u] = req[u]
             /\ IF u = t THEN outcome'[u] = result
                ELSE pc[u] = "reply" /\ outcome'[u] = outcome[u]
  BY <1>1, <1>6 DEF Answer
<1>7. ASSUME NEW t \in Procs, NEW result, Answer(t, result),
             u = t => Answers(t, result)
      PROVE  \E x : Answers(u, x)
  <2>1. CASE u = t
    BY <1>7, <2>1
  <2>2. CASE u # t
    BY <1>2, <1>6, <1>7, <2>2
  <2>3. QED
    BY <2>1, <2>2
<1>8. ASSUME NEW t \in Procs, Resolve(t)
      PROVE  \E x : Answers(u, x)
  BY <1>6, <1>7, <1>8 DEF Resolve, Answers
<1>9. ASSUME NEW t \in Procs, NEW result, Records(t, result), Answer(t, result)
      PROVE  \E x : Answers(u, x)
  BY <1>6, <1>7, <1>9 DEF Answers
<1>10. ASSUME NEW t \in Procs, FailInsert(t)
       PROVE  \E x : Answers(u, x)
  BY <1>6, <1>7, <1>10 DEF FailInsert, Fail, Answers
<1>11. ASSUME NEW t \in Procs, FinishOrder(t)
       PROVE  (AllLocked(t) /\ ConsumeStock(t)) \/ \E x : Answers(u, x)
  BY <1>6, <1>7, <1>11 DEF FinishOrder, Fail, Answers
<1>12. ASSUME NEW t \in Procs, Reply(t) \/ Crash(t)
       PROVE  pc[u] = "reply" /\ req'[u] = req[u] /\ outcome'[u] = outcome[u]
  BY <1>1, <1>12 DEF Reply, Crash, Leave
<1>13. QED
  BY <1>2, <1>3, <1>4, <1>5, <1>8, <1>9, <1>10, <1>11, <1>12, CommitRecords
     DEF Next, Statement

(* An answer is the recorded outcome of its key, whoever recorded it, and a    *)
(* retry with the same payload is told the same (completeIdempotencyKey,       *)
(* resolveIdempotencyConflict).                                                *)
THEOREM RetriesAgree == Spec => []AnswersAreRecorded
<1>1. Init => AnswersAreRecorded
  BY DEF Init, AnswersAreRecorded
<1>2. BaseInv /\ OutcomesInv /\ ClaimLoserFindsWinner /\ AnswersAreRecorded /\ [Next]_vars
        => AnswersAreRecorded'
  <2> SUFFICES ASSUME BaseInv, OutcomesInv, ClaimLoserFindsWinner, AnswersAreRecorded,
                      [Next]_vars, NEW u \in Procs, pc'[u] = "reply",
                      outcome'[u].status \notin {400, 500}
               PROVE  \E k \in keys' :
                        /\ k.scope = Scope(req'[u])
                        /\ outcome'[u] = IF k.fingerprint = Fingerprint(req'[u])
                                         THEN k.outcome ELSE KeyReused
    BY DEF AnswersAreRecorded, Scope, Fingerprint
  <2>1. keys \subseteq keys'
    <3>1. ASSUME NEW t \in Procs, NEW x, Complete(t, x)
          PROVE  keys \subseteq keys'
      BY <3>1 DEF Complete
    <3>2. QED
      BY <3>1, KeySteps DEF Records
  <2>2. PICK result : Answers(u, result)
    BY AnswerSteps, ErrorStatus
  <2>3. req'[u] = req[u] /\ outcome'[u] = result
    BY <2>2 DEF Answers
  <2>4. CASE pc[u] = "reply" /\ result = outcome[u]
    BY <2>1, <2>3, <2>4 DEF AnswersAreRecorded
  <2>5. result # Broken /\ result # Duplicate
    BY <2>3, ErrorStatus
  <2>6. CASE pc[u] = "resolve" /\ result = Resolution(req[u])
    <3> DEFINE k == CHOOSE k \in RecordedUnder(Scope(req[u])) : TRUE
    <3>1. k \in RecordedUnder(Scope(req[u]))
      BY <2>6 DEF ClaimLoserFindsWinner
    <3>2. k \in keys /\ k.scope = Scope(req[u])
      BY <3>1 DEF RecordedUnder
    <3>3. result = IF k.fingerprint = Fingerprint(req[u]) THEN k.outcome ELSE KeyReused
      BY <2>6, <3>1 DEF Resolution
    <3> HIDE DEF k
    <3>4. QED
      BY <2>1, <2>3, <3>2, <3>3
  <2>7. CASE Records(u, result)
    <3> DEFINE k == [scope |-> Scope(req[u]), fingerprint |-> Fingerprint(req[u]),
                     outcome |-> result]
    <3>1. k \in keys'
      BY <2>7 DEF Records, Complete
    <3>2. /\ k.scope = Scope(req[u]) /\ k.fingerprint = Fingerprint(req[u])
          /\ k.outcome = result
      OBVIOUS
    <3> HIDE DEF k
    <3>3. QED
      BY <2>3, <3>1, <3>2
  <2>8. QED
    BY <2>2, <2>4, <2>5, <2>6, <2>7 DEF Answers
<1>3. QED
  BY <1>1, <1>2, BaseInvariant, OutcomesKept, LosersFindWinners, PTL DEF Spec

-------------------------------------------------------------------------------
(* Lock order.                                                                 *)

(* The rows a transaction has yet to lock come after those it holds.           *)
LockOrderInv ==
  \A t \in Procs : \A p \in Held(t) : \A q \in Missing(t) : p < q

LEMMA LockOrderNext ==
  ASSUME BaseInv, LockOrderInv, [Next]_vars
  PROVE  LockOrderInv'
<1> SUFFICES ASSUME NEW u \in Procs, NEW p \in Held(u)', NEW q \in Missing(u)'
             PROVE  p < q
  BY DEF LockOrderInv
<1>1. /\ p \in Products /\ locked'[u][p].exists
      /\ q \in need'[u] /\ q \notin Held(u)'
  BY DEF Held, Missing
<1>2. /\ locked \in [Procs -> [Products -> Row]] /\ need \in [Procs -> SUBSET Products]
      /\ \A t \in Procs : pc[t] # "lock" => locked[t] = NothingLocked
  BY TypeParts DEF BaseInv, ProcsOK
<1>3. CASE locked'[u] = locked[u] /\ need'[u] = need[u]
  BY <1>1, <1>3 DEF LockOrderInv, Held, Missing
<1>4. locked'[u] # NothingLocked
  BY <1>1, NothingLockedType DEF Absent
<1>5. ASSUME NEW t \in Procs, LockRow(t)
      PROVE  p < q
  <2> DEFINE n == NextRow(t)
  <2>1. /\ n \in Missing(t) /\ n \in Products /\ n \notin Held(t)
        /\ \A x \in Missing(t) : n <= x
    BY <1>5, NextRowIsLeast DEF LockRow, BaseInv, Missing
  <2>2. need' = need /\ locked' = [locked EXCEPT ![t][n] = inventory[n]]
    BY <1>5 DEF LockRow
  <2> HIDE DEF n
  <2>3. CASE u # t
    BY <1>2, <1>3, <2>2, <2>3
  <2>4. CASE u = t
    <3>1. \A x \in Products : x # n => locked'[t][x] = locked[t][x]
      BY <1>2, <2>1, <2>2
    <3>2. need'[t] = need[t] /\ q \in Products
      BY <1>1, <1>2, <2>2, <2>4
    <3>3. q \in Missing(t)
      BY <1>1, <2>1, <2>4, <3>1, <3>2 DEF Held, Missing
    <3>4. CASE p = n
      <4>1. q # n
        BY <1>1, <2>4, <3>2, <3>4 DEF Held
      <4>2. QED
        BY <2>1, <3>2, <3>3, <3>4, <4>1, ProductsAssumption
    <3>5. CASE p # n
      BY <1>1, <2>4, <3>1, <3>3, <3>5 DEF LockOrderInv, Held
    <3>6. QED
      BY <3>4, <3>5
  <2>5. QED
    BY <2>3, <2>4
<1>6. ASSUME NEW t \in Procs, SelectRows(t)
      PROVE  p < q
  BY <1>2, <1>3, <1>4, <1>6 DEF SelectRows
<1>7. ASSUME NEW t \in Procs, NEW result, Answer(t, result)
      PROVE  p < q
  BY <1>2, <1>3, <1>4, <1>7 DEF Answer
<1>8. ASSUME NEW t \in Procs, Leave(t)
      PROVE  p < q
  BY <1>2, <1>3, <1>4, <1>8 DEF Leave
<1>9. ASSUME NEW t \in Procs, (\E r \in Requests : Send(t, r)) \/ Claim(t) \/ UpdateOrder(t)
      PROVE  p < q
  BY <1>3, <1>9 DEF Send, Claim, UpdateOrder
<1>10. CASE UNCHANGED vars
  BY <1>3, <1>10 DEF vars
<1>11. QED
  BY <1>5, <1>6, <1>7, <1>8, <1>9, <1>10, StepKinds

(* A non-empty set of product ids has a greatest element: the one with the     *)
(* fewest above it.                                                            *)
LEMMA GreatestProduct ==
  ASSUME NEW S \in SUBSET Products, S # {}
  PROVE  \E p \in S : \A q \in S : q <= p
<1> DEFINE Above(p) == {q \in S : p < q}
           Below == {pair \in Nat \X Nat : pair[1] < pair[2]}
           Counts == {Cardinality(Above(p)) : p \in S}
<1>1. S \subseteq Nat /\ IsFiniteSet(S)
  BY ProductsAssumption, FS_Subset
<1>2. ASSUME NEW p \in S
      PROVE  IsFiniteSet(Above(p)) /\ Cardinality(Above(p)) \in Nat
  BY <1>1, FS_Subset, FS_CardinalityType
<1>3. Counts \subseteq Nat /\ Counts # {}
  BY <1>2
<1>4. IsWellFoundedOn(Below, Nat)
  BY NatLessThanWellFounded DEF OpToRel
<1>5. PICK n \in Counts : \A m \in Counts : ~(<<m, n>> \in Below)
  <2> HIDE DEF Below, Counts
  <2>1. QED
    BY <1>3, <1>4, WFMin
<1>6. PICK p \in S : n = Cardinality(Above(p))
  OBVIOUS
<1>7. ASSUME NEW q \in S, p < q
      PROVE  FALSE
  <2>1. Above(q) \subseteq Above(p) /\ q \in Above(p) /\ q \notin Above(q)
    <3> HIDE <1>5, <1>6 DEF Below, Counts
    <3>1. p \in Nat /\ q \in Nat
      BY <1>1
    <3>2. \A x \in S : q < x => p < x
      BY <1>1, <1>7, <3>1
    <3>3. q \in S /\ p < q /\ ~(q < q)
      BY <1>7, <3>1
    <3>4. QED
      BY <3>2, <3>3
  <2>2. /\ Cardinality(Above(q)) <= Cardinality(Above(p))
        /\ Cardinality(Above(q)) # Cardinality(Above(p))
    <3> HIDE DEF Above
    <3>1. QED
      BY <1>2, <2>1, FS_Subset
  <2>3. Cardinality(Above(q)) \in Counts
    OBVIOUS
  <2>4. ~(Cardinality(Above(q)) < n)
    BY <1>3, <1>5, <2>3
  <2>5. QED
    BY <1>2, <1>6, <2>2, <2>4
<1>8. QED
  BY <1>1, <1>7

(* No transactions wait for each other in a circle, however many there are:    *)
(* claims come before orders, orders before rows, and rows go by their id.     *)
THEOREM NoDeadlock == Spec => []NoWaitCycle
<1>1. Init => LockOrderInv
  BY NothingLockedType DEF Init, LockOrderInv, Held, Absent
<1>2. BaseInv /\ LockOrderInv => NoWaitCycle
  <2> SUFFICES ASSUME BaseInv, LockOrderInv,
                      NEW S \in SUBSET Procs, S # {},
                      \A t \in S : \E u \in S : WaitsFor(t, u)
               PROVE  FALSE
    BY DEF NoWaitCycle
  <2> DEFINE Lockers == {t \in S : pc[t] = "lock" /\ Missing(t) # {}}
             Wanted  == {NextRow(t) : t \in Lockers}
  <2>1. \A t \in Lockers : NextRow(t) \in Products /\ NextRow(t) \in Missing(t)
    BY NextRowIsLeast DEF BaseInv, Missing
  <2>2. Lockers = {}
    <3> SUFFICES ASSUME Lockers # {} PROVE FALSE
      OBVIOUS
    <3>1. Wanted \in SUBSET Products /\ Wanted # {}
      BY <2>1
    <3>2. PICK p \in Wanted : \A q \in Wanted : q <= p
      <4> HIDE DEF Wanted
      <4>1. QED
        BY <3>1, GreatestProduct
    <3>3. PICK t \in Lockers : p = NextRow(t)
      BY <3>2
    <3>4. PICK u \in S : WaitsFor(t, u)
      OBVIOUS
    <3>5. p \in Held(u)
      BY <3>3, <3>4 DEF WaitsFor
    <3>6. pc[u] = "lock"
      BY <3>5, NothingLockedType, TypeParts DEF BaseInv, ProcsOK, Held, Absent
    <3>7. u \in Lockers
      BY <3>6 DEF WaitsFor
    <3>8. p < NextRow(u)
      BY <2>1, <3>5, <3>7 DEF LockOrderInv
    <3>9. NextRow(u) <= p
      BY <3>2, <3>7
    <3>10. p \in Nat /\ NextRow(u) \in Nat
      BY <2>1, <3>1, <3>7, ProductsAssumption
    <3>11. QED
      <4> HIDE DEF Wanted, Lockers
      <4>1. QED
        BY <3>8, <3>9, <3>10
  <2>3. \A t \in S : pc[t] \notin {"select", "lock"}
    BY <2>2 DEF WaitsFor
  <2>4. \A t \in S : pc[t] # "update"
    BY <2>3 DEF WaitsFor, HoldsOrder
  <2>5. QED
    BY <2>3, <2>4 DEF WaitsFor, HoldsKey
<1>3. QED
  BY <1>1, <1>2, LockOrderNext, BaseInvariant, PTL DEF Spec

-------------------------------------------------------------------------------
(* What a step does to the tables.                                             *)

Consumes(t) ==
  /\ AllLocked(t) /\ req[t].op \in OrderOps
  /\ ~CannotConsume(req[t].op, LinesOf(req[t]), locked[t])
  /\ ConsumeStock(t)

(* Only three actions write a table other than idempotency_keys.               *)
LEMMA TableSteps ==
  ASSUME [Next]_vars
  PROVE  \/ UNCHANGED <<inventory, orders, ledger, audit>>
         \/ \E t \in Procs : CommitReservation(t) \/ Consumes(t) \/ CommitAdjustment(t)
<1>1. CASE UNCHANGED vars
  BY <1>1 DEF vars
<1>2. ASSUME NEW t \in Procs,
             \/ \E r \in Requests : Send(t, r)
             \/ Claim(t) \/ Resolve(t) \/ UpdateOrder(t) \/ RereadOrder(t)
             \/ SelectRows(t) \/ LockRow(t)
             \/ RefuseReservation(t) \/ RefuseAdjustment(t) \/ FailInsert(t)
             \/ Reply(t) \/ Crash(t)
      PROVE  UNCHANGED <<inventory, orders, ledger, audit>>
  BY <1>2 DEF Send, Claim, Resolve, UpdateOrder, RereadOrder, SelectRows, LockRow,
              RefuseReservation, RefuseAdjustment, FailInsert, Reply, Crash, Leave, Fail,
              CommitRefusal, database
<1>3. ASSUME NEW t \in Procs, FinishOrder(t)
      PROVE  UNCHANGED <<inventory, orders, ledger, audit>> \/ Consumes(t)
  BY <1>3 DEF FinishOrder, Fail, database, Consumes
<1>4. QED
  BY <1>1, <1>2, <1>3 DEF Next, Statement

-------------------------------------------------------------------------------
(* Orders.                                                                     *)

(* A step creates an order, or finishes a pending one, with its audit row; or  *)
(* leaves orders and audit log alone.                                          *)
Creates(o) ==
  /\ orders[o].status = "none" /\ orders'[o].status = "pending"
  /\ audit' = [audit EXCEPT ![o][CreateOp] = @ + 1]
  /\ \A oo \in OrderIds \ {o} : orders'[oo] = orders[oo]

Finishes(o, op) ==
  /\ orders[o].status = "pending"
  /\ orders' = [orders EXCEPT ![o].status = StatusAfter(op)]
  /\ audit' = [audit EXCEPT ![o][op] = @ + 1]

LEMMA OrderSteps ==
  ASSUME BaseInv, LockInv, [Next]_vars
  PROVE  \/ orders' = orders /\ audit' = audit
         \/ \E o \in OrderIds : Creates(o)
         \/ \E o \in OrderIds, op \in OrderOps : Finishes(o, op)
<1>1. orders \in [OrderIds -> Order]
  BY TypeParts DEF BaseInv, TablesOK
<1>2. ASSUME NEW t \in Procs, CommitReservation(t)
      PROVE  \E o \in OrderIds : Creates(o)
  <2>1. PICK o \in OrderIds :
          /\ orders[o].status = "none"
          /\ orders' = [orders EXCEPT ![o] = [status |-> "pending", org |-> req[t].org,
                                              lines |-> req[t].lines]]
          /\ audit' = [audit EXCEPT ![o][CreateOp] = @ + 1]
    BY <1>2 DEF CommitReservation
  <2>2. orders'[o].status = "pending" /\ \A oo \in OrderIds \ {o} : orders'[oo] = orders[oo]
    BY <1>1, <2>1
  <2>3. QED
    BY <2>1, <2>2 DEF Creates
<1>3. ASSUME NEW t \in Procs, Consumes(t)
      PROVE  \E o \in OrderIds, op \in OrderOps : Finishes(o, op)
  <2>1. req[t] \in Requests /\ req[t].op \in OrderOps /\ pc[t] = "lock"
    BY <1>3, TypeParts DEF Consumes, AllLocked, BaseInv, ProcsOK
  <2>2. req[t].order \in OrderIds
    BY <2>1, RequestType
  <2>3. orders[req[t].order].status = "pending"
    BY <2>1 DEF LockInv, OrderLocksInv, Flippable
  <2>4. Finishes(req[t].order, req[t].op)
    BY <1>3, <2>3 DEF Consumes, ConsumeStock, Finishes
  <2>5. QED
    BY <2>1, <2>2, <2>4
<1>4. ASSUME NEW t \in Procs, CommitAdjustment(t)
      PROVE  orders' = orders /\ audit' = audit
  BY <1>4 DEF CommitAdjustment
<1>5. QED
  BY <1>2, <1>3, <1>4, TableSteps

LEMMA TransitionsNext ==
  ASSUME BaseInv, LockInv, OneTransitionPerOrder, [Next]_vars
  PROVE  OneTransitionPerOrder'
<1>1. orders \in [OrderIds -> Order] /\ audit \in [OrderIds -> [AuditActions -> Nat]]
  BY TypeParts DEF BaseInv, TablesOK
<1>2. CASE orders' = orders /\ audit' = audit
  BY <1>2 DEF OneTransitionPerOrder
<1>3. ASSUME NEW o \in OrderIds, Creates(o)
      PROVE  OneTransitionPerOrder'
  <2>1. \A oo \in OrderIds \ {o} : audit'[oo] = audit[oo] /\ orders'[oo] = orders[oo]
    BY <1>1, <1>3 DEF Creates
  <2>2. /\ audit[o][CreateOp] = 0 /\ audit[o][ReleaseOp] = 0 /\ audit[o][FulfillOp] = 0
    BY <1>3 DEF Creates, OneTransitionPerOrder
  <2>3. audit'[o] = [audit[o] EXCEPT ![CreateOp] = 1]
    BY <1>1, <1>3, <2>2 DEF Creates
  <2>4. /\ audit'[o][CreateOp] = 1 /\ audit'[o][ReleaseOp] = 0 /\ audit'[o][FulfillOp] = 0
    BY <1>1, <2>2, <2>3 DEF AuditActions, CreateOp, ReleaseOp, FulfillOp
  <2>5. orders'[o].status = "pending"
    BY <1>3 DEF Creates
  <2>6. QED
    BY <2>1, <2>4, <2>5 DEF OneTransitionPerOrder
<1>4. ASSUME NEW o \in OrderIds, NEW op \in OrderOps, Finishes(o, op)
      PROVE  OneTransitionPerOrder'
  <2>1. \A oo \in OrderIds \ {o} : audit'[oo] = audit[oo] /\ orders'[oo] = orders[oo]
    BY <1>1, <1>4 DEF Finishes
  <2>2. /\ audit[o][CreateOp] = 1 /\ audit[o][ReleaseOp] = 0 /\ audit[o][FulfillOp] = 0
    BY <1>4 DEF Finishes, OneTransitionPerOrder
  <2>3. audit'[o] = [audit[o] EXCEPT ![op] = 1]
    <3>1. op \in AuditActions /\ audit[o][op] = 0
      BY <2>2 DEF OrderOps, AuditActions
    <3>2. QED
      BY <1>1, <1>4, <3>1 DEF Finishes
  <2>4. orders'[o].status = StatusAfter(op)
    BY <1>1, <1>4 DEF Finishes, Order
  <2>5. CASE op = ReleaseOp
    <3>1. /\ audit'[o][CreateOp] = 1 /\ audit'[o][ReleaseOp] = 1
          /\ audit'[o][FulfillOp] = 0
      BY <1>1, <2>2, <2>3, <2>5 DEF AuditActions, CreateOp, ReleaseOp, FulfillOp
    <3>2. orders'[o].status = "cancelled"
      BY <2>4, <2>5 DEF StatusAfter, ReleaseOp, FulfillOp
    <3>3. QED
      BY <2>1, <3>1, <3>2 DEF OneTransitionPerOrder
  <2>6. CASE op = FulfillOp
    <3>1. /\ audit'[o][CreateOp] = 1 /\ audit'[o][ReleaseOp] = 0
          /\ audit'[o][FulfillOp] = 1
      BY <1>1, <2>2, <2>3, <2>6 DEF AuditActions, CreateOp, ReleaseOp, FulfillOp
    <3>2. orders'[o].status = "fulfilled"
      BY <2>4, <2>6 DEF StatusAfter
    <3>3. QED
      BY <2>1, <3>1, <3>2 DEF OneTransitionPerOrder
  <2>7. QED
    BY <2>5, <2>6 DEF OrderOps
<1>5. QED
  BY <1>2, <1>3, <1>4, OrderSteps

(* Of all the attempts to cancel or to fulfil an order exactly one succeeds,   *)
(* and the audit log says which (UPDATE orders ... WHERE status = 'pending').  *)
THEOREM OrdersEndOnce == Spec => []OneTransitionPerOrder
<1>1. Init => OneTransitionPerOrder
  BY DEF Init, OneTransitionPerOrder, NoSuchOrder, AuditActions
<1>2. BaseInv /\ LockInv /\ OneTransitionPerOrder /\ [Next]_vars => OneTransitionPerOrder'
  BY TransitionsNext
<1>3. QED
  BY <1>1, <1>2, BaseInvariant, LocksExclude, PTL DEF Spec

LEMMA HistoryStep ==
  ASSUME BaseInv, LockInv, [Next]_vars
  PROVE  /\ \A o \in OrderIds :
              /\ orders[o].status \in {"cancelled", "fulfilled"} => orders'[o] = orders[o]
              /\ orders[o].status = "pending" =>
                   orders'[o] \in {[orders[o] EXCEPT !.status = s] :
                                     s \in {"pending", "cancelled", "fulfilled"}}
         /\ keys \subseteq keys'
<1>1. orders \in [OrderIds -> Order]
  BY TypeParts DEF BaseInv, TablesOK
<1>2. keys \subseteq keys'
  BY KeySteps DEF Records, Complete
<1>3. ASSUME NEW o \in OrderIds, orders'[o] = orders[o]
      PROVE  /\ orders[o].status \in {"cancelled", "fulfilled"} => orders'[o] = orders[o]
             /\ orders[o].status = "pending" =>
                  orders'[o] \in {[orders[o] EXCEPT !.status = s] :
                                    s \in {"pending", "cancelled", "fulfilled"}}
  <2> SUFFICES ASSUME orders[o].status = "pending"
               PROVE  orders[o] = [orders[o] EXCEPT !.status = "pending"]
    BY <1>3
  <2>1. QED
    BY <1>1 DEF Order
<1>4. ASSUME NEW o \in OrderIds, orders'[o] # orders[o]
      PROVE  \/ orders[o].status = "none"
             \/ /\ orders[o].status = "pending"
                /\ \E s \in {"cancelled", "fulfilled"} :
                     orders'[o] = [orders[o] EXCEPT !.status = s]
  <2>1. CASE orders' = orders
    BY <1>4, <2>1
  <2>2. ASSUME NEW oo \in OrderIds, Creates(oo)
        PROVE  orders[o].status = "none"
    BY <1>4, <2>2 DEF Creates
  <2>3. ASSUME NEW oo \in OrderIds, NEW op \in OrderOps, Finishes(oo, op)
        PROVE  /\ orders[o].status = "pending"
               /\ \E s \in {"cancelled", "fulfilled"} :
                    orders'[o] = [orders[o] EXCEPT !.status = s]
    <3>1. o = oo
      BY <1>1, <1>4, <2>3 DEF Finishes
    <3>2. orders'[o] = [orders[o] EXCEPT !.status = StatusAfter(op)]
      BY <1>1, <2>3, <3>1 DEF Finishes
    <3>3. StatusAfter(op) \in {"cancelled", "fulfilled"}
      BY DEF StatusAfter
    <3>4. QED
      BY <2>3, <3>1, <3>2, <3>3 DEF Finishes
  <2>4. QED
    BY <2>1, <2>2, <2>3, OrderSteps
<1>5. QED
  BY <1>2, <1>3, <1>4

(* A finished order is final, a pending one keeps its organization and lines,  *)
(* and an idempotency row, once committed, is never rewritten.                 *)
THEOREM HistoryKept == Spec => HistoryIsFinal
<1>1. BaseInv /\ LockInv /\ [Next]_vars =>
        [/\ \A o \in OrderIds :
              /\ orders[o].status \in {"cancelled", "fulfilled"} => orders'[o] = orders[o]
              /\ orders[o].status = "pending" =>
                   orders'[o] \in {[orders[o] EXCEPT !.status = s] :
                                     s \in {"pending", "cancelled", "fulfilled"}}
         /\ keys \subseteq keys']_vars
  BY HistoryStep
<1>2. QED
  BY <1>1, BaseInvariant, LocksExclude, PTL DEF Spec, HistoryIsFinal

-------------------------------------------------------------------------------
(* Refusals.                                                                   *)

(* An attempt whose UPDATE flipped nothing: its order is not one it could have *)
(* flipped, and will not become one.                                           *)
RereadInv ==
  /\ \A t \in Procs : pc[t] \in {"update", "reread"} => req[t].op \in OrderOps
  /\ \A t \in Procs : pc[t] = "reread" => ~Flippable(req[t])

AlreadyPending == Outcome(409, <<"already", "pending">>)

(* How an attempt comes to "update" and to "reread".                           *)
LEMMA RereadSteps ==
  ASSUME BaseInv, [Next]_vars, NEW u \in Procs, pc'[u] \in {"update", "reread"}
  PROVE  /\ req'[u] = req[u]
         /\ \/ pc[u] = pc'[u]
            \/ pc[u] = "claim" /\ pc'[u] = "update" /\ req[u].op \in OrderOps
            \/ pc[u] = "update" /\ pc'[u] = "reread" /\ ~Flippable(req[u])
<1>1. pc \in [Procs -> Control] /\ req \in [Procs -> Requests \cup {NoRequest}]
  BY TypeParts DEF BaseInv, ProcsOK
<1>2. CASE UNCHANGED vars
  BY <1>2 DEF vars
<1>3. ASSUME NEW t \in Procs, NEW r \in Requests, Send(t, r)
      PROVE  pc[u] = pc'[u] /\ req'[u] = req[u]
  BY <1>1, <1>3 DEF Send
<1>4. ASSUME NEW t \in Procs, Claim(t)
      PROVE  /\ req'[u] = req[u]
             /\ \/ pc[u] = pc'[u]
                \/ pc[u] = "claim" /\ pc'[u] = "update" /\ req[u].op \in OrderOps
  BY <1>1, <1>4 DEF Claim
<1>5. ASSUME NEW t \in Procs, UpdateOrder(t)
      PROVE  /\ req'[u] = req[u]
             /\ \/ pc[u] = pc'[u]
                \/ pc[u] = "update" /\ pc'[u] = "reread" /\ ~Flippable(req[u])
  BY <1>1, <1>5 DEF UpdateOrder
<1>6. ASSUME NEW t \in Procs, SelectRows(t) \/ LockRow(t)
      PROVE  pc[u] = pc'[u] /\ req'[u] = req[u]
  BY <1>1, <1>6 DEF SelectRows, LockRow
<1>7. ASSUME NEW t \in Procs, NEW result, Answer(t, result)
      PROVE  pc[u] = pc'[u] /\ req'[u] = req[u]
  BY <1>1, <1>7 DEF Answer
<1>8. ASSUME NEW t \in Procs, Leave(t)
      PROVE  pc[u] = pc'[u] /\ req'[u] = req[u]
  BY <1>1, <1>8 DEF Leave
<1>9. QED
  BY <1>2, <1>3, <1>4, <1>5, <1>6, <1>7, <1>8, StepKinds

(* An order that exists and is not pending, or is another organization's,      *)
(* stays so.                                                                   *)
LEMMA NotFlippableAfter ==
  ASSUME BaseInv, LockInv, [Next]_vars, NEW r \in Requests, r.op \in OrderOps,
         orders[r.order].status # "none", ~Flippable(r)
  PROVE  ~(orders'[r.order].org = r.org /\ orders'[r.order].status = "pending")
<1>1. orders \in [OrderIds -> Order] /\ r.order \in OrderIds
  BY TypeParts, RequestType DEF BaseInv, TablesOK
<1>2. ~(orders[r.order].org = r.org /\ orders[r.order].status = "pending")
  BY DEF Flippable
<1>3. ASSUME NEW o \in OrderIds, Creates(o)
      PROVE  orders'[r.order] = orders[r.order]
  BY <1>1, <1>3 DEF Creates
<1>4. ASSUME NEW o \in OrderIds, NEW op \in OrderOps, Finishes(o, op), o = r.order
      PROVE  orders'[r.order].status # "pending"
  <2>1. StatusAfter(op) # "pending"
    BY DEF StatusAfter
  <2>2. orders'[o] = [orders[o] EXCEPT !.status = StatusAfter(op)]
    BY <1>1, <1>4 DEF Finishes
  <2>3. orders'[o].status = StatusAfter(op)
    BY <1>1, <2>2 DEF Order
  <2>4. QED
    BY <1>4, <2>1, <2>3
<1>5. ASSUME NEW o \in OrderIds, NEW op \in OrderOps, Finishes(o, op), o # r.order
      PROVE  orders'[r.order] = orders[r.order]
  BY <1>1, <1>5 DEF Finishes
<1>6. QED
  BY <1>2, <1>3, <1>4, <1>5, OrderSteps

LEMMA RereadNext ==
  ASSUME BaseInv, LockInv, RereadInv, [Next]_vars
  PROVE  RereadInv'
<1>1. ASSUME NEW u \in Procs, pc'[u] \in {"update", "reread"}
      PROVE  req'[u].op \in OrderOps
  BY <1>1, RereadSteps DEF RereadInv
<1>2. ASSUME NEW u \in Procs, pc'[u] = "reread"
      PROVE  ~(/\ orders'[req'[u].order].org = req'[u].org
               /\ orders'[req'[u].order].status = "pending")
  <2>1. /\ req'[u] = req[u] /\ pc[u] \in {"update", "reread"}
        /\ req[u].op \in OrderOps /\ ~Flippable(req[u])
    BY <1>2, RereadSteps DEF RereadInv
  <2>2. req[u] \in Requests /\ orders[req[u].order].status # "none"
    BY <2>1, TypeParts DEF BaseInv, ProcsOK, RequestsInv
  <2>3. QED
    BY <2>1, <2>2, NotFlippableAfter
<1>3. (RereadInv)' = \A u \in Procs :
                       pc'[u] \in {"update", "reread"} =>
                         /\ req'[u].op \in OrderOps
                         /\ pc'[u] = "reread" =>
                              ~(/\ orders'[req'[u].order].org = req'[u].org
                                /\ orders'[req'[u].order].status = "pending")
  BY DEF RereadInv, Flippable
<1>4. QED
  BY <1>1, <1>2, <1>3

(* The replies that are not to an order's UPDATE.                              *)
LEMMA OtherReplies ==
  /\ Refused # AlreadyPending /\ Broken # AlreadyPending /\ Duplicate # AlreadyPending
  /\ KeyReused # AlreadyPending /\ KeyLost # AlreadyPending
  /\ NoOutcome # AlreadyPending
  /\ \A lines, stock : ShortfallReply(lines, stock) # AlreadyPending
  /\ \A owned, row, d : AdjustmentOutcome(owned, row, d) # AlreadyPending
<1>1. AlreadyPending = [status |-> 409, body |-> <<"already", "pending">>]
  BY DEF AlreadyPending, Outcome
<1>2. /\ Refused # AlreadyPending /\ Broken # AlreadyPending /\ Duplicate # AlreadyPending
      /\ KeyReused # AlreadyPending /\ KeyLost # AlreadyPending
  <2>1. AlreadyPending.status = 409 /\ AlreadyPending.body[1] = "already"
    BY <1>1
  <2>2. KeyReused.body[1] # "already" /\ KeyLost.body[1] # "already"
    BY DEF KeyReused, KeyLost, Outcome
  <2>3. QED
    BY <2>1, <2>2, ErrorStatus
<1>3. NoOutcome # AlreadyPending
  BY NoOutcomeAssumption DEF AlreadyPending
<1>4. ASSUME NEW lines, NEW stock
      PROVE  ShortfallReply(lines, stock) # AlreadyPending
  BY <1>1 DEF ShortfallReply, Outcome
<1>5. ASSUME NEW owned, NEW row, NEW d
      PROVE  AdjustmentOutcome(owned, row, d) # AlreadyPending
  <2>1. AdjustmentOutcome(owned, row, d).body[1] # "already"
    BY DEF AdjustmentOutcome, Outcome
  <2>2. AlreadyPending.body[1] = "already"
    BY <1>1
  <2>3. QED
    BY <2>1, <2>2
<1>6. QED
  BY <1>2, <1>3, <1>4, <1>5

LEMMA RecordedReply ==
  ASSUME RereadInv, NEW t \in Procs, NEW result, Records(t, result)
  PROVE  result # AlreadyPending
<1>1. CASE pc[t] = "reread" /\ result = WhyNotFlipped(req[t])
  <2>1. orders[req[t].order].org = req[t].org => orders[req[t].order].status # "pending"
    BY <1>1 DEF RereadInv, Flippable
  <2>2. AlreadyPending.status = 409 /\ AlreadyPending.body[1] = "already"
    BY DEF AlreadyPending, Outcome
  <2>3. \/ WhyNotFlipped(req[t]).status # 409
        \/ WhyNotFlipped(req[t]).body[2] # "pending"
    BY <2>1 DEF WhyNotFlipped, Outcome
  <2>4. AlreadyPending.body[2] = "pending"
    BY DEF AlreadyPending, Outcome
  <2>5. QED
    BY <1>1, <2>2, <2>3, <2>4
<1>2. CASE result = ShortfallReply(req[t].lines, locked[t]) \/ result = AdjustmentResult(t)
  BY <1>2, OtherReplies DEF AdjustmentResult
<1>3. CASE result.status \in {200, 201}
  BY <1>3 DEF AlreadyPending, Outcome
<1>4. QED
  BY <1>1, <1>2, <1>3 DEF Records

(* No answer, recorded or not, is this one.                                    *)
NeverSaid(answer) ==
  /\ \A k \in keys : k.outcome # answer
  /\ \A t \in Procs : outcome[t] # answer

LEMMA NeverSaidNext ==
  ASSUME BaseInv, OutcomesInv, [Next]_vars, NEW bad, NeverSaid(bad),
         bad \notin {NoOutcome, Refused, Duplicate, KeyReused, KeyLost},
         \A t \in Procs : \A result : Records(t, result) => result # bad,
         \/ bad # Broken
         \/ \A t \in Procs : AllLocked(t) /\ req[t].op \in OrderOps =>
               ~CannotConsume(req[t].op, LinesOf(req[t]), locked[t])
  PROVE  /\ \A k \in keys' : k.outcome # bad
         /\ \A t \in Procs : outcome'[t] # bad
<1>1. ASSUME NEW k \in keys'
      PROVE  k.outcome # bad
  <2>1. CASE k \in keys
    BY <2>1 DEF NeverSaid
  <2>2. ASSUME NEW t \in Procs, NEW result, Records(t, result), k \notin keys
        PROVE  k.outcome = result /\ result # bad
    BY <2>2 DEF Records, Complete
  <2>3. QED
    BY <2>1, <2>2, KeySteps
<1>2. ASSUME NEW u \in Procs
      PROVE  outcome'[u] # bad
  <2>1. CASE pc'[u] # "reply"
    BY <2>1, OutcomesStep DEF OutcomesInv
  <2>2. ASSUME NEW result, Answers(u, result)
        PROVE  outcome'[u] # bad
    <3>1. outcome'[u] = result
      BY <2>2 DEF Answers
    <3>2. CASE result = outcome[u]
      BY <3>1, <3>2 DEF NeverSaid
    <3>3. CASE result = Duplicate
      BY <3>1, <3>3
    <3>4. CASE /\ AllLocked(u) /\ req[u].op \in OrderOps /\ result = Broken
               /\ CannotConsume(req[u].op, LinesOf(req[u]), locked[u])
      BY <3>1, <3>4
    <3>5. CASE result = Resolution(req[u])
      <4> DEFINE k == CHOOSE k \in RecordedUnder(Scope(req[u])) : TRUE
      <4>1. result = KeyLost \/ result = KeyReused \/ (k \in keys /\ result = k.outcome)
        BY <3>5 DEF Resolution, RecordedUnder
      <4> HIDE DEF k
      <4>2. QED
        BY <3>1, <4>1 DEF NeverSaid
    <3>6. CASE Records(u, result)
      BY <3>1, <3>6
    <3>7. QED
      BY <2>2, <3>2, <3>3, <3>4, <3>5, <3>6 DEF Answers
  <2>3. QED
    BY <2>1, <2>2, AnswerSteps
<1>3. QED
  BY <1>1, <1>2

(* A cancel or fulfil that is turned down is never told that its order is      *)
(* pending: between the UPDATE that flipped nothing and the SELECT that asks   *)
(* why, an order only moves away from pending (releaseReservation,             *)
(* fulfillOrder).                                                              *)
THEOREM RefusalsNameTheWinner == Spec => []RefusalNamesTheWinner
<1> DEFINE Unsaid == NeverSaid(AlreadyPending)
<1>1. Init => RereadInv /\ Unsaid
  BY OtherReplies DEF Init, RereadInv, NeverSaid
<1>2. BaseInv /\ LockInv /\ RereadInv /\ [Next]_vars => RereadInv'
  BY RereadNext
<1>3. BaseInv /\ OutcomesInv /\ RereadInv /\ Unsaid /\ [Next]_vars => Unsaid'
  <2> SUFFICES ASSUME BaseInv, OutcomesInv, RereadInv, Unsaid, [Next]_vars
               PROVE  /\ \A k \in keys' : k.outcome # AlreadyPending
                      /\ \A t \in Procs : outcome'[t] # AlreadyPending
    BY DEF NeverSaid, AlreadyPending, Outcome
  <2>1. QED
    BY NeverSaidNext, RecordedReply, OtherReplies
<1>4. Unsaid => RefusalNamesTheWinner
  BY DEF NeverSaid, RefusalNamesTheWinner, AlreadyPending
<1> HIDE DEF Unsaid
<1>5. QED
  BY <1>1, <1>2, <1>3, <1>4, BaseInvariant, LocksExclude, OutcomesKept, PTL DEF Spec

-------------------------------------------------------------------------------
(* Stock.  What a step may do to the row of a product and to its movements.    *)

Entered(p, type, q) == ledger'[p] = [ledger[p] EXCEPT ![type] = @ + q]

ReservesOf(p, q) ==
  /\ inventory[p].reserved + q <= inventory[p].onHand
  /\ inventory'[p] = [exists |-> inventory[p].exists, onHand |-> inventory[p].onHand,
                      reserved |-> inventory[p].reserved + q]
  /\ Entered(p, "reservation", q)

ReleasesOf(p, q) ==
  /\ q <= inventory[p].reserved
  /\ inventory'[p] = [exists |-> inventory[p].exists, onHand |-> inventory[p].onHand,
                      reserved |-> inventory[p].reserved - q]
  /\ Entered(p, "release", q)

FulfillsOf(p, q) ==
  /\ q <= inventory[p].reserved /\ q <= inventory[p].onHand
  /\ inventory'[p] = [exists |-> inventory[p].exists, onHand |-> inventory[p].onHand - q,
                      reserved |-> inventory[p].reserved - q]
  /\ Entered(p, "fulfillment", q)

AdjustsBy(p, d) ==
  /\ 0 <= inventory[p].onHand + d /\ inventory[p].reserved <= inventory[p].onHand + d
  /\ inventory[p].onHand + d <= Int4Max
  /\ inventory'[p] = [exists |-> TRUE, onHand |-> inventory[p].onHand + d,
                      reserved |-> inventory[p].reserved]
  /\ Entered(p, "on_hand_adjustment", d)

Untouched(p) == inventory'[p] = inventory[p] /\ ledger'[p] = ledger[p]

StockStep(p) ==
  \/ Untouched(p)
  \/ \E q \in 1..Int4Max : ReservesOf(p, q) \/ ReleasesOf(p, q) \/ FulfillsOf(p, q)
  \/ \E d \in Int : AdjustsBy(p, d)

LEMMA WriteOfProduct ==
  ASSUME BaseInv, NEW t \in Procs, NEW lines, WriteStock(t, lines), NEW p \in Products
  PROVE  /\ p \notin ProductsOf(lines) => Untouched(p)
         /\ p \in ProductsOf(lines) =>
              /\ inventory'[p] = Written(req[t].op, inventory[p], locked[t][p],
                                         Quantity(lines, p))
              /\ Entered(p, MovementType(req[t].op), Quantity(lines, p))
  BY TypeParts DEF WriteStock, Untouched, Entered, BaseInv, TablesOK

(* What Written does to a row read as it is.                                   *)
LEMMA WrittenRow ==
  ASSUME NEW row \in Row, NEW q \in Int
  PROVE  /\ Written(CreateOp, row, row, q) =
              [exists |-> row.exists, onHand |-> row.onHand, reserved |-> row.reserved + q]
         /\ Written(ReleaseOp, row, row, q) =
              [exists |-> row.exists, onHand |-> row.onHand, reserved |-> row.reserved - q]
         /\ Written(FulfillOp, row, row, q) =
              [exists |-> row.exists, onHand |-> row.onHand - q,
               reserved |-> row.reserved - q]
         /\ Written(AdjustOp, row, row, q) =
              [exists |-> TRUE, onHand |-> row.onHand + q, reserved |-> row.reserved]
<1>1. ASSUME NEW x
      PROVE  [row EXCEPT !.reserved = x] =
               [exists |-> row.exists, onHand |-> row.onHand, reserved |-> x]
  BY DEF Row
<1>2. Written(CreateOp, row, row, q) = [row EXCEPT !.reserved = row.reserved + q]
  BY DEF Written, CreateOp, ReleaseOp, FulfillOp, AdjustOp
<1>3. Written(ReleaseOp, row, row, q) = [row EXCEPT !.reserved = row.reserved - q]
  BY DEF Written, CreateOp, ReleaseOp, FulfillOp, AdjustOp
<1>4. /\ Written(FulfillOp, row, row, q) =
           [exists |-> row.exists, onHand |-> row.onHand - q, reserved |-> row.reserved - q]
      /\ Written(AdjustOp, row, row, q) =
           [exists |-> TRUE, onHand |-> row.onHand + q, reserved |-> row.reserved]
  BY DEF Written, CreateOp, ReleaseOp, FulfillOp, AdjustOp
<1>5. QED
  BY <1>1, <1>2, <1>3, <1>4

LEMMA MovementTypesOf ==
  /\ MovementType(CreateOp) = "reservation" /\ MovementType(ReleaseOp) = "release"
  /\ MovementType(FulfillOp) = "fulfillment"
  /\ MovementType(AdjustOp) = "on_hand_adjustment"
  BY DEF MovementType, CreateOp, ReleaseOp, FulfillOp, AdjustOp

LEMMA ReservationStock ==
  ASSUME BaseInv, LockInv, NEW t \in Procs, CommitReservation(t), NEW p \in Products
  PROVE  LET lines == req[t].lines
         IN  IF p \in ProductsOf(lines)
             THEN /\ Quantity(lines, p) \in 1..Int4Max
                  /\ ReservesOf(p, Quantity(lines, p))
             ELSE Untouched(p)
<1> DEFINE lines == req[t].lines
           q     == Quantity(lines, p)
<1>1. /\ pc[t] = "lock" /\ req[t].op = CreateOp /\ ShortLines(lines, locked[t]) = {}
      /\ WriteStock(t, lines)
  BY DEF CommitReservation, AllLocked
<1>2. GoodLines(req[t].org, lines)
  BY <1>1 DEF BaseInv, RequestsInv
<1>3. CASE p \notin ProductsOf(lines)
  BY <1>1, <1>3, WriteOfProduct
<1>4. CASE p \in ProductsOf(lines)
  <2>1. PICK i \in DOMAIN lines : p = lines[i].product
    BY <1>4 DEF ProductsOf
  <2>2. q = lines[i].quantity /\ q \in 1..Int4Max
    BY <1>2, <1>4, <2>1, QuantityOfLine, GoodQuantity DEF GoodLines
  <2>3. locked[t][p].exists /\ q <= Available(locked[t][p])
    BY <1>1, <2>1, <2>2, ReservationRows
  <2>4. locked[t][p] = inventory[p] /\ inventory[p] \in Row
    BY <2>3, TypeParts DEF LockInv, RowLocksInv, BaseInv, TablesOK
  <2>5. /\ inventory'[p] = Written(CreateOp, inventory[p], inventory[p], q)
        /\ Entered(p, MovementType(CreateOp), q)
    BY <1>1, <1>4, <2>4, WriteOfProduct
  <2> HIDE DEF q
  <2>6. Written(CreateOp, inventory[p], inventory[p], q) =
          [exists |-> inventory[p].exists, onHand |-> inventory[p].onHand,
           reserved |-> inventory[p].reserved + q]
    BY <2>2, <2>4, WrittenRow, Int4Assumption
  <2>7. inventory[p].reserved + q <= inventory[p].onHand
    BY <2>2, <2>3, <2>4, Int4Assumption DEF Available, Row
  <2>8. ReservesOf(p, q)
    BY <2>5, <2>6, <2>7, MovementTypesOf DEF ReservesOf
  <2>9. QED
    BY <1>4, <2>2, <2>8 DEF q
<1>5. QED
  BY <1>3, <1>4

LEMMA ConsumptionStock ==
  ASSUME BaseInv, LockInv, NEW t \in Procs, Consumes(t), NEW p \in Products
  PROVE  LET lines == LinesOf(req[t])
         IN  IF p \in ProductsOf(lines)
             THEN /\ Quantity(lines, p) \in 1..Int4Max
                  /\ \/ ReleasesOf(p, Quantity(lines, p))
                     \/ FulfillsOf(p, Quantity(lines, p))
             ELSE Untouched(p)
<1> DEFINE op    == req[t].op
           lines == LinesOf(req[t])
           q     == Quantity(lines, p)
<1>1. /\ pc[t] = "lock" /\ op \in OrderOps /\ ~CannotConsume(op, lines, locked[t])
      /\ WriteStock(t, lines)
  BY DEF Consumes, ConsumeStock, AllLocked
<1>2. PICK org \in Orgs : GoodLines(org, lines)
  BY <1>1, LinesAtLock DEF OrderOps, AdjustOp, ReleaseOp, FulfillOp
<1>3. CASE p \notin ProductsOf(lines)
  BY <1>1, <1>3, WriteOfProduct
<1>4. CASE p \in ProductsOf(lines)
  <2>1. PICK i \in DOMAIN lines : p = lines[i].product
    BY <1>4 DEF ProductsOf
  <2>2. q = lines[i].quantity /\ q \in 1..Int4Max
    BY <1>2, <1>4, <2>1, QuantityOfLine, GoodQuantity DEF GoodLines
  <2>3. /\ locked[t][p].exists /\ ~(locked[t][p].reserved < q)
        /\ ~(op = FulfillOp /\ locked[t][p].onHand < q)
    BY <1>1, <2>1, <2>2 DEF CannotConsume
  <2>4. locked[t][p] = inventory[p] /\ inventory[p] \in Row
    BY <2>3, TypeParts DEF LockInv, RowLocksInv, BaseInv, TablesOK
  <2>5. /\ inventory'[p] = Written(op, inventory[p], inventory[p], q)
        /\ Entered(p, MovementType(op), q)
    BY <1>1, <1>4, <2>4, WriteOfProduct
  <2> HIDE DEF q
  <2>6. q <= inventory[p].reserved
    BY <2>2, <2>3, <2>4, Int4Assumption DEF Row
  <2>7. CASE op = ReleaseOp
    <3>1. Written(ReleaseOp, inventory[p], inventory[p], q) =
            [exists |-> inventory[p].exists, onHand |-> inventory[p].onHand,
             reserved |-> inventory[p].reserved - q]
      BY <2>2, <2>4, WrittenRow, Int4Assumption
    <3>2. ReleasesOf(p, q)
      BY <2>5, <2>6, <2>7, <3>1, MovementTypesOf DEF ReleasesOf
    <3>3. QED
      BY <1>4, <2>2, <3>2 DEF q
  <2>8. CASE op = FulfillOp
    <3>1. Written(FulfillOp, inventory[p], inventory[p], q) =
            [exists |-> inventory[p].exists, onHand |-> inventory[p].onHand - q,
             reserved |-> inventory[p].reserved - q]
      BY <2>2, <2>4, WrittenRow, Int4Assumption
    <3>2. q <= inventory[p].onHand
      BY <2>2, <2>3, <2>4, <2>8, Int4Assumption DEF Row
    <3>3. FulfillsOf(p, q)
      BY <2>5, <2>6, <2>8, <3>1, <3>2, MovementTypesOf DEF FulfillsOf
    <3>4. QED
      BY <1>4, <2>2, <3>3 DEF q
  <2>9. QED
    BY <1>1, <2>7, <2>8 DEF OrderOps
<1>5. QED
  BY <1>3, <1>4

LEMMA AcceptedAdjustment ==
  ASSUME NEW owned, NEW row \in Row, NEW d \in Int,
         AdjustmentOutcome(owned, row, d).status = 200
  PROVE  /\ 0 <= row.onHand + d /\ row.reserved <= row.onHand + d
         /\ row.onHand + d <= Int4Max
<1>1. ~(row.onHand + d < 0)
  BY DEF AdjustmentOutcome, Outcome
<1>2. ~(row.onHand + d < row.reserved)
  BY DEF AdjustmentOutcome, Outcome
<1>3. ~(row.onHand + d > Int4Max)
  BY DEF AdjustmentOutcome, Outcome
<1>4. QED
  BY <1>1, <1>2, <1>3, Int4Assumption DEF Row

LEMMA AdjustmentStock ==
  ASSUME BaseInv, LockInv, NEW t \in Procs, CommitAdjustment(t), NEW p \in Products
  PROVE  Untouched(p) \/ \E d \in Int : AdjustsBy(p, d)
<1> DEFINE lines == req[t].lines
           d     == lines[1].quantity
<1>1. /\ pc[t] = "lock" /\ req[t].op = AdjustOp /\ req[t] \in Requests
      /\ AdjustmentResult(t).status = 200
      /\ InsertsRow(t) => ~inventory[lines[1].product].exists
      /\ WriteStock(t, lines)
  BY TypeParts DEF CommitAdjustment, AllLocked, BaseInv, ProcsOK
<1>2. /\ ProductsOf(lines) = {lines[1].product}
      /\ Quantity(lines, lines[1].product) = d /\ d \in Int
  BY <1>1, AdjustmentLine
<1>3. CASE p \notin ProductsOf(lines)
  BY <1>1, <1>3, WriteOfProduct
<1>4. CASE p = lines[1].product
  <2>1. locked[t][p] = inventory[p] /\ inventory[p] \in Row
    <3>1. CASE locked[t][p].exists
      BY <3>1, TypeParts DEF LockInv, RowLocksInv, BaseInv, TablesOK
    <3>2. CASE ~locked[t][p].exists
      BY <1>1, <1>4, <3>2, TypeParts DEF InsertsRow, BaseInv, LockedInv, RowsInv, TablesOK
    <3>3. QED
      BY <3>1, <3>2
  <2>2. /\ inventory'[p] = Written(AdjustOp, inventory[p], inventory[p], d)
        /\ Entered(p, MovementType(AdjustOp), d)
    BY <1>1, <1>2, <1>4, <2>1, WriteOfProduct
  <2>3. AdjustmentOutcome(Owns(req[t].org, p), inventory[p], d).status = 200
    BY <1>1, <1>4, <2>1 DEF AdjustmentResult
  <2> HIDE DEF d
  <2>4. /\ 0 <= inventory[p].onHand + d /\ inventory[p].reserved <= inventory[p].onHand + d
        /\ inventory[p].onHand + d <= Int4Max
    BY <1>2, <2>1, <2>3, AcceptedAdjustment
  <2>5. Written(AdjustOp, inventory[p], inventory[p], d) =
          [exists |-> TRUE, onHand |-> inventory[p].onHand + d,
           reserved |-> inventory[p].reserved]
    BY <1>2, <2>1, WrittenRow
  <2>6. AdjustsBy(p, d)
    BY <2>2, <2>4, <2>5, MovementTypesOf DEF AdjustsBy
  <2>7. QED
    BY <1>2, <2>6 DEF d
<1>5. QED
  BY <1>2, <1>3, <1>4

LEMMA StockSteps ==
  ASSUME BaseInv, LockInv, [Next]_vars, NEW p \in Products
  PROVE  StockStep(p)
<1>1. CASE UNCHANGED <<inventory, orders, ledger, audit>>
  BY <1>1 DEF StockStep, Untouched
<1>2. ASSUME NEW t \in Procs, CommitReservation(t)
      PROVE  StockStep(p)
  BY <1>2, ReservationStock DEF StockStep
<1>3. ASSUME NEW t \in Procs, Consumes(t)
      PROVE  StockStep(p)
  BY <1>3, ConsumptionStock DEF StockStep
<1>4. ASSUME NEW t \in Procs, CommitAdjustment(t)
      PROVE  StockStep(p)
  BY <1>4, AdjustmentStock DEF StockStep
<1>5. QED
  BY <1>1, <1>2, <1>3, <1>4, TableSteps

(* The part of NoOversell that is about counters.                              *)
Safe(row) ==
  /\ 0 <= row.reserved /\ row.reserved <= row.onHand
  /\ row.onHand <= Int4Max

LEMMA SafeNext ==
  ASSUME BaseInv, LockInv, [Next]_vars, NEW p \in Products, Safe(inventory[p])
  PROVE  Safe(inventory'[p])
<1>1. inventory[p] \in Row
  BY TypeParts DEF BaseInv, TablesOK
<1>2. CASE Untouched(p)
  BY <1>2 DEF Untouched
<1>3. ASSUME NEW q \in 1..Int4Max, ReservesOf(p, q)
      PROVE  Safe(inventory'[p])
  BY <1>1, <1>3, Int4Assumption DEF ReservesOf, Safe, Row
<1>4. ASSUME NEW q \in 1..Int4Max, ReleasesOf(p, q)
      PROVE  Safe(inventory'[p])
  BY <1>1, <1>4, Int4Assumption DEF ReleasesOf, Safe, Row
<1>5. ASSUME NEW q \in 1..Int4Max, FulfillsOf(p, q)
      PROVE  Safe(inventory'[p])
  BY <1>1, <1>5, Int4Assumption DEF FulfillsOf, Safe, Row
<1>6. ASSUME NEW d \in Int, AdjustsBy(p, d)
      PROVE  Safe(inventory'[p])
  BY <1>1, <1>6 DEF AdjustsBy, Safe, Row
<1>7. QED
  BY <1>2, <1>3, <1>4, <1>5, <1>6, StockSteps DEF StockStep

(* Stock is never oversold, negative or beyond an int4, however many           *)
(* reservations, cancellations, fulfilments and adjustments interleave         *)
(* (reserveStock, releaseStock, fulfillStock, applyAdjustment).                *)
THEOREM NeverOversold == Spec => []NoOversell
<1> DEFINE AllSafe == \A p \in Products : Safe(inventory[p])
<1>1. Init => AllSafe
  BY OpeningAssumption, Int4Assumption DEF Init, Safe, Row
<1>2. BaseInv /\ LockInv /\ AllSafe /\ [Next]_vars => AllSafe'
  BY SafeNext
<1>3. BaseInv /\ AllSafe => NoOversell
  BY DEF BaseInv, RowsInv, Safe, NoOversell
<1> HIDE DEF AllSafe
<1>4. QED
  BY <1>1, <1>2, <1>3, BaseInvariant, LocksExclude, PTL DEF Spec

(* LedgerExplainsStock for one product.                                        *)
Explained(p, row, sum) ==
  /\ row.onHand = Opening[p].onHand + sum["on_hand_adjustment"] - sum["fulfillment"]
  /\ row.reserved = sum["reservation"] - sum["release"] - sum["fulfillment"]

LEMMA EntrySums ==
  ASSUME NEW sum \in [MovementTypes -> Int], NEW type \in MovementTypes, NEW q \in Int,
         NEW new, new = [sum EXCEPT ![type] = @ + q]
  PROVE  /\ new[type] = sum[type] + q
         /\ \A other \in MovementTypes \ {type} : new[other] = sum[other]
         /\ \A any \in MovementTypes : sum[any] \in Int
  OBVIOUS

LEMMA ExplainedNext ==
  ASSUME BaseInv, LockInv, [Next]_vars, NEW p \in Products,
         Explained(p, inventory[p], ledger[p])
  PROVE  Explained(p, inventory'[p], ledger'[p])
<1>1. /\ inventory[p] \in Row /\ ledger[p] \in [MovementTypes -> Int]
      /\ Opening[p].onHand \in Int
  BY OpeningAssumption, TypeParts DEF BaseInv, TablesOK, Row
<1>2. CASE Untouched(p)
  BY <1>2 DEF Untouched
<1>3. ASSUME NEW q \in 1..Int4Max, ReservesOf(p, q)
      PROVE  Explained(p, inventory'[p], ledger'[p])
  <2>1. q \in Int /\ "reservation" \in MovementTypes
    BY Int4Assumption DEF MovementTypes
  <2>2. ledger'[p] = [ledger[p] EXCEPT !["reservation"] = @ + q]
    BY <1>3 DEF ReservesOf, Entered
  <2>3. /\ inventory'[p].onHand = inventory[p].onHand
        /\ inventory'[p].reserved = inventory[p].reserved + q
    BY <1>3 DEF ReservesOf
  <2>4. QED
    BY <1>1, <2>1, <2>2, <2>3, EntrySums DEF Explained, MovementTypes, Row
<1>4. ASSUME NEW q \in 1..Int4Max, ReleasesOf(p, q)
      PROVE  Explained(p, inventory'[p], ledger'[p])
  <2>1. q \in Int /\ "release" \in MovementTypes
    BY Int4Assumption DEF MovementTypes
  <2>2. ledger'[p] = [ledger[p] EXCEPT !["release"] = @ + q]
    BY <1>4 DEF ReleasesOf, Entered
  <2>3. /\ inventory'[p].onHand = inventory[p].onHand
        /\ inventory'[p].reserved = inventory[p].reserved - q
    BY <1>4 DEF ReleasesOf
  <2>4. QED
    BY <1>1, <2>1, <2>2, <2>3, EntrySums DEF Explained, MovementTypes, Row
<1>5. ASSUME NEW q \in 1..Int4Max, FulfillsOf(p, q)
      PROVE  Explained(p, inventory'[p], ledger'[p])
  <2>1. q \in Int /\ "fulfillment" \in MovementTypes
    BY Int4Assumption DEF MovementTypes
  <2>2. ledger'[p] = [ledger[p] EXCEPT !["fulfillment"] = @ + q]
    BY <1>5 DEF FulfillsOf, Entered
  <2>3. /\ inventory'[p].onHand = inventory[p].onHand - q
        /\ inventory'[p].reserved = inventory[p].reserved - q
    BY <1>5 DEF FulfillsOf
  <2>4. QED
    BY <1>1, <2>1, <2>2, <2>3, EntrySums DEF Explained, MovementTypes, Row
<1>6. ASSUME NEW d \in Int, AdjustsBy(p, d)
      PROVE  Explained(p, inventory'[p], ledger'[p])
  <2>1. "on_hand_adjustment" \in MovementTypes
    BY DEF MovementTypes
  <2>2. ledger'[p] = [ledger[p] EXCEPT !["on_hand_adjustment"] = @ + d]
    BY <1>6 DEF AdjustsBy, Entered
  <2>3. /\ inventory'[p].onHand = inventory[p].onHand + d
        /\ inventory'[p].reserved = inventory[p].reserved
    BY <1>6 DEF AdjustsBy
  <2>4. QED
    BY <1>1, <2>1, <2>2, <2>3, EntrySums DEF Explained, MovementTypes, Row
<1>7. QED
  BY <1>2, <1>3, <1>4, <1>5, <1>6, StockSteps DEF StockStep

(* The movements of a product account for both its counters: no update of a    *)
(* row is lost between the SELECT ... FOR UPDATE and the UPDATE computed from  *)
(* it.                                                                         *)
THEOREM LedgerExplains == Spec => []LedgerExplainsStock
<1> DEFINE AllExplained == \A p \in Products : Explained(p, inventory[p], ledger[p])
<1>1. Init => AllExplained
  BY OpeningAssumption DEF Init, Explained, Row, MovementTypes
<1>2. BaseInv /\ LockInv /\ AllExplained /\ [Next]_vars => AllExplained'
  BY ExplainedNext
<1>3. AllExplained => LedgerExplainsStock
  BY DEF Explained, LedgerExplainsStock
<1> HIDE DEF AllExplained
<1>4. QED
  BY <1>1, <1>2, <1>3, BaseInvariant, LocksExclude, PTL DEF Spec

-------------------------------------------------------------------------------
(* Tenants.                                                                    *)

(* A row that a transaction's UPDATEs change is one its lines name.            *)
LEMMA WrittenRows ==
  ASSUME BaseInv, NEW t \in Procs, NEW lines, WriteStock(t, lines),
         NEW p \in Products, inventory'[p] # inventory[p]
  PROVE  p \in ProductsOf(lines)
  BY DEF WriteStock

LEMMA AnswerCommits ==
  ASSUME BaseInv, NEW t \in Procs, AllLocked(t), NEW result, Answer(t, result)
  PROVE  Commits(t)
  BY TypeParts DEF Answer, Commits, BaseInv, ProcsOK

(* An adjustment that is accepted is of a product of its organization.         *)
LEMMA AdjustmentOwned ==
  ASSUME NEW t \in Procs, AdjustmentResult(t).status = 200
  PROVE  Owns(req[t].org, req[t].lines[1].product)
  BY SMTT(30) DEF AdjustmentResult, AdjustmentOutcome, Outcome

LEMMA IsolationStep ==
  ASSUME BaseInv, LockInv, [Next]_vars
  PROVE  /\ \A p \in Products : inventory'[p] # inventory[p] =>
              \E t \in Procs : Commits(t) /\ req[t].org = ProductOrg[p]
         /\ \A o \in OrderIds : orders'[o] # orders[o] =>
              \E t \in Procs : Commits(t) /\ req[t].org = orders'[o].org
<1> DEFINE Isolated(t) ==
             /\ \A p \in Products : inventory'[p] # inventory[p] =>
                  req[t].org = ProductOrg[p]
             /\ \A o \in OrderIds : orders'[o] # orders[o] =>
                  req[t].org = orders'[o].org
<1>1. orders \in [OrderIds -> Order]
  BY TypeParts DEF BaseInv, TablesOK
<1>2. ASSUME NEW t \in Procs, CommitReservation(t)
      PROVE  Commits(t) /\ Isolated(t)
  <2>1. PICK o \in OrderIds :
          /\ orders' = [orders EXCEPT ![o] = [status |-> "pending", org |-> req[t].org,
                                              lines |-> req[t].lines]]
          /\ Answer(t, Outcome(201, <<"created", o>>))
    BY <1>2 DEF CommitReservation
  <2>2. AllLocked(t) /\ req[t].op = CreateOp /\ WriteStock(t, req[t].lines)
    BY <1>2 DEF CommitReservation
  <2>3. GoodLines(req[t].org, req[t].lines)
    BY <2>2 DEF AllLocked, BaseInv, RequestsInv
  <2>4. \A p \in Products : inventory'[p] # inventory[p] => Owns(req[t].org, p)
    BY <2>2, <2>3, WrittenRows, GoodQuantity
  <2>5. \A oo \in OrderIds : orders'[oo] # orders[oo] => orders'[oo].org = req[t].org
    BY <1>1, <2>1
  <2>6. QED
    BY <2>1, <2>2, <2>4, <2>5, AnswerCommits DEF Owns
<1>3. ASSUME NEW t \in Procs, Consumes(t)
      PROVE  Commits(t) /\ Isolated(t)
  <2> DEFINE o == req[t].order
  <2>1. /\ AllLocked(t) /\ req[t].op \in OrderOps /\ pc[t] = "lock"
        /\ WriteStock(t, LinesOf(req[t]))
        /\ orders' = [orders EXCEPT ![o].status = StatusAfter(req[t].op)]
        /\ \E result : Answer(t, result)
    BY <1>3 DEF Consumes, ConsumeStock, AllLocked
  <2>2. Flippable(req[t])
    BY <2>1 DEF LockInv, OrderLocksInv
  <2>3. o \in OrderIds
    BY <2>1, TypeParts, RequestType DEF BaseInv, ProcsOK
  <2>4. orders[o].org = req[t].org /\ orders[o].status # "none"
    BY <2>2 DEF Flippable
  <2>5. GoodLines(req[t].org, LinesOf(req[t]))
    BY <2>1, <2>3, <2>4 DEF BaseInv, OrdersInv, LinesOf
  <2>6. \A p \in Products : inventory'[p] # inventory[p] => Owns(req[t].org, p)
    BY <2>1, <2>5, WrittenRows, GoodQuantity
  <2>7. \A oo \in OrderIds : orders'[oo] # orders[oo] => orders'[oo].org = req[t].org
    BY <1>1, <2>1, <2>3, <2>4 DEF Order
  <2>8. QED
    BY <2>1, <2>6, <2>7, AnswerCommits DEF Owns
<1>4. ASSUME NEW t \in Procs, CommitAdjustment(t)
      PROVE  Commits(t) /\ Isolated(t)
  <2> DEFINE line == req[t].lines[1]
  <2>1. /\ AllLocked(t) /\ pc[t] = "lock" /\ req[t].op = AdjustOp
        /\ AdjustmentResult(t).status = 200
        /\ WriteStock(t, req[t].lines) /\ orders' = orders
        /\ \E result : Answer(t, result)
    BY <1>4 DEF CommitAdjustment, AllLocked
  <2>2. ProductsOf(req[t].lines) = {line.product}
    BY <2>1, TypeParts, AdjustmentLine DEF BaseInv, ProcsOK
  <2>3. Owns(req[t].org, line.product)
    BY <2>1, AdjustmentOwned
  <2>4. \A p \in Products : inventory'[p] # inventory[p] => Owns(req[t].org, p)
    BY <2>1, <2>2, <2>3, WrittenRows
  <2>5. QED
    BY <2>1, <2>4, AnswerCommits DEF Owns
<1>5. QED
  BY <1>2, <1>3, <1>4, TableSteps

(* A tenant's stock and orders change only in the transactions of its own      *)
(* requests: the organization condition of every lookup, and of every product  *)
(* of a reservation, is enough (reserveStock, releaseStock, fulfillStock,      *)
(* applyAdjustment).                                                           *)
THEOREM TenantsAreIsolated == Spec => TenantIsolation
<1>1. BaseInv /\ LockInv /\ [Next]_vars =>
        [/\ \A p \in Products : inventory'[p] # inventory[p] =>
              \E t \in Procs : Commits(t) /\ req[t].org = ProductOrg[p]
         /\ \A o \in OrderIds : orders'[o] # orders[o] =>
              \E t \in Procs : Commits(t) /\ req[t].org = orders'[o].org]_vars
  BY IsolationStep
<1>2. QED
  BY <1>1, BaseInvariant, LocksExclude, PTL DEF Spec, TenantIsolation

-------------------------------------------------------------------------------
(* The units that pending orders hold.                                         *)

(* Those of product p in one order, and their number.                          *)
OrderUnits(o, order, p) ==
  {u \in [order : {o}, line : DOMAIN order.lines, unit : 1..Int4Max] :
     /\ order.status = "pending"
     /\ order.lines[u.line].product = p
     /\ u.unit <= order.lines[u.line].quantity}

OrderQuantity(order, p) ==
  IF order.status = "pending" /\ p \in ProductsOf(order.lines)
  THEN Quantity(order.lines, p) ELSE 0

(* HeldUnits for any orders.                                                   *)
UnitsIn(os, p) ==
  {u \in [order : OrderIds, line : UNION {DOMAIN os[o].lines : o \in OrderIds},
          unit : 1..Int4Max] :
     /\ os[u.order].status = "pending"
     /\ u.line \in DOMAIN os[u.order].lines
     /\ os[u.order].lines[u.line].product = p
     /\ u.unit <= os[u.order].lines[u.line].quantity}

LEMMA OrderUnitsCount ==
  ASSUME NEW o, NEW order, NEW p, NEW org,
         order.status = "pending" => GoodLines(org, order.lines)
  PROVE  /\ IsFiniteSet(OrderUnits(o, order, p))
         /\ Cardinality(OrderUnits(o, order, p)) = OrderQuantity(order, p)
         /\ OrderQuantity(order, p) \in Nat
<1> DEFINE lines == order.lines
           S == OrderUnits(o, order, p)
<1>1. CASE order.status = "pending" /\ p \in ProductsOf(lines)
  <2>1. PICK i \in DOMAIN lines : lines[i].product = p
    BY <1>1 DEF ProductsOf
  <2> DEFINE q == lines[i].quantity
             f == [n \in 1..q |-> [order |-> o, line |-> i, unit |-> n]]
  <2>2. q \in 1..Int4Max /\ q \in Nat
    BY <1>1, <2>1, GoodLine, Int4Assumption
  <2>3. Quantity(lines, p) = q
    BY <1>1, <2>1, QuantityOfLine DEF GoodLines
  <2>4. \A j \in DOMAIN lines : lines[j].product = p => j = i
    BY <1>1, <2>1 DEF GoodLines, HasDuplicateLines
  <2>5. \A u : u \in S <=> /\ u \in [order : {o}, line : DOMAIN lines, unit : 1..Int4Max]
                           /\ lines[u.line].product = p
                           /\ u.unit <= lines[u.line].quantity
    BY <1>1 DEF OrderUnits
  <2>6. \A u \in S : u = [order |-> o, line |-> i, unit |-> u.unit] /\ u.unit \in 1..q
    BY <2>2, <2>4, <2>5, Int4Assumption
  <2>7. \A n \in 1..q : [order |-> o, line |-> i, unit |-> n] \in S
    BY <2>1, <2>2, <2>5, Int4Assumption
  <2> HIDE DEF q, S
  <2>8. f \in Bijection(1..q, S)
    <3>1. f \in [1..q -> S]
      BY <2>7
    <3>2. \A a, b \in 1..q : f[a] = f[b] => a = b
      OBVIOUS
    <3>3. \A u \in S : \E n \in 1..q : f[n] = u
      BY <2>6
    <3> HIDE DEF f
    <3>4. QED
      BY <3>1, <3>2, <3>3, Fun_IsBij
  <2>9. IsFiniteSet(1..q) /\ Cardinality(1..q) = q
    BY <2>2, FS_Interval
  <2>10. IsFiniteSet(S) /\ Cardinality(S) = q
    BY <2>8, <2>9, FS_Bijection DEF ExistsBijection
  <2>11. QED
    BY <1>1, <2>2, <2>3, <2>10 DEF S, OrderQuantity
<1>2. CASE ~(order.status = "pending" /\ p \in ProductsOf(lines))
  <2>1. S = {}
    BY <1>2 DEF OrderUnits, ProductsOf
  <2>2. QED
    BY <1>2, <2>1, FS_EmptySet DEF OrderQuantity
<1>3. QED
  BY <1>1, <1>2

LEMMA UnitsInOrder ==
  ASSUME NEW os, NEW p, NEW o \in OrderIds
  PROVE  {u \in UnitsIn(os, p) : u.order = o} = OrderUnits(o, os[o], p)
<1>1. DOMAIN os[o].lines \subseteq UNION {DOMAIN os[x].lines : x \in OrderIds}
  OBVIOUS
<1>2. QED
  BY <1>1 DEF UnitsIn, OrderUnits

(* Changing one order moves its own units only.                                *)
LEMMA UnitsAfter ==
  ASSUME NEW old, NEW new, NEW p, NEW o \in OrderIds, NEW a, NEW b,
         \A x \in OrderIds \ {o} : new[x] = old[x],
         old[o].status = "pending" => GoodLines(a, old[o].lines),
         new[o].status = "pending" => GoodLines(b, new[o].lines),
         IsFiniteSet(UnitsIn(old, p))
  PROVE  /\ IsFiniteSet(UnitsIn(new, p))
         /\ Cardinality(UnitsIn(new, p)) =
              Cardinality(UnitsIn(old, p)) - OrderQuantity(old[o], p)
                                           + OrderQuantity(new[o], p)
<1> DEFINE Rest(os) == {u \in UnitsIn(os, p) : u.order # o}
           Own(os)  == OrderUnits(o, os[o], p)
<1>1. ASSUME NEW os
      PROVE  UnitsIn(os, p) = Rest(os) \cup Own(os) /\ Rest(os) \cap Own(os) = {}
  <2>1. {u \in UnitsIn(os, p) : u.order = o} = Own(os)
    BY UnitsInOrder
  <2> HIDE DEF Own
  <2>2. QED
    BY <2>1
<1>2. Rest(new) = Rest(old)
  <2>1. ASSUME NEW f, NEW g, \A x \in OrderIds \ {o} : f[x] = g[x],
               NEW u \in Rest(f)
        PROVE  u \in Rest(g)
    <3>1. /\ u \in [order : OrderIds, line : UNION {DOMAIN f[x].lines : x \in OrderIds},
                  unit : 1..Int4Max]
          /\ u.order # o /\ u.order \in OrderIds
          /\ f[u.order].status = "pending" /\ u.line \in DOMAIN f[u.order].lines
          /\ f[u.order].lines[u.line].product = p
          /\ u.unit <= f[u.order].lines[u.line].quantity
      BY DEF UnitsIn
    <3>2. f[u.order] = g[u.order]
      BY <2>1, <3>1
    <3>3. u.line \in UNION {DOMAIN g[x].lines : x \in OrderIds}
      BY <3>1, <3>2
    <3>4. u \in [order : OrderIds, line : UNION {DOMAIN g[x].lines : x \in OrderIds},
               unit : 1..Int4Max]
      BY <3>1, <3>3
    <3>5. QED
      BY <3>1, <3>2, <3>4 DEF UnitsIn
  <2>2. QED
    BY <2>1
<1>3. /\ IsFiniteSet(Own(old)) /\ Cardinality(Own(old)) = OrderQuantity(old[o], p)
      /\ IsFiniteSet(Own(new)) /\ Cardinality(Own(new)) = OrderQuantity(new[o], p)
      /\ OrderQuantity(old[o], p) \in Nat /\ OrderQuantity(new[o], p) \in Nat
  BY OrderUnitsCount
<1>4. IsFiniteSet(Rest(old)) /\ Cardinality(Rest(old)) \in Nat
  BY FS_Subset, FS_CardinalityType
<1> HIDE DEF Rest, Own
<1>5. Cardinality(UnitsIn(old, p)) = Cardinality(Rest(old)) + OrderQuantity(old[o], p)
  BY <1>1, <1>3, <1>4, FS_Union, FS_EmptySet
<1>6. /\ IsFiniteSet(UnitsIn(new, p))
      /\ Cardinality(UnitsIn(new, p)) = Cardinality(Rest(old)) + OrderQuantity(new[o], p)
  <2>1. UnitsIn(new, p) = Rest(old) \cup Own(new) /\ Rest(old) \cap Own(new) = {}
    BY <1>1, <1>2
  <2>2. /\ IsFiniteSet(Rest(old) \cup Own(new))
        /\ Cardinality(Rest(old) \cup Own(new)) =
             Cardinality(Rest(old)) + OrderQuantity(new[o], p) - Cardinality({})
    <3> DEFINE R == Rest(old)
               O == Own(new)
    <3>1. IsFiniteSet(R) /\ IsFiniteSet(O) /\ R \cap O = {}
          /\ Cardinality(O) = OrderQuantity(new[o], p)
      BY <1>3, <1>4, <2>1
    <3> HIDE DEF R, O
    <3>2. IsFiniteSet(R \cup O)
          /\ Cardinality(R \cup O) =
               Cardinality(R) + OrderQuantity(new[o], p) - Cardinality({})
      BY <3>1, FS_Union
    <3>3. QED
      BY <3>2 DEF R, O
  <2>3. Cardinality({}) = 0
    BY FS_EmptySet
  <2> DEFINE n == Cardinality(Rest(old))
             k == OrderQuantity(new[o], p)
  <2>4. n \in Nat /\ k \in Nat /\ Cardinality(UnitsIn(new, p)) = n + k - 0
    BY <1>3, <1>4, <2>1, <2>2, <2>3
  <2>5. IsFiniteSet(UnitsIn(new, p))
    BY <2>1, <2>2
  <2>6. Cardinality(UnitsIn(new, p)) = n + k
    <3> HIDE DEF n, k
    <3>1. QED
      BY <2>4
  <2>7. QED
    BY <2>5, <2>6
<1>7. QED
  BY <1>3, <1>4, <1>5, <1>6

(* ReservedIsHeld, with the finiteness that makes it mean something.           *)
HeldInv ==
  \A p \in Products : /\ IsFiniteSet(HeldUnits(p))
                      /\ inventory[p].reserved = Cardinality(HeldUnits(p))

LEMMA HeldIsUnitsIn ==
  ASSUME NEW p
  PROVE  HeldUnits(p) = UnitsIn(orders, p) /\ HeldUnits(p)' = UnitsIn(orders', p)
  BY DEF HeldUnits, LineNumbers, UnitsIn

(* The pending orders of a step, before and after, have good lines.            *)
LEMMA PendingLines ==
  ASSUME BaseInv, NEW o \in OrderIds, orders[o].status = "pending"
  PROVE  GoodLines(orders[o].org, orders[o].lines)
  BY DEF BaseInv, OrdersInv

LEMMA HeldAfter ==
  ASSUME BaseInv, BaseInv', NEW o \in OrderIds, NEW p \in Products,
         \A x \in OrderIds \ {o} : orders'[x] = orders[x],
         IsFiniteSet(HeldUnits(p))
  PROVE  /\ IsFiniteSet(HeldUnits(p)')
         /\ Cardinality(HeldUnits(p)') =
              Cardinality(HeldUnits(p)) - OrderQuantity(orders[o], p)
                                        + OrderQuantity(orders'[o], p)
<1>1. orders[o].status = "pending" => GoodLines(orders[o].org, orders[o].lines)
  BY PendingLines
<1>2. orders'[o].status = "pending" => GoodLines(orders'[o].org, orders'[o].lines)
  BY DEF BaseInv, OrdersInv, GoodLines
<1>3. QED
  BY <1>1, <1>2, HeldIsUnitsIn, UnitsAfter

LEMMA HeldNext ==
  ASSUME BaseInv, BaseInv', LockInv, HeldInv, [Next]_vars
  PROVE  HeldInv'
<1> SUFFICES ASSUME NEW p \in Products
             PROVE  /\ IsFiniteSet(HeldUnits(p)')
                    /\ inventory'[p].reserved = Cardinality(HeldUnits(p)')
  BY DEF HeldInv
<1>1. /\ IsFiniteSet(HeldUnits(p)) /\ inventory[p].reserved = Cardinality(HeldUnits(p))
      /\ Cardinality(HeldUnits(p)) \in Nat
  BY FS_CardinalityType DEF HeldInv
<1>2. orders \in [OrderIds -> Order] /\ inventory[p] \in Row
  BY TypeParts DEF BaseInv, TablesOK
<1>3. CASE orders' = orders /\ inventory'[p].reserved = inventory[p].reserved
  BY <1>1, <1>3, HeldIsUnitsIn
<1>4. ASSUME NEW t \in Procs, CommitReservation(t)
      PROVE  /\ IsFiniteSet(HeldUnits(p)')
             /\ inventory'[p].reserved = Cardinality(HeldUnits(p)')
  <2> DEFINE lines == req[t].lines
  <2>1. PICK o \in OrderIds :
          /\ orders[o].status = "none"
          /\ orders' = [orders EXCEPT ![o] = [status |-> "pending", org |-> req[t].org,
                                              lines |-> lines]]
    BY <1>4 DEF CommitReservation
  <2>2. /\ orders'[o].status = "pending" /\ orders'[o].lines = lines
        /\ \A x \in OrderIds \ {o} : orders'[x] = orders[x]
    BY <1>2, <2>1
  <2>3. /\ OrderQuantity(orders[o], p) = 0
        /\ OrderQuantity(orders'[o], p) =
             IF p \in ProductsOf(lines) THEN Quantity(lines, p) ELSE 0
    BY <2>1, <2>2 DEF OrderQuantity
  <2>4. /\ IsFiniteSet(HeldUnits(p)')
        /\ Cardinality(HeldUnits(p)') =
             Cardinality(HeldUnits(p)) - 0 + OrderQuantity(orders'[o], p)
    BY <1>1, <2>2, <2>3, HeldAfter
  <2>5. IF p \in ProductsOf(lines)
        THEN /\ Quantity(lines, p) \in 1..Int4Max
             /\ inventory'[p].reserved = inventory[p].reserved + Quantity(lines, p)
        ELSE inventory'[p].reserved = inventory[p].reserved
    <3>1. IF p \in ProductsOf(lines)
          THEN /\ Quantity(lines, p) \in 1..Int4Max
               /\ ReservesOf(p, Quantity(lines, p))
          ELSE Untouched(p)
      BY <1>4, ReservationStock
    <3> HIDE DEF lines
    <3>2. QED
      BY <3>1 DEF ReservesOf, Untouched
  <2>6. QED
    BY <1>1, <2>3, <2>4, <2>5, Int4Assumption
<1>5. ASSUME NEW t \in Procs, Consumes(t)
      PROVE  /\ IsFiniteSet(HeldUnits(p)')
             /\ inventory'[p].reserved = Cardinality(HeldUnits(p)')
  <2> DEFINE o     == req[t].order
             lines == LinesOf(req[t])
  <2>1. /\ pc[t] = "lock" /\ req[t].op \in OrderOps /\ req[t] \in Requests
        /\ orders' = [orders EXCEPT ![o].status = StatusAfter(req[t].op)]
    BY <1>5, TypeParts DEF Consumes, AllLocked, ConsumeStock, BaseInv, ProcsOK
  <2>2. o \in OrderIds /\ lines = orders[o].lines /\ orders[o].status = "pending"
    BY <2>1, RequestType DEF LockInv, OrderLocksInv, Flippable, LinesOf
  <2>3. StatusAfter(req[t].op) # "pending"
    BY DEF StatusAfter
  <2>4. /\ orders'[o].status # "pending"
        /\ \A x \in OrderIds \ {o} : orders'[x] = orders[x]
    BY <1>2, <2>1, <2>2, <2>3 DEF Order
  <2>5. /\ OrderQuantity(orders'[o], p) = 0
        /\ OrderQuantity(orders[o], p) =
             IF p \in ProductsOf(lines) THEN Quantity(lines, p) ELSE 0
    BY <2>2, <2>4 DEF OrderQuantity
  <2>6. /\ IsFiniteSet(HeldUnits(p)')
        /\ Cardinality(HeldUnits(p)') =
             Cardinality(HeldUnits(p)) - OrderQuantity(orders[o], p) + 0
    BY <1>1, <2>2, <2>4, <2>5, HeldAfter
  <2>7. IF p \in ProductsOf(lines)
        THEN /\ Quantity(lines, p) \in 1..Int4Max
             /\ inventory'[p].reserved = inventory[p].reserved - Quantity(lines, p)
        ELSE inventory'[p].reserved = inventory[p].reserved
    <3>1. IF p \in ProductsOf(lines)
          THEN /\ Quantity(lines, p) \in 1..Int4Max
               /\ \/ ReleasesOf(p, Quantity(lines, p))
                  \/ FulfillsOf(p, Quantity(lines, p))
          ELSE Untouched(p)
      BY <1>5, ConsumptionStock
    <3> HIDE DEF lines
    <3>2. QED
      BY <3>1 DEF ReleasesOf, FulfillsOf, Untouched
  <2>8. QED
    BY <1>1, <2>5, <2>6, <2>7, Int4Assumption
<1>6. ASSUME NEW t \in Procs, CommitAdjustment(t)
      PROVE  orders' = orders /\ inventory'[p].reserved = inventory[p].reserved
  <2>1. Untouched(p) \/ \E d \in Int : AdjustsBy(p, d)
    BY <1>6, AdjustmentStock
  <2>2. orders' = orders
    BY <1>6 DEF CommitAdjustment
  <2>3. ASSUME NEW d \in Int, AdjustsBy(p, d)
        PROVE  inventory'[p].reserved = inventory[p].reserved
    BY <2>3 DEF AdjustsBy
  <2>4. QED
    BY <2>1, <2>2, <2>3 DEF Untouched
<1>7. QED
  BY <1>3, <1>4, <1>5, <1>6, TableSteps

LEMMA HeldKept == Spec => []HeldInv
<1>1. Init => HeldInv
  <2> SUFFICES ASSUME Init, NEW p \in Products
               PROVE  /\ IsFiniteSet(HeldUnits(p))
                      /\ inventory[p].reserved = Cardinality(HeldUnits(p))
    BY DEF HeldInv
  <2>1. HeldUnits(p) = {}
    BY DEF Init, NoSuchOrder, HeldUnits
  <2>2. QED
    BY <2>1, FS_EmptySet, OpeningAssumption DEF Init
<1>2. BaseInv /\ BaseInv' /\ LockInv /\ HeldInv /\ [Next]_vars => HeldInv'
  BY HeldNext
<1>3. QED
  BY <1>1, <1>2, BaseInvariant, LocksExclude, PTL DEF Spec

(* The reserved counter of a product is, in every reachable state, the number  *)
(* of units that the lines of pending orders hold of it (reserveStock,         *)
(* releaseStock, fulfillStock).                                                *)
THEOREM ReservedUnitsAreHeld == Spec => []ReservedIsHeld
<1>1. HeldInv => ReservedIsHeld
  BY DEF HeldInv, ReservedIsHeld
<1>2. QED
  BY <1>1, HeldKept, PTL

-------------------------------------------------------------------------------
(* The rows a transaction locks.                                               *)

(* A row is never deleted.                                                     *)
LEMMA RowsStay ==
  ASSUME BaseInv, LockInv, [Next]_vars, NEW p \in Products, inventory[p].exists
  PROVE  inventory'[p].exists
<1>1. CASE Untouched(p)
  BY <1>1 DEF Untouched
<1>2. ASSUME NEW q, ReservesOf(p, q) \/ ReleasesOf(p, q) \/ FulfillsOf(p, q) \/ AdjustsBy(p, q)
      PROVE  inventory'[p].exists
  <2>1. CASE ReservesOf(p, q)
    BY <2>1 DEF ReservesOf
  <2>2. CASE ReleasesOf(p, q)
    BY <2>2 DEF ReleasesOf
  <2>3. CASE FulfillsOf(p, q)
    BY <2>3 DEF FulfillsOf
  <2>4. CASE AdjustsBy(p, q)
    BY <2>4 DEF AdjustsBy
  <2>5. QED
    BY <1>2, <2>1, <2>2, <2>3, <2>4
<1>3. QED
  BY <1>1, <1>2, StockSteps DEF StockStep

(* The locking SELECT returned all the rows there are of the organization's    *)
(* products: all of an order's, and of other requests at least the old ones.   *)
Selected(t) ==
  \A p \in ProductsOf(LinesOf(req[t])) : Owns(req[t].org, p) =>
    p \in need[t] \/ (req[t].op \notin OrderOps /\ ~Opening[p].exists)

SelectInv ==
  /\ \A p \in Products : Opening[p].exists => inventory[p].exists
  /\ \A t \in Procs : pc[t] = "lock" =>
       /\ Selected(t)
       /\ need[t] \subseteq {p \in ProductsOf(LinesOf(req[t])) : Owns(req[t].org, p)}

LEMMA LockSteps ==
  ASSUME BaseInv, [Next]_vars, NEW u \in Procs, pc'[u] = "lock"
  PROVE  /\ req'[u] = req[u]
         /\ SelectRows(u) \/ (pc[u] = "lock" /\ need'[u] = need[u])
<1>1. /\ pc \in [Procs -> Control] /\ req \in [Procs -> Requests \cup {NoRequest}]
      /\ need \in [Procs -> SUBSET Products]
  BY TypeParts DEF BaseInv, ProcsOK
<1>2. CASE UNCHANGED vars
  BY <1>2 DEF vars
<1>3. ASSUME NEW t \in Procs, NEW r \in Requests, Send(t, r)
      PROVE  req'[u] = req[u] /\ pc[u] = "lock" /\ need'[u] = need[u]
  BY <1>1, <1>3 DEF Send
<1>4. ASSUME NEW t \in Procs, Claim(t) \/ UpdateOrder(t) \/ LockRow(t)
      PROVE  req'[u] = req[u] /\ pc[u] = "lock" /\ need'[u] = need[u]
  BY <1>1, <1>4 DEF Claim, UpdateOrder, LockRow
<1>5. ASSUME NEW t \in Procs, SelectRows(t), t # u
      PROVE  req'[u] = req[u] /\ pc[u] = "lock" /\ need'[u] = need[u]
  BY <1>1, <1>5 DEF SelectRows
<1>6. ASSUME NEW t \in Procs, NEW result, Answer(t, result)
      PROVE  req'[u] = req[u] /\ pc[u] = "lock" /\ need'[u] = need[u]
  BY <1>1, <1>6 DEF Answer
<1>7. ASSUME NEW t \in Procs, Leave(t)
      PROVE  req'[u] = req[u] /\ pc[u] = "lock" /\ need'[u] = need[u]
  BY <1>1, <1>7 DEF Leave
<1>8. SelectRows(u) => req'[u] = req[u]
  BY DEF SelectRows
<1>9. QED
  BY <1>2, <1>3, <1>4, <1>5, <1>6, <1>7, <1>8, StepKinds

(* An order that exists keeps its lines.                                       *)
LEMMA LinesStay ==
  ASSUME BaseInv, LockInv, [Next]_vars, NEW t \in Procs, pc[t] \in {"select", "lock"}
  PROVE  LET r == req[t]
         IN  (IF r.op \in OrderOps THEN orders'[r.order].lines ELSE r.lines) = LinesOf(r)
<1> SUFFICES ASSUME req[t].op \in OrderOps
             PROVE  orders'[req[t].order].lines = orders[req[t].order].lines
  BY DEF LinesOf
<1> DEFINE o == req[t].order
<1>1. o \in OrderIds /\ orders[o].status = "pending"
  BY TypeParts, RequestType DEF BaseInv, ProcsOK, LockInv, OrderLocksInv, Flippable
<1>2. \E s \in {"pending", "cancelled", "fulfilled"} :
        orders'[o] = [orders[o] EXCEPT !.status = s]
  BY <1>1, HistoryStep
<1>3. orders[o] \in Order
  BY <1>1, TypeParts DEF BaseInv, TablesOK
<1>4. QED
  BY <1>2, <1>3 DEF Order

LEMMA SelectNext ==
  ASSUME BaseInv, LockInv, SelectInv, [Next]_vars
  PROVE  SelectInv'
<1>1. \A p \in Products : Opening[p].exists => inventory'[p].exists
  BY RowsStay DEF SelectInv
<1>2. ASSUME NEW u \in Procs, pc'[u] = "lock"
      PROVE  LET r     == req[u]
                 lines == IF r.op \in OrderOps THEN orders'[r.order].lines ELSE r.lines
             IN  /\ req'[u] = r
                 /\ \A p \in ProductsOf(lines) : Owns(r.org, p) =>
                      p \in need'[u] \/ (r.op \notin OrderOps /\ ~Opening[p].exists)
                 /\ need'[u] \subseteq {p \in ProductsOf(lines) : Owns(r.org, p)}
  <2> DEFINE lines == LinesOf(req[u])
  <2>1. req'[u] = req[u] /\ (SelectRows(u) \/ (pc[u] = "lock" /\ need'[u] = need[u]))
    BY <1>2, LockSteps
  <2>2. pc[u] \in {"select", "lock"}
    BY <2>1 DEF SelectRows
  <2>3. (IF req[u].op \in OrderOps THEN orders'[req[u].order].lines ELSE req[u].lines)
          = lines
    BY <2>2, LinesStay
  <2>4. CASE pc[u] = "lock" /\ need'[u] = need[u]
    BY <2>1, <2>3, <2>4 DEF SelectInv, Selected
  <2>5. CASE SelectRows(u)
    <3>1. need'[u] = {p \in ProductsOf(lines) : Owns(req[u].org, p) /\ inventory[p].exists}
      BY <2>5, TypeParts DEF SelectRows, BaseInv, ProcsOK
    <3>2. ProductsOf(lines) \subseteq Products
      BY <2>2, LinesAtLock
    <3>3. \A p \in ProductsOf(lines) : ~inventory[p].exists => ~Opening[p].exists
      BY <3>2 DEF SelectInv
    <3>4. req[u].op \in OrderOps => \A p \in ProductsOf(lines) : inventory[p].exists
      <4> SUFFICES ASSUME req[u].op \in OrderOps, NEW p \in ProductsOf(lines)
                   PROVE  inventory[p].exists
        OBVIOUS
      <4> DEFINE o == req[u].order
      <4>1. o \in OrderIds /\ orders[o].status # "none"
        BY <2>2, TypeParts, RequestType DEF BaseInv, ProcsOK, RequestsInv
      <4>2. \A i \in DOMAIN orders[o].lines : inventory[orders[o].lines[i].product].exists
        BY <4>1 DEF BaseInv, OrdersInv
      <4>3. QED
        BY <4>2 DEF LinesOf, ProductsOf
    <3>5. QED
      BY <2>1, <2>3, <3>1, <3>3, <3>4
  <2>6. QED
    BY <2>1, <2>4, <2>5
<1>3. QED
  BY <1>1, <1>2 DEF SelectInv, Selected, LinesOf

LEMMA SelectKept == Spec => []SelectInv
<1>1. Init => SelectInv
  BY DEF Init, SelectInv
<1>2. BaseInv /\ LockInv /\ SelectInv /\ [Next]_vars => SelectInv'
  BY SelectNext
<1>3. QED
  BY <1>1, <1>2, BaseInvariant, LocksExclude, PTL DEF Spec

-------------------------------------------------------------------------------
(* The invariants that releaseStock and fulfillStock check.                    *)

(* A row that is under lock is the one in the table.                           *)
LEMMA RowsAtCommit ==
  ASSUME BaseInv, LockInv, SelectInv, NEW t \in Procs, AllLocked(t),
         NEW p \in need[t]
  PROVE  locked[t][p].exists /\ locked[t][p] = inventory[p]
<1>1. p \in Products /\ p \in Held(t)
  BY TypeParts DEF AllLocked, Missing, BaseInv, ProcsOK
<1>2. QED
  BY <1>1 DEF Held, LockInv, RowLocksInv

(* The order of a transaction that is about to finish it.                      *)
LEMMA OrderAtCommit ==
  ASSUME BaseInv, LockInv, SelectInv, NEW t \in Procs, AllLocked(t),
         req[t].op \in OrderOps
  PROVE  LET o == req[t].order
         IN  /\ o \in OrderIds /\ LinesOf(req[t]) = orders[o].lines
             /\ orders[o].status = "pending" /\ orders[o].org = req[t].org
             /\ GoodLines(req[t].org, orders[o].lines)
             /\ ProductsOf(orders[o].lines) \subseteq need[t]
<1> DEFINE o == req[t].order
<1>1. pc[t] = "lock" /\ o \in OrderIds
  BY TypeParts, RequestType DEF BaseInv, ProcsOK, AllLocked
<1>2. LinesOf(req[t]) = orders[o].lines
  BY DEF LinesOf
<1>3. orders[o].status = "pending" /\ orders[o].org = req[t].org
  BY <1>1 DEF LockInv, OrderLocksInv, Flippable
<1>4. GoodLines(req[t].org, orders[o].lines)
  BY <1>1, <1>3, PendingLines
<1>5. \A p \in ProductsOf(orders[o].lines) : Owns(req[t].org, p)
  BY <1>4, GoodQuantity
<1>6. ProductsOf(orders[o].lines) \subseteq need[t]
  BY <1>1, <1>2, <1>5 DEF SelectInv, Selected
<1>7. QED
  BY <1>1, <1>2, <1>3, <1>4, <1>6

(* A pending order holds the quantity of each of its lines.                    *)
LEMMA LineIsHeld ==
  ASSUME BaseInv, HeldInv, NEW o \in OrderIds, orders[o].status = "pending",
         NEW i \in DOMAIN orders[o].lines
  PROVE  orders[o].lines[i].quantity <= inventory[orders[o].lines[i].product].reserved
<1> DEFINE lines == orders[o].lines
           p     == lines[i].product
<1>1. GoodLines(orders[o].org, lines)
  BY PendingLines
<1>2. p \in Products /\ p \in ProductsOf(lines) /\ lines[i].quantity \in 1..Int4Max
  BY <1>1, GoodLine
<1>3. Cardinality(OrderUnits(o, orders[o], p)) = lines[i].quantity
  <2>1. Quantity(lines, p) = lines[i].quantity
    BY <1>1, QuantityOfLine DEF GoodLines
  <2>2. QED
    BY <1>1, <1>2, <2>1, OrderUnitsCount DEF OrderQuantity
<1>4. OrderUnits(o, orders[o], p) \subseteq HeldUnits(p)
  <2>1. {u \in UnitsIn(orders, p) : u.order = o} = OrderUnits(o, orders[o], p)
    BY UnitsInOrder
  <2>2. HeldUnits(p) = UnitsIn(orders, p)
    BY HeldIsUnitsIn
  <2> HIDE DEF p
  <2>3. QED
    BY <2>1, <2>2
<1>5. IsFiniteSet(HeldUnits(p)) /\ inventory[p].reserved = Cardinality(HeldUnits(p))
  BY <1>2 DEF HeldInv
<1> HIDE DEF p, lines
<1>6. Cardinality(OrderUnits(o, orders[o], p)) <= Cardinality(HeldUnits(p))
  BY <1>4, <1>5, FS_Subset
<1>7. QED
  BY <1>3, <1>5, <1>6 DEF p, lines

LEMMA CanConsume ==
  ASSUME BaseInv, LockInv, SelectInv, HeldInv, NoOversell, NEW t \in Procs,
         AllLocked(t), req[t].op \in OrderOps
  PROVE  ~CannotConsume(req[t].op, LinesOf(req[t]), locked[t])
<1> DEFINE o     == req[t].order
           lines == orders[o].lines
<1>1. /\ o \in OrderIds /\ LinesOf(req[t]) = lines
      /\ orders[o].status = "pending"
      /\ GoodLines(req[t].org, lines) /\ ProductsOf(lines) \subseteq need[t]
  BY OrderAtCommit
<1>2. ASSUME NEW i \in DOMAIN lines
      PROVE  LET row == locked[t][lines[i].product]
             IN  /\ row.exists
                 /\ ~(row.reserved < lines[i].quantity)
                 /\ ~(row.onHand < lines[i].quantity)
  <2> DEFINE p == lines[i].product
             q == lines[i].quantity
  <2>1. p \in Products /\ p \in need[t] /\ q \in 1..Int4Max
    BY <1>1, GoodLine
  <2>2. locked[t][p].exists /\ locked[t][p] = inventory[p]
    BY <2>1, RowsAtCommit
  <2>3. q <= inventory[p].reserved
    BY <1>1, LineIsHeld
  <2>4. inventory[p].reserved <= inventory[p].onHand
    BY <2>1 DEF NoOversell
  <2>5. inventory[p].reserved \in Int /\ inventory[p].onHand \in Int /\ q \in Int
    <3>1. inventory \in [Products -> Row]
      BY TypeParts DEF BaseInv, TablesOK
    <3>2. inventory[p] \in Row
      BY <2>1, <3>1
    <3>3. inventory[p].reserved \in Int /\ inventory[p].onHand \in Int
      BY <3>2 DEF Row
    <3> HIDE DEF q
    <3>4. q \in Int
      BY <2>1, Int4Assumption
    <3>5. QED
      BY <3>3, <3>4
  <2>6. ~(inventory[p].reserved < q) /\ ~(inventory[p].onHand < q)
    <3> HIDE DEF p, q
    <3>1. QED
      BY <2>3, <2>4, <2>5
  <2>7. ~(locked[t][p].reserved < q) /\ ~(locked[t][p].onHand < q)
    <3> HIDE DEF p, q
    <3>1. QED
      BY <2>2, <2>6
  <2>8. QED
    BY <2>2, <2>7
<1>3. QED
  BY <1>1, <1>2 DEF CannotConsume

LEMMA RecordedStatus ==
  ASSUME NEW t, NEW result, Records(t, result)
  PROVE  result # Broken
<1>1. Broken.status = 500
  BY ErrorStatus
<1>2. WhyNotFlipped(req[t]).status # 500
  BY DEF WhyNotFlipped, Outcome
<1>3. ShortfallReply(req[t].lines, locked[t]).status # 500
  BY DEF ShortfallReply, Outcome
<1>4. \A owned, row, d : AdjustmentOutcome(owned, row, d).status # 500
  BY DEF AdjustmentOutcome, Outcome
<1>5. QED
  BY <1>1, <1>2, <1>3, <1>4 DEF Records, AdjustmentResult

(* The "Invariant violated" throws of releaseStock and fulfillStock are dead:  *)
(* when the rows of an order are locked they still hold every quantity of it.  *)
THEOREM NothingBreaks == Spec => []NeverBroken
<1> DEFINE Unsaid == NeverSaid(Broken)
<1>1. Init => Unsaid
  BY NoOutcomeAssumption DEF Init, NeverSaid
<1>2. /\ BaseInv /\ LockInv /\ SelectInv /\ HeldInv /\ NoOversell /\ OutcomesInv
      /\ Unsaid /\ [Next]_vars
      => Unsaid'
  <2> SUFFICES ASSUME BaseInv, LockInv, SelectInv, HeldInv, NoOversell, OutcomesInv,
                      Unsaid, [Next]_vars
               PROVE  /\ \A k \in keys' : k.outcome # Broken
                      /\ \A t \in Procs : outcome'[t] # Broken
    BY DEF NeverSaid, Broken, Outcome
  <2>1. Broken \notin {NoOutcome, Refused, Duplicate, KeyReused, KeyLost}
    <3>1. Broken # NoOutcome
      BY NoOutcomeAssumption
    <3>2. Broken # Duplicate
      <4>1. Broken.body[1] = "invariant violated"
        BY DEF Broken, Outcome
      <4>2. Duplicate.body[1] = "inventory_product_id_key"
        BY DEF Duplicate, Outcome
      <4>3. QED
        BY <4>1, <4>2
    <3>3. Broken # Refused /\ Broken # KeyReused /\ Broken # KeyLost
      <4>1. KeyReused.status = 409 /\ KeyLost.status = 409
        BY DEF KeyReused, KeyLost, Outcome
      <4>2. QED
        BY <4>1, ErrorStatus
    <3>4. QED
      BY <3>1, <3>2, <3>3
  <2>2. QED
    BY <2>1, NeverSaidNext, RecordedStatus, CanConsume
<1>3. Unsaid => NeverBroken
  BY DEF NeverSaid, NeverBroken
<1> HIDE DEF Unsaid
<1>4. QED
  BY <1>1, <1>2, <1>3, BaseInvariant, LocksExclude, SelectKept, HeldKept, NeverOversold,
     OutcomesKept, PTL DEF Spec

-------------------------------------------------------------------------------
(* The refinement: every step of the engine is a step of the contract, or      *)
(* changes nothing the contract can see.                                       *)

(* The contract reads the same rules.                                          *)
LEMMA SameRules ==
  /\ \A r : Contract!Scope(r) = Scope(r) /\ Contract!Fingerprint(r) = Fingerprint(r)
  /\ \A r : Contract!BadRequest(r) <=> BadRequest(r)
  /\ \A lines : Contract!ProductsOf(lines) = ProductsOf(lines)
  /\ \A lines, p : Contract!Quantity(lines, p) = Quantity(lines, p)
  /\ \A op, row, read, q : Contract!Written(op, row, read, q) = Written(op, row, read, q)
  /\ \A op : /\ Contract!MovementType(op) = MovementType(op)
             /\ Contract!StatusAfter(op) = StatusAfter(op)
  /\ \A org, p : Contract!Owns(org, p) <=> Owns(org, p)
  /\ \A row : Contract!Available(row) = Available(row)
  /\ \A lines, stock :
       /\ Contract!ShortLines(lines, stock) = ShortLines(lines, stock)
       /\ Contract!ShortfallReply(lines, stock) = ShortfallReply(lines, stock)
  /\ \A owned, row, d :
       Contract!AdjustmentOutcome(owned, row, d) = AdjustmentOutcome(owned, row, d)
  /\ \A status, body : Contract!Outcome(status, body) = Outcome(status, body)
  /\ /\ Contract!Refused = Refused /\ Contract!Duplicate = Duplicate
     /\ Contract!KeyReused = KeyReused /\ Contract!Absent = Absent
     /\ Contract!NoSuchOrder = NoSuchOrder
  /\ /\ Contract!CreateOp = CreateOp /\ Contract!ReleaseOp = ReleaseOp
     /\ Contract!FulfillOp = FulfillOp /\ Contract!AdjustOp = AdjustOp
     /\ Contract!OrderOps = OrderOps /\ Contract!MovementTypes = MovementTypes
     /\ Contract!AuditActions = AuditActions
<1>1. \A r : Contract!Scope(r) = Scope(r) /\ Contract!Fingerprint(r) = Fingerprint(r)
  BY DEF Contract!Scope, Scope, Contract!Fingerprint, Fingerprint
<1>2. \A r : Contract!BadRequest(r) <=> BadRequest(r)
  BY DEF Contract!BadRequest, BadRequest, Contract!CreateOp, CreateOp,
         Contract!HasDuplicateLines, HasDuplicateLines,
         Contract!ForeignProduct, ForeignProduct, Contract!ProductsOf, ProductsOf,
         Contract!Owns, Owns
<1>3. \A lines : Contract!ProductsOf(lines) = ProductsOf(lines)
  BY DEF Contract!ProductsOf, ProductsOf
<1>4. \A lines, p : Contract!Quantity(lines, p) = Quantity(lines, p)
  BY DEF Contract!Quantity, Quantity, Contract!LastLine, LastLine
<1>5. /\ Contract!CreateOp = CreateOp /\ Contract!ReleaseOp = ReleaseOp
      /\ Contract!FulfillOp = FulfillOp /\ Contract!AdjustOp = AdjustOp
      /\ Contract!OrderOps = OrderOps /\ Contract!MovementTypes = MovementTypes
      /\ Contract!AuditActions = AuditActions
  BY DEF Contract!CreateOp, CreateOp, Contract!ReleaseOp, ReleaseOp,
         Contract!FulfillOp, FulfillOp, Contract!AdjustOp, AdjustOp,
         Contract!OrderOps, OrderOps, Contract!MovementTypes, MovementTypes,
         Contract!AuditActions, AuditActions
<1>6. \A op, row, read, q :
        Contract!Written(op, row, read, q) = Written(op, row, read, q)
  BY <1>5 DEF Contract!Written, Written
<1>7. \A op : /\ Contract!MovementType(op) = MovementType(op)
              /\ Contract!StatusAfter(op) = StatusAfter(op)
  BY <1>5 DEF Contract!MovementType, MovementType, Contract!StatusAfter, StatusAfter
<1>8. /\ \A org, p : Contract!Owns(org, p) <=> Owns(org, p)
      /\ \A row : Contract!Available(row) = Available(row)
  BY DEF Contract!Owns, Owns, Contract!Available, Available
<1>9. \A status, body : Contract!Outcome(status, body) = Outcome(status, body)
  BY DEF Contract!Outcome, Outcome
<1>10. \A lines, stock :
         /\ Contract!ShortLines(lines, stock) = ShortLines(lines, stock)
         /\ Contract!ShortfallReply(lines, stock) = ShortfallReply(lines, stock)
  BY <1>8, <1>9 DEF Contract!ShortLines, ShortLines, Contract!ShortfallReply,
                    ShortfallReply
<1>11. ASSUME NEW owned, NEW row, NEW d
       PROVE  Contract!AdjustmentOutcome(owned, row, d) = AdjustmentOutcome(owned, row, d)
  BY DEF Contract!AdjustmentOutcome, AdjustmentOutcome, Contract!Outcome, Outcome
<1>12. /\ Contract!Refused = Refused /\ Contract!Duplicate = Duplicate
       /\ Contract!KeyReused = KeyReused /\ Contract!Absent = Absent
       /\ Contract!NoSuchOrder = NoSuchOrder
  BY <1>9 DEF Contract!Refused, Refused, Contract!Duplicate, Duplicate,
              Contract!KeyReused, KeyReused, Contract!Absent, Absent,
              Contract!NoSuchOrder, NoSuchOrder
<1>13. QED
  BY <1>1, <1>2, <1>3, <1>4, <1>5, <1>6, <1>7, <1>8, <1>9, <1>10, <1>11, <1>12

(* What the contract sees of a control state.                                  *)
Phase(c) == CASE c = "idle"  -> "idle"
              [] c = "reply" -> "answered"
              [] OTHER       -> "asked"

LEMMA PhaseAfter ==
  ASSUME BaseInv, NEW t \in Procs, NEW c, pc' = [pc EXCEPT ![t] = c]
  PROVE  phaseBar' = [phaseBar EXCEPT ![t] = Phase(c)]
<1>1. pc \in [Procs -> Control]
  BY TypeParts DEF BaseInv, ProcsOK
<1>2. phaseBar = [u \in Procs |-> Phase(pc[u])]
  BY DEF phaseBar, Phase
<1>3. phaseBar' = [u \in Procs |-> Phase(pc'[u])]
  BY DEF phaseBar, Phase
<1>4. QED
  BY <1>1, <1>2, <1>3

LEMMA PhaseNow ==
  ASSUME NEW t \in Procs
  PROVE  phaseBar[t] = Phase(pc[t])
  BY DEF phaseBar, Phase

(* A step inside a request.                                                    *)
LEMMA UnseenStep ==
  ASSUME BaseInv, NEW t \in Procs, Phase(pc[t]) = "asked", NEW c, Phase(c) = "asked",
         pc' = [pc EXCEPT ![t] = c], UNCHANGED <<database, req, outcome>>
  PROVE  UNCHANGED Contract!vars
<1>1. phaseBar' = [phaseBar EXCEPT ![t] = phaseBar[t]]
  BY PhaseAfter, PhaseNow
<1>2. phaseBar' = phaseBar
  BY <1>1 DEF phaseBar
<1>3. QED
  BY <1>2 DEF Contract!vars, database

(* An answer is seen as such.                                                  *)
LEMMA AnswerSeen ==
  ASSUME BaseInv, NEW t \in Procs, pc[t] \notin {"idle", "reply"}, NEW result,
         Answer(t, result)
  PROVE  phaseBar[t] = "asked" /\ Contract!Answered(t, result)
<1>1. phaseBar' = [phaseBar EXCEPT ![t] = "answered"] /\ phaseBar[t] = "asked"
  BY PhaseAfter, PhaseNow DEF Answer, Phase
<1>2. QED
  BY <1>1 DEF Answer, Contract!Answered

LEMMA RecordSeen ==
  ASSUME BaseInv, LockInv, NEW t \in Procs, pc[t] \in TxControl, NEW result,
         Complete(t, result), Answer(t, result)
  PROVE  phaseBar[t] = "asked" /\ Contract!Record(t, result)
<1>1. phaseBar[t] = "asked" /\ Contract!Answered(t, result)
  BY AnswerSeen DEF TxControl
<1>2. \A k \in keys : k.scope # Scope(req[t])
  BY DEF LockInv, ClaimsInv
<1>3. QED
  BY <1>1, <1>2, SameRules DEF Complete, Contract!Record

LEMMA RefusalSeen ==
  ASSUME BaseInv, LockInv, NEW t \in Procs, pc[t] \in TxControl, NEW result,
         CommitRefusal(t, result)
  PROVE  phaseBar[t] = "asked" /\ Contract!Refuse(t, result)
  BY RecordSeen DEF CommitRefusal, Contract!Refuse

(* What is written from locked rows is written from the rows themselves.       *)
LEMMA WriteSeen ==
  ASSUME NEW t \in Procs, NEW lines, WriteStock(t, lines),
         \A p \in ProductsOf(lines) : locked[t][p] = inventory[p]
  PROVE  Contract!Move(req[t], lines)
  BY SameRules DEF WriteStock, Contract!Move

(* The rows as a transaction that locked what it could sees them.              *)
LEMMA ViewAtCommit ==
  ASSUME BaseInv, LockInv, SelectInv, NEW t \in Procs, AllLocked(t),
         req[t].op \notin OrderOps
  PROVE  \E stock \in Contract!Views(req[t]) :
           \A p \in ProductsOf(req[t].lines) : stock[p] = locked[t][p]
<1> DEFINE lines == req[t].lines
           late  == {p \in Products : ~Opening[p].exists /\ p \notin need[t]}
           stock == [p \in Products |-> IF p \in late \/ ~Owns(req[t].org, p)
                                        THEN Absent ELSE inventory[p]]
<1>1. stock \in Contract!Views(req[t])
  <2>1. late \in SUBSET {p \in Products : ~Opening[p].exists}
    OBVIOUS
  <2> HIDE DEF late
  <2>2. QED
    BY <2>1, SameRules DEF Contract!Views
<1>2. pc[t] = "lock" /\ LinesOf(req[t]) = lines
  BY DEF AllLocked, LinesOf
<1>3. ASSUME NEW p \in ProductsOf(lines)
      PROVE  stock[p] = locked[t][p]
  <2>1. p \in Products
    BY <1>2, LinesAtLock
  <2>2. CASE p \in need[t]
    <3>1. Owns(req[t].org, p)
      BY <1>2, <2>2 DEF SelectInv
    <3>2. QED
      BY <2>1, <2>2, <3>1, RowsAtCommit
  <2>3. CASE p \notin need[t]
    <3>1. locked[t][p] = Absent
      BY <2>1, <2>3 DEF LockInv, RowLocksInv, BaseInv, LockedInv
    <3>2. Owns(req[t].org, p) => ~Opening[p].exists
      BY <1>2, <2>3 DEF SelectInv, Selected
    <3>3. QED
      BY <2>1, <2>3, <3>1, <3>2
  <2>4. QED
    BY <2>2, <2>3
<1>4. QED
  BY <1>1, <1>3

LEMMA RefusedReservationSeen ==
  ASSUME BaseInv, LockInv, SelectInv, NEW t \in Procs, RefuseReservation(t)
  PROVE  phaseBar[t] = "asked" /\ Contract!RefuseReservation(t)
<1> DEFINE lines == req[t].lines
<1>1. /\ AllLocked(t) /\ pc[t] \in TxControl /\ req[t].op = CreateOp
      /\ ShortLines(lines, locked[t]) # {}
      /\ CommitRefusal(t, ShortfallReply(lines, locked[t]))
  BY DEF RefuseReservation, AllLocked, TxControl
<1>2. PICK stock \in Contract!Views(req[t]) :
        \A p \in ProductsOf(lines) : stock[p] = locked[t][p]
  BY <1>1, ViewAtCommit DEF OrderOps, CreateOp, ReleaseOp, FulfillOp
<1>3. \A i \in DOMAIN lines : stock[lines[i].product] = locked[t][lines[i].product]
  BY <1>2 DEF ProductsOf
<1>4. ShortLines(lines, stock) = ShortLines(lines, locked[t])
  BY <1>3 DEF ShortLines
<1>5. ShortfallReply(lines, stock) = ShortfallReply(lines, locked[t])
  <2>1. {<<lines[i].product, Available(stock[lines[i].product])>> :
           i \in ShortLines(lines, stock)} =
        {<<lines[i].product, Available(locked[t][lines[i].product])>> :
           i \in ShortLines(lines, locked[t])}
    BY <1>3, <1>4 DEF ShortLines
  <2>2. QED
    BY <2>1 DEF ShortfallReply
<1>6. phaseBar[t] = "asked" /\ Contract!Refuse(t, ShortfallReply(lines, stock))
  BY <1>1, <1>5, RefusalSeen
<1>7. QED
  BY <1>1, <1>2, <1>4, <1>6, SameRules DEF Contract!RefuseReservation

LEMMA ReservationSeen ==
  ASSUME BaseInv, LockInv, NEW t \in Procs, CommitReservation(t)
  PROVE  phaseBar[t] = "asked" /\ Contract!Reserve(t)
<1> DEFINE lines == req[t].lines
<1>1. /\ pc[t] = "lock" /\ pc[t] \in TxControl /\ req[t].op = CreateOp
      /\ ShortLines(lines, locked[t]) = {} /\ WriteStock(t, lines)
  BY DEF CommitReservation, AllLocked, TxControl
<1>2. PICK o \in OrderIds :
        /\ orders[o].status = "none"
        /\ orders' = [orders EXCEPT ![o] = [status |-> "pending", org |-> req[t].org,
                                            lines |-> lines]]
        /\ audit' = [audit EXCEPT ![o][CreateOp] = @ + 1]
        /\ Complete(t, Outcome(201, <<"created", o>>))
        /\ Answer(t, Outcome(201, <<"created", o>>))
  BY DEF CommitReservation
<1>3. GoodLines(req[t].org, lines)
  BY <1>1 DEF BaseInv, RequestsInv
<1>4. ASSUME NEW i \in DOMAIN lines
      PROVE  LET p == lines[i].product
             IN  /\ Owns(req[t].org, p) /\ locked[t][p] = inventory[p]
                 /\ Available(inventory[p]) >= lines[i].quantity
  <2> DEFINE p == lines[i].product
  <2>1. p \in Products /\ Owns(req[t].org, p) /\ lines[i].quantity \in 1..Int4Max
    BY <1>3, GoodLine
  <2>2. locked[t][p].exists /\ lines[i].quantity <= Available(locked[t][p])
    BY <1>1, ReservationRows
  <2>3. locked[t][p] = inventory[p]
    BY <2>1, <2>2 DEF LockInv, RowLocksInv
  <2>4. Available(inventory[p]) \in Int
    BY <2>1, TypeParts DEF BaseInv, TablesOK, Row, Available
  <2>5. QED
    BY <2>1, <2>2, <2>3, <2>4, Int4Assumption
<1>5. Contract!Move(req[t], lines)
  <2>1. \A p \in ProductsOf(lines) : locked[t][p] = inventory[p]
    BY <1>4 DEF ProductsOf
  <2>2. QED
    BY <1>1, <2>1, WriteSeen
<1>6. phaseBar[t] = "asked" /\ Contract!Record(t, Outcome(201, <<"created", o>>))
  BY <1>1, <1>2, RecordSeen
<1>7. QED
  BY <1>1, <1>2, <1>4, <1>5, <1>6, SameRules DEF Contract!Reserve

LEMMA FinishSeen ==
  ASSUME BaseInv, LockInv, SelectInv, HeldInv, NoOversell, NEW t \in Procs, FinishOrder(t)
  PROVE  phaseBar[t] = "asked" /\ Contract!Finish(t)
<1> DEFINE o      == req[t].order
           lines  == orders[o].lines
           result == Outcome(200, <<StatusAfter(req[t].op), o>>)
<1>1. AllLocked(t) /\ pc[t] \in TxControl /\ req[t].op \in OrderOps
  BY DEF FinishOrder, AllLocked, TxControl
<1>2. ConsumeStock(t)
  BY <1>1, CanConsume DEF FinishOrder
<1>3. /\ LinesOf(req[t]) = lines /\ orders[o].status = "pending"
      /\ orders[o].org = req[t].org
      /\ GoodLines(req[t].org, lines) /\ ProductsOf(lines) \subseteq need[t]
  BY <1>1, OrderAtCommit
<1>4. /\ WriteStock(t, lines)
      /\ orders' = [orders EXCEPT ![o].status = StatusAfter(req[t].op)]
      /\ audit' = [audit EXCEPT ![o][req[t].op] = @ + 1]
      /\ Complete(t, result) /\ Answer(t, result)
  BY <1>2, <1>3 DEF ConsumeStock
<1>5. Contract!Move(req[t], lines)
  <2>1. \A p \in ProductsOf(lines) : locked[t][p] = inventory[p]
    BY <1>1, <1>3, RowsAtCommit
  <2>2. QED
    BY <1>4, <2>1, WriteSeen
<1>6. phaseBar[t] = "asked" /\ Contract!Record(t, result)
  BY <1>1, <1>4, RecordSeen
<1>7. QED
  BY <1>1, <1>3, <1>4, <1>5, <1>6, SameRules DEF Contract!Finish

LEMMA RereadSeen ==
  ASSUME BaseInv, LockInv, RereadInv, NEW t \in Procs, RereadOrder(t)
  PROVE  phaseBar[t] = "asked" /\ Contract!RefuseToFinish(t)
<1> DEFINE order == orders[req[t].order]
<1>1. /\ pc[t] = "reread" /\ pc[t] \in TxControl /\ req[t].op \in OrderOps
      /\ ~Flippable(req[t]) /\ CommitRefusal(t, WhyNotFlipped(req[t]))
  BY DEF RereadOrder, TxControl, RereadInv
<1>2. order \in Order /\ order.status # "none"
  BY <1>1, TypeParts, RequestType DEF BaseInv, ProcsOK, TablesOK, RequestsInv
<1>3. phaseBar[t] = "asked" /\ Contract!Refuse(t, WhyNotFlipped(req[t]))
  BY <1>1, RefusalSeen
<1>4. CASE order.org # req[t].org
  BY <1>1, <1>3, <1>4, SameRules DEF WhyNotFlipped, Contract!RefuseToFinish
<1>5. CASE order.org = req[t].org
  <2>1. order.status \in {"cancelled", "fulfilled"}
    BY <1>1, <1>2, <1>5 DEF Flippable, Order, OrderStatus
  <2>2. QED
    BY <1>1, <1>3, <1>5, <2>1, SameRules DEF WhyNotFlipped, Contract!RefuseToFinish
<1>6. QED
  BY <1>4, <1>5

(* The row an adjustment acts on: the one under lock, or none.                 *)
LEMMA RowOfAdjustment ==
  ASSUME BaseInv, LockInv, NEW t \in Procs, CommitAdjustment(t)
  PROVE  LET p == req[t].lines[1].product
         IN  p \in Products /\ locked[t][p] = inventory[p]
<1> DEFINE p == req[t].lines[1].product
<1>1. req[t].op = AdjustOp /\ (InsertsRow(t) => ~inventory[p].exists) /\ p \in Products
  BY TypeParts, AdjustmentLine DEF CommitAdjustment, AllLocked, BaseInv, ProcsOK
<1>2. CASE locked[t][p].exists
  BY <1>1, <1>2 DEF LockInv, RowLocksInv
<1>3. CASE ~locked[t][p].exists
  BY <1>1, <1>3 DEF InsertsRow, BaseInv, LockedInv, RowsInv
<1>4. QED
  BY <1>1, <1>2, <1>3

LEMMA AdjustmentSeen ==
  ASSUME BaseInv, LockInv, NEW t \in Procs, CommitAdjustment(t)
  PROVE  phaseBar[t] = "asked" /\ Contract!Adjust(t)
<1> DEFINE lines == req[t].lines
           p     == lines[1].product
<1>1. /\ AllLocked(t) /\ pc[t] \in TxControl /\ req[t].op = AdjustOp
      /\ AdjustmentResult(t).status = 200 /\ WriteStock(t, lines)
      /\ Complete(t, AdjustmentResult(t)) /\ Answer(t, AdjustmentResult(t))
      /\ UNCHANGED <<orders, audit>>
  BY DEF CommitAdjustment, AllLocked, TxControl
<1>2. locked[t][p] = inventory[p]
  BY RowOfAdjustment
<1>3. AdjustmentResult(t) =
        AdjustmentOutcome(Owns(req[t].org, p), inventory[p], lines[1].quantity)
  BY <1>2 DEF AdjustmentResult
<1>4. ProductsOf(lines) = {p}
  BY <1>1, TypeParts, AdjustmentLine DEF AllLocked, BaseInv, ProcsOK
<1>5. Contract!Move(req[t], lines)
  BY <1>1, <1>2, <1>4, WriteSeen
<1>6. phaseBar[t] = "asked" /\ Contract!Record(t, AdjustmentResult(t))
  BY <1>1, RecordSeen
<1>7. Contract!AdjustmentOutcome(Contract!Owns(req[t].org, p), inventory[p],
                                 lines[1].quantity) = AdjustmentResult(t)
  <2>1. Contract!Owns(req[t].org, p) = Owns(req[t].org, p)
    BY DEF Contract!Owns, Owns
  <2>2. QED
    BY <1>3, <2>1, SameRules
<1>8. QED
  BY <1>1, <1>5, <1>6, <1>7, SameRules DEF Contract!Adjust

LEMMA RefusedAdjustmentSeen ==
  ASSUME BaseInv, LockInv, SelectInv, NEW t \in Procs, RefuseAdjustment(t)
  PROVE  phaseBar[t] = "asked" /\ Contract!RefuseAdjustment(t)
<1> DEFINE lines == req[t].lines
           p     == lines[1].product
<1>1. /\ AllLocked(t) /\ pc[t] \in TxControl /\ req[t].op = AdjustOp
      /\ AdjustmentResult(t).status # 200 /\ CommitRefusal(t, AdjustmentResult(t))
  BY DEF RefuseAdjustment, AllLocked, TxControl
<1>2. PICK stock \in Contract!Views(req[t]) :
        \A q \in ProductsOf(lines) : stock[q] = locked[t][q]
  BY <1>1, ViewAtCommit DEF OrderOps, AdjustOp, ReleaseOp, FulfillOp
<1>3. p \in ProductsOf(lines)
  <2>1. req[t] \in Requests
    BY <1>1, TypeParts DEF BaseInv, ProcsOK, AllLocked
  <2>2. ProductsOf(lines) = {p}
    BY <1>1, <2>1, AdjustmentLine
  <2> HIDE DEF p, lines
  <2>3. QED
    BY <2>2
<1>4. Contract!AdjustmentOutcome(Contract!Owns(req[t].org, p), stock[p],
                                 lines[1].quantity) = AdjustmentResult(t)
  <2>1. Contract!Owns(req[t].org, p) = Owns(req[t].org, p)
    BY DEF Contract!Owns, Owns
  <2>2. AdjustmentResult(t) =
          AdjustmentOutcome(Owns(req[t].org, p), stock[p], lines[1].quantity)
    BY <1>2, <1>3 DEF AdjustmentResult
  <2>3. QED
    BY <2>1, <2>2, SameRules
<1>5. phaseBar[t] = "asked" /\ Contract!Refuse(t, AdjustmentResult(t))
  BY <1>1, RefusalSeen
<1>6. Contract!AdjustOp = AdjustOp
  BY SameRules
<1> DEFINE result == Contract!AdjustmentOutcome(Contract!Owns(req[t].org, p), stock[p],
                                                lines[1].quantity)
<1>7. req[t].op = AdjustOp /\ result.status # 200 /\ Contract!Refuse(t, result)
  BY <1>1, <1>4, <1>5
<1>8. QED
  BY <1>2, <1>5, <1>6, <1>7 DEF Contract!RefuseAdjustment

LEMMA FailedInsertSeen ==
  ASSUME BaseInv, LockInv, SelectInv, NEW t \in Procs, FailInsert(t)
  PROVE  phaseBar[t] = "asked" /\ Contract!LoseFirstAdjustment(t)
<1> DEFINE p == req[t].lines[1].product
<1>1. /\ AllLocked(t) /\ pc[t] = "lock" /\ req[t].op = AdjustOp
      /\ AdjustmentResult(t).status = 200 /\ ~locked[t][p].exists /\ inventory[p].exists
      /\ Answer(t, Duplicate) /\ UNCHANGED database
  BY DEF FailInsert, Fail, InsertsRow, AllLocked
<1>2. Owns(req[t].org, p)
  BY <1>1, AdjustmentOwned
<1>3. p \in ProductsOf(LinesOf(req[t]))
  <2>1. LinesOf(req[t]) = req[t].lines
    BY <1>1 DEF LinesOf, OrderOps, AdjustOp, ReleaseOp, FulfillOp
  <2>2. req[t] \in Requests
    BY <1>1, TypeParts DEF BaseInv, ProcsOK
  <2>3. ProductsOf(req[t].lines) = {p}
    BY <1>1, <2>2, AdjustmentLine
  <2> HIDE DEF p
  <2>4. QED
    BY <2>1, <2>3
<1>4. p \notin need[t]
  BY <1>1, RowsAtCommit
<1>5. ~Opening[p].exists
  BY <1>1, <1>2, <1>3, <1>4 DEF SelectInv, Selected
<1>6. phaseBar[t] = "asked" /\ Contract!Answered(t, Duplicate)
  BY <1>1, AnswerSeen
<1>7. QED
  BY <1>1, <1>5, <1>6, SameRules DEF Contract!LoseFirstAdjustment, Contract!database, database

LEMMA ResolveSeen ==
  ASSUME BaseInv, ClaimLoserFindsWinner, NEW t \in Procs, Resolve(t)
  PROVE  phaseBar[t] = "asked" /\ Contract!Replay(t)
<1> DEFINE k == CHOOSE k \in RecordedUnder(Scope(req[t])) : TRUE
<1>1. pc[t] = "resolve" /\ Answer(t, Resolution(req[t])) /\ UNCHANGED database
  BY DEF Resolve
<1>2. RecordedUnder(Scope(req[t])) # {}
  BY <1>1 DEF ClaimLoserFindsWinner
<1>3. k \in RecordedUnder(Scope(req[t]))
  BY <1>2
<1>4. k \in keys /\ k.scope = Scope(req[t])
  BY <1>3 DEF RecordedUnder
<1>5. Resolution(req[t]) =
        IF k.fingerprint = Fingerprint(req[t]) THEN k.outcome ELSE KeyReused
  BY <1>2 DEF Resolution
<1> HIDE DEF k
<1>6. phaseBar[t] = "asked" /\ Contract!Answered(t, Resolution(req[t]))
  BY <1>1, AnswerSeen
<1>7. QED
  BY <1>1, <1>4, <1>5, <1>6, SameRules DEF Contract!Replay, Contract!database, database

LEMMA SendSeen ==
  ASSUME BaseInv, NEW t \in Procs, NEW r \in Requests, Send(t, r)
  PROVE  Contract!Ask(t, r) \/ Contract!AskInVain(t, r)
<1>1. phaseBar[t] = "idle"
  BY PhaseNow DEF Send, Phase
<1>2. CASE BadRequest(r)
  <2>1. phaseBar' = [phaseBar EXCEPT ![t] = "answered"]
    BY <1>2, PhaseAfter DEF Send, Phase
  <2>2. QED
    BY <1>1, <1>2, <2>1, SameRules DEF Send, Contract!AskInVain, Contract!database, database
<1>3. CASE ~BadRequest(r)
  <2>1. phaseBar' = [phaseBar EXCEPT ![t] = "asked"]
    BY <1>3, PhaseAfter DEF Send, Phase
  <2>2. QED
    BY <1>1, <1>3, <2>1, SameRules DEF Send, Contract!Ask, Contract!database, database
<1>4. QED
  BY <1>2, <1>3

LEMMA LeaveSeen ==
  ASSUME BaseInv, NEW t \in Procs, pc[t] # "idle", Leave(t)
  PROVE  Contract!Leave(t)
<1>1. phaseBar[t] # "idle" /\ phaseBar' = [phaseBar EXCEPT ![t] = "idle"]
  BY PhaseAfter, PhaseNow DEF Leave, Phase
<1>2. QED
  BY <1>1 DEF Leave, Contract!Leave, Contract!database, database

LEMMA StatementSeen ==
  ASSUME BaseInv, NEW t \in Procs,
         Claim(t) \/ UpdateOrder(t) \/ SelectRows(t) \/ LockRow(t)
  PROVE  UNCHANGED Contract!vars
<1>1. CASE Claim(t) \/ UpdateOrder(t) \/ SelectRows(t)
  <2>1. /\ Phase(pc[t]) = "asked"
        /\ \E c : Phase(c) = "asked" /\ pc' = [pc EXCEPT ![t] = c]
        /\ UNCHANGED <<database, req, outcome>>
    <3>1. Phase("resolve") = "asked" /\ Phase("update") = "asked"
          /\ Phase("select") = "asked" /\ Phase("reread") = "asked"
          /\ Phase("lock") = "asked" /\ Phase("claim") = "asked"
      BY DEF Phase
    <3>2. QED
      BY <1>1, <3>1 DEF Claim, UpdateOrder, SelectRows
  <2>2. QED
    BY <2>1, UnseenStep
<1>2. CASE LockRow(t)
  BY <1>2 DEF LockRow, Contract!vars, phaseBar, database
<1>3. QED
  BY <1>1, <1>2

LEMMA ContractStep ==
  ASSUME BaseInv, LockInv, SelectInv, RereadInv, HeldInv, NoOversell,
         ClaimLoserFindsWinner, [Next]_vars
  PROVE  [Contract!Next]_(Contract!vars)
<1>1. ASSUME NEW t \in Procs, phaseBar[t] = "asked" /\ Contract!Effect(t)
      PROVE  Contract!Next
  BY <1>1 DEF Contract!Next
<1>2. ASSUME NEW t \in Procs,
             \/ Resolve(t) \/ RereadOrder(t)
             \/ RefuseReservation(t) \/ CommitReservation(t) \/ FinishOrder(t)
             \/ RefuseAdjustment(t) \/ CommitAdjustment(t) \/ FailInsert(t)
      PROVE  Contract!Next
  BY <1>1, <1>2, ResolveSeen, RereadSeen, RefusedReservationSeen, ReservationSeen,
     FinishSeen, RefusedAdjustmentSeen, AdjustmentSeen, FailedInsertSeen
     DEF Contract!Effect
<1>3. ASSUME NEW t \in Procs, NEW r \in Requests, Send(t, r)
      PROVE  Contract!Next
  BY <1>3, SendSeen DEF Contract!Next
<1>4. ASSUME NEW t \in Procs, Reply(t) \/ Crash(t)
      PROVE  Contract!Next
  BY <1>4, LeaveSeen DEF Reply, Crash, Contract!Next
<1>5. CASE UNCHANGED vars
  BY <1>5 DEF vars, Contract!vars, phaseBar
<1>6. QED
  BY <1>2, <1>3, <1>4, <1>5, StatementSeen DEF Next, Statement

LEMMA ContractInit == Init => Contract!Init
  BY SameRules DEF Init, Contract!Init, phaseBar

LEMMA RereadKept == Spec => []RereadInv
<1>1. Init => RereadInv
  BY DEF Init, RereadInv
<1>2. QED
  BY <1>1, RereadNext, BaseInvariant, LocksExclude, PTL DEF Spec

(* Locks, statements and their interleavings cannot be seen from outside: the  *)
(* requests behave as if each took effect at one instant, with its idempotency *)
(* row, on the whole database (ReservationsService, InventoryService).         *)
THEOREM EngineImplementsContract == Spec => ImplementsContract
<1>1. Init => Contract!Init
  BY ContractInit
<1>2. /\ BaseInv /\ LockInv /\ SelectInv /\ RereadInv /\ HeldInv /\ NoOversell
      /\ ClaimLoserFindsWinner /\ [Next]_vars
      => [Contract!Next]_(Contract!vars)
  BY ContractStep
<1>3. QED
  BY <1>1, <1>2, BaseInvariant, LocksExclude, SelectKept, RereadKept, HeldKept,
     NeverOversold, LosersFindWinners, PTL
     DEF Spec, ImplementsContract, Contract!Spec
===============================================================================
