------------------------------ MODULE StockEngine ------------------------------
(***************************************************************************)
(* The API's stock-changing requests as concurrent database transactions.  *)
(* Each process is one request attempt: a handler of ReservationsService   *)
(* or of InventoryService.adjustStock.  Its statements interleave with     *)
(* those of the other attempts; a statement that needs a row (or a unique  *)
(* index entry) another open transaction has written waits for it.         *)
(*                                                                         *)
(* A transaction's own writes stay invisible until it commits, so the      *)
(* statements between its last lock and its COMMIT (the UPDATEs, INSERTs   *)
(* and completeIdempotencyKey), which wait for nobody, are one step.  They *)
(* write values computed from the rows as they were read when locked.      *)
(*                                                                         *)
(* Operators named Faulty_... are variants with one plausible mistake.  No *)
(* action uses them: they show that the properties can fail.               *)
(***************************************************************************)
EXTENDS StockRules

CONSTANTS
  Procs,         \* request attempts running at once
  NoRequest,     \* the request of an idle process
  NoOutcome      \* the outcome of a process that has none yet

ASSUME NoRequestAssumption == NoRequest \notin Requests
ASSUME NoOutcomeAssumption ==
  NoOutcome \notin {Broken, Outcome(409, <<"already", "pending">>)}

VARIABLES
  inventory,     \* inventory: the committed row of each product
  orders,        \* orders with their order_items
  keys,          \* idempotency_keys: the rows of committed claims
  ledger,        \* inventory_movements: total quantity per product and type
  audit,         \* audit_log: number of rows per order and action
  pc,            \* the statement each process is about to issue
  req,           \* the request it serves
  need,          \* the inventory rows its locking SELECT returns
  locked,        \* those rows, as read when their locks were granted
  outcome        \* what it answers

database == <<inventory, orders, keys, ledger, audit>>
vars     == <<inventory, orders, keys, ledger, audit, pc, req, need, locked, outcome>>

Control == {"idle", "claim", "update", "reread", "select", "lock", "resolve", "reply"}

NothingLocked == [p \in Products |-> Absent]

Init ==
  /\ inventory = Opening
  /\ orders    = [o \in OrderIds |-> NoSuchOrder]
  /\ keys      = {}
  /\ ledger    = [p \in Products |-> [m \in MovementTypes |-> 0]]
  /\ audit     = [o \in OrderIds |-> [a \in AuditActions |-> 0]]
  /\ pc        = [t \in Procs |-> "idle"]
  /\ req       = [t \in Procs |-> NoRequest]
  /\ need      = [t \in Procs |-> {}]
  /\ locked    = [t \in Procs |-> NothingLocked]
  /\ outcome   = [t \in Procs |-> NoOutcome]

-------------------------------------------------------------------------------
(* Who holds what.  A lock is held from the statement that takes it until the  *)
(* transaction commits or rolls back.                                          *)

(* Faulty: no unique index, so an uncommitted claim hides from the others.     *)
Faulty_ClaimsDoNotBlock(t, s) == t \notin Procs /\ s = Scope(req[t])

HoldsKey(t, s) ==
  /\ pc[t] \in {"update", "reread", "select", "lock"}
  /\ Scope(req[t]) = s

HoldsOrder(t, o) ==
  /\ pc[t] \in {"select", "lock"}
  /\ req[t].op \in OrderOps
  /\ req[t].order = o

Held(t) == {p \in Products : locked[t][p].exists}

(* Faulty: a plain SELECT, without FOR UPDATE.                                 *)
Faulty_RowNeverBusy(t, p) == t \in Procs /\ p \notin Products

RowBusy(t, p) == \E u \in Procs \ {t} : p \in Held(u)

-------------------------------------------------------------------------------
(* The ends of a request.                                                      *)

(* Faulty: the answer goes out while the transaction is still open.            *)
Faulty_KeepsLocks(t, result) ==
  /\ pc'      = [pc EXCEPT ![t] = "reply"]
  /\ outcome' = [outcome EXCEPT ![t] = result]
  /\ UNCHANGED <<req, need, locked>>

(* The transaction is over, committed or rolled back, and the answer known.    *)
Answer(t, result) ==
  /\ pc'      = [pc EXCEPT ![t] = "reply"]
  /\ outcome' = [outcome EXCEPT ![t] = result]
  /\ need'    = [need EXCEPT ![t] = {}]
  /\ locked'  = [locked EXCEPT ![t] = NothingLocked]
  /\ UNCHANGED req

Leave(t) ==
  /\ pc'      = [pc EXCEPT ![t] = "idle"]
  /\ req'     = [req EXCEPT ![t] = NoRequest]
  /\ outcome' = [outcome EXCEPT ![t] = NoOutcome]
  /\ need'    = [need EXCEPT ![t] = {}]
  /\ locked'  = [locked EXCEPT ![t] = NothingLocked]
  /\ UNCHANGED database

(* completeIdempotencyKey, the last statement before COMMIT.                   *)
Complete(t, result) ==
  keys' = keys \cup {[scope |-> Scope(req[t]),
                      fingerprint |-> Fingerprint(req[t]),
                      outcome |-> result]}

(* Faulty: a rejection throws, and rolls the idempotency row back with it.     *)
Faulty_RefusalRollsBack(t, result) ==
  /\ Answer(t, result)
  /\ UNCHANGED database

(* A business rejection commits: nothing but the idempotency row is written.   *)
CommitRefusal(t, result) ==
  /\ Complete(t, result)
  /\ Answer(t, result)
  /\ UNCHANGED <<inventory, orders, ledger, audit>>

(* The handler threw: rolled back and answered 500, or refused before it began. *)
Fail(t, result) ==
  /\ Answer(t, result)
  /\ UNCHANGED database

-------------------------------------------------------------------------------
(* One action per statement.                                                   *)

(* A client sends a request, perhaps one it or another client sent before with *)
(* the same key.  An order's id is known only once the order is committed.     *)
(* createReservation validates the lines before it opens the transaction.      *)
Send(t, r) ==
  /\ pc[t] = "idle"
  /\ r.op \in OrderOps => orders[r.order].status # "none"
  /\ req' = [req EXCEPT ![t] = r]
  /\ IF BadRequest(r)
       THEN /\ pc' = [pc EXCEPT ![t] = "reply"]
            /\ outcome' = [outcome EXCEPT ![t] = Refused]
       ELSE /\ pc' = [pc EXCEPT ![t] = "claim"]
            /\ UNCHANGED outcome
  /\ UNCHANGED <<database, need, locked>>

(* Faulty: a pending claim raises the conflict at once, as a separate check of *)
(* the table would.                                                            *)
Faulty_ConflictWithoutWaiting(t) ==
  /\ pc[t] = "claim"
  /\ pc' = [pc EXCEPT ![t] =
              IF \/ \E u \in Procs \ {t} : HoldsKey(u, Scope(req[t]))
                 \/ \E k \in keys : k.scope = Scope(req[t]) THEN "resolve"
              ELSE IF req[t].op \in OrderOps THEN "update" ELSE "select"]
  /\ UNCHANGED <<database, req, need, locked, outcome>>

(* claimIdempotencyKey: the INSERT waits for an open transaction with the same *)
(* entry in the unique index, then succeeds or raises the unique violation     *)
(* that rolls this transaction back.                                           *)
Claim(t) ==
  /\ pc[t] = "claim"
  /\ \A u \in Procs \ {t} : ~HoldsKey(u, Scope(req[t]))
  /\ pc' = [pc EXCEPT ![t] =
              IF \E k \in keys : k.scope = Scope(req[t]) THEN "resolve"
              ELSE IF req[t].op \in OrderOps THEN "update" ELSE "select"]
  /\ UNCHANGED <<database, req, need, locked, outcome>>

(* resolveIdempotencyConflict, on a fresh connection after the rollback.       *)
RecordedUnder(s) == {k \in keys : k.scope = s}

Faulty_ReplayAnyPayload(r) ==
  IF RecordedUnder(Scope(r)) = {} THEN KeyLost
  ELSE (CHOOSE k \in RecordedUnder(Scope(r)) : TRUE).outcome

Resolution(r) ==
  IF RecordedUnder(Scope(r)) = {} THEN KeyLost
  ELSE LET k == CHOOSE k \in RecordedUnder(Scope(r)) : TRUE
       IN  IF k.fingerprint = Fingerprint(r) THEN k.outcome ELSE KeyReused

Resolve(t) ==
  /\ pc[t] = "resolve"
  /\ Answer(t, Resolution(req[t]))
  /\ UNCHANGED database

(* UPDATE orders ... WHERE id, organization and status = 'pending'.  While     *)
(* another open transaction has flipped the row the statement waits, and then  *)
(* tests the condition again on the row as that transaction left it.           *)
Faulty_AnyStatus(r) ==
  orders[r.order].org = r.org /\ orders[r.order].status # "none"

Flippable(r) == orders[r.order].org = r.org /\ orders[r.order].status = "pending"

Faulty_SkipLockedOrder(t) ==
  /\ pc[t] = "update"
  /\ pc' = [pc EXCEPT ![t] =
              IF /\ Flippable(req[t])
                 /\ \A u \in Procs \ {t} : ~HoldsOrder(u, req[t].order)
              THEN "select" ELSE "reread"]
  /\ UNCHANGED <<database, req, need, locked, outcome>>

UpdateOrder(t) ==
  /\ pc[t] = "update"
  /\ Flippable(req[t]) => \A u \in Procs \ {t} : ~HoldsOrder(u, req[t].order)
  /\ pc' = [pc EXCEPT ![t] = IF Flippable(req[t]) THEN "select" ELSE "reread"]
  /\ UNCHANGED <<database, req, need, locked, outcome>>

(* No row was flipped: a second SELECT finds out why.                          *)
WhyNotFlipped(r) ==
  IF orders[r.order].org = r.org
  THEN Outcome(409, <<"already", orders[r.order].status>>)
  ELSE Outcome(404, <<"not found">>)

RereadOrder(t) ==
  /\ pc[t] = "reread"
  /\ CommitRefusal(t, WhyNotFlipped(req[t]))

(* The lines the transaction works on: those of the request, or of the order.  *)
LinesOf(r) == IF r.op \in OrderOps THEN orders[r.order].lines ELSE r.lines

(* SELECT ... FOR UPDATE: which rows it returns is settled when it starts; a   *)
(* row inserted afterwards is not among them.                                  *)
SelectRows(t) ==
  /\ pc[t] = "select"
  /\ need' = [need EXCEPT ![t] = {p \in ProductsOf(LinesOf(req[t])) :
                                    Owns(req[t].org, p) /\ inventory[p].exists}]
  /\ pc' = [pc EXCEPT ![t] = "lock"]
  /\ UNCHANGED <<database, req, locked, outcome>>

(* The rows are locked one at a time, in ascending product id; each is read as *)
(* it is when its lock is granted.                                             *)
Missing(t) == need[t] \ Held(t)

Faulty_RequestOrder(t) ==
  LET lines == LinesOf(req[t])
      i == CHOOSE i \in DOMAIN lines :
             /\ lines[i].product \in Missing(t)
             /\ \A j \in 1..(i - 1) : lines[j].product \notin Missing(t)
  IN  lines[i].product

NextRow(t) == CHOOSE p \in Missing(t) : \A q \in Missing(t) : p <= q

LockRow(t) ==
  /\ pc[t] = "lock"
  /\ Missing(t) # {}
  /\ ~RowBusy(t, NextRow(t))
  /\ locked' = [locked EXCEPT ![t][NextRow(t)] = inventory[NextRow(t)]]
  /\ UNCHANGED <<database, pc, req, need, outcome>>

AllLocked(t) == pc[t] = "lock" /\ Missing(t) = {}

(* The UPDATEs of inventory and the INSERTs of movements, one per line; a      *)
(* product has one line, duplicates having been refused.                       *)
WriteStock(t, lines) ==
  LET op == req[t].op
  IN  /\ inventory' = [p \in Products |->
            IF p \in ProductsOf(lines)
            THEN Written(op, inventory[p], locked[t][p], Quantity(lines, p))
            ELSE inventory[p]]
      /\ ledger' = [p \in Products |->
            IF p \in ProductsOf(lines)
            THEN [ledger[p] EXCEPT ![MovementType(op)] = @ + Quantity(lines, p)]
            ELSE ledger[p]]

(* reserveStock, from the shortfall test on.                                   *)
RefuseReservation(t) ==
  /\ AllLocked(t) /\ req[t].op = CreateOp
  /\ ShortLines(req[t].lines, locked[t]) # {}
  /\ CommitRefusal(t, ShortfallReply(req[t].lines, locked[t]))

CommitReservation(t) ==
  /\ AllLocked(t) /\ req[t].op = CreateOp
  /\ ShortLines(req[t].lines, locked[t]) = {}
  /\ WriteStock(t, req[t].lines)
  /\ \E o \in OrderIds :
       /\ orders[o].status = "none"
       /\ orders' = [orders EXCEPT ![o] = [status |-> "pending", org |-> req[t].org,
                                           lines |-> req[t].lines]]
       /\ audit' = [audit EXCEPT ![o][CreateOp] = @ + 1]
       /\ LET result == Outcome(201, <<"created", o>>)
          IN  Complete(t, result) /\ Answer(t, result)

(* releaseStock and fulfillStock, once the rows are locked: they throw         *)
(* "Invariant violated" when a row no longer holds the order's quantities.     *)
ConsumeStock(t) ==
  LET r      == req[t]
      result == Outcome(200, <<StatusAfter(r.op), r.order>>)
  IN  /\ WriteStock(t, LinesOf(r))
      /\ orders' = [orders EXCEPT ![r.order].status = StatusAfter(r.op)]
      /\ audit' = [audit EXCEPT ![r.order][r.op] = @ + 1]
      /\ Complete(t, result) /\ Answer(t, result)

FinishOrder(t) ==
  /\ AllLocked(t) /\ req[t].op \in OrderOps
  /\ IF CannotConsume(req[t].op, LinesOf(req[t]), locked[t])
       THEN Fail(t, Broken) ELSE ConsumeStock(t)

(* applyAdjustment.  With no row to lock it INSERTs one, and fails on the      *)
(* unique index if another transaction committed one since its SELECT.         *)
AdjustmentResult(t) ==
  LET line == req[t].lines[1]
  IN  AdjustmentOutcome(Owns(req[t].org, line.product), locked[t][line.product],
                        line.quantity)

InsertsRow(t) == ~locked[t][req[t].lines[1].product].exists

RefuseAdjustment(t) ==
  /\ AllLocked(t) /\ req[t].op = AdjustOp
  /\ AdjustmentResult(t).status # 200
  /\ CommitRefusal(t, AdjustmentResult(t))

CommitAdjustment(t) ==
  /\ AllLocked(t) /\ req[t].op = AdjustOp
  /\ AdjustmentResult(t).status = 200
  /\ InsertsRow(t) => ~inventory[req[t].lines[1].product].exists
  /\ WriteStock(t, req[t].lines)
  /\ Complete(t, AdjustmentResult(t)) /\ Answer(t, AdjustmentResult(t))
  /\ UNCHANGED <<orders, audit>>

FailInsert(t) ==
  /\ AllLocked(t) /\ req[t].op = AdjustOp
  /\ AdjustmentResult(t).status = 200
  /\ InsertsRow(t) /\ inventory[req[t].lines[1].product].exists
  /\ Fail(t, Duplicate)

(* The response reaches the client, or is lost on the way.                     *)
Reply(t) ==
  /\ pc[t] = "reply"
  /\ Leave(t)

(* The process or its connection dies before COMMIT: PostgreSQL rolls back and *)
(* the client hears nothing.                                                   *)
Crash(t) ==
  /\ pc[t] \notin {"idle", "reply"}
  /\ Leave(t)

Statement(t) ==
  \/ Claim(t) \/ Resolve(t)
  \/ UpdateOrder(t) \/ RereadOrder(t)
  \/ SelectRows(t) \/ LockRow(t)
  \/ RefuseReservation(t) \/ CommitReservation(t)
  \/ FinishOrder(t)
  \/ RefuseAdjustment(t) \/ CommitAdjustment(t) \/ FailInsert(t)

Next ==
  \E t \in Procs :
    \/ \E r \in Requests : Send(t, r)
    \/ Statement(t)
    \/ Reply(t)
    \/ Crash(t)

Spec == Init /\ [][Next]_vars

(* PostgreSQL runs every statement it can and grants a contended lock to its   *)
(* waiters in turn; the server answers.  Clients need not send anything, and   *)
(* nothing needs to crash.                                                     *)
Fairness ==
  \A t \in Procs : SF_vars(Statement(t)) /\ WF_vars(Reply(t))

FairSpec == Spec /\ Fairness

-------------------------------------------------------------------------------
(* Properties.                                                                 *)

(* Every variable has its type, that of its table in database/schema; a        *)
(* process that serves a request has one, and holds rows only while locking.   *)
TypeOK ==
  /\ inventory \in [Products -> Row]
  /\ orders \in [OrderIds -> Order]
  /\ \A k \in keys : k.scope \in Orgs \X Ops \X Keys
  /\ ledger \in [Products -> [MovementTypes -> Int]]
  /\ audit \in [OrderIds -> [AuditActions -> Nat]]
  /\ pc \in [Procs -> Control]
  /\ req \in [Procs -> Requests \cup {NoRequest}]
  /\ \A t \in Procs : pc[t] # "idle" => req[t] \in Requests
  /\ need \in [Procs -> SUBSET Products]
  /\ locked \in [Procs -> [Products -> Row]]
  /\ \A t \in Procs : pc[t] # "lock" => need[t] = {} /\ locked[t] = NothingLocked

(* What the CHECK constraints of inventory.schema.ts promise, established by   *)
(* the handlers alone: stock is never oversold, negative or out of range.      *)
NoOversell ==
  \A p \in Products :
    /\ 0 <= inventory[p].reserved
    /\ inventory[p].reserved <= inventory[p].onHand
    /\ inventory[p].onHand <= Int4Max
    /\ ~inventory[p].exists => inventory[p] = Absent

(* The units of product p that pending orders hold, an element for each unit.  *)
LineNumbers == UNION {DOMAIN orders[o].lines : o \in OrderIds}

HeldUnits(p) ==
  {u \in [order : OrderIds, line : LineNumbers, unit : 1..Int4Max] :
     /\ orders[u.order].status = "pending"
     /\ u.line \in DOMAIN orders[u.order].lines
     /\ orders[u.order].lines[u.line].product = p
     /\ u.unit <= orders[u.order].lines[u.line].quantity}

(* The reserved counter of a product is exactly what its pending orders hold:  *)
(* no reservation is lost, counted twice or left behind by its order, whatever *)
(* the interleaving of reserveStock, releaseStock, fulfillStock and crashes.   *)
ReservedIsHeld ==
  \A p \in Products : inventory[p].reserved = Cardinality(HeldUnits(p))

(* inventory_movements accounts for both counters from the opening stock on:   *)
(* a lost update of a row would leave the movements behind.                    *)
LedgerExplainsStock ==
  \A p \in Products :
    LET sum == ledger[p]
    IN  /\ inventory[p].onHand =
             Opening[p].onHand + sum["on_hand_adjustment"] - sum["fulfillment"]
        /\ inventory[p].reserved =
             sum["reservation"] - sum["release"] - sum["fulfillment"]

(* The audit log shows each order created once and finished at most once, the  *)
(* way its status says: cancel and fulfil can race, only one of them wins.     *)
OneTransitionPerOrder ==
  \A o \in OrderIds :
    LET Once(b) == IF b THEN 1 ELSE 0
    IN  /\ audit[o][CreateOp]  = Once(orders[o].status # "none")
        /\ audit[o][ReleaseOp] = Once(orders[o].status = "cancelled")
        /\ audit[o][FulfillOp] = Once(orders[o].status = "fulfilled")

(* The "Invariant violated" throws of releaseStock and fulfillStock never      *)
(* happen: a pending order's units are still there when its rows are locked.   *)
NeverBroken == \A t \in Procs : outcome[t] # Broken

(* A cancel or fulfil that is turned down names the transition that beat it:   *)
(* the UPDATE and the SELECT after it can not disagree.                        *)
RefusalNamesTheWinner ==
  \A t \in Procs :
    outcome[t] # Outcome(409, <<"already", "pending">>)

(* At most one request of a (organization, operation, key) takes effect, with  *)
(* every attempt of every client counted.                                      *)
OneOutcomePerKey ==
  \A j, k \in keys : j.scope = k.scope => j = k

(* Every answer but a refusal in advance or an error is the recorded outcome   *)
(* of its key, or says that the key was used for something else: a retry is    *)
(* told what the first attempt was told.                                       *)
AnswersAreRecorded ==
  \A t \in Procs :
    pc[t] = "reply" /\ outcome[t].status \notin {400, 500} =>
      \E k \in keys :
        /\ k.scope = Scope(req[t])
        /\ outcome[t] = IF k.fingerprint = Fingerprint(req[t])
                        THEN k.outcome ELSE KeyReused

(* The request that loses a claim always finds the winner's row: the branch of *)
(* resolveIdempotencyConflict for a missing row is dead.                       *)
ClaimLoserFindsWinner ==
  \A t \in Procs : pc[t] = "resolve" => RecordedUnder(Scope(req[t])) # {}

(* Who waits for whom: on a claim, on an order row, on an inventory row.       *)
WaitsFor(t, u) ==
  /\ t # u
  /\ \/ pc[t] = "claim" /\ HoldsKey(u, Scope(req[t]))
     \/ pc[t] = "update" /\ Flippable(req[t]) /\ HoldsOrder(u, req[t].order)
     \/ pc[t] = "lock" /\ Missing(t) # {} /\ NextRow(t) \in Held(u)

(* No deadlock: among any transactions there is one that waits for none of     *)
(* them (docs/architecture/inventory.md, lock order).                          *)
NoWaitCycle ==
  \A S \in SUBSET Procs :
    S # {} => \E t \in S : \A u \in S : ~WaitsFor(t, u)

(* Only the transaction of a request of the owning organization changes a      *)
(* row, and an order only ever holds its organization's products.              *)
Commits(t) == AllLocked(t) /\ pc'[t] = "reply"

TenantIsolation ==
  [][/\ \A p \in Products : inventory'[p] # inventory[p] =>
          \E t \in Procs : Commits(t) /\ req[t].org = ProductOrg[p]
     /\ \A o \in OrderIds : orders'[o] # orders[o] =>
          \E t \in Procs : Commits(t) /\ req[t].org = orders'[o].org]_vars

(* A finished order never changes again, a pending one only in its status, and *)
(* no recorded outcome is ever rewritten or dropped.                           *)
HistoryIsFinal ==
  [][/\ \A o \in OrderIds :
          /\ orders[o].status \in {"cancelled", "fulfilled"} => orders'[o] = orders[o]
          /\ orders[o].status = "pending" =>
               orders'[o] \in {[orders[o] EXCEPT !.status = s] :
                                 s \in {"pending", "cancelled", "fulfilled"}}
     /\ keys \subseteq keys']_vars

(* Every request that is not killed is answered: no transaction waits forever. *)
EveryRequestEnds ==
  \A t \in Procs : pc[t] # "idle" ~> pc[t] = "idle"
===============================================================================
