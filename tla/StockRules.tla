------------------------------ MODULE StockRules ------------------------------
(***************************************************************************)
(* The vocabulary of the stock-changing requests of the API and the rules  *)
(* they obey: what a request is, when it is refused before any             *)
(* transaction, what its transaction decides from the rows it read, and    *)
(* what it writes.  StockEngine applies these rules to rows read under     *)
(* locks, statement by statement; StockContract applies them to the whole  *)
(* database in one step.                                                   *)
(***************************************************************************)
EXTENDS Integers, Sequences, FiniteSets

CONSTANTS
  Orgs,          \* organizations (tenants)
  Products,      \* product ids: integers, ordered as PostgreSQL orders UUIDs
  ProductOrg,    \* the organization that owns each product
  OrderIds,      \* the ids gen_random_uuid() can hand out
  NoOrder,       \* the order field of a request that names no order
  NoOrg,         \* the organization of an order that does not exist yet
  Keys,          \* Idempotency-Key header values
  Int4Max,       \* PG_INT4_MAX, scaled down
  Opening,       \* the inventory rows the history starts from
  Requests       \* the requests the clients may send

-------------------------------------------------------------------------------
(* Requests.  "lines" holds the items of a reservation; an adjustment is one   *)
(* line whose quantity is the signed delta.                                    *)

CreateOp  == "reservation.create"
ReleaseOp == "reservation.release"
FulfillOp == "order.fulfill"
AdjustOp  == "inventory.adjust"

Ops == {CreateOp, ReleaseOp, FulfillOp, AdjustOp}

OrderOps == {ReleaseOp, FulfillOp}

Line == [product : Products, quantity : (-Int4Max - 1)..Int4Max]

Request == [op : Ops, org : Orgs, key : Keys, lines : Seq(Line),
            order : OrderIds \cup {NoOrder}]

(* The data-transfer objects and the route parameters admit: at least one item *)
(* with a positive quantity; exactly one non-zero delta; a well-formed id.     *)
WellFormed(r) ==
  /\ r.op = CreateOp => /\ Len(r.lines) > 0
                        /\ \A i \in DOMAIN r.lines : r.lines[i].quantity > 0
  /\ r.op = AdjustOp => Len(r.lines) = 1 /\ r.lines[1].quantity # 0
  /\ r.op \in OrderOps <=> r.order \in OrderIds
  /\ r.op \in OrderOps => r.lines = <<>>

(* The unique constraint of idempotency_keys, and the request fingerprint: a   *)
(* SHA-256 of the canonical body, taken to be collision-free.                  *)
Scope(r)       == <<r.org, r.op, r.key>>
Fingerprint(r) == <<r.lines, r.order>>

-------------------------------------------------------------------------------
(* Rows.  A product without an inventory row reads as Absent: nothing on hand. *)

Row     == [exists : BOOLEAN, onHand : Int, reserved : Int]
Absent  == [exists |-> FALSE, onHand |-> 0, reserved |-> 0]

OrderStatus == {"none", "pending", "cancelled", "fulfilled"}
Order   == [status : OrderStatus, org : Orgs \cup {NoOrg}, lines : Seq(Line)]
NoSuchOrder == [status |-> "none", org |-> NoOrg, lines |-> <<>>]

MovementTypes == {"on_hand_adjustment", "reservation", "release", "fulfillment"}
AuditActions  == {CreateOp, ReleaseOp, FulfillOp}

ASSUME ProductsAssumption == Products \subseteq Nat /\ IsFiniteSet(Products)
ASSUME OwnersAssumption   == ProductOrg \in [Products -> Orgs] /\ NoOrg \notin Orgs
ASSUME OrderIdsAssumption == NoOrder \notin OrderIds /\ IsFiniteSet(OrderIds)
ASSUME Int4Assumption     == Int4Max \in Nat
ASSUME RequestsAssumption == /\ Requests \subseteq Request
                             /\ \A r \in Requests : WellFormed(r)
ASSUME OpeningAssumption  ==
  /\ Opening \in [Products -> Row]
  /\ \A p \in Products : /\ Opening[p].reserved = 0
                         /\ Opening[p].onHand \in 0..Int4Max
                         /\ ~Opening[p].exists => Opening[p] = Absent

-------------------------------------------------------------------------------
(* Helpers on lines.                                                           *)

ProductsOf(lines) == {lines[i].product : i \in DOMAIN lines}

(* Each item's UPDATE sets the counter from the value read under the lock, not *)
(* from the row as the previous item left it: the last line of a product wins. *)
LastLine(lines, p) ==
  CHOOSE i \in DOMAIN lines :
    /\ lines[i].product = p
    /\ \A j \in DOMAIN lines : lines[j].product = p => j <= i

Quantity(lines, p) == lines[LastLine(lines, p)].quantity

(* Faulty: the rejection of duplicate lines left out.                          *)
Faulty_NoDuplicateCheck(lines) == FALSE

HasDuplicateLines(lines) ==
  \E i, j \in DOMAIN lines : i # j /\ lines[i].product = lines[j].product

(* Faulty: the tenant condition left out.                                      *)
Faulty_AnyOrg(org, p) == org \in Orgs /\ p \in Products

(* The tenant condition every lookup of a product or an inventory row carries. *)
Owns(org, p) == ProductOrg[p] = org

ForeignProduct(r) == \E p \in ProductsOf(r.lines) : ~Owns(r.org, p)

(* createReservation refuses these before it opens a transaction.              *)
BadRequest(r) ==
  r.op = CreateOp /\ (HasDuplicateLines(r.lines) \/ ForeignProduct(r))

-------------------------------------------------------------------------------
(* What the transaction decides.  "stock" maps a product to the row as it was  *)
(* read under its lock, Absent where the locking SELECT returned no row.       *)

Outcome(status, body) == [status |-> status, body |-> body]

Refused    == Outcome(400, <<"bad request">>)
KeyReused  == Outcome(409, <<"different payload">>)
KeyLost    == Outcome(409, <<"claimed by a request that did not complete">>)
Broken     == Outcome(500, <<"invariant violated">>)
Duplicate  == Outcome(500, <<"inventory_product_id_key">>)

Available(row) == row.onHand - row.reserved

ShortLines(lines, stock) ==
  {i \in DOMAIN lines : Available(stock[lines[i].product]) < lines[i].quantity}

ShortfallReply(lines, stock) ==
  Outcome(409, <<"shortfall", {<<lines[i].product, Available(stock[lines[i].product])>> :
                                 i \in ShortLines(lines, stock)}>>)

(* applyAdjustment's decision for a delta d, its checks in their order.        *)
Faulty_AdjustBelowReserved(owned, row, d) ==
  IF ~owned THEN Outcome(404, <<"no product">>)
  ELSE IF ~row.exists /\ d < 0 THEN Outcome(409, <<"no inventory row">>)
  ELSE IF row.onHand + d < 0 THEN Outcome(409, <<"negative", row.onHand>>)
  ELSE IF row.onHand + d > Int4Max THEN Outcome(422, <<"overflow">>)
  ELSE Outcome(200, <<"adjusted", row.onHand + d, row.reserved>>)

AdjustmentOutcome(owned, row, d) ==
  IF ~owned THEN Outcome(404, <<"no product">>)
  ELSE IF ~row.exists /\ d < 0 THEN Outcome(409, <<"no inventory row">>)
  ELSE IF row.onHand + d < 0 THEN Outcome(409, <<"negative", row.onHand>>)
  ELSE IF row.onHand + d < row.reserved
       THEN Outcome(409, <<"below reserved", row.onHand, row.reserved>>)
  ELSE IF row.onHand + d > Int4Max THEN Outcome(422, <<"overflow">>)
  ELSE Outcome(200, <<"adjusted", row.onHand + d, row.reserved>>)

(* The rows a transition of an order consumes must still hold the quantities.  *)
CannotConsume(op, lines, stock) ==
  \E i \in DOMAIN lines :
    LET row == stock[lines[i].product]
    IN  \/ ~row.exists
        \/ row.reserved < lines[i].quantity
        \/ op = FulfillOp /\ row.onHand < lines[i].quantity

-------------------------------------------------------------------------------
(* What the transaction writes.                                                *)

(* An UPDATE sets the columns its operation is about, from the row as it was   *)
(* read when locked ("read"), and leaves the rest of the row as it is.         *)
Written(op, row, read, q) ==
  CASE op = CreateOp  -> [row EXCEPT !.reserved = read.reserved + q]
    [] op = ReleaseOp -> [row EXCEPT !.reserved = read.reserved - q]
    [] op = FulfillOp -> [exists |-> row.exists, onHand |-> read.onHand - q,
                          reserved |-> read.reserved - q]
    [] op = AdjustOp  -> [exists |-> TRUE, onHand |-> read.onHand + q,
                          reserved |-> row.reserved]

MovementType(op) ==
  CASE op = CreateOp  -> "reservation"
    [] op = ReleaseOp -> "release"
    [] op = FulfillOp -> "fulfillment"
    [] op = AdjustOp  -> "on_hand_adjustment"

StatusAfter(op) == IF op = FulfillOp THEN "fulfilled" ELSE "cancelled"
===============================================================================
