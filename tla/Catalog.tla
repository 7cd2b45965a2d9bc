--------------------------------- MODULE Catalog ---------------------------------
(***************************************************************************)
(* Products and their first inventory rows: ProductsService.createProduct, *)
(* one transaction of three INSERTs, and the development seed, which runs  *)
(* its INSERTs outside a transaction and may be stopped and started again, *)
(* also next to another run.  Both go on while orders and adjustments      *)
(* change the stock, one atomic step each (StockEngine has the statements).*)
(*                                                                         *)
(* The seed gives no one a membership of its organization; whoever creates *)
(* a product there was given one by hand.                                  *)
(*                                                                         *)
(* Operators named Faulty_... are variants with one plausible mistake.  No *)
(* action uses them: they show that the properties can fail.               *)
(***************************************************************************)
EXTENDS Integers, Sequences, FiniteSets

CONSTANTS
  Attempts,             \* POST requests in flight at once
  Seeds,                \* runs of the seed script at once
  Creates,              \* the requests clients send: [org, sku, onHand]
  Normalized,           \* what lower(btrim(sku)) makes of each SKU
  SEED_ORGANIZATION_ID,
  SEED_PRODUCTS,        \* a sequence of [id, sku, onHand]
  FreshIds,             \* what gen_random_uuid() may return: enough for all Creates
  MaxStock,             \* bound on adjustments
  MaxStops              \* how often a seed is stopped half-way

VARIABLES
  organizations,        \* the committed rows: a set of ids,
  products,             \*   by id: [org, sku],
  inventory,            \*   by product: [onHand, reserved],
  movements,            \*   by product: the sum of on_hand_delta
  pc,                   \* what each attempt does next
  req,                  \* the request it serves
  tx,                   \* the id its open transaction has inserted, if any
  status,               \* its answer
  seed,                 \* for each run: its next statement and the product it is at
  stops                 \* how often a run was stopped

vars == <<organizations, products, inventory, movements,
          pc, req, tx, status, seed, stops>>
stock   == <<inventory, movements>>
request == <<pc, req, tx, status>>

SeedIds   == {SEED_PRODUCTS[i].id : i \in DOMAIN SEED_PRODUCTS}
NoRequest == [org |-> "none"]
NoId      == "none"

ASSUME SeedAssumption ==
  /\ SEED_PRODUCTS # <<>>
  /\ SEED_PRODUCTS \in Seq([id : SeedIds, sku : DOMAIN Normalized, onHand : Nat])

ASSUME CreateAssumption ==
  \A q \in Creates : q.sku \in DOMAIN Normalized /\ q.onHand \in Nat

(* The seed's ids are no version 4 UUIDs.                                      *)
ASSUME IdAssumption == FreshIds \cap SeedIds = {} /\ NoId \notin FreshIds

(* A table, a function of the ids it has, with one row written.                *)
Put(rows, id, row) ==
  [i \in DOMAIN rows \cup {id} |-> IF i = id THEN row ELSE rows[i]]

Init ==
  /\ organizations = {q.org : q \in Creates} \ {SEED_ORGANIZATION_ID}
  /\ products = <<>> /\ inventory = <<>> /\ movements = <<>>
  /\ pc = [t \in Attempts |-> "idle"]
  /\ req = [t \in Attempts |-> NoRequest]
  /\ tx = [t \in Attempts |-> NoId]
  /\ status = [t \in Attempts |-> 0]
  /\ seed = [s \in Seeds |-> [state |-> "idle", i |-> 1]]
  /\ stops = 0

-------------------------------------------------------------------------------
(* products_org_sku_normalized_key.                                            *)
SameSku(p, q) == p.org = q.org /\ Normalized[p.sku] = Normalized[q.sku]

WithSku(p) == {id \in DOMAIN products : SameSku(products[id], p)}

(* Faulty: an uncommitted row of the same SKU is not waited for.               *)
Faulty_NeverBusy(p) == FALSE

(* An open transaction has inserted a row with this SKU: an INSERT waits for   *)
(* its end.                                                                    *)
SkuBusy(p) == \E t \in Attempts : tx[t] # NoId /\ SameSku(req[t], p)

SkuTaken(p) == WithSku(p) # {}

Product(p) == [org |-> p.org, sku |-> p.sku]

Finish(t, code) ==
  /\ pc' = [pc EXCEPT ![t] = "answer"]
  /\ status' = [status EXCEPT ![t] = code]
  /\ tx' = [tx EXCEPT ![t] = NoId]

-------------------------------------------------------------------------------
(* createProduct.                                                              *)

Send(t, q) ==
  /\ pc[t] = "idle"
  /\ q.org \in organizations
  /\ pc' = [pc EXCEPT ![t] = "product"]
  /\ req' = [req EXCEPT ![t] = q]
  /\ UNCHANGED <<organizations, products, stock, tx, status, seed, stops>>

InsertProduct(t) ==
  /\ pc[t] = "product"
  /\ ~SkuBusy(req[t])
  /\ \/ /\ SkuTaken(req[t])
        /\ Finish(t, 409)
     \/ /\ ~SkuTaken(req[t])
        /\ pc' = [pc EXCEPT ![t] = "inventory"]
        /\ \E id \in FreshIds \ DOMAIN products :
             /\ \A u \in Attempts : tx[u] # id
             /\ tx' = [tx EXCEPT ![t] = id]
        /\ UNCHANGED status
  /\ UNCHANGED <<organizations, products, stock, req, seed, stops>>

(* Faulty: the product's INSERT was committed on its own.                      *)
Faulty_CommitEarly(t) ==
  /\ pc[t] = "inventory"
  /\ pc' = [pc EXCEPT ![t] = "commit"]
  /\ products' = Put(products, tx[t], Product(req[t]))
  /\ UNCHANGED <<organizations, stock, req, tx, status, seed, stops>>

(* The product's id is new: nothing can be in the way of its inventory row.    *)
InsertInventory(t) ==
  /\ pc[t] = "inventory"
  /\ pc' = [pc EXCEPT ![t] = "commit"]
  /\ UNCHANGED <<organizations, products, stock, req, tx, status, seed, stops>>

(* A movement for what stock there is, then COMMIT.                            *)
CommitProduct(t) ==
  /\ pc[t] = "commit"
  /\ products' = Put(products, tx[t], Product(req[t]))
  /\ inventory' = Put(inventory, tx[t], [onHand |-> req[t].onHand, reserved |-> 0])
  /\ movements' = Put(movements, tx[t], req[t].onHand)
  /\ Finish(t, 201)
  /\ UNCHANGED <<organizations, req, seed, stops>>

Leave(t) ==
  /\ pc' = [pc EXCEPT ![t] = "idle"]
  /\ req' = [req EXCEPT ![t] = NoRequest]
  /\ tx' = [tx EXCEPT ![t] = NoId]
  /\ status' = [status EXCEPT ![t] = 0]
  /\ UNCHANGED <<organizations, products, stock, seed, stops>>

(* The answer arrives or is lost; a client that lost it may send it again.     *)
Answer(t) == pc[t] = "answer" /\ Leave(t)

Crash(t) == pc[t] \in {"product", "inventory", "commit"} /\ Leave(t)

-------------------------------------------------------------------------------
(* scripts/seed.ts: each statement commits on its own.                         *)

At(s, state, i) == seed' = [seed EXCEPT ![s] = [state |-> state, i |-> i]]
ThisProduct(s) == SEED_PRODUCTS[seed[s].i]
SeedRow(s) == [org |-> SEED_ORGANIZATION_ID, sku |-> ThisProduct(s).sku]

StartSeed(s) ==
  /\ seed[s].state \in {"idle", "stopped", "done", "failed"}
  /\ At(s, "organization", 1)
  /\ UNCHANGED <<organizations, products, stock, request, stops>>

SeedOrganization(s) ==
  /\ seed[s].state = "organization"
  /\ organizations' = organizations \cup {SEED_ORGANIZATION_ID}
  /\ At(s, "product", 1)
  /\ UNCHANGED <<products, stock, request, stops>>

(* Faulty: without ON CONFLICT DO NOTHING a row of an earlier run is an error. *)
Faulty_PlainInsert(s) ==
  /\ seed[s].state = "product"
  /\ LET row == SeedRow(s)  i == seed[s].i IN
     /\ ~SkuBusy(row)
     /\ \/ /\ SkuTaken(row)
           /\ At(s, "failed", i)
           /\ UNCHANGED products
        \/ /\ ~SkuTaken(row)
           /\ products' = Put(products, ThisProduct(s).id, row)
           /\ At(s, "inventory", i)
  /\ UNCHANGED <<organizations, stock, request, stops>>

(* ON CONFLICT DO NOTHING covers products.id only: the same SKU under another  *)
(* id ends the run with an error.                                              *)
SeedProduct(s) ==
  /\ seed[s].state = "product"
  /\ LET row == SeedRow(s)  i == seed[s].i  id == ThisProduct(s).id IN
     \/ /\ id \in DOMAIN products
        /\ At(s, "inventory", i)
        /\ UNCHANGED products
     \/ /\ id \notin DOMAIN products
        /\ ~SkuBusy(row)
        /\ \/ /\ SkuTaken(row)
              /\ At(s, "failed", i)
              /\ UNCHANGED products
           \/ /\ ~SkuTaken(row)
              /\ products' = Put(products, id, row)
              /\ At(s, "inventory", i)
  /\ UNCHANGED <<organizations, stock, request, stops>>

(* Faulty: ON CONFLICT DO UPDATE sets the row to the seed's values.            *)
Faulty_Upsert(s) ==
  Put(inventory, ThisProduct(s).id, [onHand |-> ThisProduct(s).onHand, reserved |-> 0])

(* ON CONFLICT (product_id) DO NOTHING.  No movement explains the stock.       *)
SeedStock(s) ==
  IF ThisProduct(s).id \in DOMAIN inventory THEN inventory
  ELSE Put(inventory, ThisProduct(s).id, [onHand |-> ThisProduct(s).onHand, reserved |-> 0])

SeedInventory(s) ==
  /\ seed[s].state = "inventory"
  /\ inventory' = SeedStock(s)
  /\ IF seed[s].i = Len(SEED_PRODUCTS) THEN At(s, "done", 1)
     ELSE At(s, "product", seed[s].i + 1)
  /\ UNCHANGED <<organizations, products, movements, request, stops>>

(* Control-C, or the connection fails.                                         *)
StopSeed(s) ==
  /\ seed[s].state \in {"organization", "product", "inventory"}
  /\ stops < MaxStops
  /\ stops' = stops + 1
  /\ At(s, "stopped", 1)
  /\ UNCHANGED <<organizations, products, stock, request>>

-------------------------------------------------------------------------------
(* The stock operations.                                                       *)

Moved(id) == IF id \in DOMAIN movements THEN movements[id] ELSE 0

(* The first adjustment of a product without a row inserts one.                *)
AdjustStock(id, delta) ==
  /\ LET row == IF id \in DOMAIN inventory THEN inventory[id]
                ELSE [onHand |-> 0, reserved |-> 0]
         onHand == row.onHand + delta IN
     /\ row.reserved <= onHand /\ onHand <= MaxStock
     /\ inventory' = Put(inventory, id, [row EXCEPT !.onHand = onHand])
  /\ movements' = Put(movements, id, Moved(id) + delta)
  /\ UNCHANGED <<organizations, products, request, seed, stops>>

(* An order's reservation, and its cancellation.                               *)
ReserveStock(id, units) ==
  /\ id \in DOMAIN inventory
  /\ LET reserved == inventory[id].reserved + units IN
     /\ reserved \in 0..inventory[id].onHand
     /\ inventory' = [inventory EXCEPT ![id].reserved = reserved]
  /\ UNCHANGED <<organizations, products, movements, request, seed, stops>>

FulfillStock(id) ==
  /\ id \in DOMAIN inventory
  /\ inventory[id].reserved > 0
  /\ inventory' = [inventory EXCEPT ![id].reserved = @ - 1, ![id].onHand = @ - 1]
  /\ movements' = Put(movements, id, Moved(id) - 1)
  /\ UNCHANGED <<organizations, products, request, seed, stops>>

-------------------------------------------------------------------------------
SeedStep(s) == SeedOrganization(s) \/ SeedProduct(s) \/ SeedInventory(s)
Step(t) == InsertProduct(t) \/ InsertInventory(t) \/ CommitProduct(t) \/ Answer(t)

Next ==
  \/ \E t \in Attempts : Step(t) \/ Crash(t) \/ \E q \in Creates : Send(t, q)
  \/ \E s \in Seeds : StartSeed(s) \/ SeedStep(s) \/ StopSeed(s)
  \/ \E id \in DOMAIN products :
       \/ \E delta \in {-1, 1} : AdjustStock(id, delta) \/ ReserveStock(id, delta)
       \/ FulfillStock(id)

(* A statement that can be executed is, and whoever stopped the seed starts it *)
(* again; INSERTs that wait are served in the end, though others may come      *)
(* before them.                                                                *)
Fairness ==
  /\ \A t \in Attempts : WF_vars(Step(t))
  /\ \A s \in Seeds : /\ SF_vars(SeedStep(s))
                      /\ WF_vars(seed[s].state = "stopped" /\ StartSeed(s))

Spec == Init /\ [][Next]_vars /\ Fairness

-------------------------------------------------------------------------------
(* What a client was told of a create request is true when it is told, and     *)
(* stays so for the retry of one whose answer was lost: 201 means the product  *)
(* is there with its inventory row, 409 that another product of the            *)
(* organization has this SKU (products.service.ts:38-44), even if the row that *)
(* was in the way belonged to a transaction that could still fail.             *)
AnswersAreTrue ==
  \A t \in Attempts : pc[t] = "answer" =>
    /\ status[t] \in {201, 409}
    /\ Cardinality(WithSku(req[t])) = 1
    /\ status[t] = 201 => WithSku(req[t]) \subseteq DOMAIN inventory

(* "A product is never left without a corresponding inventory row, even        *)
(* momentarily" (products.service.ts:49): the only ones without are the seed's *)
(* own, while it is between its two statements or was stopped there.           *)
ProductsHaveInventory ==
  \A id \in DOMAIN products \ DOMAIN inventory :
    /\ id \in SeedIds
    /\ \/ stops > 0
       \/ \E s \in Seeds : seed[s].state = "inventory" /\ ThisProduct(s).id = id

(* However often the seed runs, it changes no row that exists: only the stock  *)
(* operations do, and they do not move the seed or a create request            *)
(* (seed.ts:8-11, "rather than ... reset whatever on_hand/reserved values").   *)
OnlyStockOperationsChangeStock ==
  [][<<pc, seed>>' # <<pc, seed>> =>
       \A id \in DOMAIN inventory : inventory'[id] = inventory[id]]_vars

(* The stock of a product is what its movements add up to, but for the stock   *)
(* the seed gave it, for which there is none.                                  *)
MovementsExplainStock ==
  \A id \in DOMAIN inventory :
    \/ inventory[id].onHand = Moved(id)
    \/ \E i \in DOMAIN SEED_PRODUCTS :
         /\ id = SEED_PRODUCTS[i].id
         /\ inventory[id].onHand = Moved(id) + SEED_PRODUCTS[i].onHand

Seeded == SeedIds \subseteq DOMAIN inventory

ForeignSku ==
  \E i \in DOMAIN SEED_PRODUCTS :
    \E id \in DOMAIN products \ {SEED_PRODUCTS[i].id} :
      SameSku(products[id], [org |-> SEED_ORGANIZATION_ID, sku |-> SEED_PRODUCTS[i].sku])

(* "Safe to run repeatedly" (seed.ts:8): a seed that was started, stopped      *)
(* half-way and started again, also next to another, ends with all its rows in *)
(* place, unless somebody gave another product one of its SKUs.                *)
SeedCompletes ==
  \A s \in Seeds : seed[s].state = "organization" ~> (Seeded \/ ForeignSku)
===============================================================================
