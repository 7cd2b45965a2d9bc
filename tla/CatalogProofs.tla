------------------------------ MODULE CatalogProofs ------------------------------
(***************************************************************************)
(* TLAPS proofs about Catalog: for any requests, SKUs and seed products,   *)
(* any number of requests in flight and of runs of the seed.               *)
(***************************************************************************)
EXTENDS Catalog, FiniteSetTheorems, SequenceTheorems, TLAPS

States == {"idle", "organization", "product", "inventory", "done", "failed", "stopped"}

TypeInv ==
  /\ pc \in [Attempts -> {"idle", "product", "inventory", "commit", "answer"}]
  /\ DOMAIN req = Attempts /\ DOMAIN tx = Attempts /\ DOMAIN status = Attempts
  /\ \A t \in Attempts : pc[t] # "idle" => req[t] \in Creates
  /\ seed \in [Seeds -> [state : States, i : DOMAIN SEED_PRODUCTS]]
  /\ stops \in Nat

(* The rows refer to each other as the foreign keys say.                       *)
RowsInv ==
  /\ DOMAIN products \subseteq SeedIds \cup FreshIds
  /\ DOMAIN inventory \subseteq DOMAIN products
  /\ DOMAIN movements \subseteq DOMAIN inventory
  /\ \A id \in DOMAIN inventory : inventory[id] \in [onHand : Int, reserved : Int]
  /\ \A id \in DOMAIN movements : movements[id] \in Int

(* The unique index.                                                           *)
SkuInv ==
  \A i, j \in DOMAIN products : SameSku(products[i], products[j]) => i = j

(* What an open transaction has inserted is in nobody's way, and nothing is in *)
(* its way.                                                                    *)
Open(t) == tx[t] # NoId

TxInv(t) ==
  /\ Open(t) <=> pc[t] \in {"inventory", "commit"}
  /\ Open(t) => tx[t] \in FreshIds \ DOMAIN products /\ ~SkuTaken(req[t])

ExclusiveInv ==
  \A s, t \in Attempts :
    Open(s) /\ Open(t) /\ s # t => tx[s] # tx[t] /\ ~SameSku(req[s], req[t])

(* A client was told what is so.                                               *)
ToldInv(t) ==
  pc[t] = "answer" =>
    /\ status[t] \in {201, 409}
    /\ SkuTaken(req[t])
    /\ status[t] = 201 => WithSku(req[t]) \subseteq DOMAIN inventory

SeedInv ==
  \A s \in Seeds : seed[s].state = "inventory" => ThisProduct(s).id \in DOMAIN products

CatalogInv ==
  /\ TypeInv /\ RowsInv /\ SkuInv /\ ExclusiveInv /\ SeedInv
  /\ \A t \in Attempts : TxInv(t) /\ ToldInv(t)
  /\ ProductsHaveInventory /\ MovementsExplainStock

-------------------------------------------------------------------------------
(* The products of the seed.                                                   *)
LEMMA SeedProducts ==
  /\ Len(SEED_PRODUCTS) \in Nat \ {0}
  /\ DOMAIN SEED_PRODUCTS = 1..Len(SEED_PRODUCTS)
  /\ \A i \in DOMAIN SEED_PRODUCTS :
       SEED_PRODUCTS[i].id \in SeedIds /\ SEED_PRODUCTS[i].onHand \in Int
  <1> PICK T : T = [id : SeedIds, sku : DOMAIN Normalized, onHand : Nat]
    OBVIOUS
  <1>1. SEED_PRODUCTS # <<>> /\ SEED_PRODUCTS \in Seq(T)
    BY SeedAssumption
  <1>2. /\ Len(SEED_PRODUCTS) \in Nat \ {0}
        /\ DOMAIN SEED_PRODUCTS = 1..Len(SEED_PRODUCTS)
        /\ \A i \in DOMAIN SEED_PRODUCTS : SEED_PRODUCTS[i] \in T
    BY <1>1, LenProperties, EmptySeq, ElementOfSeq
  <1>3. QED
    BY <1>2

LEMMA CatalogInit == Init => CatalogInv
  <1> SUFFICES ASSUME Init PROVE CatalogInv
    OBVIOUS
  <1> USE DEF Init
  <1>1. /\ DOMAIN products = {} /\ DOMAIN inventory = {} /\ DOMAIN movements = {}
        /\ \A t \in Attempts : pc[t] = "idle" /\ tx[t] = NoId
        /\ \A s \in Seeds : seed[s].state = "idle"
    OBVIOUS
  <1>2. TypeInv
    BY SeedProducts DEF TypeInv, States
  <1>3. RowsInv /\ SkuInv /\ ProductsHaveInventory /\ MovementsExplainStock
    BY <1>1 DEF RowsInv, SkuInv, ProductsHaveInventory, MovementsExplainStock
  <1>4. ExclusiveInv /\ SeedInv /\ \A t \in Attempts : TxInv(t) /\ ToldInv(t)
    BY <1>1 DEF ExclusiveInv, SeedInv, TxInv, ToldInv, Open
  <1>5. QED
    BY <1>2, <1>3, <1>4 DEF CatalogInv

-------------------------------------------------------------------------------
(* The steps of a request that write no table.                                 *)

tables == <<products, inventory, movements>>

LEMMA RequestStep ==
  ASSUME CatalogInv, NEW t \in Attempts, UNCHANGED <<tables, seed, stops>>,
         TypeInv',
         \A s \in Attempts \ {t} : /\ pc'[s] = pc[s] /\ req'[s] = req[s]
                                   /\ tx'[s] = tx[s] /\ status'[s] = status[s],
         TxInv(t)', ToldInv(t)',
         Open(t)' => \A s \in Attempts \ {t} :
                       Open(s) => tx[s] # tx'[t] /\ ~SameSku(req[s], req'[t])
  PROVE  CatalogInv'
  <1>1. UNCHANGED <<products, inventory, movements>>
    BY DEF tables
  <1>2. RowsInv' /\ SkuInv' /\ MovementsExplainStock'
    BY <1>1 DEF CatalogInv, RowsInv, SkuInv, MovementsExplainStock, SameSku, Moved
  <1>3. SeedInv' /\ ProductsHaveInventory'
    BY <1>1 DEF CatalogInv, SeedInv, ProductsHaveInventory, ThisProduct
  <1>4. ASSUME NEW s \in Attempts \ {t} PROVE TxInv(s)' /\ ToldInv(s)'
    BY <1>1 DEF CatalogInv, TxInv, ToldInv, Open, SkuTaken, WithSku, SameSku
  <1>5. ExclusiveInv'
    <2>1. ASSUME NEW r \in Attempts, NEW s \in Attempts, Open(r)', Open(s)', r # s
          PROVE  tx'[r] # tx'[s] /\ ~SameSku(req[r], req[s])'
      <3>1. CASE r # t /\ s # t
        BY <2>1, <3>1 DEF CatalogInv, ExclusiveInv, Open, SameSku
      <3>2. CASE r = t
        BY <2>1, <3>2 DEF Open, SameSku
      <3>3. CASE s = t
        BY <2>1, <3>3 DEF Open, SameSku
      <3>4. QED
        BY <3>1, <3>2, <3>3
    <2>2. QED
      BY <2>1 DEF ExclusiveInv
  <1>6. QED
    BY <1>2, <1>3, <1>4, <1>5 DEF CatalogInv

LEMMA SendStep ==
  ASSUME CatalogInv, NEW t \in Attempts, NEW q \in Creates, Send(t, q)
  PROVE  CatalogInv'
  <1>1. /\ pc[t] = "idle" /\ pc' = [pc EXCEPT ![t] = "product"]
        /\ req' = [req EXCEPT ![t] = q]
        /\ UNCHANGED <<tables, seed, stops, tx, status>>
    BY DEF Send, tables, stock
  <1>2. /\ pc'[t] = "product"
        /\ \A s \in Attempts \ {t} : pc'[s] = pc[s] /\ req'[s] = req[s]
    BY <1>1 DEF CatalogInv, TypeInv
  <1>3. TypeInv'
    BY <1>1, <1>2 DEF CatalogInv, TypeInv
  <1>4. ~Open(t) /\ ~Open(t)'
    BY <1>1 DEF CatalogInv, TxInv, Open
  <1>5. TxInv(t)' /\ ToldInv(t)'
    BY <1>2, <1>4 DEF TxInv, ToldInv
  <1>6. QED
    BY <1>1, <1>2, <1>3, <1>4, <1>5, RequestStep

LEMMA LeaveStep ==
  ASSUME CatalogInv, NEW t \in Attempts, Leave(t)
  PROVE  CatalogInv'
  <1>1. /\ pc' = [pc EXCEPT ![t] = "idle"] /\ req' = [req EXCEPT ![t] = NoRequest]
        /\ tx' = [tx EXCEPT ![t] = NoId] /\ status' = [status EXCEPT ![t] = 0]
        /\ UNCHANGED <<tables, seed, stops>>
    BY DEF Leave, tables, stock
  <1>2. /\ pc'[t] = "idle" /\ tx'[t] = NoId
        /\ \A s \in Attempts \ {t} : /\ pc'[s] = pc[s] /\ req'[s] = req[s]
                                     /\ tx'[s] = tx[s] /\ status'[s] = status[s]
    BY <1>1 DEF CatalogInv, TypeInv
  <1>3. TypeInv'
    BY <1>1, <1>2 DEF CatalogInv, TypeInv
  <1>4. ~Open(t)' /\ TxInv(t)' /\ ToldInv(t)'
    BY <1>2 DEF Open, TxInv, ToldInv
  <1>5. QED
    BY <1>1, <1>2, <1>3, <1>4, RequestStep

LEMMA InsertProductStep ==
  ASSUME CatalogInv, NEW t \in Attempts, InsertProduct(t)
  PROVE  CatalogInv'
  <1>1. /\ pc[t] = "product" /\ ~SkuBusy(req[t])
        /\ UNCHANGED <<tables, seed, stops, req>>
    BY DEF InsertProduct, tables, stock
  <1>2. CASE SkuTaken(req[t]) /\ Finish(t, 409)
    <2>1. /\ pc'[t] = "answer" /\ tx'[t] = NoId /\ status'[t] = 409
          /\ \A s \in Attempts \ {t} : /\ pc'[s] = pc[s] /\ req'[s] = req[s]
                                       /\ tx'[s] = tx[s] /\ status'[s] = status[s]
          /\ TypeInv'
      BY <1>1, <1>2 DEF Finish, CatalogInv, TypeInv
    <2>2. SkuTaken(req[t])'
      BY <1>1, <1>2 DEF tables, SkuTaken, WithSku, SameSku
    <2>3. ~Open(t)' /\ TxInv(t)' /\ ToldInv(t)'
      BY <2>1, <2>2 DEF Open, TxInv, ToldInv
    <2>4. QED
      BY <1>1, <2>1, <2>3, RequestStep
  <1>3. ASSUME ~SkuTaken(req[t]), pc' = [pc EXCEPT ![t] = "inventory"],
               NEW id \in FreshIds \ DOMAIN products,
               \A u \in Attempts : tx[u] # id,
               tx' = [tx EXCEPT ![t] = id], UNCHANGED status
        PROVE  CatalogInv'
    <2>1. /\ pc'[t] = "inventory" /\ tx'[t] = id
          /\ \A s \in Attempts \ {t} : /\ pc'[s] = pc[s] /\ req'[s] = req[s]
                                       /\ tx'[s] = tx[s] /\ status'[s] = status[s]
      BY <1>1, <1>3 DEF CatalogInv, TypeInv
    <2>2. TypeInv'
      BY <1>1, <1>3, <2>1 DEF CatalogInv, TypeInv
    <2>3. TxInv(t)' /\ ToldInv(t)'
      BY <1>1, <1>3, <2>1, IdAssumption
         DEF TxInv, ToldInv, Open, tables, SkuTaken, WithSku, SameSku
    <2>4. ASSUME NEW s \in Attempts \ {t}, Open(s)
          PROVE  tx[s] # tx'[t] /\ ~SameSku(req[s], req'[t])
      BY <1>1, <1>3, <2>1, <2>4 DEF SkuBusy, Open
    <2>5. QED
      BY <1>1, <2>1, <2>2, <2>3, <2>4, RequestStep
  <1>4. QED
    BY <1>2, <1>3 DEF InsertProduct

LEMMA InsertInventoryStep ==
  ASSUME CatalogInv, NEW t \in Attempts, InsertInventory(t)
  PROVE  CatalogInv'
  <1>1. /\ pc[t] = "inventory" /\ pc' = [pc EXCEPT ![t] = "commit"]
        /\ UNCHANGED <<tables, seed, stops, req, tx, status>>
    BY DEF InsertInventory, tables, stock
  <1>2. pc'[t] = "commit" /\ \A s \in Attempts \ {t} : pc'[s] = pc[s]
    BY <1>1 DEF CatalogInv, TypeInv
  <1>3. TypeInv'
    BY <1>1, <1>2 DEF CatalogInv, TypeInv
  <1>4. TxInv(t)' /\ ToldInv(t)'
    BY <1>1, <1>2 DEF CatalogInv, TxInv, ToldInv, Open, tables, SkuTaken, WithSku, SameSku
  <1>5. \A s \in Attempts \ {t} :
          Open(t)' /\ Open(s) => tx[s] # tx'[t] /\ ~SameSku(req[s], req'[t])
    BY <1>1 DEF CatalogInv, ExclusiveInv, Open
  <1>6. QED
    BY <1>1, <1>2, <1>3, <1>4, <1>5, RequestStep

-------------------------------------------------------------------------------
(* The steps that add a product.                                               *)

LEMMA AddProduct ==
  ASSUME CatalogInv, NEW id, NEW row, id \notin DOMAIN products, ~SkuTaken(row),
         products' = Put(products, id, row)
  PROVE  /\ DOMAIN products' = DOMAIN products \cup {id}
         /\ SkuInv'
         /\ \A p : SkuTaken(p) => WithSku(p)' = WithSku(p) /\ SkuTaken(p)'
         /\ \A p : ~SkuTaken(p) /\ ~SameSku(row, p) => ~SkuTaken(p)'
         /\ \A p : SameSku(row, p) => SkuTaken(p)'
  <1>1. /\ DOMAIN products' = DOMAIN products \cup {id}
        /\ products'[id] = row
        /\ \A i \in DOMAIN products : products'[i] = products[i]
    BY DEF Put
  <1>2. \A i \in DOMAIN products : ~SameSku(products[i], row)
    BY DEF SkuTaken, WithSku
  <1>3. SkuInv'
    BY <1>1, <1>2 DEF CatalogInv, SkuInv, SameSku
  <1>4. ASSUME NEW p, SkuTaken(p) PROVE WithSku(p)' = WithSku(p) /\ SkuTaken(p)'
    <2>1. PICK i \in DOMAIN products : SameSku(products[i], p)
      BY <1>4 DEF SkuTaken, WithSku
    <2>2. ~SameSku(row, p)
      BY <1>2, <2>1 DEF SameSku
    <2>3. WithSku(p)' = WithSku(p)
      BY <1>1, <2>2 DEF WithSku, SameSku
    <2>4. QED
      BY <1>4, <2>3 DEF SkuTaken
  <1>5. ASSUME NEW p, ~SkuTaken(p), ~SameSku(row, p) PROVE ~SkuTaken(p)'
    BY <1>1, <1>5 DEF SkuTaken, WithSku, SameSku
  <1>6. ASSUME NEW p, SameSku(row, p) PROVE SkuTaken(p)'
    BY <1>1, <1>6 DEF SkuTaken, WithSku, SameSku
  <1>7. QED
    BY <1>1, <1>3, <1>4, <1>5, <1>6

LEMMA CommitProductStep ==
  ASSUME CatalogInv, NEW t \in Attempts, CommitProduct(t)
  PROVE  CatalogInv'
  <1> PICK id : id = tx[t]
    OBVIOUS
  <1> PICK row : row = Product(req[t])
    OBVIOUS
  <1>1. /\ pc[t] = "commit" /\ UNCHANGED <<req, seed, stops>>
        /\ products' = Put(products, id, row)
        /\ inventory' = Put(inventory, id, [onHand |-> req[t].onHand, reserved |-> 0])
        /\ movements' = Put(movements, id, req[t].onHand)
        /\ pc' = [pc EXCEPT ![t] = "answer"] /\ status' = [status EXCEPT ![t] = 201]
        /\ tx' = [tx EXCEPT ![t] = NoId]
    BY DEF CommitProduct, Finish
  <1>2. /\ Open(t) /\ id \in FreshIds /\ id \notin DOMAIN products
        /\ ~SkuTaken(req[t])
    BY <1>1 DEF CatalogInv, TxInv
  <1>3. req[t].onHand \in Int
    BY <1>1, CreateAssumption DEF CatalogInv, TypeInv
  <1>4. \A p : SameSku(row, p) <=> SameSku(req[t], p)
    BY DEF Product, SameSku
  <1>5. ~SkuTaken(row)
    BY <1>2 DEF SkuTaken, WithSku, Product, SameSku
  <1>6. /\ DOMAIN products' = DOMAIN products \cup {id}
        /\ SkuInv'
        /\ \A p : SkuTaken(p) => WithSku(p)' = WithSku(p) /\ SkuTaken(p)'
        /\ \A p : ~SkuTaken(p) /\ ~SameSku(row, p) => ~SkuTaken(p)'
        /\ \A p : SameSku(row, p) => SkuTaken(p)'
    BY <1>1, <1>2, <1>5, AddProduct
  <1>7. /\ DOMAIN inventory' = DOMAIN inventory \cup {id}
        /\ inventory'[id] = [onHand |-> req[t].onHand, reserved |-> 0]
        /\ \A i \in DOMAIN inventory \ {id} : inventory'[i] = inventory[i]
        /\ DOMAIN movements' = DOMAIN movements \cup {id}
        /\ movements'[id] = req[t].onHand
        /\ \A i \in DOMAIN movements \ {id} : movements'[i] = movements[i]
    BY <1>1 DEF Put
  <1>8. RowsInv'
    BY <1>2, <1>3, <1>6, <1>7 DEF CatalogInv, RowsInv
  <1>9. /\ pc'[t] = "answer" /\ status'[t] = 201 /\ tx'[t] = NoId
        /\ \A s \in Attempts \ {t} : /\ pc'[s] = pc[s] /\ status'[s] = status[s]
                                     /\ tx'[s] = tx[s]
        /\ TypeInv'
    BY <1>1 DEF CatalogInv, TypeInv
  <1>10. ExclusiveInv'
    BY <1>1, <1>9 DEF CatalogInv, ExclusiveInv, Open, SameSku
  <1>11. SeedInv'
    BY <1>1, <1>6 DEF CatalogInv, SeedInv, ThisProduct
  <1>12. TxInv(t)'
    BY <1>9 DEF TxInv, Open
  <1>13. ToldInv(t)'
    <2>1. SkuTaken(req[t])'
      BY <1>1, <1>4, <1>6 DEF SameSku, SkuTaken, WithSku
    <2>2. WithSku(req[t])' \subseteq {id}
      <3>1. \A i \in DOMAIN products : ~SameSku(products[i], req[t])
        BY <1>2 DEF SkuTaken, WithSku
      <3>2. \A i \in DOMAIN products : products'[i] = products[i]
        BY <1>1, <1>2 DEF Put
      <3>3. \A i \in DOMAIN products' :
              i # id => i \in DOMAIN products /\ products'[i] = products[i]
        BY <1>6, <3>2
      <3>4. \A i \in DOMAIN products' :
              i # id => ~SameSku(products'[i], req[t])
        BY <3>1, <3>3
      <3>5. req'[t] = req[t]
        BY <1>1
      <3>6. \A i \in DOMAIN products' : i # id => ~SameSku(products'[i], req'[t])
        BY <3>4, <3>5
      <3>7. QED
        BY <3>6 DEF WithSku, SameSku
    <2>3. QED
      BY <1>7, <1>9, <2>1, <2>2 DEF ToldInv
  <1>14. ASSUME NEW s \in Attempts \ {t} PROVE TxInv(s)' /\ ToldInv(s)'
    <2> PICK p : p = req[s]
      OBVIOUS
    <2>1. req'[s] = p
      BY <1>1
    <2>2. TxInv(s)'
      <3>1. Open(s) => tx[s] # id /\ ~SameSku(row, p)
        BY <1>2, <1>4 DEF CatalogInv, ExclusiveInv, SameSku
      <3>2. TxInv(s)
        BY DEF CatalogInv
      <3>3. Open(s) => ~SkuTaken(p)'
        BY <1>6, <3>1, <3>2 DEF TxInv
      <3>4. QED
        BY <1>6, <1>9, <2>1, <3>1, <3>2, <3>3 DEF TxInv, Open, SkuTaken, WithSku
    <2>3. ToldInv(s)'
      <3>1. ToldInv(s)
        BY DEF CatalogInv
      <3>2. pc[s] = "answer" => SkuTaken(p)' /\ WithSku(p)' = WithSku(p)
        BY <1>6, <3>1 DEF ToldInv
      <3>3. QED
        BY <1>7, <1>9, <2>1, <3>1, <3>2 DEF ToldInv, SkuTaken, WithSku
    <2>4. QED
      BY <2>2, <2>3
  <1>15. ProductsHaveInventory'
    BY <1>1, <1>6, <1>7 DEF CatalogInv, ProductsHaveInventory, ThisProduct
  <1>16. MovementsExplainStock'
    <2>1. id \notin DOMAIN inventory
      BY <1>2 DEF CatalogInv, RowsInv
    <2>2. ASSUME NEW i \in DOMAIN inventory
          PROVE  inventory'[i] = inventory[i] /\ Moved(i)' = Moved(i)
      BY <1>7, <2>1, <2>2 DEF Moved
    <2>3. inventory'[id].onHand = Moved(id)'
      BY <1>7 DEF Moved
    <2>4. QED
      BY <1>7, <2>2, <2>3 DEF CatalogInv, MovementsExplainStock
  <1>17. QED
    BY <1>6, <1>8, <1>9, <1>10, <1>11, <1>12, <1>13, <1>14, <1>15, <1>16 DEF CatalogInv

-------------------------------------------------------------------------------
(* The seed.                                                                   *)

(* A run moves on; perhaps it was stopped.                                     *)
LEMMA SeedMoves ==
  ASSUME CatalogInv, UNCHANGED <<tables, request>>, NEW s \in Seeds,
         NEW state \in States, NEW i \in DOMAIN SEED_PRODUCTS, At(s, state, i),
         stops' \in Nat, stops' >= stops,
         state = "inventory" => SEED_PRODUCTS[i].id \in DOMAIN products,
         seed[s].state = "inventory" => stops' > 0
  PROVE  CatalogInv'
  <1>1. UNCHANGED <<products, inventory, movements, pc, req, tx, status>>
    BY DEF tables, request
  <1>2. /\ seed'[s] = [state |-> state, i |-> i]
        /\ \A r \in Seeds \ {s} : seed'[r] = seed[r]
        /\ TypeInv'
    BY <1>1 DEF At, CatalogInv, TypeInv
  <1>3. RowsInv' /\ SkuInv' /\ ExclusiveInv' /\ MovementsExplainStock'
    BY <1>1 DEF CatalogInv, RowsInv, SkuInv, ExclusiveInv, MovementsExplainStock,
                SameSku, Moved, Open
  <1>4. ASSUME NEW t \in Attempts PROVE TxInv(t)' /\ ToldInv(t)'
    BY <1>1 DEF CatalogInv, TxInv, ToldInv, Open, SkuTaken, WithSku, SameSku
  <1>5. SeedInv'
    BY <1>1, <1>2 DEF CatalogInv, SeedInv, ThisProduct
  <1>6. ProductsHaveInventory'
    <2>1. stops \in Nat
      BY DEF CatalogInv, TypeInv
    <2>2. ASSUME NEW id \in DOMAIN products \ DOMAIN inventory
          PROVE  /\ id \in SeedIds
                 /\ \/ stops' > 0
                    \/ \E r \in Seeds : seed'[r].state = "inventory" /\ ThisProduct(r)'.id = id
      <3>1. /\ id \in SeedIds
            /\ \/ stops > 0
               \/ \E r \in Seeds : seed[r].state = "inventory" /\ ThisProduct(r).id = id
        BY DEF CatalogInv, ProductsHaveInventory
      <3>2. \A r \in Seeds \ {s} : ThisProduct(r)' = ThisProduct(r)
        BY <1>2 DEF ThisProduct
      <3>3. QED
        BY <1>2, <2>1, <3>1, <3>2
    <2>3. QED
      BY <1>1, <2>2 DEF ProductsHaveInventory
  <1>7. QED
    BY <1>2, <1>3, <1>4, <1>5, <1>6 DEF CatalogInv

LEMMA SeedAt ==
  ASSUME CatalogInv, NEW s \in Seeds
  PROVE  /\ seed[s].i \in DOMAIN SEED_PRODUCTS /\ 1 \in DOMAIN SEED_PRODUCTS
         /\ ThisProduct(s) = SEED_PRODUCTS[seed[s].i]
         /\ ThisProduct(s).id \in SeedIds /\ ThisProduct(s).onHand \in Int
         /\ stops \in Nat
  <1>1. seed[s].i \in DOMAIN SEED_PRODUCTS /\ stops \in Nat
    BY DEF CatalogInv, TypeInv
  <1>2. QED
    BY <1>1, SeedProducts DEF ThisProduct

LEMMA StartSeedStep ==
  ASSUME CatalogInv, NEW s \in Seeds, StartSeed(s)
  PROVE  CatalogInv'
  <1>1. /\ UNCHANGED <<tables, request>> /\ UNCHANGED stops
        /\ At(s, "organization", 1) /\ seed[s].state # "inventory"
    BY DEF StartSeed, tables, stock
  <1>2. QED
    BY <1>1, SeedAt, SeedMoves DEF States

LEMMA SeedOrganizationStep ==
  ASSUME CatalogInv, NEW s \in Seeds, SeedOrganization(s)
  PROVE  CatalogInv'
  <1>1. /\ UNCHANGED <<tables, request>> /\ UNCHANGED stops
        /\ At(s, "product", 1) /\ seed[s].state # "inventory"
    BY DEF SeedOrganization, tables, stock
  <1>2. QED
    BY <1>1, SeedAt, SeedMoves DEF States

LEMMA StopSeedStep ==
  ASSUME CatalogInv, NEW s \in Seeds, StopSeed(s)
  PROVE  CatalogInv'
  <1>1. /\ UNCHANGED <<tables, request>> /\ stops' = stops + 1
        /\ At(s, "stopped", 1)
    BY DEF StopSeed, tables, stock
  <1>2. QED
    BY <1>1, SeedAt, SeedMoves DEF States

LEMMA SeedProductStep ==
  ASSUME CatalogInv, NEW s \in Seeds, SeedProduct(s)
  PROVE  CatalogInv'
  <1> PICK i : i = seed[s].i
    OBVIOUS
  <1> PICK id : id = ThisProduct(s).id
    OBVIOUS
  <1> PICK row : row = SeedRow(s)
    OBVIOUS
  <1>1. /\ seed[s].state = "product"
        /\ UNCHANGED <<inventory, movements, request, stops>>
        /\ \/ /\ id \in DOMAIN products
              /\ At(s, "inventory", i) /\ UNCHANGED products
           \/ At(s, "failed", i) /\ UNCHANGED products
           \/ /\ id \notin DOMAIN products /\ ~SkuBusy(row) /\ ~SkuTaken(row)
              /\ products' = Put(products, id, row)
              /\ At(s, "inventory", i)
    BY DEF SeedProduct, stock
  <1>2. /\ i \in DOMAIN SEED_PRODUCTS /\ stops \in Nat
        /\ SEED_PRODUCTS[i].id = id /\ id \in SeedIds
    BY SeedAt
  <1>3. ASSUME NEW state \in {"inventory", "failed"}, At(s, state, i), UNCHANGED products,
               state = "inventory" => id \in DOMAIN products
        PROVE  CatalogInv'
    <2>1. UNCHANGED <<tables, request>> /\ UNCHANGED stops /\ seed[s].state # "inventory"
      BY <1>1, <1>3 DEF tables
    <2>2. state \in States
      BY DEF States
    <2>3. QED
      BY <1>2, <1>3, <2>1, <2>2, SeedMoves
  <1>4. ASSUME id \notin DOMAIN products, ~SkuBusy(row), ~SkuTaken(row),
               products' = Put(products, id, row), At(s, "inventory", i)
        PROVE  CatalogInv'
    <2>1. /\ DOMAIN products' = DOMAIN products \cup {id}
          /\ SkuInv'
          /\ \A p : SkuTaken(p) => WithSku(p)' = WithSku(p) /\ SkuTaken(p)'
          /\ \A p : ~SkuTaken(p) /\ ~SameSku(row, p) => ~SkuTaken(p)'
      BY <1>4, AddProduct
    <2>2. UNCHANGED <<inventory, movements, stops, pc, req, tx, status>>
      BY <1>1 DEF request
    <2>3. /\ seed'[s] = [state |-> "inventory", i |-> i]
          /\ \A r \in Seeds \ {s} : seed'[r] = seed[r]
          /\ TypeInv'
      BY <1>2, <1>4, <2>2 DEF At, CatalogInv, TypeInv, States
    <2>4. RowsInv'
      BY <1>2, <2>1, <2>2 DEF CatalogInv, RowsInv
    <2>5. ExclusiveInv' /\ MovementsExplainStock'
      BY <2>2 DEF CatalogInv, ExclusiveInv, MovementsExplainStock, SameSku, Moved, Open
    <2>6. SeedInv'
      BY <1>2, <2>1, <2>3 DEF CatalogInv, SeedInv, ThisProduct
    <2>7. ASSUME NEW t \in Attempts PROVE TxInv(t)' /\ ToldInv(t)'
      <3> PICK p : p = req[t]
        OBVIOUS
      <3>1. TxInv(t) /\ ToldInv(t)
        BY DEF CatalogInv
      <3>2. req'[t] = p
        BY <2>2
      <3>3. Open(t) => tx[t] # id /\ ~SameSku(row, p)
        BY <1>2, <1>4, <3>1, IdAssumption DEF TxInv, Open, SkuBusy, SameSku
      <3>4. Open(t) => ~SkuTaken(p)'
        BY <2>1, <3>1, <3>3 DEF TxInv
      <3>5. TxInv(t)'
        BY <2>1, <2>2, <3>1, <3>2, <3>3, <3>4 DEF TxInv, Open, SkuTaken, WithSku
      <3>6. pc[t] = "answer" => SkuTaken(p)' /\ WithSku(p)' = WithSku(p)
        BY <2>1, <3>1 DEF ToldInv
      <3>7. ToldInv(t)'
        BY <2>2, <3>1, <3>2, <3>6 DEF ToldInv, SkuTaken, WithSku
      <3>8. QED
        BY <3>5, <3>7
    <2>8. ProductsHaveInventory'
      <3>1. /\ ThisProduct(s)'.id = id
            /\ \A r \in Seeds \ {s} : ThisProduct(r)' = ThisProduct(r)
        BY <1>2, <2>3 DEF ThisProduct
      <3>2. QED
        BY <1>1, <1>2, <2>1, <2>2, <2>3, <3>1 DEF CatalogInv, ProductsHaveInventory
    <2>9. QED
      BY <2>1, <2>3, <2>4, <2>5, <2>6, <2>7, <2>8 DEF CatalogInv
  <1>5. QED
    BY <1>1, <1>3, <1>4

LEMMA SeedInventoryStep ==
  ASSUME CatalogInv, NEW s \in Seeds, SeedInventory(s)
  PROVE  CatalogInv'
  <1> PICK i : i = seed[s].i
    OBVIOUS
  <1> PICK id : id = ThisProduct(s).id
    OBVIOUS
  <1> PICK row : row = [onHand |-> ThisProduct(s).onHand, reserved |-> 0]
    OBVIOUS
  <1>1. /\ seed[s].state = "inventory"
        /\ inventory' = IF id \in DOMAIN inventory THEN inventory ELSE Put(inventory, id, row)
        /\ \/ i = Len(SEED_PRODUCTS) /\ At(s, "done", 1)
           \/ i # Len(SEED_PRODUCTS) /\ At(s, "product", i + 1)
        /\ UNCHANGED <<products, movements, request, stops>>
    BY DEF SeedInventory, SeedStock
  <1>2. /\ i \in DOMAIN SEED_PRODUCTS /\ stops \in Nat
        /\ SEED_PRODUCTS[i].id = id /\ id \in SeedIds
        /\ row = [onHand |-> SEED_PRODUCTS[i].onHand, reserved |-> 0]
        /\ row \in [onHand : Int, reserved : Int]
    BY SeedAt
  <1>3. /\ DOMAIN inventory' = DOMAIN inventory \cup {id}
        /\ \A j \in DOMAIN inventory : inventory'[j] = inventory[j]
        /\ id \notin DOMAIN inventory => inventory'[id] = row
    BY <1>1 DEF Put
  <1>4. UNCHANGED <<products, movements, stops, pc, req, tx, status>>
    BY <1>1 DEF request
  <1>5. PICK state \in {"done", "product"}, j \in DOMAIN SEED_PRODUCTS : At(s, state, j)
    BY <1>1, <1>2, SeedProducts
  <1>6. /\ seed'[s] = [state |-> state, i |-> j]
        /\ \A r \in Seeds \ {s} : seed'[r] = seed[r]
        /\ TypeInv'
    BY <1>4, <1>5 DEF At, CatalogInv, TypeInv, States
  <1>7. id \in DOMAIN products
    BY <1>1 DEF CatalogInv, SeedInv
  <1>8. RowsInv'
    BY <1>2, <1>3, <1>4, <1>7 DEF CatalogInv, RowsInv
  <1>9. SkuInv' /\ ExclusiveInv'
    BY <1>4 DEF CatalogInv, SkuInv, ExclusiveInv, SameSku, Open
  <1>10. ASSUME NEW t \in Attempts PROVE TxInv(t)' /\ ToldInv(t)'
    BY <1>3, <1>4 DEF CatalogInv, TxInv, ToldInv, Open, SkuTaken, WithSku, SameSku
  <1>11. SeedInv'
    BY <1>4, <1>6 DEF CatalogInv, SeedInv, ThisProduct
  <1>12. ProductsHaveInventory'
    <2>1. \A r \in Seeds \ {s} : ThisProduct(r)' = ThisProduct(r)
      BY <1>6 DEF ThisProduct
    <2>2. QED
      BY <1>3, <1>4, <1>6, <2>1 DEF CatalogInv, ProductsHaveInventory
  <1>13. MovementsExplainStock'
    <2>1. \A k : Moved(k)' = Moved(k)
      BY <1>4 DEF Moved
    <2>2. id \notin DOMAIN inventory => Moved(id) = 0
      BY DEF CatalogInv, RowsInv, Moved
    <2>3. id \notin DOMAIN inventory =>
            inventory'[id].onHand = Moved(id) + SEED_PRODUCTS[i].onHand
      BY <1>2, <1>3, <2>2, SeedProducts
    <2>4. QED
      BY <1>2, <1>3, <2>1, <2>3 DEF CatalogInv, MovementsExplainStock
  <1>14. QED
    BY <1>6, <1>8, <1>9, <1>10, <1>11, <1>12, <1>13 DEF CatalogInv

-------------------------------------------------------------------------------
(* The stock operations: d units more, in the row and in the movements.        *)

OnHand(id) == IF id \in DOMAIN inventory THEN inventory[id].onHand ELSE 0

LEMMA StockMoves ==
  ASSUME CatalogInv, UNCHANGED <<products, request, seed, stops>>,
         NEW id \in DOMAIN products, NEW d \in Int,
         DOMAIN inventory' = DOMAIN inventory \cup {id},
         inventory'[id] \in [onHand : Int, reserved : Int],
         \A i \in DOMAIN inventory \ {id} : inventory'[i] = inventory[i],
         DOMAIN movements' \subseteq DOMAIN movements \cup {id},
         \A i \in DOMAIN movements' : movements'[i] \in Int,
         \A i \in DOMAIN inventory \ {id} : Moved(i)' = Moved(i),
         inventory'[id].onHand = OnHand(id) + d, Moved(id)' = Moved(id) + d
  PROVE  CatalogInv'
  <1>1. UNCHANGED <<products, pc, req, tx, status, seed, stops>>
    BY DEF request
  <1>2. TypeInv' /\ SkuInv' /\ ExclusiveInv' /\ SeedInv'
    BY <1>1 DEF CatalogInv, TypeInv, SkuInv, ExclusiveInv, SeedInv, SameSku, Open, ThisProduct
  <1>3. RowsInv'
    BY <1>1 DEF CatalogInv, RowsInv
  <1>4. ASSUME NEW t \in Attempts PROVE TxInv(t)' /\ ToldInv(t)'
    BY <1>1 DEF CatalogInv, TxInv, ToldInv, Open, SkuTaken, WithSku, SameSku
  <1>5. ProductsHaveInventory'
    BY <1>1 DEF CatalogInv, ProductsHaveInventory, ThisProduct
  <1>6. MovementsExplainStock'
    <2>1. ASSUME NEW i \in DOMAIN inventory \ {id}
          PROVE  \/ inventory'[i].onHand = Moved(i)'
                 \/ \E k \in DOMAIN SEED_PRODUCTS :
                      /\ i = SEED_PRODUCTS[k].id
                      /\ inventory'[i].onHand = Moved(i)' + SEED_PRODUCTS[k].onHand
      BY <2>1 DEF CatalogInv, MovementsExplainStock
    <2>2. Moved(id) \in Int /\ OnHand(id) \in Int
      BY DEF CatalogInv, RowsInv, Moved, OnHand
    <2>3. \/ OnHand(id) = Moved(id)
          \/ \E k \in DOMAIN SEED_PRODUCTS :
               /\ id = SEED_PRODUCTS[k].id
               /\ OnHand(id) = Moved(id) + SEED_PRODUCTS[k].onHand
      <3>1. CASE id \in DOMAIN inventory
        BY <3>1 DEF CatalogInv, MovementsExplainStock, OnHand
      <3>2. CASE id \notin DOMAIN inventory
        BY <3>2 DEF CatalogInv, RowsInv, OnHand, Moved
      <3>3. QED
        BY <3>1, <3>2
    <2>4. \/ inventory'[id].onHand = Moved(id)'
          \/ \E k \in DOMAIN SEED_PRODUCTS :
               /\ id = SEED_PRODUCTS[k].id
               /\ inventory'[id].onHand = Moved(id)' + SEED_PRODUCTS[k].onHand
      <3>1. CASE OnHand(id) = Moved(id)
        BY <2>2, <3>1
      <3>2. ASSUME NEW k \in DOMAIN SEED_PRODUCTS, id = SEED_PRODUCTS[k].id,
                   OnHand(id) = Moved(id) + SEED_PRODUCTS[k].onHand
            PROVE  inventory'[id].onHand = Moved(id)' + SEED_PRODUCTS[k].onHand
        BY <2>2, <3>2, SeedProducts
      <3>3. QED
        BY <2>3, <3>1, <3>2
    <2>5. QED
      BY <2>1, <2>4 DEF MovementsExplainStock
  <1>7. QED
    BY <1>2, <1>3, <1>4, <1>5, <1>6 DEF CatalogInv

LEMMA AdjustStockStep ==
  ASSUME CatalogInv, NEW id \in DOMAIN products, NEW d \in {-1, 1}, AdjustStock(id, d)
  PROVE  CatalogInv'
  <1> PICK row : row = IF id \in DOMAIN inventory THEN inventory[id]
                       ELSE [onHand |-> 0, reserved |-> 0]
    OBVIOUS
  <1> PICK moved : moved = Moved(id)
    OBVIOUS
  <1>1. /\ inventory' = Put(inventory, id, [row EXCEPT !.onHand = row.onHand + d])
        /\ movements' = Put(movements, id, moved + d)
        /\ UNCHANGED <<products, request, seed, stops>>
    BY DEF AdjustStock
  <1>2. row \in [onHand : Int, reserved : Int] /\ moved \in Int
        /\ OnHand(id) = row.onHand /\ d \in Int
    BY DEF CatalogInv, RowsInv, Moved, OnHand
  <1>3. [row EXCEPT !.onHand = row.onHand + d] \in [onHand : Int, reserved : Int]
        /\ [row EXCEPT !.onHand = row.onHand + d].onHand = row.onHand + d
    BY <1>2
  <1> PICK new : new = [row EXCEPT !.onHand = row.onHand + d]
    OBVIOUS
  <1>4. /\ DOMAIN inventory' = DOMAIN inventory \cup {id}
        /\ inventory'[id] = new
        /\ \A i \in DOMAIN inventory \ {id} : inventory'[i] = inventory[i]
    BY <1>1 DEF Put
  <1>5. /\ DOMAIN movements' = DOMAIN movements \cup {id}
        /\ movements'[id] = moved + d
        /\ \A i \in DOMAIN movements \ {id} : movements'[i] = movements[i]
    BY <1>1 DEF Put
  <1>6. \A i \in DOMAIN movements' : movements'[i] \in Int
    BY <1>2, <1>5 DEF CatalogInv, RowsInv
  <1>7. /\ Moved(id)' = Moved(id) + d
        /\ \A i \in DOMAIN inventory \ {id} : Moved(i)' = Moved(i)
    BY <1>5 DEF Moved
  <1>8. QED
    BY <1>1, <1>2, <1>3, <1>4, <1>5, <1>6, <1>7, StockMoves

LEMMA ReserveStockStep ==
  ASSUME CatalogInv, NEW id \in DOMAIN products, NEW d \in {-1, 1}, ReserveStock(id, d)
  PROVE  CatalogInv'
  <1>1. /\ id \in DOMAIN inventory
        /\ inventory' = [inventory EXCEPT ![id].reserved = inventory[id].reserved + d]
        /\ UNCHANGED <<products, movements, request, seed, stops>>
    BY DEF ReserveStock
  <1>2. inventory[id] \in [onHand : Int, reserved : Int]
    BY <1>1 DEF CatalogInv, RowsInv
  <1>3. /\ DOMAIN inventory' = DOMAIN inventory \cup {id}
        /\ inventory'[id] = [inventory[id] EXCEPT !.reserved = inventory[id].reserved + d]
        /\ \A i \in DOMAIN inventory \ {id} : inventory'[i] = inventory[i]
    BY <1>1
  <1>4. /\ inventory'[id] \in [onHand : Int, reserved : Int]
        /\ inventory'[id].onHand = OnHand(id) + 0
    BY <1>1, <1>2, <1>3 DEF OnHand
  <1>5. Moved(id) \in Int /\ \A i \in DOMAIN movements : movements[i] \in Int
    BY DEF CatalogInv, RowsInv, Moved
  <1>6. /\ Moved(id)' = Moved(id) + 0
        /\ \A i \in DOMAIN inventory \ {id} : Moved(i)' = Moved(i)
    BY <1>1, <1>5 DEF Moved
  <1>7. /\ DOMAIN movements' \subseteq DOMAIN movements \cup {id}
        /\ \A i \in DOMAIN movements' : movements'[i] \in Int
        /\ 0 \in Int
    BY <1>1, <1>5
  <1>8. QED
    BY <1>1, <1>3, <1>4, <1>6, <1>7, StockMoves

LEMMA FulfillStockStep ==
  ASSUME CatalogInv, NEW id \in DOMAIN products, FulfillStock(id)
  PROVE  CatalogInv'
  <1> PICK row : row = inventory[id]
    OBVIOUS
  <1> PICK moved : moved = Moved(id)
    OBVIOUS
  <1>1. /\ id \in DOMAIN inventory
        /\ inventory' = [inventory EXCEPT ![id].reserved = @ - 1, ![id].onHand = @ - 1]
        /\ movements' = Put(movements, id, moved - 1)
        /\ UNCHANGED <<products, request, seed, stops>>
    BY DEF FulfillStock
  <1>2. row \in [onHand : Int, reserved : Int] /\ OnHand(id) = row.onHand /\ moved \in Int
    BY <1>1 DEF CatalogInv, RowsInv, OnHand, Moved
  <1>3. /\ DOMAIN inventory' = DOMAIN inventory \cup {id}
        /\ inventory'[id] = [row EXCEPT !.reserved = @ - 1, !.onHand = @ - 1]
        /\ \A i \in DOMAIN inventory \ {id} : inventory'[i] = inventory[i]
    BY <1>1
  <1>4. /\ inventory'[id] \in [onHand : Int, reserved : Int]
        /\ inventory'[id].onHand = row.onHand + (-1)
    <2>1. inventory'[id] = [onHand |-> row.onHand - 1, reserved |-> row.reserved - 1]
      BY <1>2, <1>3
    <2>2. QED
      BY <1>2, <2>1
  <1>5. /\ DOMAIN movements' = DOMAIN movements \cup {id}
        /\ movements'[id] = moved + (-1)
        /\ \A i \in DOMAIN movements \ {id} : movements'[i] = movements[i]
    BY <1>1, <1>2 DEF Put
  <1>6. \A i \in DOMAIN movements' : movements'[i] \in Int
    BY <1>2, <1>5 DEF CatalogInv, RowsInv
  <1>7. /\ Moved(id)' = Moved(id) + (-1)
        /\ \A i \in DOMAIN inventory \ {id} : Moved(i)' = Moved(i)
    BY <1>5 DEF Moved
  <1>8. QED
    BY <1>1, <1>2, <1>3, <1>4, <1>5, <1>6, <1>7, StockMoves

-------------------------------------------------------------------------------
LEMMA CatalogNext == CatalogInv /\ [Next]_vars => CatalogInv'
  <1> SUFFICES ASSUME CatalogInv, [Next]_vars PROVE CatalogInv'
    OBVIOUS
  <1>1. ASSUME NEW t \in Attempts, Step(t) \/ Crash(t) PROVE CatalogInv'
    BY <1>1, InsertProductStep, InsertInventoryStep, CommitProductStep, LeaveStep
       DEF Step, Answer, Crash
  <1>2. ASSUME NEW t \in Attempts, NEW q \in Creates, Send(t, q) PROVE CatalogInv'
    BY <1>2, SendStep
  <1>3. ASSUME NEW s \in Seeds, StartSeed(s) \/ SeedStep(s) \/ StopSeed(s)
        PROVE  CatalogInv'
    BY <1>3, StartSeedStep, SeedOrganizationStep, SeedProductStep, SeedInventoryStep,
       StopSeedStep DEF SeedStep
  <1>4. ASSUME NEW id \in DOMAIN products,
               \/ \E d \in {-1, 1} : AdjustStock(id, d) \/ ReserveStock(id, d)
               \/ FulfillStock(id)
        PROVE  CatalogInv'
    BY <1>4, AdjustStockStep, ReserveStockStep, FulfillStockStep
  <1>5. CASE UNCHANGED vars
    <2>1. UNCHANGED <<products, inventory, movements, pc, req, tx, status, seed, stops>>
      BY <1>5 DEF vars
    <2>2. TypeInv' /\ RowsInv' /\ SkuInv' /\ ExclusiveInv' /\ SeedInv'
      BY <2>1 DEF CatalogInv, TypeInv, RowsInv, SkuInv, ExclusiveInv, SeedInv, SameSku,
                  Open, ThisProduct
    <2>3. \A t \in Attempts : TxInv(t)' /\ ToldInv(t)'
      BY <2>1 DEF CatalogInv, TxInv, ToldInv, Open, SkuTaken, WithSku, SameSku
    <2>4. ProductsHaveInventory' /\ MovementsExplainStock'
      BY <2>1 DEF CatalogInv, ProductsHaveInventory, MovementsExplainStock, ThisProduct, Moved
    <2>5. QED
      BY <2>2, <2>3, <2>4 DEF CatalogInv
  <1>6. QED
    BY <1>1, <1>2, <1>3, <1>4, <1>5 DEF Next

(* The inductive invariant of the catalogue: SKUs are unique, rows refer to    *)
(* each other as the foreign keys say, and what open transactions have         *)
(* inserted is in nobody's way.                                                *)
THEOREM CatalogInvariant == Spec => []CatalogInv
<1>1. QED
  BY CatalogInit, CatalogNext, PTL DEF Spec

(* No product is without an inventory row, but those of a seed that is between *)
(* its two statements or was stopped there (ProductsService.createProduct,     *)
(* scripts/seed.ts).                                                           *)
THEOREM InventoryIsThere == Spec => []ProductsHaveInventory
<1>1. CatalogInv => ProductsHaveInventory
  BY DEF CatalogInv
<1>2. QED
  BY <1>1, CatalogInvariant, PTL

(* The stock of a product is what its movements add up to, but for what the    *)
(* seed gave it (createProduct, applyAdjustment, scripts/seed.ts).             *)
THEOREM StockIsExplained == Spec => []MovementsExplainStock
<1>1. CatalogInv => MovementsExplainStock
  BY DEF CatalogInv
<1>2. QED
  BY <1>1, CatalogInvariant, PTL

(* What a client is told of a create request is so: a 201 that the product is  *)
(* there with its inventory row, a 409 that another has its SKU                *)
(* (ProductsService.createProduct).                                            *)
THEOREM CreatesAreAnswered == Spec => []AnswersAreTrue
<1>1. CatalogInv => AnswersAreTrue
  <2> SUFFICES ASSUME CatalogInv, NEW t \in Attempts, pc[t] = "answer"
               PROVE  /\ status[t] \in {201, 409}
                      /\ Cardinality(WithSku(req[t])) = 1
                      /\ status[t] = 201 => WithSku(req[t]) \subseteq DOMAIN inventory
    BY DEF AnswersAreTrue
  <2>1. /\ status[t] \in {201, 409} /\ WithSku(req[t]) # {}
        /\ status[t] = 201 => WithSku(req[t]) \subseteq DOMAIN inventory
    BY DEF CatalogInv, ToldInv, SkuTaken
  <2>2. \A i, j \in WithSku(req[t]) : i = j
    BY DEF CatalogInv, SkuInv, WithSku, SameSku
  <2>3. PICK id : WithSku(req[t]) = {id}
    <3> DEFINE same == WithSku(req[t])
    <3>1. same # {} /\ \A i, j \in same : i = j
      BY <2>1, <2>2
    <3> HIDE DEF same
    <3>2. PICK i : i \in same
      BY <3>1
    <3>3. same = {i}
      BY <3>1, <3>2
    <3>4. QED
      BY <3>3 DEF same
  <2>4. Cardinality({id}) = 1
    BY FS_Singleton
  <2>5. QED
    BY <2>1, <2>3, <2>4
<1>2. QED
  BY <1>1, CatalogInvariant, PTL

(* However often the seed runs, and whatever is created next to it, no row     *)
(* that exists is changed by either: only the stock operations do that         *)
(* (scripts/seed.ts, ON CONFLICT DO NOTHING).                                  *)
THEOREM RunsKeepStock == Spec => OnlyStockOperationsChangeStock
<1> DEFINE Kept == <<pc, seed>>' # <<pc, seed>> =>
                     \A id \in DOMAIN inventory : inventory'[id] = inventory[id]
<1>1. CatalogInv /\ [Next]_vars => [Kept]_vars
  <2> SUFFICES ASSUME CatalogInv, Next, <<pc, seed>>' # <<pc, seed>>,
                      NEW id \in DOMAIN inventory
               PROVE  inventory'[id] = inventory[id]
    OBVIOUS
  <2>1. ASSUME NEW t \in Attempts, CommitProduct(t) PROVE inventory'[id] = inventory[id]
    <3>1. tx[t] \notin DOMAIN inventory
      BY <2>1 DEF CommitProduct, CatalogInv, TxInv, RowsInv
    <3>2. \E row : inventory' = Put(inventory, tx[t], row)
      BY <2>1 DEF CommitProduct
    <3>3. QED
      BY <3>1, <3>2 DEF Put
  <2>2. ASSUME NEW t \in Attempts,
               \/ InsertProduct(t) \/ InsertInventory(t) \/ Leave(t)
               \/ \E q \in Creates : Send(t, q)
        PROVE  inventory'[id] = inventory[id]
    BY <2>2 DEF InsertProduct, InsertInventory, Leave, Send, stock
  <2>3. ASSUME NEW s \in Seeds, SeedInventory(s) PROVE inventory'[id] = inventory[id]
    <3>1. \/ inventory' = inventory
          \/ \E row : /\ ThisProduct(s).id \notin DOMAIN inventory
                      /\ inventory' = Put(inventory, ThisProduct(s).id, row)
      BY <2>3 DEF SeedInventory, SeedStock
    <3>2. QED
      BY <3>1 DEF Put
  <2>4. ASSUME NEW s \in Seeds,
               StartSeed(s) \/ SeedOrganization(s) \/ SeedProduct(s) \/ StopSeed(s)
        PROVE  inventory'[id] = inventory[id]
    BY <2>4 DEF StartSeed, SeedOrganization, SeedProduct, StopSeed, stock
  <2>5. ASSUME NEW p \in DOMAIN products,
               \/ \E d \in {-1, 1} : AdjustStock(p, d) \/ ReserveStock(p, d)
               \/ FulfillStock(p)
        PROVE  FALSE
    BY <2>5 DEF AdjustStock, ReserveStock, FulfillStock, request
  <2>6. QED
    BY <2>1, <2>2, <2>3, <2>4, <2>5 DEF Next, Step, Answer, Crash, SeedStep
<1> HIDE DEF Kept
<1>2. [][Kept]_vars => OnlyStockOperationsChangeStock
  BY DEF Kept, OnlyStockOperationsChangeStock
<1>3. QED
  BY <1>1, <1>2, CatalogInvariant, PTL DEF Spec
================================================================================
