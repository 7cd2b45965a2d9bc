-------------------------------- MODULE MCStock --------------------------------
(***************************************************************************)
(* Small instances of StockEngine for TLC.                                 *)
(***************************************************************************)
EXTENDS StockRefinement, TLC

CONSTANTS a, b, o1, o2, k1, k2, noOrder, noOrg, t1, t2, t3

Line2(p, q) == [product |-> p, quantity |-> q]

Create(org, key, lines) ==
  [op |-> CreateOp, org |-> org, key |-> key, lines |-> lines, order |-> noOrder]
Release(org, key, o) ==
  [op |-> ReleaseOp, org |-> org, key |-> key, lines |-> <<>>, order |-> o]
Fulfill(org, key, o) ==
  [op |-> FulfillOp, org |-> org, key |-> key, lines |-> <<>>, order |-> o]
AdjustBy(org, key, p, d) ==
  [op |-> AdjustOp, org |-> org, key |-> key, lines |-> <<Line2(p, d)>>,
   order |-> noOrder]

Stocked(n) == [exists |-> TRUE, onHand |-> n, reserved |-> 0]

(* Contention: reservations naming the same products in opposite order, one    *)
(* with a duplicate line, and one order to fulfil.                             *)
ContentionOwner    == [p \in {1, 2} |-> a]
ContentionOpening  == [p \in {1, 2} |-> Stocked(3)]
ContentionRequests ==
  {Create(a, k1, <<Line2(1, 1), Line2(2, 2)>>),
   Create(a, k2, <<Line2(2, 1), Line2(1, 1)>>),
   Create(a, k1, <<Line2(1, 1), Line2(1, 1)>>),
   Fulfill(a, k1, o1)}

(* Lifecycle: two orders of the same product, cancelled and fulfilled by       *)
(* clients that retry and reuse keys, and adjustments in between, one down to  *)
(* nothing and one up to and past the largest integer.                         *)
LifecycleOwner    == [p \in {1} |-> a]
LifecycleOpening  == [p \in {1} |-> Stocked(2)]
LifecycleRequests ==
  {Create(a, k1, <<Line2(1, 1)>>), Create(a, k2, <<Line2(1, 1)>>),
   AdjustBy(a, k1, 1, -2), AdjustBy(a, k1, 1, 1), Release(a, k2, o1)}
  \cup {Release(a, k1, o) : o \in {o1, o2}}
  \cup {Fulfill(a, k1, o) : o \in {o1, o2}}

(* Tenants: two organizations name each other's products and orders; product 2 *)
(* has no inventory row yet, and adjustments go up to the largest integer.     *)
TenantsOwner    == (1 :> a) @@ (2 :> b)
TenantsOpening  == (1 :> Stocked(1)) @@ (2 :> Absent)
TenantsRequests ==
  {Create(a, k1, <<Line2(1, 1)>>), Create(b, k1, <<Line2(1, 1)>>),
   Create(b, k2, <<Line2(2, 1)>>),
   Release(b, k1, o1), Fulfill(a, k1, o1),
   AdjustBy(b, k1, 2, 2), AdjustBy(b, k2, 2, 1), AdjustBy(a, k1, 2, 1),
   AdjustBy(a, k2, 1, 2)}

Symmetry  == Permutations({t1, t2, t3})
Symmetry2 == Permutations({t1, t2})
===============================================================================
