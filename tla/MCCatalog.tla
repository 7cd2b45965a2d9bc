------------------------------- MODULE MCCatalog -------------------------------
(***************************************************************************)
(* A small instance of Catalog for TLC: a seed of two products, and        *)
(* clients that create one of its SKUs, typed in two ways, before it,      *)
(* after it or at the same time.                                           *)
(***************************************************************************)
EXTENDS Catalog, TLC

CONSTANTS s1, s2, n1, n2, stove, Stove, pack, t1, t2, d1

MCNormalized == (stove :> stove) @@ (Stove :> stove) @@ (pack :> pack)

MCSeedProducts ==
  <<[id |-> s1, sku |-> stove, onHand |-> 1], [id |-> s2, sku |-> pack, onHand |-> 1]>>

MCCreates ==
  {[org |-> "acme", sku |-> Stove, onHand |-> 1],
   [org |-> "other", sku |-> stove, onHand |-> 0]}
===============================================================================
