------------------------------ MODULE MCWebContexts ------------------------------
(***************************************************************************)
(* A small instance of WebContexts for TLC.                                *)
(***************************************************************************)
EXTENDS WebContexts

(* Two users with one organization in common.                                  *)
MCMemberships == [ann |-> {"acme", "shared"}, bob |-> {"shared", "bolt"}]
===============================================================================
