---------------------------- MODULE StockRefinement ----------------------------
(***************************************************************************)
(* StockEngine implements StockContract: the control state of an attempt   *)
(* is forgotten but for whether it was asked and answered.  The instant at *)
(* which a request takes effect is its COMMIT.                             *)
(***************************************************************************)
EXTENDS StockEngine

phaseBar ==
  [t \in Procs |-> CASE pc[t] = "idle"  -> "idle"
                     [] pc[t] = "reply" -> "answered"
                     [] OTHER           -> "asked"]

Contract == INSTANCE StockContract WITH phase <- phaseBar

(* Clients cannot tell the interleaved transactions from requests that take    *)
(* effect one at a time, each at once and together with its idempotency row.   *)
ImplementsContract == Contract!Spec
===============================================================================
