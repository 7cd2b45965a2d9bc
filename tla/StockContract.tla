----------------------------- MODULE StockContract -----------------------------
(***************************************************************************)
(* What the stock-changing requests promise their clients, with no locks,  *)
(* no statements and no interleaving: between being asked and being        *)
(* answered, a request takes effect in one step on the whole database, at  *)
(* most once per (organization, operation, Idempotency-Key), together with *)
(* the record that lets it be replayed; or it has no effect at all.        *)
(***************************************************************************)
EXTENDS StockRules

CONSTANTS Procs, NoRequest, NoOutcome

VARIABLES inventory, orders, keys, ledger, audit, phase, req, outcome

database == <<inventory, orders, keys, ledger, audit>>
vars     == <<inventory, orders, keys, ledger, audit, phase, req, outcome>>

Init ==
  /\ inventory = Opening
  /\ orders    = [o \in OrderIds |-> NoSuchOrder]
  /\ keys      = {}
  /\ ledger    = [p \in Products |-> [m \in MovementTypes |-> 0]]
  /\ audit     = [o \in OrderIds |-> [a \in AuditActions |-> 0]]
  /\ phase     = [t \in Procs |-> "idle"]
  /\ req       = [t \in Procs |-> NoRequest]
  /\ outcome   = [t \in Procs |-> NoOutcome]

-------------------------------------------------------------------------------
Ask(t, r) ==
  /\ phase[t] = "idle"
  /\ r.op \in OrderOps => orders[r.order].status # "none"
  /\ phase' = [phase EXCEPT ![t] = "asked"]
  /\ req' = [req EXCEPT ![t] = r]
  /\ UNCHANGED <<database, outcome>>

AskInVain(t, r) ==
  /\ phase[t] = "idle"
  /\ BadRequest(r)
  /\ phase' = [phase EXCEPT ![t] = "answered"]
  /\ req' = [req EXCEPT ![t] = r]
  /\ outcome' = [outcome EXCEPT ![t] = Refused]
  /\ UNCHANGED database

Answered(t, result) ==
  /\ phase[t] = "asked"
  /\ phase' = [phase EXCEPT ![t] = "answered"]
  /\ outcome' = [outcome EXCEPT ![t] = result]
  /\ UNCHANGED req

(* The first request of its scope to take effect; its outcome is kept forever. *)
Record(t, result) ==
  /\ \A k \in keys : k.scope # Scope(req[t])
  /\ keys' = keys \cup {[scope |-> Scope(req[t]), fingerprint |-> Fingerprint(req[t]),
                         outcome |-> result]}
  /\ Answered(t, result)

(* A refusal is recorded like a success, and changes nothing else.             *)
Refuse(t, result) ==
  /\ Record(t, result)
  /\ UNCHANGED <<inventory, orders, ledger, audit>>

Move(r, lines) ==
  /\ inventory' = [p \in Products |->
       IF p \in ProductsOf(lines)
       THEN Written(r.op, inventory[p], inventory[p], Quantity(lines, p))
       ELSE inventory[p]]
  /\ ledger' = [p \in Products |->
       IF p \in ProductsOf(lines)
       THEN [ledger[p] EXCEPT ![MovementType(r.op)] = @ + Quantity(lines, p)]
       ELSE ledger[p]]

-------------------------------------------------------------------------------
(* A product whose inventory row was created while the request was being       *)
(* served may still count as having none.                                      *)
Views(r) ==
  {[p \in Products |-> IF p \in late \/ ~Owns(r.org, p) THEN Absent ELSE inventory[p]] :
     late \in SUBSET {p \in Products : ~Opening[p].exists}}

Reserve(t) ==
  LET r == req[t]
  IN  /\ r.op = CreateOp
      /\ \A i \in DOMAIN r.lines :
           /\ Owns(r.org, r.lines[i].product)
           /\ Available(inventory[r.lines[i].product]) >= r.lines[i].quantity
      /\ Move(r, r.lines)
      /\ \E o \in OrderIds :
           /\ orders[o].status = "none"
           /\ orders' = [orders EXCEPT ![o] = [status |-> "pending", org |-> r.org,
                                               lines |-> r.lines]]
           /\ audit' = [audit EXCEPT ![o][CreateOp] = @ + 1]
           /\ Record(t, Outcome(201, <<"created", o>>))

RefuseReservation(t) ==
  /\ req[t].op = CreateOp
  /\ \E stock \in Views(req[t]) :
       /\ ShortLines(req[t].lines, stock) # {}
       /\ Refuse(t, ShortfallReply(req[t].lines, stock))

(* Of all the requests to cancel or to fulfil an order, one finds it pending.  *)
Finish(t) ==
  LET r == req[t]
  IN  /\ r.op \in OrderOps
      /\ orders[r.order].status = "pending" /\ orders[r.order].org = r.org
      /\ Move(r, orders[r.order].lines)
      /\ orders' = [orders EXCEPT ![r.order].status = StatusAfter(r.op)]
      /\ audit' = [audit EXCEPT ![r.order][r.op] = @ + 1]
      /\ Record(t, Outcome(200, <<StatusAfter(r.op), r.order>>))

RefuseToFinish(t) ==
  LET order == orders[req[t].order]
  IN  /\ req[t].op \in OrderOps
      /\ \/ order.org # req[t].org /\ Refuse(t, Outcome(404, <<"not found">>))
         \/ /\ order.org = req[t].org
            /\ order.status \in {"cancelled", "fulfilled"}
            /\ Refuse(t, Outcome(409, <<"already", order.status>>))

Adjust(t) ==
  LET r == req[t]
      p == r.lines[1].product
      result == AdjustmentOutcome(Owns(r.org, p), inventory[p], r.lines[1].quantity)
  IN  /\ r.op = AdjustOp
      /\ result.status = 200
      /\ Move(r, r.lines)
      /\ Record(t, result)
      /\ UNCHANGED <<orders, audit>>

RefuseAdjustment(t) ==
  /\ req[t].op = AdjustOp
  /\ \E stock \in Views(req[t]) :
       LET line   == req[t].lines[1]
           result == AdjustmentOutcome(Owns(req[t].org, line.product),
                                       stock[line.product], line.quantity)
       IN  result.status # 200 /\ Refuse(t, result)

(* Two first adjustments of a product at once: one of them answers 500.        *)
LoseFirstAdjustment(t) ==
  /\ req[t].op = AdjustOp
  /\ ~Opening[req[t].lines[1].product].exists
  /\ inventory[req[t].lines[1].product].exists
  /\ Answered(t, Duplicate)
  /\ UNCHANGED database

(* A request of a scope that is taken: the recorded outcome, if it asks for    *)
(* the same thing.                                                             *)
Replay(t) ==
  /\ \E k \in keys :
       /\ k.scope = Scope(req[t])
       /\ Answered(t, IF k.fingerprint = Fingerprint(req[t])
                      THEN k.outcome ELSE KeyReused)
  /\ UNCHANGED database

(* The answer is delivered or lost; or the request dies without effect.        *)
Leave(t) ==
  /\ phase[t] # "idle"
  /\ phase' = [phase EXCEPT ![t] = "idle"]
  /\ req' = [req EXCEPT ![t] = NoRequest]
  /\ outcome' = [outcome EXCEPT ![t] = NoOutcome]
  /\ UNCHANGED database

Effect(t) ==
  \/ Reserve(t) \/ RefuseReservation(t)
  \/ Finish(t)  \/ RefuseToFinish(t)
  \/ Adjust(t)  \/ RefuseAdjustment(t) \/ LoseFirstAdjustment(t)
  \/ Replay(t)

Next ==
  \E t \in Procs :
    \/ \E r \in Requests : Ask(t, r) \/ AskInVain(t, r)
    \/ phase[t] = "asked" /\ Effect(t)
    \/ Leave(t)

Spec == Init /\ [][Next]_vars
===============================================================================
