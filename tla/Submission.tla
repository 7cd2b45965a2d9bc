------------------------------- MODULE Submission -------------------------------
(***************************************************************************)
(* The two forms of the web client that change stock, the new order page   *)
(* and the adjustment dialog, over a network that delays and loses, and an *)
(* API that handles a request in one step (StockContract, which its        *)
(* statements implement).                                                  *)
(*                                                                         *)
(* A form is mounted with a key of its own and keeps it: lib/idempotency.  *)
(* Its content is abstracted to the change it makes to one product's       *)
(* stock: an order takes, an adjustment takes or adds.                     *)
(*                                                                         *)
(* Operators named Faulty_... are variants with one plausible mistake.  No *)
(* action uses them: they show that the properties can fail.               *)
(***************************************************************************)
EXTENDS Integers, Sequences, FiniteSets

CONSTANTS
  Changes,       \* what a form can be filled with
  Blank,         \* the content of a form nobody has filled in
  MaxStock,      \* bound on the stock
  MaxMounts,     \* bound on the forms mounted
  MaxSubmits     \* bound on the requests sent

ASSUME ChangesAreNumbers == Changes \subseteq Int \ {Blank}
ASSUME BoundsAssumption ==
  /\ MaxStock \in Nat /\ MaxMounts \in Nat /\ MaxSubmits \in Nat
  /\ MaxMounts <= MaxSubmits

VARIABLES
  stock,         \* the API: what is available,
  keys,          \*   the outcome recorded for each key,
  effects,       \*   history: the requests that changed the stock, in order
  network,       \* requests on their way
  answers,       \* answers on their way
  waiting,       \* the requests whose promise is pending
  mount,         \* the form on the screen: 0 if none, else when it was mounted
  form,          \*   its kind and content, and whether a decrease is being confirmed
  shown,         \*   the error it shows
  mounted,       \* how many forms were mounted
  sent           \* how many requests were sent

vars == <<stock, keys, effects, network, answers, waiting, mount, form, shown, mounted, sent>>
api    == <<stock, keys, effects>>
client == <<waiting, mount, form, shown, mounted, sent>>

NotRecorded == [change |-> Blank, outcome |-> "none"]
NoForm == [kind |-> "none", change |-> Blank, confirming |-> FALSE]

Init ==
  /\ stock \in 0..MaxStock
  /\ keys = [k \in 1..MaxSubmits |-> NotRecorded]
  /\ effects = <<>>
  /\ network = {} /\ answers = {} /\ waiting = {}
  /\ mount = 0 /\ form = NoForm /\ shown = "none"
  /\ mounted = 0 /\ sent = 0

-------------------------------------------------------------------------------
(* Faulty: a key for every request.                                            *)
Faulty_KeyPerRequest(m) == sent + 1

(* The key of the form mounted as m-th: generated once, never renewed, for the *)
(* dialog is mounted anew each time it is opened.                              *)
Key(m) == m

Submitting == \E r \in waiting : r.mount = mount

(* The click that sends the form: it is rendered with the error gone.          *)
Send ==
  /\ sent < MaxSubmits
  /\ sent' = sent + 1
  /\ LET r == [n |-> sent + 1, mount |-> mount, kind |-> form.kind,
               change |-> form.change, key |-> Key(mount)] IN
     /\ network' = network \cup {r}
     /\ waiting' = waiting \cup {r}
  /\ shown' = "none"
  /\ UNCHANGED <<stock, keys, effects, answers, mount, mounted>>

-------------------------------------------------------------------------------
(* The user.                                                                   *)

Mount(kind) ==
  /\ mount = 0
  /\ mounted < MaxMounts
  /\ mounted' = mounted + 1
  /\ mount' = mounted + 1
  /\ form' = [NoForm EXCEPT !.kind = kind]
  /\ shown' = "none"
  /\ UNCHANGED <<api, network, answers, waiting, sent>>

(* Its inputs stay enabled while a request is on its way.                      *)
Edit(change) ==
  /\ mount # 0 /\ ~form.confirming
  /\ form.kind = "order" => change < 0
  /\ form.change # change
  /\ form' = [form EXCEPT !.change = change]
  /\ UNCHANGED <<api, network, answers, waiting, mount, shown, mounted, sent>>

SubmitOrder ==
  /\ form.kind = "order" /\ form.change # Blank
  /\ ~Submitting
  /\ Send
  /\ UNCHANGED form

(* handleSubmit of the dialog: a decrease is confirmed first.                  *)
SubmitAdjustment ==
  /\ form.kind = "adjust" /\ form.change # Blank /\ ~form.confirming
  /\ ~Submitting
  /\ \/ /\ form.change < 0
        /\ form' = [form EXCEPT !.confirming = TRUE]
        /\ UNCHANGED <<api, network, answers, waiting, mount, shown, mounted, sent>>
     \/ /\ form.change > 0
        /\ Send
        /\ UNCHANGED form

ConfirmDecrease ==
  /\ form.confirming /\ ~Submitting
  /\ Send
  /\ UNCHANGED form

Back ==
  /\ form.confirming /\ ~Submitting
  /\ form' = [form EXCEPT !.confirming = FALSE]
  /\ UNCHANGED <<api, network, answers, waiting, mount, shown, mounted, sent>>

(* By its own button or by going to another page; the promise stays pending.   *)
Unmounted == mount' = 0 /\ form' = NoForm /\ shown' = "none"

Leave ==
  /\ mount # 0
  /\ Unmounted
  /\ UNCHANGED <<api, network, answers, waiting, mounted, sent>>

-------------------------------------------------------------------------------
(* The API.                                                                    *)

(* Faulty: a refusal rolls the key back, too.                                  *)
Faulty_ForgetRefusals(r, outcome) ==
  IF outcome = "refused" THEN keys
  ELSE [keys EXCEPT ![r.key] = [change |-> r.change, outcome |-> outcome]]

Recorded(r, outcome) ==
  [keys EXCEPT ![r.key] = [change |-> r.change, outcome |-> outcome]]

(* Faulty: the recorded outcome is replayed whatever is asked now.             *)
Faulty_ReplayAny(r) == keys[r.key].outcome

Replayed(r) == IF keys[r.key].change = r.change THEN keys[r.key].outcome ELSE "reused"

Respond(r, outcome) ==
  /\ network' = network \ {r}
  /\ answers' = IF r \in waiting THEN answers \cup {[request |-> r, outcome |-> outcome]}
                ELSE answers

Handle(r) ==
  \/ /\ keys[r.key] # NotRecorded
     /\ Respond(r, Replayed(r))
     /\ UNCHANGED <<stock, keys, effects>>
  \/ /\ keys[r.key] = NotRecorded
     /\ LET fits    == stock + r.change >= 0
            outcome == IF fits THEN "done" ELSE "refused" IN
        /\ stock' = IF fits THEN stock + r.change ELSE stock
        /\ effects' = IF fits THEN Append(effects, r) ELSE effects
        /\ keys' = Recorded(r, outcome)
        /\ Respond(r, outcome)

(* Other users take and add.                                                   *)
Others(change) ==
  /\ IF change < 0 THEN stock > 0 ELSE stock < MaxStock
  /\ stock' = stock + change
  /\ UNCHANGED <<keys, effects, network, answers, client>>

-------------------------------------------------------------------------------
(* The network, and what the pages make of an answer.                          *)

Lose(r) ==
  /\ network' = network \ {r}
  /\ UNCHANGED <<api, answers, client>>

(* fetch rejects: the request or its answer was lost, or is still on its way.  *)
GiveUp(r) ==
  /\ waiting' = waiting \ {r}
  /\ answers' = {a \in answers : a.request # r}
  /\ shown' = IF r.mount = mount THEN "unreachable" ELSE shown
  /\ UNCHANGED <<api, network, mount, form, mounted, sent>>

(* An error is shown by the form that sent the request, if it is still there.  *)
DeliverError(a) ==
  /\ a.outcome # "done"
  /\ waiting' = waiting \ {a.request}
  /\ answers' = answers \ {a}
  /\ shown' = IF a.request.mount = mount THEN a.outcome ELSE shown
  /\ UNCHANGED <<api, network, mount, form, mounted, sent>>

(* A success closes the dialog that sent it.  The order page goes on to the    *)
(* new order, even after it was left: whatever is on the screen goes away.     *)
DeliverSuccess(a) ==
  /\ a.outcome = "done"
  /\ waiting' = waiting \ {a.request}
  /\ answers' = answers \ {a}
  /\ IF a.request.kind = "order" \/ a.request.mount = mount
       THEN Unmounted ELSE UNCHANGED <<mount, form, shown>>
  /\ UNCHANGED <<api, network, mounted, sent>>

Next ==
  \/ \E kind \in {"order", "adjust"} : Mount(kind)
  \/ \E change \in Changes : Edit(change)
  \/ SubmitOrder \/ SubmitAdjustment \/ ConfirmDecrease \/ Back \/ Leave
  \/ \E r \in network : Handle(r) /\ UNCHANGED client
  \/ \E r \in network : Lose(r)
  \/ \E change \in {-1, 1} : Others(change)
  \/ \E r \in waiting : GiveUp(r)
  \/ \E a \in answers : DeliverError(a) \/ DeliverSuccess(a)

Spec == Init /\ [][Next]_vars

-------------------------------------------------------------------------------
(* However often a form is sent, edited and sent again, while earlier requests *)
(* of it may still arrive, it changes the stock once at most: the API sees     *)
(* "the same request again rather than double-applying a mutation"             *)
(* (lib/idempotency.ts:21-22).                                                 *)
OneEffectPerForm ==
  \A i, j \in DOMAIN effects : i # j => effects[i].mount # effects[j].mount

(* A form that tells its user the stock does not suffice has changed nothing,  *)
(* and never will, although an earlier request of it with other content may    *)
(* still be on its way: the refusal is recorded under its key.                 *)
RefusedFormHasNoEffect ==
  shown = "refused" => \A i \in DOMAIN effects : effects[i].mount # mount

(* A success is told only for what was sent with it: the form's content as it  *)
(* was then took effect, not what another request of the same form contained.  *)
SuccessIsWhatWasSent ==
  \A a \in answers : a.outcome = "done" =>
    \E i \in DOMAIN effects : /\ effects[i].mount = a.request.mount
                              /\ effects[i].change = a.request.change
===============================================================================
