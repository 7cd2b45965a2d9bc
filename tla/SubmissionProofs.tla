----------------------------- MODULE SubmissionProofs -----------------------------
(***************************************************************************)
(* TLAPS proofs of the three invariants of Submission, for any changes,    *)
(* stock, number of forms and of requests.                                 *)
(***************************************************************************)
EXTENDS Submission, TLAPS

Request == [n: Nat, mount: 1..mounted, kind: {"order", "adjust"}, change: Changes,
            key: 1..mounted]

(* Keys, requests and forms.  A form can only be confirming what was filled in.*)
TypeInv ==
  /\ stock \in Int
  /\ keys \in [1..MaxSubmits -> [change: Changes \cup {Blank},
                                 outcome: {"none", "done", "refused"}]]
  /\ effects \in Seq(Request)
  /\ network \subseteq Request
  /\ answers \subseteq [request: Request, outcome: {"done", "refused", "reused"}]
  /\ waiting \subseteq Request
  /\ mounted \in 0..MaxMounts
  /\ mount \in 0..mounted
  /\ form \in [kind: {"none", "order", "adjust"}, change: Changes \cup {Blank},
               confirming: BOOLEAN]
  /\ form.kind # "none" <=> mount # 0
  /\ form.confirming => form.change # Blank /\ mount # 0
  /\ sent \in Nat

(* A request carries the key of its form.                                      *)
KeysInv ==
  /\ \A r \in network \cup waiting : r.key = Key(r.mount)
  /\ \A a \in answers : a.request.key = Key(a.request.mount)
  /\ \A k \in DOMAIN keys : keys[k].outcome = "none" => keys[k] = NotRecorded

(* A key is recorded as done exactly by the one effect of its form.            *)
EffectsInv ==
  /\ \A i \in DOMAIN effects :
       keys[Key(effects[i].mount)] = [change |-> effects[i].change, outcome |-> "done"]
  /\ \A k \in DOMAIN keys : keys[k].outcome = "done" =>
       \E i \in DOMAIN effects : /\ Key(effects[i].mount) = k
                                 /\ effects[i].change = keys[k].change
  /\ \A i, j \in DOMAIN effects : i # j => effects[i].mount # effects[j].mount

(* What a form is told, and what it shows, is what its key has on record.      *)
AnswersInv ==
  /\ \A a \in answers :
       /\ a.outcome = "done" =>
            keys[a.request.key] = [change |-> a.request.change, outcome |-> "done"]
       /\ a.outcome = "refused" => keys[a.request.key].outcome = "refused"
  /\ shown = "refused" => mount # 0 /\ keys[Key(mount)].outcome = "refused"

FormsInv == TypeInv /\ KeysInv /\ EffectsInv /\ AnswersInv

-------------------------------------------------------------------------------
LEMMA FormsInit == Init => FormsInv
  <1> SUFFICES ASSUME Init PROVE FormsInv
    OBVIOUS
  <1> USE BoundsAssumption DEF Init
  <1>1. TypeInv
    BY DEF TypeInv, Request, NotRecorded, NoForm
  <1>2. KeysInv
    BY DEF KeysInv
  <1>3. EffectsInv
    BY DEF EffectsInv, NotRecorded
  <1>4. AnswersInv
    BY DEF AnswersInv
  <1>5. QED
    BY <1>1, <1>2, <1>3, <1>4 DEF FormsInv

(* Sending a request adds one with the form's own key.                         *)
LEMMA SendStep ==
  ASSUME FormsInv, Send, UNCHANGED form, form.change # Blank, mount # 0
  PROVE  FormsInv'
  <1> DEFINE r == [n |-> sent + 1, mount |-> mount, kind |-> form.kind,
                   change |-> form.change, key |-> Key(mount)]
  <1> USE DEF FormsInv
  <1>1. r \in Request /\ r.key = Key(r.mount) /\ Request' = Request
    BY DEF TypeInv, Request, Send, Key
  <1>2. /\ network' = network \cup {r} /\ waiting' = waiting \cup {r}
        /\ UNCHANGED <<stock, keys, effects, answers, mount, mounted, form>>
        /\ shown' = "none" /\ sent' = sent + 1
    BY DEF Send
  <1> HIDE DEF r
  <1>3. TypeInv'
    BY <1>1, <1>2 DEF TypeInv
  <1>4. KeysInv'
    BY <1>1, <1>2 DEF KeysInv, Key, NotRecorded
  <1>5. EffectsInv'
    BY <1>2 DEF EffectsInv, Key
  <1>6. AnswersInv'
    BY <1>2 DEF AnswersInv, Key
  <1>7. QED
    BY <1>3, <1>4, <1>5, <1>6

(* Steps that leave the API, the requests and the answers alone.               *)
LEMMA FormStep ==
  ASSUME FormsInv, UNCHANGED <<api, network, answers, waiting>>,
         mounted' \in 0..MaxMounts, mounted' >= mounted, mount' \in 0..mounted',
         sent' \in Nat,
         form' \in [kind: {"none", "order", "adjust"}, change: Changes \cup {Blank},
                    confirming: BOOLEAN],
         form'.kind # "none" <=> mount' # 0,
         form'.confirming => form'.change # Blank /\ mount' # 0,
         shown' = "none" \/ (shown' = shown /\ mount' = mount)
  PROVE  FormsInv'
  <1> USE DEF FormsInv, api
  <1>1. Request \subseteq Request'
    BY DEF TypeInv, Request
  <1>2. TypeInv'
    <2> HIDE DEF FormsInv
    <2>1. TypeInv
      BY DEF FormsInv
    <2>2. effects \in Seq(Request')
      BY <1>1, <2>1 DEF TypeInv
    <2>3. answers \subseteq [request: Request', outcome: {"done", "refused", "reused"}]
      BY <1>1, <2>1 DEF TypeInv
    <2>4. network \subseteq Request' /\ waiting \subseteq Request'
      BY <1>1, <2>1 DEF TypeInv
    <2> HIDE DEF Request
    <2>5. QED
      BY <2>1, <2>2, <2>3, <2>4 DEF TypeInv
  <1>3. KeysInv'
    BY DEF KeysInv, Key, NotRecorded
  <1>4. EffectsInv'
    BY DEF EffectsInv, Key
  <1>5. AnswersInv'
    BY DEF AnswersInv, Key
  <1>6. QED
    BY <1>2, <1>3, <1>4, <1>5

LEMMA HandleStep ==
  ASSUME FormsInv, NEW r \in network, Handle(r), UNCHANGED client
  PROVE  FormsInv'
  <1> USE DEF client
  <1>1. /\ r \in Request /\ r.key = r.mount /\ r.mount \in DOMAIN keys
        /\ Request' = Request
    BY BoundsAssumption DEF FormsInv, TypeInv, KeysInv, Request, Key
  <1>2. CASE keys[r.key] # NotRecorded /\ Respond(r, Replayed(r)) /\ UNCHANGED api
    <2>1. keys[r.key].outcome \in {"done", "refused"}
      BY <1>1, <1>2 DEF FormsInv, TypeInv, KeysInv
    <2>2. Replayed(r) \in {"done", "refused", "reused"}
      BY <2>1 DEF Replayed
    <2>3. answers' \subseteq answers \cup {[request |-> r, outcome |-> Replayed(r)]}
      BY <1>2 DEF Respond
    <2>4. network' \subseteq network
      BY <1>2 DEF Respond
    <2>5. TypeInv'
      BY <1>1, <1>2, <2>2, <2>3, <2>4 DEF FormsInv, TypeInv, api
    <2>6. KeysInv'
      BY <1>1, <1>2, <2>3, <2>4 DEF FormsInv, KeysInv, api, Key, NotRecorded
    <2>7. EffectsInv'
      BY <1>2 DEF FormsInv, EffectsInv, api, Key
    <2>8. AnswersInv'
      <3>1. /\ Replayed(r) = "done" =>
                 keys[r.key] = [change |-> r.change, outcome |-> "done"]
            /\ Replayed(r) = "refused" => keys[r.key].outcome = "refused"
        BY <1>1 DEF Replayed, FormsInv, TypeInv
      <3>2. QED
        BY <1>2, <2>3, <3>1 DEF FormsInv, AnswersInv, api, Key
    <2>9. QED
      BY <2>5, <2>6, <2>7, <2>8 DEF FormsInv
  <1>3. ASSUME keys[r.key] = NotRecorded,
               NEW outcome \in {"done", "refused"},
               stock' \in Int,
               effects' = IF outcome = "done" THEN Append(effects, r) ELSE effects,
               keys' = Recorded(r, outcome), Respond(r, outcome)
        PROVE  FormsInv'
    <2>1. answers' \subseteq answers \cup {[request |-> r, outcome |-> outcome]}
      BY <1>3 DEF Respond
    <2>2. network' \subseteq network
      BY <1>3 DEF Respond
    <2>3. /\ DOMAIN keys' = DOMAIN keys
          /\ keys'[r.key] = [change |-> r.change, outcome |-> outcome]
          /\ \A k \in DOMAIN keys : k # r.key => keys'[k] = keys[k]
      BY <1>1, <1>3 DEF Recorded
    <2>4. \A i \in DOMAIN effects : effects[i] \in Request /\ effects[i].mount # r.mount
      <3> SUFFICES ASSUME NEW i \in DOMAIN effects
                   PROVE  effects[i] \in Request /\ effects[i].mount # r.mount
        OBVIOUS
      <3>1. effects[i] \in Request
        BY DEF FormsInv, TypeInv
      <3>2. keys[effects[i].mount].outcome = "done"
        <4>1. keys[effects[i].mount] = [change |-> effects[i].change, outcome |-> "done"]
          BY DEF FormsInv, EffectsInv, Key
        <4>2. QED
          BY <4>1
      <3>3. keys[r.mount].outcome = "none"
        BY <1>1, <1>3 DEF NotRecorded
      <3>4. QED
        BY <3>1, <3>2, <3>3
    <2>5. TypeInv'
      <3>1. keys' \in [1..MaxSubmits -> [change: Changes \cup {Blank},
                                         outcome: {"none", "done", "refused"}]]
        BY <1>1, <1>3 DEF FormsInv, TypeInv, Recorded, Request
      <3>2. effects' \in Seq(Request)
        BY <1>1, <1>3 DEF FormsInv, TypeInv
      <3>3. answers' \subseteq [request: Request, outcome: {"done", "refused", "reused"}]
        BY <1>1, <2>1 DEF FormsInv, TypeInv
      <3>4. QED
        BY <1>1, <1>3, <2>2, <3>1, <3>2, <3>3 DEF FormsInv, TypeInv
    <2>6. KeysInv'
      BY <1>1, <2>1, <2>2, <2>3 DEF FormsInv, KeysInv, Key, NotRecorded
    <2>7. EffectsInv'
      <3>1. CASE outcome = "refused"
        <4>1. \A i \in DOMAIN effects : /\ effects[i].mount \in DOMAIN keys
                                         /\ keys'[effects[i].mount] = keys[effects[i].mount]
          BY <1>1, <2>3, <2>4, BoundsAssumption DEF FormsInv, TypeInv, Request
        <4>2. effects' = effects /\ keys'[r.key].outcome # "done"
          BY <1>3, <2>3, <3>1
        <4>3. \A k \in DOMAIN keys' : keys'[k].outcome = "done" => keys'[k] = keys[k]
          BY <2>3, <4>2
        <4>4. QED
          BY <2>3, <4>1, <4>2, <4>3 DEF FormsInv, EffectsInv, Key
      <3>2. CASE outcome = "done"
        <4>1. effects \in Seq(Request) /\ effects' = Append(effects, r)
          BY <1>3, <3>2 DEF FormsInv, TypeInv
        <4>2. /\ Len(effects') = Len(effects) + 1
              /\ effects'[Len(effects) + 1] = r
              /\ \A i \in 1..Len(effects) : effects'[i] = effects[i]
              /\ DOMAIN effects = 1..Len(effects)
              /\ DOMAIN effects' = 1..(Len(effects) + 1)
              /\ Len(effects) \in Nat
          <5>1. effects \in Seq(Request) /\ r \in Request
            BY <4>1, <1>1
          <5>2. Len(effects) \in Nat /\ DOMAIN effects = 1..Len(effects)
            BY <5>1
          <5>3. /\ Len(effects') = Len(effects) + 1
                /\ \A i \in 1..Len(effects) : effects'[i] = effects[i]
                /\ effects'[Len(effects) + 1] = r
                /\ DOMAIN effects' = 1..(Len(effects) + 1)
            BY <4>1, <5>1
          <5>4. QED
            BY <5>2, <5>3
        <4>3. \A i \in DOMAIN effects :
                /\ effects[i].mount \in DOMAIN keys
                /\ effects[i].mount # r.mount
                /\ keys'[effects[i].mount] = keys[effects[i].mount]
          BY <1>1, <2>3, <2>4, BoundsAssumption DEF FormsInv, TypeInv, Request
        <4>4. \A i \in DOMAIN effects' :
                keys'[Key(effects'[i].mount)] = [change |-> effects'[i].change, outcome |-> "done"]
          BY <1>1, <2>3, <3>2, <4>2, <4>3 DEF FormsInv, EffectsInv, Key
        <4>5. \A k \in DOMAIN keys' : keys'[k].outcome = "done" =>
                \E i \in DOMAIN effects' : /\ Key(effects'[i].mount) = k
                                           /\ effects'[i].change = keys'[k].change
          <5> SUFFICES ASSUME NEW k \in DOMAIN keys, keys'[k].outcome = "done"
                       PROVE  \E i \in DOMAIN effects' : /\ Key(effects'[i].mount) = k
                                                         /\ effects'[i].change = keys'[k].change
            BY <2>3
          <5>1. CASE k = r.key
            <6>1. Len(effects) + 1 \in DOMAIN effects'
              BY <4>2
            <6>2. QED
              BY <1>1, <2>3, <4>2, <5>1, <6>1 DEF Key
          <5>2. CASE k # r.key
            <6>1. PICK i \in DOMAIN effects : /\ Key(effects[i].mount) = k
                                              /\ effects[i].change = keys[k].change
              BY <2>3, <5>2 DEF FormsInv, EffectsInv
            <6>2. i \in DOMAIN effects' /\ effects'[i] = effects[i]
              BY <4>2
            <6>3. QED
              BY <2>3, <5>2, <6>1, <6>2
          <5>3. QED
            BY <5>1, <5>2
        <4>6. \A i, j \in DOMAIN effects' : i # j => effects'[i].mount # effects'[j].mount
          BY <2>4, <4>2 DEF FormsInv, EffectsInv
        <4>7. QED
          BY <4>4, <4>5, <4>6 DEF EffectsInv
      <3>3. QED
        BY <3>1, <3>2
    <2>8. AnswersInv'
      <3>1. \A a \in answers : a.request.key \in DOMAIN keys /\ a.outcome # "reused"
                               => a.request.key # r.key
        <4> SUFFICES ASSUME NEW a \in answers, a.outcome # "reused"
                     PROVE  a.request.key # r.key
          OBVIOUS
        <4>1. a.outcome \in {"done", "refused"}
          BY DEF FormsInv, TypeInv
        <4>2. keys[a.request.key].outcome \in {"done", "refused"}
          <5>1. CASE a.outcome = "done"
            <6>1. keys[a.request.key] = [change |-> a.request.change, outcome |-> "done"]
              BY <5>1 DEF FormsInv, AnswersInv
            <6>2. QED
              BY <6>1
          <5>2. CASE a.outcome = "refused"
            BY <5>2 DEF FormsInv, AnswersInv
          <5>3. QED
            BY <4>1, <5>1, <5>2
        <4>3. QED
          BY <1>3, <4>2 DEF NotRecorded
      <3>2. \A a \in answers : a.request.key \in DOMAIN keys
        BY BoundsAssumption DEF FormsInv, TypeInv, Request
      <3>3. shown = "refused" => mount \in DOMAIN keys /\ mount # r.key
        BY <1>3, BoundsAssumption DEF FormsInv, TypeInv, AnswersInv, NotRecorded, Key
      <3>4. QED
        BY <1>1, <2>1, <2>3, <3>1, <3>2, <3>3 DEF FormsInv, TypeInv, AnswersInv, Key
    <2>9. QED
      BY <2>5, <2>6, <2>7, <2>8 DEF FormsInv
  <1>4. CASE /\ keys[r.key] = NotRecorded
             /\ LET fits    == stock + r.change >= 0
                    outcome == IF fits THEN "done" ELSE "refused" IN
                /\ stock' = IF fits THEN stock + r.change ELSE stock
                /\ effects' = IF fits THEN Append(effects, r) ELSE effects
                /\ keys' = Recorded(r, outcome)
                /\ Respond(r, outcome)
    <2>1. stock + r.change \in Int /\ stock \in Int
      <3>1. stock \in Int
        BY DEF FormsInv, TypeInv
      <3>2. r.change \in Changes
        BY <1>1 DEF Request
      <3>3. r.change \in Int
        BY <3>2, ChangesAreNumbers
      <3>4. QED
        BY <3>1, <3>3
    <2>2. CASE stock + r.change >= 0
      <3>1. /\ stock' \in Int /\ effects' = Append(effects, r)
            /\ keys' = Recorded(r, "done") /\ Respond(r, "done")
        BY <1>4, <2>1, <2>2
      <3>2. QED
        BY <1>3, <1>4, <3>1
    <2>3. CASE ~(stock + r.change >= 0)
      <3>1. /\ stock' \in Int /\ effects' = effects
            /\ keys' = Recorded(r, "refused") /\ Respond(r, "refused")
        BY <1>4, <2>1, <2>3
      <3>2. QED
        BY <1>3, <1>4, <3>1
    <2>4. QED
      BY <2>2, <2>3
  <1>5. QED
    BY <1>2, <1>4 DEF Handle, api

LEMMA AnswerStep ==
  ASSUME FormsInv, UNCHANGED <<api, network, mounted, sent>>,
         waiting' \subseteq waiting, answers' \subseteq answers,
         \/ UNCHANGED <<mount, form, shown>>
         \/ Unmounted
         \/ UNCHANGED <<mount, form>> /\ shown' # "refused"
         \/ /\ UNCHANGED <<mount, form>> /\ shown' = "refused"
            /\ mount # 0 /\ keys[Key(mount)].outcome = "refused"
  PROVE  FormsInv'
  <1> USE DEF api, NoForm, Unmounted
  <1>1. Request' = Request
    BY DEF Request
  <1>2. TypeInv'
    <2>1. TypeInv
      BY DEF FormsInv
    <2>2. /\ mount' \in 0..mounted
          /\ form' \in [kind: {"none", "order", "adjust"}, change: Changes \cup {Blank},
                       confirming: BOOLEAN]
          /\ form'.kind # "none" <=> mount' # 0
          /\ form'.confirming => form'.change # Blank /\ mount' # 0
      <3>1. CASE UNCHANGED <<mount, form>>
        BY <2>1, <3>1 DEF TypeInv
      <3>2. CASE Unmounted
        BY <2>1, <3>2 DEF TypeInv
      <3>3. QED
        BY <3>1, <3>2
    <2>3. QED
      BY <1>1, <2>1, <2>2 DEF TypeInv
  <1>3. KeysInv'
    BY DEF FormsInv, KeysInv, Key, NotRecorded
  <1>4. EffectsInv'
    BY DEF FormsInv, EffectsInv, Key
  <1>5. AnswersInv'
    BY DEF FormsInv, AnswersInv, Key
  <1>6. QED
    BY <1>2, <1>3, <1>4, <1>5 DEF FormsInv

LEMMA FormsNext ==
  ASSUME FormsInv, [Next]_vars
  PROVE  FormsInv'
  <1> USE DEF client, api
  <1>1. TypeInv
    BY DEF FormsInv
  <1>2. ASSUME NEW kind \in {"order", "adjust"}, Mount(kind) PROVE FormsInv'
    <2>1. mounted \in Nat /\ mounted < MaxMounts /\ form.kind = "none"
      BY <1>1, <1>2, BoundsAssumption DEF TypeInv, Mount
    <2>2. QED
      <3>1. /\ mounted' \in 0..MaxMounts /\ mounted' >= mounted /\ mount' \in 0..mounted'
            /\ mount' # 0
        BY <1>2, <2>1, BoundsAssumption DEF Mount
      <3>2. /\ form' = [kind |-> kind, change |-> Blank, confirming |-> FALSE]
            /\ UNCHANGED <<api, network, answers, waiting, sent>> /\ shown' = "none"
        BY <1>2 DEF Mount, NoForm
      <3>3. sent' \in Nat /\ form' \in [kind: {"none", "order", "adjust"},
                                        change: Changes \cup {Blank}, confirming: BOOLEAN]
        BY <1>1, <3>2 DEF TypeInv
      <3>4. form'.kind # "none" /\ ~form'.confirming
        BY <3>2
      <3>5. QED
        BY <3>1, <3>2, <3>3, <3>4, FormStep
  <1>3. ASSUME NEW change \in Changes, Edit(change) PROVE FormsInv'
    <2>1. /\ form' \in [kind: {"none", "order", "adjust"}, change: Changes \cup {Blank},
                        confirming: BOOLEAN]
          /\ form'.kind = form.kind /\ form'.confirming = form.confirming
          /\ ~form.confirming
      BY <1>1, <1>3 DEF TypeInv, Edit
    <2>2. QED
      BY <1>1, <1>3, <2>1, FormStep, BoundsAssumption DEF TypeInv, Edit
  <1>4. CASE SubmitOrder
    BY <1>1, <1>4, SendStep DEF SubmitOrder, TypeInv
  <1>5. CASE SubmitAdjustment
    <2>1. CASE Send /\ UNCHANGED form
      BY <1>1, <1>5, <2>1, SendStep DEF SubmitAdjustment, TypeInv
    <2>2. CASE /\ form' = [form EXCEPT !.confirming = TRUE]
               /\ UNCHANGED <<api, network, answers, waiting, mount, shown, mounted, sent>>
      <3>1. form.kind = "adjust" /\ form.change # Blank
        BY <1>5 DEF SubmitAdjustment
      <3>2. QED
        <4>1. /\ form' \in [kind: {"none", "order", "adjust"}, change: Changes \cup {Blank},
                           confirming: BOOLEAN]
              /\ form'.kind = form.kind /\ form'.change = form.change
          BY <1>1, <2>2 DEF TypeInv
        <4>2. QED
          BY <1>1, <2>2, <3>1, <4>1, FormStep, BoundsAssumption DEF TypeInv
    <2>3. QED
      BY <1>5, <2>1, <2>2 DEF SubmitAdjustment
  <1>6. CASE ConfirmDecrease
    BY <1>1, <1>6, SendStep DEF ConfirmDecrease, TypeInv
  <1>7. CASE Back
    <2>1. /\ form' \in [kind: {"none", "order", "adjust"}, change: Changes \cup {Blank},
                       confirming: BOOLEAN]
          /\ form'.kind = form.kind /\ ~form'.confirming
      BY <1>1, <1>7 DEF TypeInv, Back
    <2>2. QED
      BY <1>1, <1>7, <2>1, FormStep, BoundsAssumption DEF TypeInv, Back
  <1>8. CASE Leave
    BY <1>1, <1>8, FormStep, BoundsAssumption DEF Leave, Unmounted, NoForm, TypeInv
  <1>9. ASSUME NEW r \in network, Handle(r), UNCHANGED client PROVE FormsInv'
    BY <1>9, HandleStep
  <1>10. ASSUME NEW r \in network, Lose(r) PROVE FormsInv'
    <2>1. Request' = Request /\ network' \subseteq network
      BY <1>10 DEF Lose, Request
    <2>2. TypeInv'
      BY <1>10, <2>1 DEF Lose, FormsInv, TypeInv
    <2>3. KeysInv' /\ EffectsInv' /\ AnswersInv'
      BY <1>10, <2>1 DEF Lose, FormsInv, KeysInv, EffectsInv, AnswersInv, Key, NotRecorded
    <2>4. QED
      BY <2>2, <2>3 DEF FormsInv
  <1>11. ASSUME NEW change \in {-1, 1}, Others(change) PROVE FormsInv'
    <2>1. Request' = Request /\ stock' \in Int
      BY <1>11 DEF Others, Request, FormsInv, TypeInv
    <2>2. TypeInv'
      BY <1>11, <2>1 DEF Others, FormsInv, TypeInv
    <2>3. KeysInv' /\ EffectsInv' /\ AnswersInv'
      BY <1>11 DEF Others, FormsInv, KeysInv, EffectsInv, AnswersInv, Key, NotRecorded
    <2>4. QED
      BY <2>2, <2>3 DEF FormsInv
  <1>12. ASSUME NEW r \in waiting, GiveUp(r) PROVE FormsInv'
    <2>1. /\ UNCHANGED <<api, network, mounted, sent, mount, form>>
          /\ waiting' \subseteq waiting /\ answers' \subseteq answers
          /\ shown' = shown \/ shown' # "refused"
      BY <1>12 DEF GiveUp
    <2>2. QED
      BY <2>1, AnswerStep
  <1>13. ASSUME NEW a \in answers, DeliverError(a) PROVE FormsInv'
    <2>1. /\ UNCHANGED <<api, network, mounted, sent, mount, form>>
          /\ waiting' \subseteq waiting /\ answers' \subseteq answers
      BY <1>13 DEF DeliverError
    <2>2. shown' = shown \/ (shown' = a.outcome /\ a.request.mount = mount)
      BY <1>13 DEF DeliverError
    <2>3. /\ a.outcome = "refused" => keys[a.request.key].outcome = "refused"
          /\ a.request.key = Key(a.request.mount)
          /\ a.request.mount # 0
      <3>1. a.outcome = "refused" => keys[a.request.key].outcome = "refused"
        BY DEF FormsInv, AnswersInv
      <3>2. a.request.key = Key(a.request.mount)
        BY DEF FormsInv, KeysInv
      <3>3. a.request \in Request
        BY <1>1 DEF TypeInv
      <3>4. a.request.mount # 0
        BY <1>1, <3>3 DEF TypeInv, Request
      <3>5. QED
        BY <3>1, <3>2, <3>4
    <2>4. QED
      BY <2>1, <2>2, <2>3, AnswerStep
  <1>14. ASSUME NEW a \in answers, DeliverSuccess(a) PROVE FormsInv'
    <2>1. /\ UNCHANGED <<api, network, mounted, sent>>
          /\ waiting' \subseteq waiting /\ answers' \subseteq answers
          /\ Unmounted \/ UNCHANGED <<mount, form, shown>>
      BY <1>14 DEF DeliverSuccess
    <2>2. QED
      BY <2>1, AnswerStep
  <1>15. CASE UNCHANGED vars
    BY <1>15, AnswerStep DEF vars
  <1>16. QED
    BY <1>2, <1>3, <1>4, <1>5, <1>6, <1>7, <1>8, <1>9, <1>10, <1>11, <1>12, <1>13, <1>14,
       <1>15 DEF Next

(* The inductive invariant: what a key has on record is what its form did and  *)
(* was told.                                                                   *)
THEOREM FormsInvariant == Spec => []FormsInv
  BY FormsInit, FormsNext, PTL DEF Spec

-------------------------------------------------------------------------------
(* A form changes the stock once at most, whatever was sent, lost or delayed   *)
(* (useIdempotencyKey, claimIdempotencyKey).                                   *)
THEOREM FormsHaveOneEffect == Spec => []OneEffectPerForm
  <1>1. FormsInv => OneEffectPerForm
    BY DEF FormsInv, EffectsInv, OneEffectPerForm
  <1>2. QED
    BY <1>1, FormsInvariant, PTL

(* A form that shows a refusal has changed nothing (the replay of a recorded   *)
(* refusal under the form's key).                                              *)
THEOREM RefusalsAreFinal == Spec => []RefusedFormHasNoEffect
  <1>1. FormsInv => RefusedFormHasNoEffect
    <2> SUFFICES ASSUME FormsInv, shown = "refused", NEW i \in DOMAIN effects,
                        effects[i].mount = mount
                 PROVE  FALSE
      BY DEF RefusedFormHasNoEffect
    <2>1. keys[mount].outcome = "done"
      <3>1. keys[mount] = [change |-> effects[i].change, outcome |-> "done"]
        BY DEF FormsInv, EffectsInv, Key
      <3>2. QED
        BY <3>1
    <2>2. keys[mount].outcome = "refused"
      BY DEF FormsInv, AnswersInv, Key
    <2>3. QED
      BY <2>1, <2>2
  <1>2. QED
    BY <1>1, FormsInvariant, PTL

(* A success is told only for what was sent with it (the fingerprint is        *)
(* compared before a recorded outcome is replayed).                            *)
THEOREM SuccessesAreTrue == Spec => []SuccessIsWhatWasSent
  <1>1. FormsInv => SuccessIsWhatWasSent
    <2> SUFFICES ASSUME FormsInv, NEW a \in answers, a.outcome = "done"
                 PROVE  \E i \in DOMAIN effects :
                          /\ effects[i].mount = a.request.mount
                          /\ effects[i].change = a.request.change
      BY DEF SuccessIsWhatWasSent
    <2>1. /\ keys[a.request.key] = [change |-> a.request.change, outcome |-> "done"]
          /\ a.request.key = a.request.mount
          /\ a.request.key \in DOMAIN keys
      BY BoundsAssumption DEF FormsInv, TypeInv, KeysInv, AnswersInv, Key, Request
    <2>2. QED
      BY <2>1 DEF FormsInv, EffectsInv, Key
  <1>2. QED
    BY <1>1, FormsInvariant, PTL
===============================================================================
