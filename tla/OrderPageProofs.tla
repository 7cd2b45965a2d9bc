----------------------------- MODULE OrderPageProofs -----------------------------
(***************************************************************************)
(* TLAPS proofs of the three invariants of OrderPage, for any items and    *)
(* any number of keys.                                                     *)
(***************************************************************************)
EXTENDS OrderPage, TLAPS

Final    == {"fulfilled", "cancelled"}
Outcomes == {"none", "done", "conflict"}

Shows    == {{}, Items}

Attempt == [op: Ops \cup {Nobody}, key: 0..MaxKeys, outcome: Outcomes]
Get     == [next: {0, 1, 2, 3}, status: Statuses, items: Shows]
Page    == [loading: BOOLEAN, error: BOOLEAN, status: Statuses, items: Shows,
            conflict: BOOLEAN, expired: BOOLEAN]
Dialog  == [open: BOOLEAN, key: 0..MaxKeys]

TypeInv ==
  /\ status \in Statuses
  /\ orderItems = IF status = "none" THEN {} ELSE Items
  /\ keys \in [1..MaxKeys -> Outcomes]
  /\ network \subseteq [op: Ops, key: 1..MaxKeys]
  /\ attempt \in Attempt
  /\ getOrder \in Get
  /\ page \in Page
  /\ dialog \in [Ops -> Dialog]
  /\ drawn \in 0..MaxKeys
  /\ told \in Ops \cup {Nobody}

(* A key is in use for an operation: by a request, the attempt or a dialog.    *)
Uses(op, k) ==
  \/ [op |-> op, key |-> k] \in network
  \/ attempt.op = op /\ attempt.key = k
  \/ dialog[op].key = k

(* A key is used for one operation, of an order that is there, and what it has *)
(* on record, and what was answered, is how the order ended.                   *)
KeysInv ==
  /\ \A k \in 1..MaxKeys :
       /\ \A a, b \in Ops : Uses(a, k) /\ Uses(b, k) => a = b
       /\ \A a \in Ops : Uses(a, k) =>
            k <= drawn /\ status # "none" /\ (keys[k] = "done" => status = Ended(a))
       /\ keys[k] = "conflict" => status \in Final
       /\ keys[k] # "none" => k <= drawn
  /\ attempt # NoAttempt => attempt.op \in Ops /\ attempt.key # 0
  /\ attempt.outcome = "done" => status = Ended(attempt.op)
  /\ attempt.outcome = "conflict" => status \in Final
  /\ \A op \in Ops : dialog[op].open => dialog[op].key # 0

(* The order row that was read is the row of now or of when it was pending;    *)
(* its items are read after it, so they are all there.  What the page has      *)
(* loaded stays, shown or not, until it loads the order again.                 *)
ReadInv ==
  /\ getOrder.status \in {"none", "pending", status}
  /\ getOrder.status # "none" => status # "none"
  /\ getOrder.next \in {0, 1} => getOrder.status = "none"
  /\ getOrder.next = 2 => getOrder.status # "none"
  /\ getOrder.next = 3 /\ getOrder.status # "none" => getOrder.items = Items
  /\ page.status # "none" => /\ page.status \in {"pending", status}
                             /\ status # "none" /\ page.items = Items

(* After an answer that ended the order or found it ended, whatever is read is *)
(* how it ended, and whatever is shown, unless a 401 kept it from being read.  *)
KnownInv ==
  /\ told # Nobody => status = Ended(told)
  /\ told # Nobody \/ page.conflict =>
       /\ status \in Final
       /\ getOrder.status \in {"none", status}
       /\ Shown /\ ~page.expired => page.status = status

PageInv == TypeInv /\ KeysInv /\ ReadInv /\ KnownInv

-------------------------------------------------------------------------------
LEMMA Operations == \A op \in Ops : Ended(op) \in Final /\ op # Nobody
  BY DEF Ops, Ended, Final, Nobody

LEMMA PageInit == Init => PageInv
  <1> SUFFICES ASSUME Init PROVE PageInv
    OBVIOUS
  <1> USE KeysAssumption DEF Init
  <1>1. TypeInv
    BY DEF TypeInv, Statuses, Outcomes, NoAttempt, Attempt, Asked, NotAsked, Get, Shows, NewPage,
           Page, Dialog, Nobody
  <1>2. KeysInv
    BY DEF KeysInv, Uses, NoAttempt, Final, Ops
  <1>3. ReadInv
    BY DEF ReadInv, Asked, NotAsked, Shown, NewPage
  <1>4. KnownInv
    BY DEF KnownInv, NewPage, Nobody
  <1>5. QED
    BY <1>1, <1>2, <1>3, <1>4 DEF PageInv

-------------------------------------------------------------------------------
(* The API.                                                                    *)

LEMMA CreateStep == PageInv /\ Create => PageInv'
  <1> SUFFICES ASSUME PageInv, Create PROVE PageInv'
    OBVIOUS
  <1> USE DEF PageInv, Create
  <1>1. TypeInv'
    BY DEF TypeInv, Statuses
  <1>2. KeysInv'
    BY DEF KeysInv, TypeInv, Uses, Ended, Ops, Final
  <1>3. ReadInv'
    BY DEF ReadInv, Shown
  <1>4. KnownInv'
    BY DEF KnownInv, Final, Ended
  <1>5. QED
    BY <1>1, <1>2, <1>3, <1>4

LEMMA OthersStep == \A op \in Ops : PageInv /\ Others(op) => PageInv'
  <1> SUFFICES ASSUME NEW op \in Ops, PageInv, Others(op) PROVE PageInv'
    OBVIOUS
  <1> USE Operations DEF PageInv, Others
  <1>1. TypeInv'
    BY DEF TypeInv, Statuses, Final
  <1>2. KeysInv'
    BY DEF KeysInv, TypeInv, Uses, Final, Ended, Ops, Outcomes, Attempt
  <1>3. ReadInv'
    BY DEF ReadInv, Shown, Final
  <1>4. KnownInv'
    BY DEF KnownInv, Final, Ended
  <1>5. QED
    BY <1>1, <1>2, <1>3, <1>4

(* The outcome of a request is true of the order it leaves.                    *)
LEMMA OutcomeIsTrue ==
  ASSUME PageInv, NEW r \in network, Handle(r)
  PROVE  /\ r.op \in Ops /\ r.key \in 1..MaxKeys /\ Uses(r.op, r.key)
         /\ Outcome(r) \in {"done", "conflict"}
         /\ status # "none" /\ status' \in Final
         /\ status' = status \/ (status = "pending" /\ keys[r.key] = "none")
         /\ Outcome(r) = "done" => status' = Ended(r.op)
  <1>1. r.op \in Ops /\ r.key \in 1..MaxKeys /\ [op |-> r.op, key |-> r.key] = r
    BY DEF PageInv, TypeInv
  <1>2. Uses(r.op, r.key)
    BY <1>1 DEF Uses
  <1>3. /\ status # "none" /\ (keys[r.key] = "done" => status = Ended(r.op))
        /\ keys[r.key] = "conflict" => status \in Final
    BY <1>1, <1>2 DEF PageInv, KeysInv
  <1>4. keys[r.key] \in Outcomes /\ status \in Statuses
    BY <1>1 DEF PageInv, TypeInv
  <1>5. QED
    BY <1>1, <1>2, <1>3, <1>4, Operations
       DEF Handle, Outcome, Outcomes, Statuses, Final

LEMMA HandleStep == \A r \in network : PageInv /\ Handle(r) => PageInv'
  <1> SUFFICES ASSUME PageInv, NEW r \in network, Handle(r) PROVE PageInv'
    OBVIOUS
  <1>1. /\ r.op \in Ops /\ r.key \in 1..MaxKeys /\ Uses(r.op, r.key)
        /\ Outcome(r) \in {"done", "conflict"}
        /\ status # "none" /\ status' \in Final
        /\ status' = status \/ (status = "pending" /\ keys[r.key] = "none")
        /\ Outcome(r) = "done" => status' = Ended(r.op)
    BY OutcomeIsTrue
  <1>2. /\ keys' = [keys EXCEPT ![r.key] = Outcome(r)]
        /\ attempt' = IF attempt.op = r.op /\ attempt.key = r.key
                        THEN [attempt EXCEPT !.outcome = Outcome(r)] ELSE attempt
        /\ UNCHANGED <<orderItems, network, getOrder, page, dialog, drawn, told>>
    BY DEF Handle
  <1>3. TypeInv'
    BY <1>1, <1>2 DEF PageInv, TypeInv, Statuses, Final, Outcomes, Attempt
  <1>4. attempt'.op = attempt.op /\ attempt'.key = attempt.key
    BY <1>2 DEF PageInv, TypeInv, Attempt
  <1>5. \A op \in Ops, k \in 1..MaxKeys : Uses(op, k)' <=> Uses(op, k)
    BY <1>2, <1>4 DEF Uses
  <1>6. KeysInv'
    <2>1. \A k \in 1..MaxKeys :
            /\ \A a, b \in Ops : Uses(a, k)' /\ Uses(b, k)' => a = b
            /\ \A a \in Ops : Uses(a, k)' =>
                 k <= drawn /\ status # "none" /\ (keys'[k] = "done" => status' = Ended(a))
            /\ keys'[k] = "conflict" => status' \in Final
            /\ keys'[k] # "none" => k <= drawn
      <3> SUFFICES ASSUME NEW k \in 1..MaxKeys
                   PROVE  /\ \A a, b \in Ops : Uses(a, k) /\ Uses(b, k) => a = b
                          /\ \A a \in Ops : Uses(a, k) =>
                               /\ k <= drawn /\ status # "none"
                               /\ keys'[k] = "done" => status' = Ended(a)
                          /\ keys'[k] = "conflict" => status' \in Final
                          /\ keys'[k] # "none" => k <= drawn
        BY <1>5
      <3>1. keys'[k] = IF k = r.key THEN Outcome(r) ELSE keys[k]
        BY <1>2 DEF PageInv, TypeInv
      <3>2. /\ \A a, b \in Ops : Uses(a, k) /\ Uses(b, k) => a = b
            /\ \A a \in Ops : Uses(a, k) =>
                 k <= drawn /\ status # "none" /\ (keys[k] = "done" => status = Ended(a))
            /\ keys[k] = "conflict" => status \in Final
            /\ keys[k] # "none" => k <= drawn
        BY DEF PageInv, KeysInv
      <3>3. QED
        BY <1>1, <3>1, <3>2, Operations DEF Final
    <2>2. attempt' # NoAttempt => attempt'.op \in Ops /\ attempt'.key # 0
      BY <1>1, <1>2, <1>4 DEF PageInv, KeysInv
    <2>3. /\ attempt'.outcome = "done" => status' = Ended(attempt'.op)
          /\ attempt'.outcome = "conflict" => status' \in Final
      <3>1. CASE attempt.op = r.op /\ attempt.key = r.key
        BY <3>1, <1>1, <1>2, <1>4
      <3>2. CASE ~(attempt.op = r.op /\ attempt.key = r.key)
        <4>1. attempt' = attempt
          BY <3>2, <1>2
        <4>2. attempt.outcome = "done" => status = Ended(attempt.op)
          BY DEF PageInv, KeysInv
        <4>3. Ended(attempt.op) # "pending"
          BY DEF Ended
        <4>4. attempt.outcome = "done" => status' = status
          BY <1>1, <4>2, <4>3
        <4>5. QED
          BY <1>1, <4>1, <4>2, <4>4
      <3>3. QED
        BY <3>1, <3>2
    <2>4. QED
      BY <1>2, <2>1, <2>2, <2>3, <1>1 DEF PageInv, KeysInv, Final
  <1>7. ReadInv'
    BY <1>1, <1>2 DEF PageInv, ReadInv, Shown, Final
  <1>8. KnownInv'
    BY <1>1, <1>2, Operations DEF PageInv, KnownInv, Shown, Final
  <1>9. QED
    BY <1>3, <1>6, <1>7, <1>8 DEF PageInv

(* The items are read when the order's row has been: they are there.           *)
LEMMA ReadStatementStep == PageInv /\ ReadStatement => PageInv'
  <1> SUFFICES ASSUME PageInv, ReadStatement PROVE PageInv'
    OBVIOUS
  <1>1. UNCHANGED <<status, orderItems, keys, network, attempt, page, dialog, drawn, told>>
    BY DEF ReadStatement, api
  <1>2. getOrder.next \in {1, 2} /\ getOrder \in Get
    BY DEF ReadStatement, Statements, PageInv, TypeInv, Get
  <1>3. CASE getOrder.next = 1
    <2>1. getOrder' = [getOrder EXCEPT !.next = IF status = "none" THEN 3 ELSE 2,
                                       !.status = status]
      BY <1>2, <1>3 DEF ReadStatement, Statements, Answer
    <2>2. status \in Statuses
      BY DEF PageInv, TypeInv
    <2>3. getOrder' \in Get
      BY <1>2, <2>1, <2>2 DEF Get
    <2>4. getOrder'.next = (IF status = "none" THEN 3 ELSE 2) /\ getOrder'.status = status
      BY <1>2, <2>1 DEF Get
    <2>5. TypeInv'
      BY <1>1, <2>3 DEF PageInv, TypeInv
    <2>6. KeysInv'
      BY <1>1 DEF PageInv, KeysInv, Uses
    <2>7. ReadInv' /\ KnownInv'
      BY <1>1, <2>4 DEF PageInv, ReadInv, KnownInv, Shown
    <2>8. QED
      BY <2>5, <2>6, <2>7 DEF PageInv
  <1>4. CASE getOrder.next = 2
    <2>1. getOrder' = [getOrder EXCEPT !.next = 3, !.items = orderItems]
      BY <1>2, <1>4 DEF ReadStatement, Statements
    <2>2. orderItems \in Shows
      BY DEF PageInv, TypeInv, Shows
    <2>3. getOrder' \in Get
      BY <1>2, <2>1, <2>2 DEF Get
    <2>4. /\ getOrder'.next = 3 /\ getOrder'.status = getOrder.status
          /\ getOrder'.items = orderItems
      BY <1>2, <2>1 DEF Get
    <2>5. orderItems = Items
      BY <1>4 DEF PageInv, ReadInv, TypeInv
    <2>6. TypeInv'
      BY <1>1, <2>3 DEF PageInv, TypeInv
    <2>7. KeysInv'
      BY <1>1 DEF PageInv, KeysInv, Uses
    <2>8. ReadInv' /\ KnownInv'
      BY <1>1, <2>4, <2>5 DEF PageInv, ReadInv, KnownInv, Shown
    <2>9. QED
      BY <2>6, <2>7, <2>8 DEF PageInv
  <1>5. QED
    BY <1>2, <1>3, <1>4

-------------------------------------------------------------------------------
(* The page.                                                                   *)

LEMMA ShowStep == PageInv /\ Show => PageInv'
  <1> SUFFICES ASSUME PageInv, Show PROVE PageInv'
    OBVIOUS
  <1>1. /\ UNCHANGED <<status, orderItems, keys, network, attempt, dialog, drawn, told>>
        /\ getOrder' = NotAsked /\ getOrder.next = 3
    BY DEF Show, api, Answer
  <1>2. page \in Page /\ getOrder \in Get
    BY DEF PageInv, TypeInv
  <1>3. /\ page' \in Page /\ page'.conflict = page.conflict
        /\ \/ /\ getOrder.status # "none"
              /\ page'.status = getOrder.status /\ page'.items = getOrder.items
           \/ /\ page'.error \/ page'.expired
              /\ page'.status = page.status /\ page'.items = page.items
    BY <1>2 DEF Show, Page, Get
  <1>4. getOrder' \in Get /\ getOrder'.status = "none" /\ getOrder'.next = 0
    BY <1>1 DEF NotAsked, Get, Statuses, Shows
  <1>5. TypeInv'
    BY <1>1, <1>3, <1>4 DEF PageInv, TypeInv
  <1>6. KeysInv'
    BY <1>1 DEF PageInv, KeysInv, Uses
  <1>7. ReadInv' /\ KnownInv'
    BY <1>1, <1>3, <1>4 DEF PageInv, ReadInv, KnownInv, Shown
  <1>8. QED
    BY <1>5, <1>6, <1>7 DEF PageInv

LEMMA OpenStep == \A op \in Ops : PageInv /\ Open(op) => PageInv'
  <1> SUFFICES ASSUME PageInv, NEW op \in Ops, Open(op) PROVE PageInv'
    OBVIOUS
  <1>1. /\ UNCHANGED <<status, orderItems, keys, network, attempt, getOrder, page, told>>
        /\ Shown /\ page.status = "pending"
        /\ drawn < MaxKeys /\ drawn' = drawn + 1
        /\ dialog' = [dialog EXCEPT ![op] = [open |-> TRUE, key |-> drawn + 1]]
    BY DEF Open, api
  <1>2. drawn \in 0..MaxKeys /\ MaxKeys \in Nat /\ dialog \in [Ops -> Dialog]
    BY KeysAssumption DEF PageInv, TypeInv
  <1>3. drawn' \in 1..MaxKeys
    BY <1>1, <1>2
  <1>4. /\ dialog' \in [Ops -> Dialog]
        /\ \A a \in Ops : dialog'[a].key = IF a = op THEN drawn + 1 ELSE dialog[a].key
        /\ \A a \in Ops : dialog'[a].open => a = op \/ dialog[a].open
    BY <1>1, <1>2, <1>3 DEF Dialog
  <1>5. \A a \in Ops, k \in 1..MaxKeys :
          Uses(a, k)' => Uses(a, k) \/ (a = op /\ k = drawn + 1)
    BY <1>1, <1>4 DEF Uses
  <1>6. \A a \in Ops : ~Uses(a, drawn + 1)
    BY <1>1, <1>2, <1>3 DEF PageInv, KeysInv
  <1>7. TypeInv'
    BY <1>1, <1>3, <1>4 DEF PageInv, TypeInv
  <1>8. status # "none"
    BY <1>1 DEF PageInv, ReadInv
  <1>9. keys[drawn + 1] = "none"
    BY <1>1, <1>2, <1>3 DEF PageInv, KeysInv
  <1>10. \A k \in 1..MaxKeys :
           /\ \A a, b \in Ops : Uses(a, k)' /\ Uses(b, k)' => a = b
           /\ \A a \in Ops : Uses(a, k)' =>
                k <= drawn' /\ status # "none" /\ (keys[k] = "done" => status = Ended(a))
           /\ keys[k] = "conflict" => status \in Final
           /\ keys[k] # "none" => k <= drawn'
    <2> SUFFICES ASSUME NEW k \in 1..MaxKeys
                 PROVE  /\ \A a, b \in Ops : Uses(a, k)' /\ Uses(b, k)' => a = b
                        /\ \A a \in Ops : Uses(a, k)' =>
                             /\ k <= drawn' /\ status # "none"
                             /\ keys[k] = "done" => status = Ended(a)
                        /\ keys[k] = "conflict" => status \in Final
                        /\ keys[k] # "none" => k <= drawn'
      OBVIOUS
    <2>1. /\ \A a, b \in Ops : Uses(a, k) /\ Uses(b, k) => a = b
          /\ \A a \in Ops : Uses(a, k) =>
               k <= drawn /\ status # "none" /\ (keys[k] = "done" => status = Ended(a))
          /\ keys[k] = "conflict" => status \in Final
          /\ keys[k] # "none" => k <= drawn
      BY DEF PageInv, KeysInv
    <2>2. k <= drawn => k <= drawn'
      BY <1>1, <1>2
    <2>3. QED
      BY <1>1, <1>2, <1>5, <1>6, <1>8, <1>9, <2>1, <2>2
  <1>11. KeysInv'
    <2>1. \A a \in Ops : dialog'[a].open => dialog'[a].key # 0
      BY <1>2, <1>4 DEF PageInv, KeysInv
    <2>2. QED
      BY <1>1, <1>10, <2>1 DEF PageInv, KeysInv
  <1>12. ReadInv' /\ KnownInv'
    BY <1>1 DEF PageInv, ReadInv, KnownInv, Shown
  <1>13. QED
    BY <1>7, <1>11, <1>12 DEF PageInv

LEMMA CloseStep == \A op \in Ops : PageInv /\ Close(op) => PageInv'
  <1> SUFFICES ASSUME PageInv, NEW op \in Ops, Close(op) PROVE PageInv'
    OBVIOUS
  <1>1. /\ UNCHANGED <<status, orderItems, keys, network, attempt, getOrder, page, drawn, told>>
        /\ dialog' = [dialog EXCEPT ![op].open = FALSE]
    BY DEF Close, api
  <1>2. /\ dialog' \in [Ops -> Dialog]
        /\ \A a \in Ops : dialog'[a].key = dialog[a].key /\ (dialog'[a].open => dialog[a].open)
    BY <1>1 DEF PageInv, TypeInv, Dialog
  <1>3. TypeInv'
    BY <1>1, <1>2 DEF PageInv, TypeInv
  <1>4. KeysInv'
    BY <1>1, <1>2 DEF PageInv, KeysInv, Uses
  <1>5. ReadInv' /\ KnownInv'
    BY <1>1 DEF PageInv, ReadInv, KnownInv, Shown
  <1>6. QED
    BY <1>3, <1>4, <1>5 DEF PageInv

LEMMA ConfirmStep == \A op \in Ops : PageInv /\ Confirm(op) => PageInv'
  <1> SUFFICES ASSUME PageInv, NEW op \in Ops, Confirm(op) PROVE PageInv'
    OBVIOUS
  <1> DEFINE key == dialog[op].key
  <1>1. /\ UNCHANGED <<status, orderItems, keys, getOrder, page, dialog, drawn, told>>
        /\ dialog[op].open
        /\ attempt' = [op |-> op, key |-> key, outcome |-> "none"]
        /\ network' = network \cup {[op |-> op, key |-> key]}
    BY DEF Confirm, Visible, api
  <1>2. key \in 1..MaxKeys /\ Uses(op, key)
    BY <1>1 DEF PageInv, KeysInv, TypeInv, Dialog, Uses
  <1>3. attempt' \in Attempt /\ [op |-> op, key |-> key] \in [op: Ops, key: 1..MaxKeys]
    BY <1>1, <1>2 DEF Attempt, Outcomes
  <1>4. TypeInv'
    BY <1>1, <1>3 DEF PageInv, TypeInv
  <1>5. \A a \in Ops, k \in 1..MaxKeys : Uses(a, k)' => Uses(a, k)
    BY <1>1, <1>2 DEF Uses
  <1>6. /\ attempt'.op \in Ops /\ attempt'.key # 0
        /\ attempt'.outcome = "none"
    BY <1>1, <1>2
  <1>7. KeysInv'
    BY <1>1, <1>5, <1>6 DEF PageInv, KeysInv
  <1>8. ReadInv' /\ KnownInv'
    BY <1>1 DEF PageInv, ReadInv, KnownInv, Shown
  <1>9. QED
    BY <1>4, <1>7, <1>8 DEF PageInv

(* An attempt is over, answered or not, and the order is read again.           *)
LEMMA ReloadStep ==
  ASSUME PageInv, NEW outcome, NEW conflict \in BOOLEAN, Reload(outcome, conflict),
         UNCHANGED <<status, orderItems, keys, network, drawn>>,
         attempt' = NoAttempt,
         \/ dialog' = dialog
         \/ \E op \in Ops : dialog' = [dialog EXCEPT ![op].open = FALSE],
         told' \in Ops \cup {Nobody}, told' # Nobody => status = Ended(told'),
         conflict => status \in Final
  PROVE  PageInv'
  <1>1. page \in Page /\ dialog \in [Ops -> Dialog]
    BY DEF PageInv, TypeInv
  <1> DEFINE reload == [page EXCEPT !.loading = TRUE, !.error = FALSE, !.conflict = conflict]
  <1>2. /\ reload \in Page /\ reload.loading = TRUE /\ reload.conflict = conflict
        /\ reload.status = page.status /\ reload.items = page.items
    BY <1>1 DEF Page
  <1>3. page' = reload /\ getOrder' = Asked
    BY DEF Reload
  <1> HIDE DEF reload
  <1>4. /\ page' \in Page /\ page'.loading = TRUE /\ page'.conflict = conflict
        /\ page'.status = page.status /\ page'.items = page.items
        /\ getOrder' \in Get /\ getOrder'.status = "none" /\ getOrder'.next = 1
    BY <1>2, <1>3 DEF Asked, NotAsked, Get, Statuses, Shows
  <1>5. /\ dialog' \in [Ops -> Dialog]
        /\ \A a \in Ops : dialog'[a].key = dialog[a].key /\ (dialog'[a].open => dialog[a].open)
    <2>1. CASE dialog' = dialog
      BY <2>1, <1>1
    <2>2. ASSUME NEW op \in Ops, dialog' = [dialog EXCEPT ![op].open = FALSE]
          PROVE  /\ dialog' \in [Ops -> Dialog]
                 /\ \A a \in Ops : dialog'[a].key = dialog[a].key
                                   /\ (dialog'[a].open => dialog[a].open)
      BY <2>2, <1>1 DEF Dialog
    <2>3. QED
      BY <2>1, <2>2
  <1>6. attempt' \in Attempt
    BY KeysAssumption DEF NoAttempt, Attempt, Outcomes, Nobody
  <1>7. TypeInv'
    BY <1>4, <1>5, <1>6 DEF PageInv, TypeInv
  <1>8. \A a \in Ops, k \in 1..MaxKeys : Uses(a, k)' => Uses(a, k)
    BY <1>5 DEF Uses, NoAttempt
  <1>9. KeysInv'
    <2>1. attempt'.outcome = "none"
      BY DEF NoAttempt
    <2>2. \A a \in Ops : dialog'[a].open => dialog'[a].key # 0
      BY <1>5 DEF PageInv, KeysInv
    <2>3. QED
      BY <1>8, <2>1, <2>2 DEF PageInv, KeysInv
  <1>10. ~Shown'
    BY <1>4 DEF Shown
  <1>11. ReadInv' /\ KnownInv'
    BY <1>4, <1>10, Operations DEF PageInv, ReadInv, KnownInv
  <1>12. QED
    BY <1>7, <1>9, <1>11 DEF PageInv

LEMMA AnsweredStep == PageInv /\ Answered => PageInv'
  <1> SUFFICES ASSUME PageInv, Answered PROVE PageInv'
    OBVIOUS
  <1> DEFINE done == attempt.outcome = "done"
  <1>1. /\ attempt.outcome # "none" /\ Reload(attempt.outcome, ~done)
        /\ dialog' = IF done THEN [dialog EXCEPT ![attempt.op].open = FALSE] ELSE dialog
        /\ told' = IF done THEN attempt.op ELSE told
        /\ attempt' = NoAttempt
        /\ UNCHANGED <<status, orderItems, keys, network, drawn>>
    BY DEF Answered, api
  <1>2. attempt.op \in Ops
    BY <1>1 DEF PageInv, KeysInv, NoAttempt
  <1>3. done => status = Ended(attempt.op)
    BY DEF PageInv, KeysInv
  <1>4. ~done => status \in Final
    BY <1>1 DEF PageInv, KeysInv, TypeInv, Attempt, Outcomes
  <1>5. told' \in Ops \cup {Nobody} /\ (told' # Nobody => status = Ended(told'))
    BY <1>1, <1>2, <1>3 DEF PageInv, TypeInv, KnownInv
  <1>6. (~done) \in BOOLEAN
    OBVIOUS
  <1>7. QED
    BY <1>1, <1>2, <1>4, <1>5, <1>6, ReloadStep

LEMMA GiveUpStep == PageInv /\ GiveUp => PageInv'
  <1> SUFFICES ASSUME PageInv, GiveUp PROVE PageInv'
    OBVIOUS
  <1>1. /\ Reload("unreachable", page.conflict) /\ attempt' = NoAttempt
        /\ UNCHANGED <<status, orderItems, keys, network, dialog, drawn, told>>
    BY DEF GiveUp, api
  <1>2. page.conflict \in BOOLEAN /\ told \in Ops \cup {Nobody}
    BY DEF PageInv, TypeInv, Page
  <1>3. page.conflict => status \in Final
    BY DEF PageInv, KnownInv
  <1>4. told # Nobody => status = Ended(told)
    BY DEF PageInv, KnownInv
  <1>5. QED
    BY <1>1, <1>2, <1>3, <1>4, ReloadStep

LEMMA LoseStep == \A r \in network : PageInv /\ Lose(r) => PageInv'
  <1> SUFFICES ASSUME PageInv, NEW r \in network, Lose(r) PROVE PageInv'
    OBVIOUS
  <1>1. /\ UNCHANGED <<status, orderItems, keys, attempt, getOrder, page, dialog, drawn, told>>
        /\ network' \subseteq network
    BY DEF Lose, api
  <1>2. TypeInv'
    BY <1>1 DEF PageInv, TypeInv
  <1>3. KeysInv'
    BY <1>1 DEF PageInv, KeysInv, Uses
  <1>4. ReadInv' /\ KnownInv'
    BY <1>1 DEF PageInv, ReadInv, KnownInv, Shown
  <1>5. QED
    BY <1>2, <1>3, <1>4 DEF PageInv

LEMMA VisitStep == PageInv /\ Visit => PageInv'
  <1> SUFFICES ASSUME PageInv, Visit PROVE PageInv'
    OBVIOUS
  <1>1. /\ UNCHANGED <<status, orderItems, keys, network, drawn, told>>
        /\ page' = NewPage /\ getOrder' = Asked /\ attempt' = NoAttempt
        /\ dialog' = [op \in Ops |-> [open |-> FALSE, key |-> 0]]
    BY DEF Visit, api
  <1>2. TypeInv'
    BY <1>1, KeysAssumption
       DEF PageInv, TypeInv, NewPage, Page, Asked, NotAsked, Get, Statuses, Shows, NoAttempt,
           Attempt, Outcomes, Dialog
  <1>3. \A a \in Ops, k \in 1..MaxKeys : Uses(a, k)' => Uses(a, k)
    BY <1>1 DEF Uses, NoAttempt
  <1>4. attempt'.outcome = "none" /\ \A op \in Ops : ~dialog'[op].open
    BY <1>1 DEF NoAttempt
  <1>5. KeysInv'
    BY <1>1, <1>3, <1>4 DEF PageInv, KeysInv
  <1>6. ReadInv' /\ KnownInv'
    BY <1>1, Operations
       DEF PageInv, TypeInv, ReadInv, KnownInv, Shown, NewPage, Asked, NotAsked
  <1>7. QED
    BY <1>2, <1>5, <1>6 DEF PageInv

(* The inductive invariant of the order page.                                  *)
THEOREM OrderPageInvariant == Spec => []PageInv
<1>1. PageInv /\ [Next]_vars => PageInv'
  <2> SUFFICES ASSUME PageInv, [Next]_vars PROVE PageInv'
    OBVIOUS
  <2>1. CASE Create
    BY <2>1, CreateStep
  <2>2. CASE ReadStatement
    BY <2>2, ReadStatementStep
  <2>3. CASE Show
    BY <2>3, ShowStep
  <2>4. CASE \E op \in Ops : Others(op) \/ Open(op) \/ Close(op) \/ Confirm(op)
    BY <2>4, OthersStep, OpenStep, CloseStep, ConfirmStep
  <2>5. CASE \E r \in network : Handle(r) \/ Lose(r)
    BY <2>5, HandleStep, LoseStep
  <2>6. CASE Answered
    BY <2>6, AnsweredStep
  <2>7. CASE GiveUp
    BY <2>7, GiveUpStep
  <2>8. CASE Visit
    BY <2>8, VisitStep
  <2>9. CASE UNCHANGED vars
    BY <2>9 DEF vars, PageInv, TypeInv, KeysInv, Uses, ReadInv, KnownInv, Shown
  <2>10. QED
    BY <2>1, <2>2, <2>3, <2>4, <2>5, <2>6, <2>7, <2>8, <2>9 DEF Next
<1>2. QED
  BY <1>1, PageInit, PTL DEF Spec

(* The notice of a conflict is not over an order that looks pending, unless    *)
(* the reload that followed it was answered 401 (handleFulfill, handleCancel   *)
(* and fetchOrder of order-detail-view.tsx).                                   *)
THEOREM ConflictsAreShown == Spec => []ConflictIsShown
<1>1. PageInv => ConflictIsShown
  BY DEF PageInv, KnownInv, ConflictIsShown, Final
<1>2. QED
  BY <1>1, OrderPageInvariant, PTL

(* What the user was told has succeeded is how the order ended, and is what is *)
(* shown unless the last load was answered 401 (useIdempotencyKey of the       *)
(* dialogs, load() after each attempt).                                        *)
THEOREM SuccessesAreShown == Spec => []ToldIsShown
<1>1. PageInv => ToldIsShown
  BY DEF PageInv, KnownInv, ToldIsShown
<1>2. QED
  BY <1>1, OrderPageInvariant, PTL

(* An order on the screen has all its items (OrdersService.getOrder).          *)
THEOREM OrdersAreWhole == Spec => []ShownOrderIsWhole
<1>1. PageInv => ShownOrderIsWhole
  BY DEF PageInv, ReadInv, Shown, ShownOrderIsWhole
<1>2. QED
  BY <1>1, OrderPageInvariant, PTL
===============================================================================
