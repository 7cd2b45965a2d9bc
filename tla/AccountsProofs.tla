------------------------------ MODULE AccountsProofs ------------------------------
(***************************************************************************)
(* TLAPS proofs about Accounts: for any addresses, requests, limit and     *)
(* window, and any number of requests in flight.                           *)
(***************************************************************************)
EXTENDS Accounts, FiniteSetTheorems, TLAPS

Row(u)    == [organization |-> u.email, user |-> u.email, role |-> "owner"]
User(r)   == [email |-> r.email, password |-> r.password]
Address(u, e) == SameAddress(u.email, e)
Working   == {"incr", "expire", "register", "insert_user", "insert_membership", "login"}

(* The committed rows are those of the users, who have different addresses.    *)
RowsInv ==
  /\ organizations = {u.email : u \in users}
  /\ memberships = {Row(u) : u \in users}
  /\ \A u, v \in users : Address(u, v.email) => u = v

(* What an open transaction has inserted, at each of its statements.           *)
TxInv(t) ==
  /\ pc[t] \notin {"insert_user", "insert_membership"} => tx[t] = NoRows
  /\ pc[t] = "insert_user" =>
       tx[t] = [organizations |-> {req[t].email}, users |-> {}, memberships |-> {}]
  /\ pc[t] = "insert_membership" =>
       /\ tx[t] = [organizations |-> {req[t].email}, users |-> {User(req[t])},
                   memberships |-> {}]
       /\ ~Taken(req[t].email)

(* Two open transactions have inserted users of different addresses.           *)
ExclusiveInv ==
  \A s, t \in Attempts :
    pc[s] = "insert_membership" /\ pc[t] = "insert_membership"
      /\ SameAddress(req[s].email, req[t].email) => s = t

(* What is expected of a login is there when it looks, and its answer says so. *)
LoginInv(t) ==
  /\ status[t] # 0 => pc[t] = "answer"
  /\ pc[t] = "login" /\ expected[t] =>
       \E u \in users : Address(u, req[t].email) /\ u.password = req[t].password
  /\ status[t] \in {200, 401} /\ Agree(req[t].email) =>
       /\ status[t] = 401 => ~expected[t]
       /\ status[t] = 200 => \E u \in users : Address(u, req[t].email)

TypeInv ==
  /\ pc \in [Attempts -> Working \cup {"idle", "answer"}]
  /\ DOMAIN req = Attempts /\ DOMAIN tx = Attempts
  /\ DOMAIN status = Attempts /\ DOMAIN expected = Attempts
  /\ \A t \in Attempts : pc[t] # "idle" => req[t] \in Requests

AccountsInv ==
  /\ TypeInv
  /\ RowsInv
  /\ ExclusiveInv
  /\ \A t \in Attempts : TxInv(t) /\ LoginInv(t)

-------------------------------------------------------------------------------
LEMMA AccountsInit == Init => AccountsInv
  <1> SUFFICES ASSUME Init PROVE AccountsInv
    OBVIOUS
  <1> USE DEF Init
  <1>1. TypeInv
    BY DEF TypeInv
  <1>2. RowsInv
    BY DEF RowsInv
  <1>3. ExclusiveInv
    BY DEF ExclusiveInv
  <1>4. \A t \in Attempts : TxInv(t) /\ LoginInv(t)
    BY DEF TxInv, LoginInv
  <1>5. QED
    BY <1>1, <1>2, <1>3, <1>4 DEF AccountsInv

(* A step of one attempt that leaves the tables alone.                         *)
LEMMA AttemptStep ==
  ASSUME AccountsInv, NEW t \in Attempts, TypeInv',
         UNCHANGED tables,
         \A s \in Attempts \ {t} : /\ pc'[s] = pc[s] /\ req'[s] = req[s]
                                   /\ tx'[s] = tx[s] /\ status'[s] = status[s]
                                   /\ expected'[s] = expected[s],
         TxInv(t)', LoginInv(t)',
         pc'[t] = "insert_membership" =>
           \A s \in Attempts \ {t} :
             pc[s] = "insert_membership" => ~SameAddress(req[s].email, req'[t].email)
  PROVE  AccountsInv'
  <1>1. RowsInv'
    BY DEF AccountsInv, RowsInv, tables
  <1>2. ASSUME NEW s \in Attempts \ {t} PROVE TxInv(s)' /\ LoginInv(s)'
    BY DEF AccountsInv, TxInv, LoginInv, Taken, Agree, tables
  <1>3. ExclusiveInv'
    BY DEF AccountsInv, ExclusiveInv, SameAddress
  <1>4. QED
    BY <1>1, <1>2, <1>3 DEF AccountsInv

(* Statements outside the transaction: only the attempt's own state moves.     *)
LEMMA OutsideStep ==
  ASSUME AccountsInv, NEW t \in Attempts, UNCHANGED tables, UNCHANGED tx,
         NEW label \in (Working \cup {"idle", "answer"}) \ {"insert_user", "insert_membership"},
         pc' = [pc EXCEPT ![t] = label],
         pc[t] \notin {"insert_user", "insert_membership"},
         DOMAIN req' = Attempts, DOMAIN status' = Attempts, DOMAIN expected' = Attempts,
         \A s \in Attempts \ {t} : /\ req'[s] = req[s] /\ status'[s] = status[s]
                                   /\ expected'[s] = expected[s],
         label # "idle" => req'[t] \in Requests,
         LoginInv(t)'
  PROVE  AccountsInv'
  <1>1. TypeInv'
    BY DEF AccountsInv, TypeInv
  <1>2. pc'[t] = label /\ \A s \in Attempts \ {t} : pc'[s] = pc[s]
    BY DEF AccountsInv, TypeInv
  <1>3. TxInv(t)'
    BY <1>2 DEF AccountsInv, TxInv
  <1>4. QED
    BY <1>1, <1>2, <1>3, AttemptStep

LEMMA SendStep ==
  ASSUME AccountsInv, NEW t \in Attempts, NEW q \in Requests, Send(t, q)
  PROVE  AccountsInv'
  <1>1. /\ pc[t] = "idle" /\ pc' = [pc EXCEPT ![t] = "incr"]
        /\ req' = [req EXCEPT ![t] = q]
        /\ UNCHANGED <<tables, tx, status, expected>>
    BY DEF Send, Continue, tables, history
  <1>2. pc'[t] = "incr"
    BY <1>1 DEF AccountsInv, TypeInv
  <1>3. LoginInv(t)'
    BY <1>1, <1>2 DEF AccountsInv, LoginInv
  <1>4. /\ DOMAIN req' = Attempts /\ req'[t] \in Requests /\ \A s \in Attempts \ {t} : req'[s] = req[s]
        /\ DOMAIN status' = Attempts /\ DOMAIN expected' = Attempts
    BY <1>1 DEF AccountsInv, TypeInv
  <1>5. QED
    BY <1>1, <1>3, <1>4, OutsideStep DEF Working

(* Past the limiter.                                                           *)
LEMMA AdmitStep ==
  ASSUME AccountsInv, NEW t \in Attempts, pc[t] \in {"incr", "expire"},
         UNCHANGED <<organizations, users, memberships, req, tx, orphaned>>,
         Admit(t, req[t].route)
  PROVE  AccountsInv'
  <1> DEFINE x == req[t].route
             now == x = "login" /\ \E u \in users : /\ SameAddress(u.email, req[t].email)
                                                    /\ u.password = req[t].password
  <1>1. /\ pc' = [pc EXCEPT ![t] = x] /\ UNCHANGED status
        /\ expected' = [expected EXCEPT ![t] = now]
        /\ UNCHANGED <<tables, tx, req>>
    BY DEF Admit, Continue, tables
  <1>2. /\ pc'[t] = x /\ expected'[t] = now
        /\ DOMAIN req' = Attempts /\ DOMAIN status' = Attempts
        /\ DOMAIN expected' = Attempts
        /\ \A s \in Attempts \ {t} : expected'[s] = expected[s]
    BY <1>1 DEF AccountsInv, TypeInv
  <1>3. LoginInv(t)'
    <2>1. status'[t] = 0 /\ (now => x = "login")
      BY <1>1 DEF AccountsInv, LoginInv
    <2>2. now => \E u \in users : Address(u, req[t].email) /\ u.password = req[t].password
      BY DEF Address
    <2>3. UNCHANGED <<users, req>>
      BY <1>1 DEF tables
    <2> HIDE DEF now
    <2>4. QED
      BY <1>2, <2>1, <2>2, <2>3 DEF LoginInv, Address, SameAddress
  <1>4. req[t] \in Requests /\ x \in Routes
    BY RequestAssumption DEF AccountsInv, TypeInv
  <1>5. x \in (Working \cup {"idle", "answer"}) \ {"insert_user", "insert_membership"}
    BY <1>4 DEF Routes, Working
  <1>6. QED
    BY <1>1, <1>2, <1>3, <1>5, <1>4, OutsideStep

LEMMA IncrStep ==
  ASSUME AccountsInv, NEW t \in Attempts, Incr(t)
  PROVE  AccountsInv'
  <1>1. /\ pc[t] = "incr"
        /\ UNCHANGED <<organizations, users, memberships, req, tx, orphaned>>
        /\ UNCHANGED tables
    BY DEF Incr, tables
  <1>2. /\ req[t] \in Requests /\ DOMAIN req' = Attempts
        /\ DOMAIN status = Attempts /\ DOMAIN expected = Attempts
    BY <1>1 DEF AccountsInv, TypeInv
  <1>3. CASE Admit(t, req[t].route)
    BY <1>1, <1>3, AdmitStep
  <1>4. CASE Continue(t, "expire") /\ UNCHANGED expected
    <2>1. pc' = [pc EXCEPT ![t] = "expire"] /\ UNCHANGED status
      BY <1>4 DEF Continue
    <2>2. pc'[t] = "expire"
      BY <2>1 DEF AccountsInv, TypeInv
    <2>3. LoginInv(t)'
      BY <1>1, <1>4, <2>1, <2>2 DEF AccountsInv, LoginInv
    <2>4. QED
      BY <1>1, <1>2, <1>4, <2>1, <2>3, OutsideStep DEF Working
  <1>5. CASE Finish(t, 429) /\ UNCHANGED expected
    <2>1. pc' = [pc EXCEPT ![t] = "answer"] /\ status' = [status EXCEPT ![t] = 429]
      BY <1>5 DEF Finish
    <2>2. /\ pc'[t] = "answer" /\ status'[t] = 429 /\ DOMAIN status' = Attempts
          /\ \A s \in Attempts \ {t} : status'[s] = status[s]
      BY <2>1 DEF AccountsInv, TypeInv
    <2>3. LoginInv(t)'
      BY <2>2 DEF LoginInv
    <2>4. QED
      BY <1>1, <1>2, <1>5, <2>1, <2>2, <2>3, OutsideStep DEF Working
  <1>6. QED
    BY <1>3, <1>4, <1>5 DEF Incr

LEMMA ExpireStep ==
  ASSUME AccountsInv, NEW t \in Attempts, Expire(t)
  PROVE  AccountsInv'
  BY AdmitStep DEF Expire

(* The SELECT of the user.                                                     *)
LEMMA LoginStep ==
  ASSUME AccountsInv, NEW t \in Attempts, Login(t)
  PROVE  AccountsInv'
  <1> DEFINE code == IF \E u \in FindUser(req[t].email) : u.password = req[t].password
                       THEN 200 ELSE 401
  <1>1. /\ pc[t] = "login" /\ pc' = [pc EXCEPT ![t] = "answer"]
        /\ status' = [status EXCEPT ![t] = code]
        /\ UNCHANGED <<tables, req, tx, expected>>
    BY DEF Login, Finish, tables, history
  <1>2. /\ pc'[t] = "answer" /\ status'[t] = code
        /\ DOMAIN status' = Attempts /\ DOMAIN req' = Attempts
        /\ DOMAIN expected' = Attempts /\ req[t] \in Requests
        /\ \A s \in Attempts \ {t} : status'[s] = status[s]
    BY <1>1 DEF AccountsInv, TypeInv
  <1>3. ASSUME Agree(req[t].email)
        PROVE  /\ code = 200 => \E u \in users : Address(u, req[t].email)
               /\ code = 401 => ~expected[t]
    <2>1. \A u : u \in FindUser(req[t].email) <=> u \in users /\ Address(u, req[t].email)
      BY <1>3 DEF FindUser, Address, SameAddress, Agree
    <2>2. expected[t] => \E u \in users : Address(u, req[t].email) /\ u.password = req[t].password
      BY <1>1 DEF AccountsInv, LoginInv
    <2>3. QED
      BY <2>1, <2>2
  <1>5. UNCHANGED users
    BY <1>1 DEF tables
  <1> HIDE DEF code
  <1>6. LoginInv(t)'
    BY <1>1, <1>2, <1>3, <1>5 DEF LoginInv, Address, SameAddress, Agree
  <1>7. QED
    BY <1>1, <1>2, <1>6, OutsideStep DEF Working

LEMMA AnswerStep ==
  ASSUME AccountsInv, NEW t \in Attempts, Answer(t)
  PROVE  AccountsInv'
  <1>1. /\ pc[t] = "answer" /\ pc' = [pc EXCEPT ![t] = "idle"]
        /\ req' = [req EXCEPT ![t] = NoRequest]
        /\ status' = [status EXCEPT ![t] = 0]
        /\ expected' = [expected EXCEPT ![t] = FALSE]
        /\ UNCHANGED <<tables, tx>>
    BY DEF Answer, Leave, tables
  <1>2. /\ pc'[t] = "idle" /\ status'[t] = 0
        /\ DOMAIN status' = Attempts /\ DOMAIN req' = Attempts
        /\ DOMAIN expected' = Attempts
        /\ \A s \in Attempts \ {t} : /\ req'[s] = req[s] /\ status'[s] = status[s]
                                     /\ expected'[s] = expected[s]
    BY <1>1 DEF AccountsInv, TypeInv
  <1>3. LoginInv(t)'
    BY <1>2 DEF LoginInv
  <1>4. QED
    BY <1>1, <1>2, <1>3, OutsideStep DEF Working

(* The process stops: an open transaction is rolled back.                      *)
LEMMA CrashStep ==
  ASSUME AccountsInv, NEW t \in Attempts, Crash(t)
  PROVE  AccountsInv'
  <1>1. /\ pc' = [pc EXCEPT ![t] = "idle"]
        /\ req' = [req EXCEPT ![t] = NoRequest]
        /\ status' = [status EXCEPT ![t] = 0]
        /\ expected' = [expected EXCEPT ![t] = FALSE]
        /\ tx' = [tx EXCEPT ![t] = NoRows]
        /\ UNCHANGED tables
    BY DEF Crash, Leave, Rollback
  <1>2. /\ pc'[t] = "idle" /\ status'[t] = 0 /\ tx'[t] = NoRows
        /\ \A s \in Attempts \ {t} : /\ pc'[s] = pc[s] /\ req'[s] = req[s]
                                     /\ tx'[s] = tx[s] /\ status'[s] = status[s]
                                     /\ expected'[s] = expected[s]
    BY <1>1 DEF AccountsInv, TypeInv
  <1>3. TypeInv'
    BY <1>1, <1>2 DEF AccountsInv, TypeInv
  <1>4. TxInv(t)' /\ LoginInv(t)'
    BY <1>2 DEF TxInv, LoginInv
  <1>5. QED
    BY <1>1, <1>2, <1>3, <1>4, AttemptStep

(* The transaction.                                                            *)

LEMMA InsertOrganizationStep ==
  ASSUME AccountsInv, NEW t \in Attempts, InsertOrganization(t)
  PROVE  AccountsInv'
  <1> DEFINE rows == [organizations |-> {req[t].email}, users |-> {}, memberships |-> {}]
  <1>1. /\ pc[t] = "register" /\ pc' = [pc EXCEPT ![t] = "insert_user"]
        /\ tx' = [tx EXCEPT ![t].organizations = {req[t].email}]
        /\ UNCHANGED <<tables, req, status, expected>>
    BY DEF InsertOrganization, Continue, tables, history
  <1>2. tx[t] = NoRows
    BY <1>1 DEF AccountsInv, TxInv
  <1>3. tx' = [tx EXCEPT ![t] = rows]
    <2>1. [NoRows EXCEPT !.organizations = {req[t].email}] = rows
      BY DEF NoRows
    <2>2. tx' = [tx EXCEPT ![t] = [tx[t] EXCEPT !.organizations = {req[t].email}]]
      BY <1>1
    <2>3. QED
      BY <1>2, <2>1, <2>2
  <1>4. /\ pc'[t] = "insert_user" /\ tx'[t] = rows
        /\ \A s \in Attempts \ {t} : pc'[s] = pc[s] /\ tx'[s] = tx[s]
    BY <1>1, <1>3 DEF AccountsInv, TypeInv
  <1>5. TypeInv'
    BY <1>1, <1>4 DEF AccountsInv, TypeInv, Working
  <1>6. TxInv(t)' /\ LoginInv(t)'
    BY <1>1, <1>4 DEF AccountsInv, TxInv, LoginInv
  <1>7. QED
    BY <1>1, <1>4, <1>5, <1>6, AttemptStep

LEMMA InsertUserStep ==
  ASSUME AccountsInv, NEW t \in Attempts, InsertUser(t)
  PROVE  AccountsInv'
  <1> DEFINE email == req[t].email
  <1>1. /\ pc[t] = "insert_user" /\ UNCHANGED <<req, expected>>
        /\ ~\E s \in Attempts \ {t} : \E u \in tx[s].users : SameAddress(u.email, email)
    BY DEF InsertUser, history
  <1>2. tx[t] = [organizations |-> {email}, users |-> {}, memberships |-> {}]
    BY <1>1 DEF AccountsInv, TxInv
  <1>3. CASE Rollback(t) /\ Finish(t, 409)
    <2>1. /\ pc' = [pc EXCEPT ![t] = "answer"] /\ status' = [status EXCEPT ![t] = 409]
          /\ tx' = [tx EXCEPT ![t] = NoRows] /\ UNCHANGED tables
      BY <1>3 DEF Rollback, Finish
    <2>2. /\ pc'[t] = "answer" /\ status'[t] = 409 /\ tx'[t] = NoRows
          /\ \A s \in Attempts \ {t} : /\ pc'[s] = pc[s] /\ tx'[s] = tx[s]
                                       /\ status'[s] = status[s]
      BY <2>1 DEF AccountsInv, TypeInv
    <2>3. TypeInv'
      BY <1>1, <2>1, <2>2 DEF AccountsInv, TypeInv
    <2>4. TxInv(t)' /\ LoginInv(t)'
      BY <2>2 DEF TxInv, LoginInv
    <2>5. QED
      BY <1>1, <2>1, <2>2, <2>3, <2>4, AttemptStep
  <1>4. CASE /\ ~Taken(email)
             /\ tx' = [tx EXCEPT ![t].users = {[email |-> email, password |-> req[t].password]}]
             /\ Continue(t, "insert_membership") /\ UNCHANGED tables
    <2> DEFINE rows == [organizations |-> {email}, users |-> {User(req[t])}, memberships |-> {}]
    <2>1. /\ pc' = [pc EXCEPT ![t] = "insert_membership"] /\ UNCHANGED status
          /\ tx' = [tx EXCEPT ![t] = rows]
      <3>1. [tx[t] EXCEPT !.users = {User(req[t])}] = rows
        BY <1>2
      <3>2. tx' = [tx EXCEPT ![t] = [tx[t] EXCEPT !.users = {User(req[t])}]]
        BY <1>4 DEF User
      <3>3. QED
        BY <1>4, <3>1, <3>2 DEF Continue
    <2>2. /\ pc'[t] = "insert_membership" /\ tx'[t] = rows
          /\ \A s \in Attempts \ {t} : pc'[s] = pc[s] /\ tx'[s] = tx[s]
      BY <2>1 DEF AccountsInv, TypeInv
    <2>3. TypeInv'
      BY <1>1, <2>1, <2>2 DEF AccountsInv, TypeInv, Working
    <2>4. TxInv(t)' /\ LoginInv(t)'
      BY <1>1, <1>4, <2>1, <2>2
         DEF AccountsInv, TxInv, LoginInv, Taken, SameAddress, User, tables
    <2>5. ASSUME NEW s \in Attempts \ {t}, pc[s] = "insert_membership"
          PROVE  ~SameAddress(req[s].email, email)
      <3>1. User(req[s]) \in tx[s].users
        <4>1. TxInv(s)
          BY DEF AccountsInv
        <4>2. tx[s] = [organizations |-> {req[s].email}, users |-> {User(req[s])},
                       memberships |-> {}]
          BY <2>5, <4>1 DEF TxInv
        <4>3. QED
          BY <4>2
      <3>2. ~SameAddress(User(req[s]).email, email)
        BY <1>1, <3>1
      <3>3. QED
        BY <3>2 DEF User
    <2>6. QED
      BY <1>1, <1>4, <2>1, <2>2, <2>3, <2>4, <2>5, AttemptStep
  <1>5. QED
    BY <1>3, <1>4 DEF InsertUser

(* The commit: one organization, one user and one membership at once.          *)
LEMMA InsertMembershipStep ==
  ASSUME AccountsInv, NEW t \in Attempts, InsertMembership(t)
  PROVE  AccountsInv'
  <1> DEFINE r == req[t]
             u == User(r)
  <1>1. /\ pc[t] = "insert_membership" /\ UNCHANGED <<req, expected>>
        /\ Finish(t, 201)
        /\ Commit(t, [tx[t] EXCEPT !.memberships =
             {[organization |-> r.email, user |-> r.email, role |-> "owner"]}])
    BY DEF InsertMembership, history
  <1>2. /\ tx[t] = [organizations |-> {r.email}, users |-> {u}, memberships |-> {}]
        /\ ~Taken(r.email)
    BY <1>1 DEF AccountsInv, TxInv
  <1>3. u.email = r.email
    BY DEF User
  <1>4. /\ organizations' = organizations \cup {u.email}
        /\ users' = users \cup {u}
        /\ memberships' = memberships \cup {Row(u)}
        /\ tx' = [tx EXCEPT ![t] = NoRows]
    BY <1>1, <1>2, <1>3 DEF Commit, Row
  <1>5. /\ pc'[t] = "answer" /\ status'[t] = 201 /\ tx'[t] = NoRows
        /\ \A s \in Attempts \ {t} : /\ pc'[s] = pc[s] /\ tx'[s] = tx[s]
                                     /\ status'[s] = status[s]
    BY <1>1, <1>4 DEF AccountsInv, TypeInv, Finish
  <1>6. TypeInv'
    BY <1>1, <1>4, <1>5 DEF AccountsInv, TypeInv, Finish
  <1>7. \A v \in users : ~SameAddress(v.email, u.email)
    BY <1>2, <1>3 DEF Taken
  <1> HIDE DEF u
  <1>8. RowsInv'
    <2>1. organizations' = {v.email : v \in users'}
      BY <1>4 DEF AccountsInv, RowsInv
    <2>2. memberships' = {Row(v) : v \in users'}
      BY <1>4 DEF AccountsInv, RowsInv
    <2>3. \A v, w \in users' : SameAddress(v.email, w.email) => v = w
      BY <1>4, <1>7 DEF AccountsInv, RowsInv, Address, SameAddress
    <2>4. QED
      BY <2>1, <2>2, <2>3 DEF RowsInv, Address, SameAddress
  <1>9. ExclusiveInv'
    BY <1>1, <1>5 DEF AccountsInv, ExclusiveInv, SameAddress
  <1>10. ASSUME NEW s \in Attempts PROVE TxInv(s)' /\ LoginInv(s)'
    <2>1. CASE s = t
      BY <1>5, <2>1 DEF TxInv, LoginInv
    <2>2. CASE s # t
      <3>1. /\ pc'[s] = pc[s] /\ tx'[s] = tx[s] /\ req'[s] = req[s]
            /\ status'[s] = status[s] /\ expected'[s] = expected[s]
        BY <1>1, <1>5, <2>2
      <3>2. TxInv(s)'
        <4>1. pc[s] = "insert_membership" =>
                ~Taken(req[s].email) /\ ~SameAddress(u.email, req[s].email)
          BY <1>1, <1>3, <2>2 DEF AccountsInv, TxInv, ExclusiveInv, SameAddress
        <4>2. pc[s] = "insert_membership" =>
                \A v \in users' : ~SameAddress(v.email, req[s].email)
          BY <1>4, <4>1 DEF Taken
        <4>3. QED
          BY <3>1, <4>2 DEF AccountsInv, TxInv, Taken, SameAddress
      <3>3. LoginInv(s)'
        BY <1>4, <3>1 DEF AccountsInv, LoginInv, Address, SameAddress
      <3>4. QED
        BY <3>2, <3>3
    <2>3. QED
      BY <2>1, <2>2
  <1>11. QED
    BY <1>6, <1>8, <1>9, <1>10 DEF AccountsInv

LEMMA AccountsNext == AccountsInv /\ [Next]_vars => AccountsInv'
  <1> SUFFICES ASSUME AccountsInv, [Next]_vars PROVE AccountsInv'
    OBVIOUS
  <1>1. ASSUME NEW t \in Attempts, Step(t) PROVE AccountsInv'
    BY <1>1, IncrStep, ExpireStep, InsertOrganizationStep, InsertUserStep,
       InsertMembershipStep, LoginStep, AnswerStep DEF Step
  <1>2. ASSUME NEW t \in Attempts, Crash(t) PROVE AccountsInv'
    BY <1>2, CrashStep
  <1>3. ASSUME NEW t \in Attempts, NEW q \in Requests, Send(t, q) PROVE AccountsInv'
    BY <1>3, SendStep
  <1>4. CASE Tick \/ UNCHANGED vars
    <2>1. UNCHANGED <<organizations, users, memberships, pc, req, tx, status, expected>>
      BY <1>4 DEF Tick, vars
    <2>2. TypeInv' /\ RowsInv' /\ ExclusiveInv'
      BY <2>1 DEF AccountsInv, TypeInv, RowsInv, ExclusiveInv
    <2>3. ASSUME NEW t \in Attempts PROVE TxInv(t)' /\ LoginInv(t)'
      BY <2>1 DEF AccountsInv, TxInv, LoginInv, Taken, Agree
    <2>4. QED
      BY <2>2, <2>3 DEF AccountsInv
  <1>5. QED
    BY <1>1, <1>2, <1>3, <1>4 DEF Next

-------------------------------------------------------------------------------
(* The inductive invariant of registration and login.                          *)
THEOREM AccountsInvariant == Spec => []AccountsInv
<1>1. QED
  BY AccountsInit, AccountsNext, PTL DEF Spec

(* An account is whole or not there (register's transaction and the unique     *)
(* index on email_normalized).                                                 *)
THEOREM AccountsAreWhole == Spec => []RegistrationIsWhole
<1>1. AccountsInv => RegistrationIsWhole
  <2> SUFFICES ASSUME AccountsInv PROVE RegistrationIsWhole
    OBVIOUS
  <2>1. /\ organizations = {u.email : u \in users}
        /\ memberships = {Row(u) : u \in users}
        /\ \A u, v \in users : SameAddress(u.email, v.email) => u = v
    BY DEF AccountsInv, RowsInv, Address
  <2>2. ASSUME NEW u \in users
        PROVE  /\ {m \in memberships : m.organization = u.email} = {Row(u)}
               /\ {m \in memberships : m.user = u.email} = {Row(u)}
    <3>1. \A v \in users : v.email = u.email => v = u
      BY <2>1 DEF SameAddress
    <3>2. \A v \in users : Row(v).organization = v.email /\ Row(v).user = v.email
      BY DEF Row
    <3>3. Row(u) \in memberships
      BY <2>1
    <3>4. QED
      BY <2>1, <3>1, <3>2, <3>3
  <2>3. \A u \in users : Row(u).role = "owner" /\ Row(u).user = u.email
                         /\ Row(u).organization = u.email /\ Row(u) \in memberships
    BY <2>1 DEF Row
  <2>4. ASSUME NEW o \in organizations
        PROVE  /\ Cardinality({m \in memberships : m.organization = o}) = 1
               /\ \E m \in memberships : m.organization = o /\ m.role = "owner"
    <3>1. PICK u \in users : o = u.email
      BY <2>1
    <3>2. QED
      BY <2>2, <2>3, <3>1, FS_Singleton
  <2>5. \A m \in memberships : \E u \in users : u.email = m.user
    BY <2>1, <2>3
  <2>6. ASSUME NEW u \in users
        PROVE  Cardinality({m \in memberships : m.user = u.email}) = 1
    BY <2>2, FS_Singleton
  <2>7. QED
    BY <2>1, <2>4, <2>5, <2>6 DEF RegistrationIsWhole
<1>2. QED
  BY <1>1, AccountsInvariant, PTL

(* Whoever registered can log in (AuthService.login, lower and trim of the      *)
(* address).                                                                   *)
THEOREM RegisteredLogIn == Spec => []RegisteredCanLogin
<1>1. AccountsInv => RegisteredCanLogin
  BY DEF AccountsInv, LoginInv, Address, RegisteredCanLogin
<1>2. QED
  BY <1>1, AccountsInvariant, PTL

-------------------------------------------------------------------------------
(* The limiter.                                                                *)

AtExpire(t, x) == pc[t] = "expire" /\ req[t].route = x

(* A first request has counted, and its EXPIRE is still to come or lost.       *)
Pending(x) == orphaned[x] \/ \E t \in Attempts : AtExpire(t, x)

(* How many requests the counter says that it let through.                     *)
Used(x) ==
  IF counter[x].count = 0 THEN 0
  ELSE (IF counter[x].count > LIMIT THEN LIMIT ELSE counter[x].count)
         - (IF Pending(x) THEN 1 ELSE 0)

LimiterType ==
  /\ counter \in [Routes -> [count : 0..CountCap, ttl : 1..NoTTL]]
  /\ admitted \in [Routes -> [Ages -> Nat]]
  /\ DOMAIN orphaned = Routes

(* One request at most has to start the window, and until it does the window   *)
(* does not end.                                                               *)
StartInv(x) ==
  /\ counter[x].count = 0 => counter[x].ttl = NoTTL
  /\ Pending(x) => counter[x].count > 0 /\ counter[x].ttl = NoTTL
  /\ \A s, t \in Attempts : AtExpire(s, x) /\ AtExpire(t, x) => s = t
  /\ orphaned[x] => \A t \in Attempts : ~AtExpire(t, x)

(* The counter accounts for what was let through since its window started, in  *)
(* this unit of time, and, with LIMIT more, in as long as a window.            *)
WindowInv(x) ==
  /\ \A g, h \in Ages : g <= h => admitted[x][g] <= admitted[x][h]
  /\ admitted[x][0] <= Used(x)
  /\ counter[x].ttl # NoTTL => admitted[x][WINDOW - counter[x].ttl] <= Used(x)
  /\ admitted[x][WINDOW - 1] <= LIMIT + Used(x)

LimiterInv ==
  /\ LimiterType
  /\ \A x \in Routes : StartInv(x) /\ WindowInv(x)

(* A route that a step does not touch.                                         *)
LEMMA RouteSame ==
  ASSUME NEW x \in Routes, StartInv(x), WindowInv(x),
         counter'[x] = counter[x], admitted'[x] = admitted[x],
         orphaned'[x] = orphaned[x],
         \A s \in Attempts : AtExpire(s, x)' <=> AtExpire(s, x)
  PROVE  StartInv(x)' /\ WindowInv(x)'
  <1>1. Pending(x)' <=> Pending(x)
    BY DEF Pending
  <1>2. Used(x)' = Used(x)
    BY <1>1 DEF Used
  <1>3. StartInv(x)'
    BY <1>1 DEF StartInv
  <1>4. WindowInv(x)'
    BY <1>2 DEF WindowInv
  <1>5. QED
    BY <1>3, <1>4

LEMMA LimiterSame ==
  ASSUME LimiterInv, UNCHANGED <<counter, admitted, orphaned>>,
         \A s \in Attempts, x \in Routes : AtExpire(s, x)' <=> AtExpire(s, x)
  PROVE  LimiterInv'
  <1>1. LimiterType'
    BY DEF LimiterInv, LimiterType
  <1>2. QED
    BY <1>1, RouteSame DEF LimiterInv

LEMMA LimiterInit == Init => LimiterInv
  <1> SUFFICES ASSUME Init PROVE LimiterInv
    OBVIOUS
  <1> USE LimiterAssumption DEF Init
  <1>1. LimiterType
    BY DEF LimiterType, NoKey, NoTTL, CountCap
  <1>2. ASSUME NEW x \in Routes PROVE StartInv(x) /\ WindowInv(x)
    <2>1. counter[x].count = 0 /\ counter[x].ttl = NoTTL /\ Used(x) = 0
      BY DEF NoKey, Used
    <2>2. ~orphaned[x] /\ \A t \in Attempts : ~AtExpire(t, x)
      BY DEF AtExpire
    <2>3. \A g \in Ages : admitted[x][g] = 0
      OBVIOUS
    <2>4. 0 \in Ages /\ WINDOW - 1 \in Ages
      BY DEF Ages
    <2>5. QED
      BY <2>1, <2>2, <2>3, <2>4 DEF StartInv, WindowInv, Pending
  <1>3. QED
    BY <1>1, <1>2 DEF LimiterInv

(* The attempt moves, and where the counter stands it does not matter.         *)
LEMMA Elsewhere ==
  ASSUME AccountsInv, LimiterInv, NEW t \in Attempts,
         UNCHANGED <<counter, admitted, orphaned>>,
         pc[t] # "expire", pc'[t] # "expire",
         \A s \in Attempts \ {t} : pc'[s] = pc[s] /\ req'[s] = req[s]
  PROVE  LimiterInv'
  BY LimiterSame DEF AtExpire

(* One more request is let through, and the counter accounts for it.           *)
LEMMA OneMore ==
  ASSUME LimiterInv, NEW x \in Routes,
         admitted' = [admitted EXCEPT ![x] = [g \in Ages |-> @[g] + 1]]
  PROVE  /\ admitted' \in [Routes -> [Ages -> Nat]]
         /\ \A g \in Ages : admitted'[x][g] = admitted[x][g] + 1
         /\ \A y \in Routes \ {x} : admitted'[y] = admitted[y]
         /\ \A g, h \in Ages : g <= h => admitted'[x][g] <= admitted'[x][h]
  <1>1. admitted \in [Routes -> [Ages -> Nat]]
    BY DEF LimiterInv, LimiterType
  <1>2. \A g \in Ages : admitted[x][g] \in Nat
    BY <1>1
  <1>3. admitted'[x] = [g \in Ages |-> admitted[x][g] + 1]
    BY <1>1
  <1>4. admitted'[x] \in [Ages -> Nat]
    BY <1>2, <1>3
  <1>5. \A y \in Routes \ {x} : admitted'[y] = admitted[y]
    BY <1>1
  <1>6. \A g, h \in Ages : g <= h => admitted[x][g] <= admitted[x][h]
    BY DEF LimiterInv, WindowInv
  <1>7. QED
    BY <1>1, <1>2, <1>3, <1>4, <1>5, <1>6

(* A step of attempt t that moves the limiter of its request's route.          *)
LEMMA RouteStep ==
  ASSUME LimiterInv, NEW t \in Attempts, UNCHANGED <<req, orphaned>>,
         NEW x \in Routes, x = req[t].route,
         LimiterType', StartInv(x)', WindowInv(x)',
         \A y \in Routes \ {x} : counter'[y] = counter[y] /\ admitted'[y] = admitted[y],
         \A s \in Attempts \ {t} : pc'[s] = pc[s]
  PROVE  LimiterInv'
  <1>1. ASSUME NEW y \in Routes \ {x} PROVE StartInv(y)' /\ WindowInv(y)'
    <2>1. \A s \in Attempts : AtExpire(s, y)' <=> AtExpire(s, y)
      BY DEF AtExpire
    <2>2. QED
      BY <2>1, RouteSame DEF LimiterInv
  <1>2. QED
    BY <1>1 DEF LimiterInv

(* The counter after INCR.                                                     *)
LEMMA IncrCounts ==
  ASSUME AccountsInv, LimiterInv, NEW t \in Attempts, Incr(t),
         NEW x, x = req[t].route
  PROVE  /\ x \in Routes /\ Incremented(x) \in 1..CountCap
         /\ counter'[x].count = Incremented(x) /\ counter'[x].ttl = counter[x].ttl
         /\ \A y \in Routes \ {x} : counter'[y] = counter[y]
         /\ counter' \in [Routes -> [count : 0..CountCap, ttl : 1..NoTTL]]
         /\ UNCHANGED <<req, orphaned>>
         /\ pc[t] = "incr"
  <1>1. /\ pc[t] = "incr" /\ UNCHANGED <<req, orphaned>>
        /\ counter' = [counter EXCEPT ![x].count = Incremented(x)]
    BY DEF Incr
  <1>2. x \in Routes
    BY <1>1, RequestAssumption DEF AccountsInv, TypeInv
  <1>3. counter \in [Routes -> [count : 0..CountCap, ttl : 1..NoTTL]]
    BY DEF LimiterInv, LimiterType
  <1>4. counter[x].count \in 0..CountCap /\ counter[x].ttl \in 1..NoTTL
    BY <1>2, <1>3
  <1>5. Incremented(x) \in 1..CountCap
    BY <1>4, LimiterAssumption DEF Incremented, CountCap
  <1>6. counter' = [counter EXCEPT ![x] = [counter[x] EXCEPT !.count = Incremented(x)]]
    BY <1>1
  <1>7. counter[x] \in [count : 0..CountCap, ttl : 1..NoTTL] /\ x \in DOMAIN counter
    BY <1>2, <1>3
  <1>8. /\ counter'[x] = [counter[x] EXCEPT !.count = Incremented(x)]
        /\ \A y \in Routes \ {x} : counter'[y] = counter[y]
        /\ DOMAIN counter' = Routes
    BY <1>2, <1>3, <1>6
  <1>9. /\ counter'[x] \in [count : 0..CountCap, ttl : 1..NoTTL]
        /\ counter'[x].count = Incremented(x) /\ counter'[x].ttl = counter[x].ttl
    <2> PICK n : n = Incremented(x)
      OBVIOUS
    <2>1. n \in 0..CountCap
      BY <1>5 DEF CountCap
    <2>2. counter'[x] = [counter[x] EXCEPT !.count = n]
      BY <1>8
    <2>3. QED
      BY <1>7, <2>1, <2>2
  <1>10. \A y \in Routes : counter'[y] \in [count : 0..CountCap, ttl : 1..NoTTL]
    BY <1>3, <1>8, <1>9
  <1>11. counter' \in [Routes -> [count : 0..CountCap, ttl : 1..NoTTL]]
    <2>1. counter' = [y \in Routes |-> counter'[y]]
      BY <1>6, <1>8, <1>3
    <2>2. QED
      BY <1>10, <2>1
  <1>12. QED
    BY <1>1, <1>2, <1>5, <1>8, <1>9, <1>11

LEMMA IncrLimiter ==
  ASSUME AccountsInv, LimiterInv, NEW t \in Attempts, Incr(t)
  PROVE  LimiterInv'
  <1> PICK x : x = req[t].route
    OBVIOUS
  <1> PICK n : n = Incremented(x)
    OBVIOUS
  <1>1. /\ x \in Routes /\ n \in 1..CountCap
        /\ counter'[x].count = n /\ counter'[x].ttl = counter[x].ttl
        /\ \A y \in Routes \ {x} : counter'[y] = counter[y]
        /\ counter' \in [Routes -> [count : 0..CountCap, ttl : 1..NoTTL]]
        /\ UNCHANGED <<req, orphaned>>
        /\ pc[t] = "incr"
    BY IncrCounts
  <1>2. /\ counter[x].count \in 0..CountCap
        /\ n = IF counter[x].count = CountCap THEN CountCap ELSE counter[x].count + 1
    BY <1>1 DEF LimiterInv, LimiterType, Incremented
  <1>3. StartInv(x) /\ WindowInv(x) /\ LimiterType
    BY <1>1 DEF LimiterInv
  <1>4. DOMAIN pc = Attempts
    BY DEF AccountsInv, TypeInv
  <1>5. \/ /\ n = 1
           /\ Continue(t, "expire")
           /\ UNCHANGED <<admitted, expected>>
        \/ /\ n # 1 /\ OverLimit(n)
           /\ Finish(t, 429)
           /\ UNCHANGED <<admitted, expected>>
        \/ /\ n # 1 /\ ~OverLimit(n)
           /\ Admit(t, x)
    BY DEF Incr
  <1>6. LIMIT \in Nat \ {0} /\ WINDOW \in Nat \ {0} /\ CountCap = LIMIT + 1
        /\ NoTTL = WINDOW + 1
    BY LimiterAssumption DEF CountCap, NoTTL
  <1>7. CASE n = 1 /\ Continue(t, "expire") /\ UNCHANGED <<admitted, expected>>
    <2>1. counter[x].count = 0
      BY <1>2, <1>6, <1>7
    <2>2. /\ counter[x].ttl = NoTTL /\ ~Pending(x) /\ Used(x) = 0
      BY <1>3, <2>1 DEF StartInv, Used
    <2>3. /\ pc'[t] = "expire"
          /\ \A s \in Attempts \ {t} : pc'[s] = pc[s]
      BY <1>4, <1>7 DEF Continue
    <2>4. AtExpire(t, x)'
      BY <1>1, <2>3 DEF AtExpire
    <2>5. \A s \in Attempts \ {t} : ~AtExpire(s, x)'
      BY <1>1, <2>2, <2>3 DEF AtExpire, Pending
    <2>6. Pending(x)' /\ ~orphaned'[x]
      BY <1>1, <2>2, <2>4 DEF Pending
    <2>7. StartInv(x)'
      BY <1>1, <1>7, <2>2, <2>5, <2>6 DEF StartInv
    <2>8. Used(x)' = 0
      BY <1>1, <1>6, <1>7, <2>6 DEF Used
    <2>9. WindowInv(x)'
      BY <1>1, <1>3, <1>7, <2>2, <2>8 DEF WindowInv
    <2>10. LimiterType'
      BY <1>1, <1>3, <1>7 DEF LimiterType
    <2>11. \A y \in Routes \ {x} : admitted'[y] = admitted[y]
      BY <1>7
    <2>12. QED
      BY <1>1, <2>3, <2>7, <2>9, <2>10, <2>11, RouteStep
  <1>8. CASE n # 1 /\ OverLimit(n) /\ Finish(t, 429) /\ UNCHANGED <<admitted, expected>>
    <2>1. n > LIMIT /\ counter[x].count >= LIMIT
      BY <1>2, <1>6, <1>8 DEF OverLimit
    <2>2. /\ pc'[t] = "answer"
          /\ \A s \in Attempts \ {t} : pc'[s] = pc[s]
      BY <1>4, <1>8 DEF Finish
    <2>3. \A s \in Attempts : AtExpire(s, x)' <=> AtExpire(s, x)
      BY <1>1, <2>2 DEF AtExpire
    <2>4. Pending(x)' <=> Pending(x)
      BY <1>1, <2>3 DEF Pending
    <2>5. Used(x)' = Used(x)
      BY <1>1, <1>2, <1>6, <2>1, <2>4 DEF Used
    <2>6. StartInv(x)'
      BY <1>1, <1>2, <1>3, <1>6, <2>1, <2>3, <2>4 DEF StartInv
    <2>7. WindowInv(x)'
      BY <1>1, <1>3, <1>8, <2>5 DEF WindowInv
    <2>8. LimiterType'
      BY <1>1, <1>3, <1>8 DEF LimiterType
    <2>9. \A y \in Routes \ {x} : admitted'[y] = admitted[y]
      BY <1>8
    <2>10. QED
      BY <1>1, <2>2, <2>6, <2>7, <2>8, <2>9, RouteStep
  <1>9. CASE n # 1 /\ ~OverLimit(n) /\ Admit(t, x)
    <2>1. n <= LIMIT /\ counter[x].count = n - 1 /\ counter[x].count > 0
      BY <1>1, <1>2, <1>6, <1>9 DEF OverLimit
    <2>2. admitted' = [admitted EXCEPT ![x] = [g \in Ages |-> @[g] + 1]]
      BY <1>9 DEF Admit
    <2>3. /\ admitted' \in [Routes -> [Ages -> Nat]]
          /\ \A g \in Ages : admitted'[x][g] = admitted[x][g] + 1
          /\ \A y \in Routes \ {x} : admitted'[y] = admitted[y]
          /\ \A g, h \in Ages : g <= h => admitted'[x][g] <= admitted'[x][h]
      BY <1>1, <2>2, OneMore
    <2>4. /\ pc'[t] = x
          /\ \A s \in Attempts \ {t} : pc'[s] = pc[s]
      BY <1>4, <1>9 DEF Admit, Continue
    <2>5. \A s \in Attempts : AtExpire(s, x)' <=> AtExpire(s, x)
      BY <1>1, <2>4 DEF AtExpire, Routes
    <2>6. Pending(x)' <=> Pending(x)
      BY <1>1, <2>5 DEF Pending
    <2> DEFINE pending == IF Pending(x) THEN 1 ELSE 0
    <2>7. Used(x) \in Int /\ Used(x)' = Used(x) + 1
      <3>1. Used(x) = n - 1 - pending
        BY <1>2, <1>6, <2>1 DEF Used
      <3>2. Used(x)' = n - pending
        BY <1>1, <1>6, <2>1, <2>6 DEF Used
      <3>3. n \in Int /\ pending \in {0, 1}
        BY <1>1
      <3> HIDE DEF pending
      <3>4. QED
        BY <3>1, <3>2, <3>3
    <2>8. StartInv(x)'
      BY <1>1, <1>3, <1>6, <2>1, <2>5, <2>6 DEF StartInv
    <2>9. WindowInv(x)'
      <3>1. counter[x].ttl \in 1..NoTTL
        BY <1>1, <1>3 DEF LimiterType
      <3>2. /\ 0 \in Ages /\ WINDOW - 1 \in Ages
            /\ counter[x].ttl # NoTTL => WINDOW - counter[x].ttl \in Ages
        BY <1>6, <3>1 DEF Ages
      <3>3. \A g \in Ages : admitted[x][g] \in Nat
        BY <1>1, <1>3 DEF LimiterType
      <3>4. /\ admitted'[x][0] <= Used(x)'
            /\ admitted'[x][WINDOW - 1] <= LIMIT + Used(x)'
        BY <1>3, <1>6, <2>3, <2>7, <3>2, <3>3 DEF WindowInv
      <3>5. counter'[x].ttl # NoTTL => admitted'[x][WINDOW - counter'[x].ttl] <= Used(x)'
        BY <1>1, <1>3, <2>3, <2>7, <3>2, <3>3 DEF WindowInv
      <3>6. QED
        BY <2>3, <3>4, <3>5 DEF WindowInv
    <2>10. LimiterType'
      BY <1>1, <1>3, <2>3 DEF LimiterType
    <2>11. QED
      BY <1>1, <2>3, <2>4, <2>8, <2>9, <2>10, RouteStep
  <1>10. QED
    BY <1>5, <1>7, <1>8, <1>9

(* The window starts, and the request that starts it is let through.           *)
LEMMA ExpireLimiter ==
  ASSUME AccountsInv, LimiterInv, NEW t \in Attempts, Expire(t)
  PROVE  LimiterInv'
  <1> PICK x : x = req[t].route
    OBVIOUS
  <1>1. /\ pc[t] = "expire" /\ UNCHANGED <<req, orphaned>>
        /\ counter' = [counter EXCEPT ![x].ttl = WINDOW]
        /\ Admit(t, x)
    BY DEF Expire
  <1>2. x \in Routes /\ DOMAIN pc = Attempts
    BY <1>1, RequestAssumption DEF AccountsInv, TypeInv
  <1>3. StartInv(x) /\ WindowInv(x) /\ LimiterType
    BY <1>2 DEF LimiterInv
  <1>4. LIMIT \in Nat \ {0} /\ WINDOW \in Nat \ {0} /\ NoTTL = WINDOW + 1
    BY LimiterAssumption DEF NoTTL
  <1>5. /\ counter'[x].count = counter[x].count /\ counter'[x].ttl = WINDOW
        /\ \A y \in Routes \ {x} : counter'[y] = counter[y]
        /\ counter' \in [Routes -> [count : 0..CountCap, ttl : 1..NoTTL]]
    <2>1. counter[x] \in [count : 0..CountCap, ttl : 1..NoTTL] /\ DOMAIN counter = Routes
      BY <1>2, <1>3 DEF LimiterType
    <2>2. /\ counter'[x] = [counter[x] EXCEPT !.ttl = WINDOW]
          /\ \A y \in Routes \ {x} : counter'[y] = counter[y]
          /\ counter' = [y \in Routes |-> counter'[y]]
      BY <1>1, <1>2, <2>1
    <2>3. WINDOW \in 1..NoTTL
      BY <1>4
    <2>4. /\ counter'[x] \in [count : 0..CountCap, ttl : 1..NoTTL]
          /\ counter'[x].count = counter[x].count /\ counter'[x].ttl = WINDOW
      BY <2>1, <2>2, <2>3
    <2>5. \A y \in Routes : counter'[y] \in [count : 0..CountCap, ttl : 1..NoTTL]
      BY <1>3, <2>2, <2>4 DEF LimiterType
    <2>6. QED
      BY <2>2, <2>4, <2>5
  <1>6. /\ admitted' \in [Routes -> [Ages -> Nat]]
        /\ \A g \in Ages : admitted'[x][g] = admitted[x][g] + 1
        /\ \A y \in Routes \ {x} : admitted'[y] = admitted[y]
        /\ \A g, h \in Ages : g <= h => admitted'[x][g] <= admitted'[x][h]
    BY <1>1, <1>2, OneMore DEF Admit
  <1>7. /\ pc'[t] = x
        /\ \A s \in Attempts \ {t} : pc'[s] = pc[s]
    BY <1>1, <1>2 DEF Admit, Continue
  <1>8. AtExpire(t, x) /\ Pending(x) /\ counter[x].count > 0
    BY <1>1, <1>3 DEF AtExpire, Pending, StartInv
  <1>9. \A s \in Attempts : ~AtExpire(s, x)'
    BY <1>1, <1>2, <1>3, <1>7, <1>8 DEF AtExpire, StartInv, Routes
  <1>10. ~Pending(x)'
    BY <1>1, <1>3, <1>8, <1>9 DEF Pending, StartInv
  <1>11. counter[x].count \in 0..CountCap
    BY <1>2, <1>3 DEF LimiterType
  <1>12. Used(x) \in Int /\ Used(x)' = Used(x) + 1
    BY <1>4, <1>5, <1>8, <1>10, <1>11 DEF Used, CountCap
  <1>13. StartInv(x)'
    BY <1>5, <1>8, <1>9, <1>10, <1>11 DEF StartInv, Pending
  <1>14. WindowInv(x)'
    <2>1. 0 \in Ages /\ WINDOW - 1 \in Ages /\ WINDOW - WINDOW = 0
      BY <1>4 DEF Ages
    <2>2. \A g \in Ages : admitted[x][g] \in Nat
      BY <1>2, <1>3 DEF LimiterType
    <2>3. QED
      BY <1>3, <1>4, <1>5, <1>6, <1>12, <2>1, <2>2 DEF WindowInv
  <1>15. LimiterType'
    BY <1>1, <1>3, <1>5, <1>6 DEF LimiterType
  <1>16. QED
    BY <1>1, <1>2, <1>5, <1>6, <1>7, <1>13, <1>14, <1>15, RouteStep

(* The process stops, perhaps before it started the window.                    *)
LEMMA CrashLimiter ==
  ASSUME AccountsInv, LimiterInv, NEW t \in Attempts, Crash(t)
  PROVE  LimiterInv'
  <1> PICK x : x = req[t].route
    OBVIOUS
  <1>1. /\ pc' = [pc EXCEPT ![t] = "idle"]
        /\ req' = [req EXCEPT ![t] = NoRequest]
        /\ UNCHANGED <<counter, admitted>>
        /\ pc[t] \notin {"idle", "answer"}
        /\ orphaned' = IF pc[t] = "expire" THEN [orphaned EXCEPT ![x] = TRUE] ELSE orphaned
    BY DEF Crash, Leave
  <1>2. /\ pc'[t] = "idle"
        /\ \A s \in Attempts \ {t} : pc'[s] = pc[s] /\ req'[s] = req[s]
    BY <1>1 DEF AccountsInv, TypeInv
  <1>3. CASE pc[t] # "expire"
    BY <1>1, <1>2, <1>3, Elsewhere
  <1>4. CASE pc[t] = "expire"
    <2>1. x \in Routes
      BY <1>4, RequestAssumption DEF AccountsInv, TypeInv
    <2>2. /\ orphaned'[x] /\ DOMAIN orphaned' = Routes
          /\ \A y \in Routes \ {x} : orphaned'[y] = orphaned[y]
      BY <1>1, <1>4, <2>1 DEF LimiterInv, LimiterType
    <2>3. LimiterType'
      BY <1>1, <2>2 DEF LimiterInv, LimiterType
    <2>4. ASSUME NEW y \in Routes \ {x} PROVE StartInv(y)' /\ WindowInv(y)'
      <3>1. \A s \in Attempts : AtExpire(s, y)' <=> AtExpire(s, y)
        BY <1>2 DEF AtExpire
      <3>2. QED
        BY <1>1, <2>2, <3>1, RouteSame DEF LimiterInv
    <2>5. StartInv(x) /\ WindowInv(x) /\ AtExpire(t, x)
      BY <1>4, <2>1 DEF LimiterInv, AtExpire
    <2>6. \A s \in Attempts : ~AtExpire(s, x)'
      BY <1>2, <2>5 DEF AtExpire, StartInv
    <2>7. Pending(x) /\ Pending(x)'
      BY <2>2, <2>5 DEF Pending
    <2>8. Used(x)' = Used(x)
      BY <1>1, <2>7 DEF Used
    <2>9. StartInv(x)'
      BY <1>1, <2>5, <2>6, <2>7 DEF StartInv
    <2>10. WindowInv(x)'
      BY <1>1, <2>5, <2>8 DEF WindowInv
    <2>11. QED
      BY <2>3, <2>4, <2>9, <2>10 DEF LimiterInv
  <1>5. QED
    BY <1>3, <1>4

(* Time passes.                                                                *)
LEMMA TickLimiter ==
  ASSUME AccountsInv, LimiterInv, Tick
  PROVE  LimiterInv'
  <1>1. LIMIT \in Nat \ {0} /\ WINDOW \in Nat \ {0} /\ NoTTL = WINDOW + 1
        /\ CountCap = LIMIT + 1
    BY LimiterAssumption DEF NoTTL, CountCap
  <1>2. LimiterType /\ \A y \in Routes : StartInv(y) /\ WindowInv(y)
    BY DEF LimiterInv
  <1>3. UNCHANGED <<pc, req, orphaned>>
    BY DEF Tick
  <1>4. ASSUME NEW x \in Routes
        PROVE  /\ counter'[x] \in [count : 0..CountCap, ttl : 1..NoTTL]
               /\ admitted'[x] \in [Ages -> Nat]
               /\ StartInv(x)' /\ WindowInv(x)'
    <2> PICK c : c = counter[x].count
      OBVIOUS
    <2> PICK T : T = counter[x].ttl
      OBVIOUS
    <2>1. c \in 0..CountCap /\ T \in 1..NoTTL /\ counter[x] = [count |-> c, ttl |-> T]
      BY <1>2 DEF LimiterType
    <2>2. \A g \in Ages : admitted[x][g] \in Nat
      BY <1>2 DEF LimiterType
    <2>3. admitted'[x] = [g \in Ages |-> IF g = 0 THEN 0 ELSE admitted[x][g - 1]]
      BY DEF Tick
    <2>4. \A g \in Ages : g = 0 \/ g - 1 \in Ages
      BY <1>1 DEF Ages
    <2>5. admitted'[x] \in [Ages -> Nat]
      BY <2>2, <2>3, <2>4
    <2>6. \A g, h \in Ages : g <= h => admitted[x][g] <= admitted[x][h]
      BY <1>2 DEF WindowInv
    <2>7. /\ \A g, h \in Ages : g <= h => admitted'[x][g] <= admitted'[x][h]
          /\ \A g \in Ages : admitted'[x][g] <= admitted[x][g]
      BY <2>2, <2>3, <2>4, <2>6 DEF Ages
    <2>8. 0 \in Ages /\ WINDOW - 1 \in Ages /\ admitted'[x][0] = 0
      BY <1>1, <2>3 DEF Ages
    <2>9. \A s \in Attempts : AtExpire(s, x)' <=> AtExpire(s, x)
      BY <1>3 DEF AtExpire
    <2>10. Pending(x)' <=> Pending(x)
      BY <1>3, <2>9 DEF Pending
    <2>11. Used(x) \in Nat
      BY <1>1, <1>2, <2>1 DEF Used, StartInv
    <2>12. CASE T = NoTTL
      <3>1. counter'[x] = counter[x]
        BY <2>12 DEF Tick
      <3>2. Used(x)' = Used(x)
        BY <2>10, <3>1 DEF Used
      <3>3. StartInv(x)'
        BY <1>2, <1>3, <2>9, <2>10, <3>1 DEF StartInv
      <3>4. WindowInv(x)'
        <4>1. admitted'[x][WINDOW - 1] <= admitted[x][WINDOW - 1]
          BY <2>7, <2>8
        <4>2. admitted[x][WINDOW - 1] <= LIMIT + Used(x)
          BY <1>2 DEF WindowInv
        <4>3. admitted'[x][WINDOW - 1] \in Nat /\ admitted[x][WINDOW - 1] \in Nat
          BY <2>2, <2>5, <2>8
        <4>4. counter'[x].ttl = NoTTL
          BY <2>12, <3>1
        <4>5. admitted'[x][WINDOW - 1] <= LIMIT + Used(x)
          BY <1>1, <2>11, <4>1, <4>2, <4>3
        <4>6. QED
          BY <2>7, <2>8, <2>11, <3>2, <4>4, <4>5 DEF WindowInv
      <3>5. QED
        BY <2>1, <2>5, <3>1, <3>3, <3>4
    <2>13. CASE T = 1
      <3> counter[x].ttl = 1 /\ counter[x].ttl # NoTTL
        BY <1>1, <2>13
      <3>1. counter'[x] = NoKey
        BY DEF Tick
      <3>2. ~Pending(x)
        BY <1>2 DEF StartInv
      <3>3. counter'[x].count = 0 /\ counter'[x].ttl = NoTTL /\ Used(x)' = 0
        BY <3>1 DEF NoKey, Used
      <3>4. StartInv(x)'
        BY <1>2, <1>3, <2>9, <2>10, <3>2, <3>3 DEF StartInv
      <3>5. Used(x) <= LIMIT
        BY <1>1, <2>1, <3>2 DEF Used
      <3>6. admitted'[x][WINDOW - 1] <= LIMIT
        <4>1. admitted[x][WINDOW - 1] <= Used(x)
          BY <1>1, <1>2, <2>13 DEF WindowInv
        <4>2. admitted'[x][WINDOW - 1] <= admitted[x][WINDOW - 1]
          BY <2>7, <2>8
        <4>3. QED
          BY <1>1, <2>2, <2>5, <2>8, <2>11, <3>5, <4>1, <4>2
      <3>7. WindowInv(x)'
        BY <1>1, <2>7, <2>8, <3>3, <3>6 DEF WindowInv
      <3>8. counter'[x] \in [count : 0..CountCap, ttl : 1..NoTTL]
        BY <1>1, <3>1 DEF NoKey
      <3>9. QED
        BY <2>5, <3>4, <3>7, <3>8
    <2>14. CASE T \notin {1, NoTTL}
      <3>1. counter'[x] = [counter[x] EXCEPT !.ttl = @ - 1]
        BY <2>14 DEF Tick
      <3>2. counter'[x] = [count |-> c, ttl |-> T - 1]
        BY <2>1, <3>1
      <3>3. T - 1 \in 1..NoTTL /\ T - 1 # NoTTL /\ T \in 1..WINDOW
        BY <1>1, <2>1, <2>14
      <3>4. ~Pending(x)
        BY <1>2, <2>14 DEF StartInv
      <3>5. Used(x)' = Used(x)
        BY <2>1, <2>10, <3>2 DEF Used
      <3>6. StartInv(x)'
        <4>1. c # 0
          BY <1>2, <2>1, <2>14 DEF StartInv
        <4>2. counter'[x].count = c
          BY <3>2
        <4>3. QED
          BY <1>2, <1>3, <2>9, <2>10, <3>4, <4>1, <4>2 DEF StartInv
      <3>7. admitted'[x][WINDOW - (T - 1)] <= Used(x)
        <4>1. WINDOW - (T - 1) \in Ages /\ WINDOW - (T - 1) # 0
              /\ WINDOW - (T - 1) - 1 = WINDOW - T
          BY <1>1, <2>14, <3>3 DEF Ages
        <4>2. admitted'[x][WINDOW - (T - 1)] = admitted[x][WINDOW - T]
          BY <2>3, <4>1
        <4>3. QED
          BY <1>2, <2>14, <4>2 DEF WindowInv
      <3>8. admitted'[x][WINDOW - 1] <= LIMIT + Used(x)
        <4>1. admitted'[x][WINDOW - 1] <= admitted[x][WINDOW - 1]
          BY <2>7, <2>8
        <4>2. admitted[x][WINDOW - 1] <= LIMIT + Used(x)
          BY <1>2 DEF WindowInv
        <4>3. QED
          BY <1>1, <2>2, <2>5, <2>8, <2>11, <4>1, <4>2
      <3>9. counter'[x].ttl = T - 1
        BY <3>2
      <3>10. WindowInv(x)'
        BY <2>7, <2>8, <2>11, <3>5, <3>7, <3>8, <3>9 DEF WindowInv
      <3>11. QED
        BY <2>1, <2>5, <3>2, <3>3, <3>6, <3>10
    <2>15. QED
      BY <2>12, <2>13, <2>14
  <1>5. LimiterType'
    <2>1. /\ counter' = [x \in Routes |-> counter'[x]]
          /\ admitted' = [x \in Routes |-> admitted'[x]]
      BY DEF Tick
    <2>2. QED
      BY <1>2, <1>3, <1>4, <2>1 DEF LimiterType
  <1>6. QED
    BY <1>4, <1>5 DEF LimiterInv

LEMMA LimiterNext == AccountsInv /\ LimiterInv /\ [Next]_vars => LimiterInv'
  <1> SUFFICES ASSUME AccountsInv, LimiterInv, [Next]_vars PROVE LimiterInv'
    OBVIOUS
  <1>1. DOMAIN pc = Attempts /\ DOMAIN req = Attempts
    BY DEF AccountsInv, TypeInv
  <1>2. ASSUME NEW t \in Attempts,
               \/ InsertOrganization(t) \/ InsertUser(t) \/ InsertMembership(t)
               \/ Login(t) \/ Answer(t)
        PROVE  LimiterInv'
    <2>1. /\ UNCHANGED <<counter, admitted, orphaned>>
          /\ pc[t] \in {"register", "insert_user", "insert_membership", "login", "answer"}
          /\ \E label \in {"insert_user", "insert_membership", "answer", "idle"} :
               pc' = [pc EXCEPT ![t] = label]
          /\ req' = req \/ req' = [req EXCEPT ![t] = NoRequest]
      BY <1>2 DEF InsertOrganization, InsertUser, InsertMembership, Login, Answer,
                  Continue, Finish, Leave, history
    <2>2. pc[t] # "expire" /\ pc'[t] # "expire"
      BY <1>1, <2>1
    <2>3. \A s \in Attempts \ {t} : pc'[s] = pc[s] /\ req'[s] = req[s]
      BY <1>1, <2>1
    <2>4. QED
      BY <2>1, <2>2, <2>3, Elsewhere
  <1>3. ASSUME NEW t \in Attempts, NEW q \in Requests, Send(t, q) PROVE LimiterInv'
    <2>1. /\ UNCHANGED <<counter, admitted, orphaned>> /\ pc[t] = "idle"
          /\ pc' = [pc EXCEPT ![t] = "incr"] /\ req' = [req EXCEPT ![t] = q]
      BY <1>3 DEF Send, Continue, history
    <2>2. /\ pc'[t] = "incr"
          /\ \A s \in Attempts \ {t} : pc'[s] = pc[s] /\ req'[s] = req[s]
      BY <1>1, <2>1
    <2>3. QED
      BY <2>1, <2>2, Elsewhere
  <1>4. CASE UNCHANGED vars
    <2>1. UNCHANGED <<counter, admitted, orphaned, pc, req>>
      BY <1>4 DEF vars
    <2>2. QED
      BY <2>1, LimiterSame DEF AtExpire
  <1>5. QED
    BY <1>2, <1>3, <1>4, IncrLimiter, ExpireLimiter, CrashLimiter, TickLimiter
       DEF Next, Step

(* In any span as long as a window the limiter lets at most twice the limit    *)
(* through, wherever the span starts, whatever stops, and however late the     *)
(* EXPIRE of a first request comes (RateLimitGuard.canActivate).               *)
THEOREM LimiterHolds == Spec => []AtMostTwiceTheLimit
<1>1. LimiterInv => AtMostTwiceTheLimit
  <2> SUFFICES ASSUME LimiterInv, NEW x \in Routes
               PROVE  admitted[x][WINDOW - 1] <= 2 * LIMIT
    BY DEF AtMostTwiceTheLimit
  <2>1. counter[x].count \in 0..CountCap /\ LIMIT \in Nat /\ CountCap = LIMIT + 1
    BY LimiterAssumption DEF LimiterInv, LimiterType, CountCap
  <2>2. Used(x) \in Int /\ Used(x) <= LIMIT
    BY <2>1 DEF Used
  <2>3. WINDOW - 1 \in Ages
    BY LimiterAssumption DEF Ages
  <2>4. admitted[x][WINDOW - 1] \in Nat
    BY <2>3 DEF LimiterInv, LimiterType
  <2>5. admitted[x][WINDOW - 1] <= LIMIT + Used(x)
    BY DEF LimiterInv, WindowInv
  <2>6. QED
    BY <2>1, <2>2, <2>4, <2>5
<1>2. QED
  BY <1>1, LimiterInit, LimiterNext, AccountsInvariant, PTL DEF Spec
===============================================================================
