-------------------------------- MODULE Accounts --------------------------------
(***************************************************************************)
(* POST /auth/register and POST /auth/login: the fixed-window limiter they *)
(* pass first, the transaction that creates an account, and the lookup by  *)
(* e-mail.  Requests interleave at each Redis command and SQL statement;   *)
(* the process that serves one may stop between any two of them.           *)
(*                                                                         *)
(* One client address.  Time is what remains of a window: Tick takes one   *)
(* unit from every key's time to live, so nothing bounds it.               *)
(*                                                                         *)
(* Operators named Faulty_... are variants with one plausible mistake.  No *)
(* action uses them: they show that the properties can fail.               *)
(***************************************************************************)
EXTENDS Naturals, FiniteSets

CONSTANTS
  Attempts,      \* requests in flight at once
  Emails,        \* addresses as they are typed
  Normalized,    \* what PostgreSQL's lower(btrim(email)) makes of each
  LookedUp,      \* what login's toLowerCase().trim() makes of each
  Requests,      \* the requests clients send: [route, email, password]
  LIMIT,         \* requests per window of a route
  WINDOW         \* windowSeconds

ASSUME LimiterAssumption == LIMIT \in Nat \ {0} /\ WINDOW \in Nat \ {0}
ASSUME EmailAssumption == Emails = DOMAIN Normalized /\ Emails = DOMAIN LookedUp

Routes == {"register", "login"}

ASSUME RequestAssumption ==
  \A q \in Requests : q.route \in Routes /\ q.email \in Emails

VARIABLES
  counter,       \* Redis: the counter of each route and its time to live
  organizations, users, memberships,   \* the committed rows
  pc,            \* what each attempt does next
  req,           \* the request it serves
  tx,            \* the rows its open transaction has inserted
  status,        \* its answer
  expected,      \* history: the account existed when the login began
  admitted,      \* history: how many requests of each route were let through in
                 \* this unit of time and the g before it
  orphaned       \* history: the process stopped between INCR and EXPIRE

vars == <<counter, organizations, users, memberships, pc, req, tx, status,
          expected, admitted, orphaned>>
tables  == <<organizations, users, memberships>>
history == <<expected, admitted, orphaned>>

NoTTL      == WINDOW + 1
NoKey      == [count |-> 0, ttl |-> NoTTL]
NoRequest  == [route |-> "none"]
NoRows     == [organizations |-> {}, users |-> {}, memberships |-> {}]

(* Counts above the limit are all refused alike, and kept as one.              *)
CountCap == LIMIT + 1

Ages == 0..(WINDOW - 1)

Init ==
  /\ counter = [x \in Routes |-> NoKey]
  /\ organizations = {} /\ users = {} /\ memberships = {}
  /\ pc = [t \in Attempts |-> "idle"]
  /\ req = [t \in Attempts |-> NoRequest]
  /\ tx = [t \in Attempts |-> NoRows]
  /\ status = [t \in Attempts |-> 0]
  /\ expected = [t \in Attempts |-> FALSE]
  /\ admitted = [x \in Routes |-> [g \in Ages |-> 0]]
  /\ orphaned = [x \in Routes |-> FALSE]

-------------------------------------------------------------------------------
(* The generated column email_normalized, and the unique index on it.          *)
SameAddress(e, f) == Normalized[e] = Normalized[f]

Taken(email) == \E u \in users : SameAddress(u.email, email)

(* Faulty: the address is compared as it was typed.                            *)
Faulty_FindExact(email) == {u \in users : u.email = email}

(* login looks for what JavaScript makes of the address typed in the column    *)
(* PostgreSQL made of the one registered.                                      *)
FindUser(email) == {u \in users : Normalized[u.email] = LookedUp[email]}

Continue(t, label) ==
  /\ pc' = [pc EXCEPT ![t] = label]
  /\ UNCHANGED status

Finish(t, code) ==
  /\ pc' = [pc EXCEPT ![t] = "answer"]
  /\ status' = [status EXCEPT ![t] = code]

(* Faulty: each INSERT was committed on its own.                               *)
Faulty_KeepRows(t) ==
  /\ organizations' = organizations \cup tx[t].organizations
  /\ users' = users \cup tx[t].users
  /\ memberships' = memberships \cup tx[t].memberships
  /\ tx' = [tx EXCEPT ![t] = NoRows]

Rollback(t) ==
  /\ tx' = [tx EXCEPT ![t] = NoRows]
  /\ UNCHANGED tables

Commit(t, rows) ==
  /\ organizations' = organizations \cup rows.organizations
  /\ users' = users \cup rows.users
  /\ memberships' = memberships \cup rows.memberships
  /\ tx' = [tx EXCEPT ![t] = NoRows]

-------------------------------------------------------------------------------
(* The limiter.                                                                *)

Send(t, q) ==
  /\ pc[t] = "idle"
  /\ req' = [req EXCEPT ![t] = q]
  /\ Continue(t, "incr")
  /\ UNCHANGED <<counter, organizations, users, memberships, tx, history>>

(* Faulty: one request too many.                                               *)
Faulty_OffByOne(count) == count > LIMIT + 1

OverLimit(count) == count > LIMIT

(* Past the limiter: the password is hashed, or the user looked up.            *)
Admit(t, x) ==
  /\ Continue(t, x)
  /\ admitted' = [admitted EXCEPT ![x] = [g \in Ages |-> @[g] + 1]]
  /\ expected' = [expected EXCEPT ![t] =
       x = "login" /\ \E u \in users : /\ SameAddress(u.email, req[t].email)
                                        /\ u.password = req[t].password]

Incremented(x) ==
  IF counter[x].count = CountCap THEN CountCap ELSE counter[x].count + 1

(* Faulty: every request starts the window again.                              *)
Faulty_RenewWindow(t) ==
  /\ pc[t] = "incr"
  /\ LET x == req[t].route  count == Incremented(x) IN
     /\ counter' = [counter EXCEPT ![x] = [count |-> count, ttl |-> WINDOW]]
     /\ \/ /\ OverLimit(count)
           /\ Finish(t, 429)
           /\ UNCHANGED <<admitted, expected>>
        \/ /\ ~OverLimit(count)
           /\ Admit(t, x)
  /\ UNCHANGED <<organizations, users, memberships, req, tx, orphaned>>

(* INCR.  The first request of a window has yet to set the time to live; the   *)
(* others are refused or let through at once.                                  *)
Incr(t) ==
  /\ pc[t] = "incr"
  /\ LET x == req[t].route  count == Incremented(x) IN
     /\ counter' = [counter EXCEPT ![x].count = count]
     /\ \/ /\ count = 1
           /\ Continue(t, "expire")
           /\ UNCHANGED <<admitted, expected>>
        \/ /\ count # 1 /\ OverLimit(count)
           /\ Finish(t, 429)
           /\ UNCHANGED <<admitted, expected>>
        \/ /\ count # 1 /\ ~OverLimit(count)
           /\ Admit(t, x)
  /\ UNCHANGED <<organizations, users, memberships, req, tx, orphaned>>

(* EXPIRE; a count of 1 is never over the limit.                               *)
Expire(t) ==
  /\ pc[t] = "expire"
  /\ counter' = [counter EXCEPT ![req[t].route].ttl = WINDOW]
  /\ Admit(t, req[t].route)
  /\ UNCHANGED <<organizations, users, memberships, req, tx, orphaned>>

-------------------------------------------------------------------------------
(* register: three INSERTs in one transaction.  The new organization's random  *)
(* id stands for the registration: it is named by the address as typed.        *)

InsertOrganization(t) ==
  /\ pc[t] = "register"
  /\ tx' = [tx EXCEPT ![t].organizations = {req[t].email}]
  /\ Continue(t, "insert_user")
  /\ UNCHANGED <<counter, organizations, users, memberships, req, history>>

(* An uncommitted row with the same normalized address is waited for.          *)
InsertUser(t) ==
  /\ pc[t] = "insert_user"
  /\ LET email == req[t].email IN
     /\ ~\E s \in Attempts \ {t} : \E u \in tx[s].users : SameAddress(u.email, email)
     /\ \/ /\ Taken(email)
           /\ Rollback(t)
           /\ Finish(t, 409)
        \/ /\ ~Taken(email)
           /\ tx' = [tx EXCEPT ![t].users =
                      {[email |-> email, password |-> req[t].password]}]
           /\ Continue(t, "insert_membership")
           /\ UNCHANGED tables
  /\ UNCHANGED <<counter, req, history>>

(* The last INSERT and COMMIT.                                                 *)
InsertMembership(t) ==
  /\ pc[t] = "insert_membership"
  /\ LET row == [organization |-> req[t].email,
                 user |-> req[t].email, role |-> "owner"] IN
     Commit(t, [tx[t] EXCEPT !.memberships = {row}])
  /\ Finish(t, 201)
  /\ UNCHANGED <<counter, req, history>>

(* login: the SELECT of the user; verifying the password and inserting the     *)
(* session of a right one read nothing that is kept here.                      *)
Login(t) ==
  /\ pc[t] = "login"
  /\ Finish(t, IF \E u \in FindUser(req[t].email) : u.password = req[t].password
                 THEN 200 ELSE 401)
  /\ UNCHANGED <<counter, organizations, users, memberships, req, tx, history>>

Leave(t) ==
  /\ pc' = [pc EXCEPT ![t] = "idle"]
  /\ req' = [req EXCEPT ![t] = NoRequest]
  /\ status' = [status EXCEPT ![t] = 0]
  /\ expected' = [expected EXCEPT ![t] = FALSE]

Answer(t) ==
  /\ pc[t] = "answer"
  /\ Leave(t)
  /\ UNCHANGED <<counter, organizations, users, memberships, tx, admitted, orphaned>>

(* The process stops: an open transaction is rolled back, Redis keeps what it  *)
(* has.                                                                        *)
Crash(t) ==
  /\ pc[t] \notin {"idle", "answer"}
  /\ Rollback(t)
  /\ Leave(t)
  /\ orphaned' = IF pc[t] = "expire" THEN [orphaned EXCEPT ![req[t].route] = TRUE]
                 ELSE orphaned
  /\ UNCHANGED <<counter, admitted>>

(* Time passes: a key whose time to live runs out is gone.                     *)
Tick ==
  /\ counter' = [x \in Routes |->
       IF counter[x].ttl = NoTTL THEN counter[x]
       ELSE IF counter[x].ttl = 1 THEN NoKey
       ELSE [counter[x] EXCEPT !.ttl = @ - 1]]
  /\ admitted' = [x \in Routes |->
       [g \in Ages |-> IF g = 0 THEN 0 ELSE admitted[x][g - 1]]]
  /\ UNCHANGED <<organizations, users, memberships, pc, req, tx, status, expected, orphaned>>

Step(t) ==
  \/ Incr(t) \/ Expire(t)
  \/ InsertOrganization(t) \/ InsertUser(t) \/ InsertMembership(t)
  \/ Login(t) \/ Answer(t)

Next ==
  \/ \E t \in Attempts : Step(t) \/ Crash(t) \/ \E q \in Requests : Send(t, q)
  \/ Tick

(* Time passes, and the commands of a process that does not stop are issued.   *)
Fairness == WF_vars(Tick) /\ \A t \in Attempts : WF_vars(Step(t))

Spec == Init /\ [][Next]_vars /\ Fairness

-------------------------------------------------------------------------------
(* An account is whole or not there: whatever fails, stops or races, each      *)
(* committed organization has one membership, an owner's, of a committed user, *)
(* and each committed user owns exactly one of them (register's transaction).  *)
RegistrationIsWhole ==
  /\ \A o \in organizations :
       /\ Cardinality({m \in memberships : m.organization = o}) = 1
       /\ \E m \in memberships : m.organization = o /\ m.role = "owner"
  /\ \A m \in memberships : \E u \in users : u.email = m.user
  /\ \A u \in users :
       /\ Cardinality({m \in memberships : m.user = u.email}) = 1
       /\ \A v \in users : SameAddress(u.email, v.email) => u = v

(* JavaScript and PostgreSQL make the same of the address.  Of some they do    *)
(* not, and both DTOs let those in (IsEmail): JavaScript lowers a capital      *)
(* sigma at the end of a word to another letter than one within it.            *)
Agree(email) == LookedUp[email] = Normalized[email]

(* Whoever registered can log in with that password, with the address typed    *)
(* in any way that normalizes alike, unless the limiter refuses or the two     *)
(* conversions disagree on what is typed at login; and no one is logged in as  *)
(* the holder of another address.  Where they disagree, login looks for        *)
(* another address than the column holds: the account is not found under the   *)
(* very address it was registered with (auth.service.ts:101 against            *)
(* users.schema.ts:30).                                                        *)
RegisteredCanLogin ==
  \A t \in Attempts :
    status[t] \in {200, 401} /\ Agree(req[t].email) =>
      /\ status[t] = 401 => ~expected[t]
      /\ status[t] = 200 => \E u \in users : SameAddress(u.email, req[t].email)

(* The limiter lets at most twice the limit through in any span as long as a   *)
(* window: two fixed windows may meet in it, three may not, however late the   *)
(* EXPIRE of a first request comes.                                            *)
AtMostTwiceTheLimit ==
  \A x \in Routes : admitted[x][WINDOW - 1] <= 2 * LIMIT

(* A window ends however many requests keep coming, and its client is let      *)
(* through again: the counter expires, except when the process stopped between *)
(* INCR and EXPIRE, which leaves a counter that never does                     *)
(* (rate-limit.guard.ts:50-53).                                                *)
WindowEnds ==
  \A x \in Routes : counter[x].count > 0 ~> (counter[x].count = 0 \/ orphaned[x])
===============================================================================
