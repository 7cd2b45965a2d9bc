--------------------------------- MODULE Access ---------------------------------
(***************************************************************************)
(* How the API admits a request: the session cookie is looked up, the idle *)
(* window moved, the membership read, role and CSRF secret compared, and   *)
(* only then does the handler run.  Each of these is a database statement  *)
(* of its own, so other requests (a logout, a CSRF rotation, a login) and  *)
(* changes of the membership come in between.                              *)
(*                                                                         *)
(* One user, one organization and one browser, whose cookie jar all its    *)
(* tabs share.  Tokens and CSRF secrets are random, hence never repeated:  *)
(* the n-th session has token n, the n-th secret is n, and 0 is no cookie. *)
(* Time is a clock that any step may be delayed against.                   *)
(*                                                                         *)
(* Operators named Faulty_... are variants with one plausible mistake.  No *)
(* action uses them: they show that the properties can fail.               *)
(***************************************************************************)
EXTENDS Naturals, Sequences

CONSTANTS
  Requests,      \* requests in flight at once
  Production,    \* NODE_ENV = 'production'
  IDLE_TIMEOUT,
  ABSOLUTE_TIMEOUT,
  ACTIVITY_TOUCH_THROTTLE,
  MaxTime,       \* bound on the clock
  MaxSessions,   \* bound on the logins
  MaxSecrets     \* bound on the CSRF secrets handed out

ASSUME BooleanProduction == Production \in BOOLEAN
ASSUME NaturalTimeouts ==
  /\ IDLE_TIMEOUT \in Nat
  /\ ABSOLUTE_TIMEOUT \in Nat
  /\ ACTIVITY_TOUCH_THROTTLE \in Nat
  /\ MaxTime \in Nat
  /\ MaxSessions \in Nat
  /\ MaxSecrets \in Nat

VARIABLES
  clock,         \* new Date()
  sessions,      \* the sessions table, in the order of the logins
  secrets,       \* each CSRF secret's session and the time it was replaced, in the order of issue
  role,          \* the role in the user's row in memberships, "none" if there is none
  jar,           \* the browser's cookies by name
  pc,            \* what each request does next
  req,           \* the request: operation, cookies, header
  seen,          \* what its guards have read so far; everOwner (history): the
                 \* role was owner at some time since the request arrived
  answer,        \* its status and the cookies it sets
  lastUse        \* when a request with each token last arrived (history)

vars == <<clock, sessions, secrets, role, jar, pc, req, seen, answer, lastUse>>

Operations == {"login", "logout", "csrf", "read", "rename"}
Never == MaxTime + 1
Times == 0..Never

(* Cookie names, plain and with the prefix of production.                      *)
CookieNames == {"sid", "csrf", "__Host-sid", "__Host-csrf"}
NoCookies   == [n \in CookieNames |-> 0]

SESSION_COOKIE_NAME == "sid"
CSRF_COOKIE_NAME    == "csrf"

resolveCookieNames ==
  IF Production THEN [session |-> "__Host-sid", csrf |-> "__Host-csrf"]
                ELSE [session |-> SESSION_COOKIE_NAME, csrf |-> CSRF_COOKIE_NAME]

Session == [csrfSecret: Nat, lastActivityAt: Nat, idleExpiresAt: Nat,
            absoluteExpiresAt: Nat, revokedAt: Times]

Roles      == {"owner", "staff", "none"}
NoRequest  == [op |-> "none", cookies |-> NoCookies, header |-> 0]
NothingSeen == [now |-> 0, csrfSecret |-> 0, everOwner |-> FALSE]
NoAnswer   == [status |-> 0, cookies |-> NoCookies]

Init ==
  /\ clock = 0
  /\ sessions = <<>>
  /\ secrets = <<>>
  /\ role = "owner"
  /\ jar = NoCookies
  /\ pc = [r \in Requests |-> "idle"]
  /\ req = [r \in Requests |-> NoRequest]
  /\ seen = [r \in Requests |-> NothingSeen]
  /\ answer = [r \in Requests |-> NoAnswer]
  /\ lastUse = [t \in 1..MaxSessions |-> 0]

-------------------------------------------------------------------------------
(* Faulty: a session is never valid in the tick it was created in.             *)
Faulty_FreshIsDead(t, now) ==
  /\ t \in 1..Len(sessions)
  /\ sessions[t].revokedAt = Never
  /\ sessions[t].idleExpiresAt > now
  /\ sessions[t].absoluteExpiresAt > now
  /\ sessions[t].lastActivityAt < now

(* The WHERE clause of validateToken.                                          *)
Live(t, now) ==
  /\ t \in 1..Len(sessions)
  /\ sessions[t].revokedAt = Never
  /\ sessions[t].idleExpiresAt > now
  /\ sessions[t].absoluteExpiresAt > now

(* The same question, asked about the table rather than by the code.           *)
ValidAt(t, now) ==
  /\ t \in 1..Len(sessions)
  /\ sessions[t].revokedAt = Never
  /\ sessions[t].idleExpiresAt > now
  /\ sessions[t].absoluteExpiresAt > now

Token(r) == req[r].cookies[SESSION_COOKIE_NAME]

(* @Public(): only login among the operations here.                            *)
IsPublic(r) == req[r].op = "login"

(* The routes behind CsrfGuard that are not safe methods, and those behind      *)
(* MembershipGuard.                                                            *)
CsrfGuarded == {"logout", "rename"}
OfOrganization == {"read", "rename"}

(* The next statement of a request, or its end: what it has read is forgotten. *)
Continue(r, label) ==
  /\ pc' = [pc EXCEPT ![r] = label]
  /\ UNCHANGED answer

Finish(r, status, cookies) ==
  /\ pc' = [pc EXCEPT ![r] = "answer"]
  /\ answer' = [answer EXCEPT ![r] = [status |-> status, cookies |-> cookies]]
  /\ req' = [req EXCEPT ![r] = NoRequest]
  /\ seen' = [seen EXCEPT ![r] = NothingSeen]

(* The cookies an answer sets, by name; the others stay in the jar.            *)
NoneSet == [n \in {} |-> 0]

(* Faulty: logout clears a cookie of another name than login set.              *)
Faulty_ClearOtherName == [n \in {"session"} |-> 0]

Cleared == [n \in {resolveCookieNames.session, resolveCookieNames.csrf} |-> 0]

(* verifyCsrfToken compares with the hash in the row validateToken read.       *)
verifyCsrfToken(r) == req[r].header # 0 /\ req[r].header = seen[r].csrfSecret

-------------------------------------------------------------------------------
(* A tab sends its cookies and, on a mutation, the CSRF cookie as a header,    *)
(* which lib/api.ts knows by its plain name.  SessionAuthGuard looks for the   *)
(* session cookie, and validateToken reads the clock.                          *)
Send(r, op) ==
  /\ pc[r] = "idle"
  /\ op = "login" => Len(sessions) < MaxSessions /\ Len(secrets) < MaxSecrets
  /\ op = "csrf" => Len(secrets) < MaxSecrets
  /\ LET token == jar[SESSION_COOKIE_NAME] IN
     /\ lastUse' = [t \in DOMAIN lastUse |-> IF t = token THEN clock ELSE lastUse[t]]
     /\ \/ /\ token # 0 \/ op = "login"
           /\ Continue(r, IF token # 0 THEN "select" ELSE "handle")
           /\ req' = [req EXCEPT ![r] = [op |-> op, cookies |-> jar,
                header |-> IF op \in CsrfGuarded THEN jar[CSRF_COOKIE_NAME] ELSE 0]]
           /\ seen' = [seen EXCEPT ![r] = [now |-> clock, csrfSecret |-> 0,
                                           everOwner |-> role = "owner"]]
        \/ /\ token = 0 /\ op # "login"
           /\ Finish(r, 401, NoneSet)
  /\ UNCHANGED <<clock, sessions, secrets, role, jar>>

(* The SELECT of validateToken and what follows it without another statement:  *)
(* the throttle of touch, and for the routes of AuthController their guards.   *)
Select(r) ==
  /\ pc[r] = "select"
  /\ LET t == Token(r)  now == seen[r].now IN
     \/ /\ Live(t, now)
        /\ seen' = [seen EXCEPT ![r].csrfSecret = sessions[t].csrfSecret]
        /\ Continue(r, IF now - sessions[t].lastActivityAt >= ACTIVITY_TOUCH_THROTTLE
                         THEN "touch" ELSE IF IsPublic(r) THEN "handle" ELSE "guard")
        /\ UNCHANGED req
     \/ /\ ~Live(t, now)
        /\ IsPublic(r)
        /\ Continue(r, "handle")
        /\ UNCHANGED <<req, seen>>
     \/ /\ ~Live(t, now)
        /\ ~IsPublic(r)
        /\ Finish(r, 401, NoneSet)
  /\ UNCHANGED <<clock, sessions, secrets, role, jar, lastUse>>

(* Faulty: the idle window counts from the UPDATE, not from the request.       *)
Faulty_ExtendFromUpdate(r) ==
  sessions' = [sessions EXCEPT ![Token(r)].lastActivityAt = clock,
                               ![Token(r)].idleExpiresAt  = clock + IDLE_TIMEOUT]

(* Faulty: the row that was read is written back as a whole.                   *)
Faulty_WriteWholeRow(r) ==
  LET now == seen[r].now IN
  sessions' = [sessions EXCEPT ![Token(r)].lastActivityAt = now,
                               ![Token(r)].idleExpiresAt  = now + IDLE_TIMEOUT,
                               ![Token(r)].revokedAt      = Never]

(* The UPDATE of touch: the two times it sets come from the clock as it was    *)
(* before the SELECT.                                                          *)
Extend(r) ==
  LET now == seen[r].now IN
  sessions' = [sessions EXCEPT ![Token(r)].lastActivityAt = now,
                               ![Token(r)].idleExpiresAt  = now + IDLE_TIMEOUT]

Touch(r) ==
  /\ pc[r] = "touch"
  /\ Extend(r)
  /\ Continue(r, IF IsPublic(r) THEN "handle" ELSE "guard")
  /\ UNCHANGED <<clock, secrets, role, jar, req, seen, lastUse>>

(* Faulty: the role is not looked at.                                          *)
Faulty_AnyMember(r) == req[r].op = "rename" => role # "none"

(* @Roles('owner'): only renaming requires a role.                             *)
RoleAllows(r) == req[r].op = "rename" => role = "owner"

(* The guards of a route after SessionAuthGuard.  MembershipGuard reads the    *)
(* membership; RolesGuard and CsrfGuard compare what has been read.            *)
Guard(r) ==
  /\ pc[r] = "guard"
  /\ LET op == req[r].op
         member == op \in OfOrganization => role # "none"
         csrf   == op \in CsrfGuarded => verifyCsrfToken(r) IN
     \/ /\ ~member
        /\ Finish(r, 404, NoneSet)
     \/ /\ member /\ ~(RoleAllows(r) /\ csrf)
        /\ Finish(r, 403, NoneSet)
     \/ /\ member /\ RoleAllows(r) /\ csrf
        /\ Continue(r, "handle")
        /\ UNCHANGED <<req, seen>>
  /\ UNCHANGED <<clock, sessions, secrets, role, jar, lastUse>>

-------------------------------------------------------------------------------
(* The handlers.                                                               *)

NewSession(secret) ==
  [csrfSecret |-> secret, lastActivityAt |-> clock,
   idleExpiresAt |-> clock + IDLE_TIMEOUT,
   absoluteExpiresAt |-> clock + ABSOLUTE_TIMEOUT, revokedAt |-> Never]

(* createSession, then setSessionCookie and setCsrfCookie.                     *)
Login(r) ==
  /\ pc[r] = "handle"
  /\ req[r].op = "login"
  /\ Len(sessions) < MaxSessions /\ Len(secrets) < MaxSecrets
  /\ LET token == Len(sessions) + 1  secret == Len(secrets) + 1 IN
     /\ sessions' = Append(sessions, NewSession(secret))
     /\ secrets' = Append(secrets, [token |-> token, until |-> Never])
     /\ lastUse' = [lastUse EXCEPT ![token] = clock]
     /\ Finish(r, 200, [n \in {resolveCookieNames.session, resolveCookieNames.csrf} |->
                          IF n = resolveCookieNames.session THEN token ELSE secret])
  /\ UNCHANGED <<clock, role, jar>>

(* revokeByToken, for the cookie named as cookie.util names it.                *)
Logout(r) ==
  /\ pc[r] = "handle"
  /\ req[r].op = "logout"
  /\ LET t == req[r].cookies[resolveCookieNames.session] IN
     sessions' = IF t # 0 /\ sessions[t].revokedAt = Never
                   THEN [sessions EXCEPT ![t].revokedAt = clock] ELSE sessions
  /\ Finish(r, 204, Cleared)
  /\ UNCHANGED <<clock, secrets, role, jar, lastUse>>

(* rotateCsrfToken.                                                            *)
RotateCsrf(r) ==
  /\ pc[r] = "handle"
  /\ req[r].op = "csrf"
  /\ Len(secrets) < MaxSecrets
  /\ LET t == Token(r)  secret == Len(secrets) + 1  old == sessions[t].csrfSecret IN
     /\ sessions' = [sessions EXCEPT ![t].csrfSecret = secret]
     /\ secrets' = Append([secrets EXCEPT ![old].until = clock],
                          [token |-> t, until |-> Never])
     /\ Finish(r, 200, [n \in {resolveCookieNames.csrf} |-> secret])
  /\ UNCHANGED <<clock, role, jar, lastUse>>

(* Reading the organization, and renaming it: what they do to it is left out.  *)
ReadOrganization(r) ==
  /\ pc[r] = "handle"
  /\ req[r].op = "read"
  /\ Finish(r, 200, NoneSet)
  /\ UNCHANGED <<clock, sessions, secrets, role, jar, lastUse>>

RenameOrganization(r) ==
  /\ pc[r] = "handle"
  /\ req[r].op = "rename"
  /\ Finish(r, 200, NoneSet)
  /\ UNCHANGED <<clock, sessions, secrets, role, jar, lastUse>>

(* The answer reaches the browser, in any order among the answers, or is lost. *)
Deliver(r, lost) ==
  /\ pc[r] = "answer"
  /\ jar' = IF lost THEN jar
            ELSE [n \in CookieNames |-> IF n \in DOMAIN answer[r].cookies
                                          THEN answer[r].cookies[n] ELSE jar[n]]
  /\ pc' = [pc EXCEPT ![r] = "idle"]
  /\ answer' = [answer EXCEPT ![r] = NoAnswer]
  /\ UNCHANGED <<clock, sessions, secrets, role, req, seen, lastUse>>

-------------------------------------------------------------------------------
(* The world.  No endpoint changes a membership: whoever does acts on the      *)
(* database itself.                                                            *)
ChangeRole(newRole) ==
  /\ newRole # role
  /\ role' = newRole
  /\ seen' = [r \in Requests |-> [seen[r] EXCEPT !.everOwner =
                @ \/ (pc[r] \notin {"idle", "answer"} /\ newRole = "owner")]]
  /\ UNCHANGED <<clock, sessions, secrets, jar, pc, req, answer, lastUse>>

Tick ==
  /\ clock < MaxTime
  /\ clock' = clock + 1
  /\ UNCHANGED <<sessions, secrets, role, jar, pc, req, seen, answer, lastUse>>

Next ==
  \/ \E r \in Requests :
       \/ \E op \in Operations : Send(r, op)
       \/ Select(r) \/ Touch(r) \/ Guard(r)
       \/ Login(r) \/ Logout(r) \/ RotateCsrf(r)
       \/ ReadOrganization(r) \/ RenameOrganization(r)
       \/ \E lost \in BOOLEAN : Deliver(r, lost)
  \/ \E newRole \in Roles : ChangeRole(newRole)
  \/ Tick

Spec == Init /\ [][Next]_vars

-------------------------------------------------------------------------------
(* Types: rows, cookies and requests stay what the code says they are.         *)
TypeOK ==
  /\ clock \in 0..MaxTime
  /\ sessions \in Seq(Session) /\ Len(sessions) <= MaxSessions
  /\ secrets \in Seq([token: Nat, until: Times]) /\ Len(secrets) <= MaxSecrets
  /\ role \in Roles
  /\ jar \in [CookieNames -> Nat]
  /\ pc \in [Requests -> {"idle", "select", "touch", "guard", "handle", "answer"}]
  /\ req \in [Requests -> [op: Operations \cup {"none"},
                           cookies: [CookieNames -> Nat], header: Nat]]
  /\ seen \in [Requests -> [now: 0..MaxTime, csrfSecret: Nat, everOwner: BOOLEAN]]
  /\ \A r \in Requests : /\ answer[r].status \in {0, 200, 204, 401, 403, 404}
                         /\ DOMAIN answer[r].cookies \subseteq CookieNames
  /\ lastUse \in [1..MaxSessions -> 0..MaxTime]

(* A session that is revoked or past its absolute window is never valid again, *)
(* whatever a request that read it earlier still writes to its row: touch      *)
(* names the columns it sets.                                                  *)
RevocationIsFinal ==
  [][\A t \in 1..Len(sessions) :
       sessions[t].revokedAt # Never \/ sessions[t].absoluteExpiresAt <= clock
         => ~ValidAt(t, clock)']_vars

(* A session no request has used for the idle timeout is invalid, however late *)
(* the UPDATE of an earlier request lands: the window it sets counts from that *)
(* request's arrival (validateToken hands its own now to touch).               *)
UnusedSessionsExpire ==
  \A t \in 1..Len(sessions) :
    ValidAt(t, clock) => clock < lastUse[t] + IDLE_TIMEOUT

(* A rename takes effect only for a request that, at some time since it        *)
(* arrived, had a session that was not revoked or over, a membership that said *)
(* owner, and the current CSRF secret of that very session; what its guards    *)
(* read may be out of date when the handler runs, but no older than that.      *)
RenameIsAuthorized ==
  [][\A r \in Requests :
       pc[r] = "handle" /\ req[r].op = "rename" /\ pc'[r] = "answer"
         => LET t == Token(r)  now == seen[r].now  h == req[r].header IN
            /\ t \in 1..Len(sessions)
            /\ sessions[t].revokedAt >= now
            /\ sessions[t].absoluteExpiresAt > now
            /\ seen[r].everOwner
            /\ h \in 1..Len(secrets)
            /\ secrets[h].token = t
            /\ secrets[h].until >= now]_vars

(* A request that presents the cookie of a valid session is not answered 401:  *)
(* SessionAuthGuard rejects it "unless it's un-revoked and within both its     *)
(* idle and absolute windows" (docs/architecture/authentication.md:25-26).     *)
LiveCookieIsAccepted ==
  [][\A r \in Requests :
       pc[r] # "answer" /\ pc'[r] = "answer" /\ answer'[r].status = 401
         => LET cookies == IF pc[r] = "idle" THEN jar ELSE req[r].cookies IN
            ~ValidAt(cookies[resolveCookieNames.session], clock)]_vars
===============================================================================
