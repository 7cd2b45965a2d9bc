------------------------------- MODULE AccessProofs -------------------------------
(***************************************************************************)
(* TLAPS proofs about Access: for any number of requests in flight, of     *)
(* logins and of CSRF secrets, for any timeouts and any throttle.          *)
(***************************************************************************)
EXTENDS Access, TLAPS

Secret     == [token: Nat, until: Times]
CookieSets == UNION {[S -> Nat] : S \in SUBSET CookieNames}
Reply      == [status: {0, 200, 204, 401, 403, 404}, cookies: CookieSets]
Request    == [op: Operations \cup {"none"}, cookies: [CookieNames -> Nat], header: Nat]
Observed   == [now: 0..MaxTime, csrfSecret: Nat, everOwner: BOOLEAN]
Labels     == {"idle", "select", "touch", "guard", "handle", "answer"}

(* TypeOK, and that the cookies an answer sets are tokens or secrets.          *)
TypeInv ==
  /\ clock \in 0..MaxTime
  /\ sessions \in Seq(Session) /\ Len(sessions) <= MaxSessions
  /\ secrets \in Seq(Secret) /\ Len(secrets) <= MaxSecrets
  /\ role \in Roles
  /\ jar \in [CookieNames -> Nat]
  /\ pc \in [Requests -> Labels]
  /\ req \in [Requests -> Request]
  /\ seen \in [Requests -> Observed]
  /\ answer \in [Requests -> Reply]
  /\ lastUse \in [1..MaxSessions -> 0..MaxTime]
  /\ \A t \in 1..MaxSessions : lastUse[t] <= clock

(* A session's secret is the last one issued for it, and its idle window was   *)
(* counted from the arrival of a request.                                      *)
SessionsInv ==
  \A t \in 1..Len(sessions) :
    /\ sessions[t].csrfSecret \in 1..Len(secrets)
    /\ secrets[sessions[t].csrfSecret].token = t
    /\ secrets[sessions[t].csrfSecret].until = Never
    /\ sessions[t].idleExpiresAt <= lastUse[t] + IDLE_TIMEOUT

(* At time now the session was there and the secret was its own.               *)
Grounds(t, h, now) ==
  /\ t \in 1..Len(sessions)
  /\ sessions[t].revokedAt >= now
  /\ sessions[t].absoluteExpiresAt > now
  /\ h \in 1..Len(secrets)
  /\ secrets[h].token = t
  /\ secrets[h].until >= now

(* A request between its SELECT and its end, other than a login's.             *)
Admitted(r) ==
  \/ pc[r] \in {"touch", "guard"}
  \/ pc[r] = "handle" /\ req[r].op # "login"

RequestInv(r) ==
  /\ seen[r].now <= clock
  /\ pc[r] \in {"select", "touch"} /\ Token(r) \in 1..MaxSessions =>
       seen[r].now <= lastUse[Token(r)]
  /\ Admitted(r) => Grounds(Token(r), seen[r].csrfSecret, seen[r].now)
  /\ pc[r] \notin {"idle", "answer"} /\ role = "owner" => seen[r].everOwner
  /\ pc[r] = "handle" /\ req[r].op = "rename" =>
       seen[r].everOwner /\ req[r].header = seen[r].csrfSecret

AccessInv == TypeInv /\ SessionsInv /\ \A r \in Requests : RequestInv(r)

-------------------------------------------------------------------------------
(* Types.                                                                      *)

LEMMA CookiesTyped ==
  /\ NoCookies \in [CookieNames -> Nat] /\ NoCookies \in CookieSets
  /\ NoneSet \in CookieSets
  /\ Cleared \in CookieSets
  /\ resolveCookieNames.session \in CookieNames
  /\ resolveCookieNames.csrf \in CookieNames
  /\ \A t, s \in Nat :
       [n \in {resolveCookieNames.session, resolveCookieNames.csrf} |->
          IF n = resolveCookieNames.session THEN t ELSE s] \in CookieSets
  /\ \A s \in Nat : [n \in {resolveCookieNames.csrf} |-> s] \in CookieSets
  <1>1. resolveCookieNames.session \in CookieNames /\ resolveCookieNames.csrf \in CookieNames
    BY DEF resolveCookieNames, CookieNames, SESSION_COOKIE_NAME, CSRF_COOKIE_NAME
  <1>2. \A S \in SUBSET CookieNames : \A f \in [S -> Nat] : f \in CookieSets
    BY DEF CookieSets
  <1>3. NoCookies \in [CookieNames -> Nat]
    BY DEF NoCookies
  <1>4. NoneSet \in [{} -> Nat]
    BY DEF NoneSet
  <1>5. Cleared \in [{resolveCookieNames.session, resolveCookieNames.csrf} -> Nat]
    BY DEF Cleared
  <1>6. \A t, s \in Nat :
          [n \in {resolveCookieNames.session, resolveCookieNames.csrf} |->
             IF n = resolveCookieNames.session THEN t ELSE s]
            \in [{resolveCookieNames.session, resolveCookieNames.csrf} -> Nat]
    OBVIOUS
  <1>7. \A s \in Nat : [n \in {resolveCookieNames.csrf} |-> s]
                         \in [{resolveCookieNames.csrf} -> Nat]
    OBVIOUS
  <1>8. /\ {} \in SUBSET CookieNames /\ CookieNames \in SUBSET CookieNames
        /\ {resolveCookieNames.session, resolveCookieNames.csrf} \in SUBSET CookieNames
        /\ {resolveCookieNames.csrf} \in SUBSET CookieNames
    BY <1>1
  <1>9. QED
    BY <1>1, <1>2, <1>3, <1>4, <1>5, <1>6, <1>7, <1>8

LEMMA AccessInit == Init => AccessInv
  <1> SUFFICES ASSUME Init PROVE AccessInv
    OBVIOUS
  <1> USE NaturalTimeouts DEF Init
  <1>1. NoAnswer \in Reply
    BY CookiesTyped DEF NoAnswer, Reply
  <1>2. NoRequest \in Request
    BY CookiesTyped DEF NoRequest, Request
  <1>3. NothingSeen \in Observed
    BY DEF NothingSeen, Observed
  <1>4. TypeInv
    BY <1>1, <1>2, <1>3, CookiesTyped DEF TypeInv, Roles, Labels
  <1>5. SessionsInv
    BY DEF SessionsInv
  <1>6. \A r \in Requests : RequestInv(r)
    <2> SUFFICES ASSUME NEW r \in Requests PROVE RequestInv(r)
      OBVIOUS
    <2>1. pc[r] = "idle" /\ seen[r].now = 0 /\ clock = 0
      BY DEF NothingSeen
    <2>2. QED
      BY <2>1 DEF RequestInv, Admitted
  <1>7. QED
    BY <1>4, <1>5, <1>6 DEF AccessInv

(* The end of a request.                                                       *)
LEMMA FinishTyped ==
  ASSUME TypeInv, NEW r \in Requests, NEW status \in {200, 204, 401, 403, 404},
         NEW cookies \in CookieSets, Finish(r, status, cookies)
  PROVE  /\ pc' \in [Requests -> Labels]
         /\ req' \in [Requests -> Request]
         /\ seen' \in [Requests -> Observed]
         /\ answer' \in [Requests -> Reply]
  <1>1. [status |-> status, cookies |-> cookies] \in Reply
    BY DEF Reply
  <1>2. NoRequest \in Request
    BY CookiesTyped DEF NoRequest, Request
  <1>3. NothingSeen \in Observed
    BY NaturalTimeouts DEF NothingSeen, Observed
  <1>4. QED
    BY <1>1, <1>2, <1>3 DEF Finish, TypeInv, Labels

(* One row of a table is written.                                              *)
LEMMA RowWritten ==
  ASSUME NEW S, NEW s \in Seq(S), NEW i, NEW v, i \in 1..Len(s) => v \in S
  PROVE  /\ [s EXCEPT ![i] = v] \in Seq(S)
         /\ Len([s EXCEPT ![i] = v]) = Len(s)
         /\ \A j \in 1..Len(s) : [s EXCEPT ![i] = v][j] = IF j = i THEN v ELSE s[j]
  <1> DEFINE written == [s EXCEPT ![i] = v]
  <1>1. s \in [1..Len(s) -> S] /\ Len(s) \in Nat
    OBVIOUS
  <1>2. written \in [1..Len(s) -> S]
    BY <1>1
  <1>3. \A j \in 1..Len(s) : written[j] = IF j = i THEN v ELSE s[j]
    BY <1>1
  <1> HIDE DEF written
  <1>4. written \in Seq(S) /\ Len(written) = Len(s)
    BY <1>1, <1>2
  <1>5. QED
    BY <1>3, <1>4 DEF written

LEMMA RowAdded ==
  ASSUME NEW S, NEW s \in Seq(S), NEW v \in S
  PROVE  /\ Append(s, v) \in Seq(S)
         /\ Len(Append(s, v)) = Len(s) + 1
         /\ Append(s, v)[Len(s) + 1] = v
         /\ \A j \in 1..Len(s) : Append(s, v)[j] = s[j]
  OBVIOUS

(* The tables, and the times of last use.                                      *)
Tables ==
  /\ sessions \in Seq(Session) /\ Len(sessions) <= MaxSessions
  /\ secrets \in Seq(Secret) /\ Len(secrets) <= MaxSecrets
  /\ lastUse \in [1..MaxSessions -> 0..MaxTime]
  /\ \A t \in 1..MaxSessions : lastUse[t] <= clock

(* What a step may do to the tables: rows are added and never lost, a session  *)
(* keeps its end and is revoked once, a secret is replaced, use moves forward. *)
TablesGrow ==
  /\ Len(sessions') >= Len(sessions)
  /\ \A t \in 1..Len(sessions) :
       /\ sessions'[t].absoluteExpiresAt = sessions[t].absoluteExpiresAt
       /\ \/ sessions'[t].revokedAt = sessions[t].revokedAt
          \/ sessions[t].revokedAt = Never /\ sessions'[t].revokedAt = clock
  /\ Len(secrets') >= Len(secrets)
  /\ \A h \in 1..Len(secrets) :
       /\ secrets'[h].token = secrets[h].token
       /\ secrets'[h].until = secrets[h].until \/ secrets'[h].until = clock
  /\ \A t \in 1..MaxSessions : lastUse'[t] >= lastUse[t]

LEMMA TablesKept ==
  ASSUME TypeInv, UNCHANGED <<sessions, secrets, lastUse>>,
         clock' = clock \/ clock' = clock + 1
  PROVE  Tables' /\ TablesGrow
  <1>1. Tables'
    <2>1. \A t \in 1..MaxSessions : lastUse[t] \in Nat /\ lastUse[t] <= clock /\ clock \in Nat
      BY NaturalTimeouts DEF TypeInv
    <2>2. \A t \in 1..MaxSessions : lastUse[t] <= clock'
      BY <2>1
    <2>3. QED
      BY <2>2 DEF TypeInv, Tables
  <1>2. \A t \in 1..MaxSessions : lastUse[t] >= lastUse[t]
    BY NaturalTimeouts DEF TypeInv
  <1>3. Len(sessions) \in Nat /\ Len(secrets) \in Nat
    BY DEF TypeInv
  <1>4. QED
    BY <1>1, <1>2, <1>3 DEF TablesGrow

LEMMA SendTables ==
  ASSUME TypeInv, NEW r \in Requests, NEW op \in Operations, Send(r, op)
  PROVE  /\ Tables' /\ TablesGrow /\ UNCHANGED <<sessions, secrets>>
         /\ jar[SESSION_COOKIE_NAME] \in 1..MaxSessions =>
              lastUse'[jar[SESSION_COOKIE_NAME]] = clock
  <1>1. /\ UNCHANGED <<clock, sessions, secrets>>
        /\ lastUse' = [t \in DOMAIN lastUse |->
                         IF t = jar[SESSION_COOKIE_NAME] THEN clock ELSE lastUse[t]]
    BY DEF Send
  <1>2. /\ lastUse \in [1..MaxSessions -> 0..MaxTime] /\ clock \in 0..MaxTime
        /\ \A t \in 1..MaxSessions : lastUse[t] <= clock
    BY DEF TypeInv
  <1>3. /\ lastUse' \in [1..MaxSessions -> 0..MaxTime]
        /\ \A t \in 1..MaxSessions : lastUse'[t] >= lastUse[t] /\ lastUse'[t] <= clock
        /\ jar[SESSION_COOKIE_NAME] \in 1..MaxSessions =>
             lastUse'[jar[SESSION_COOKIE_NAME]] = clock
    BY <1>1, <1>2, NaturalTimeouts
  <1>4. Tables'
    BY <1>1, <1>3 DEF TypeInv, Tables
  <1>5. Len(sessions) \in Nat /\ Len(secrets) \in Nat
    BY DEF TypeInv
  <1>6. TablesGrow
    BY <1>1, <1>3, <1>5 DEF TablesGrow
  <1>7. QED
    BY <1>1, <1>3, <1>4, <1>6

(* The row of a session the request was admitted with.                         *)
LEMMA TouchTables ==
  ASSUME AccessInv, NEW r \in Requests, Touch(r)
  PROVE  Tables' /\ TablesGrow /\ SessionsInv'
  <1> DEFINE t == Token(r)
             now == seen[r].now
  <1>1. /\ sessions' = [sessions EXCEPT ![t].lastActivityAt = now,
                                        ![t].idleExpiresAt = now + IDLE_TIMEOUT]
        /\ UNCHANGED <<clock, secrets, lastUse>>
    BY DEF Touch, Extend
  <1>2. t \in 1..Len(sessions) /\ now <= lastUse[t] /\ now \in 0..MaxTime
    <2>1. RequestInv(r) /\ pc[r] = "touch" /\ seen[r] \in Observed
      BY DEF AccessInv, TypeInv, Touch
    <2>2. t \in 1..Len(sessions) /\ now \in 0..MaxTime
      BY <2>1 DEF RequestInv, Admitted, Grounds, Observed
    <2>3. t \in 1..MaxSessions
      BY <2>2, NaturalTimeouts DEF AccessInv, TypeInv
    <2>4. QED
      BY <2>1, <2>2, <2>3 DEF RequestInv
  <1>3. /\ sessions \in Seq(Session) /\ Len(sessions) \in Nat
        /\ secrets \in Seq(Secret) /\ Len(secrets) \in Nat
    BY DEF AccessInv, TypeInv
  <1> HIDE DEF t, now
  <1>4. sessions[t] \in Session
    BY <1>2, <1>3
  <1> DEFINE row == [sessions[t] EXCEPT !.lastActivityAt = now,
                                        !.idleExpiresAt = now + IDLE_TIMEOUT]
  <1>5. /\ row \in Session /\ row.idleExpiresAt = now + IDLE_TIMEOUT
        /\ row.absoluteExpiresAt = sessions[t].absoluteExpiresAt
        /\ row.revokedAt = sessions[t].revokedAt
        /\ row.csrfSecret = sessions[t].csrfSecret
    <2>1. now \in Nat /\ now + IDLE_TIMEOUT \in Nat
      BY <1>2, NaturalTimeouts
    <2>2. \A idle \in Nat :
            LET r1 == [sessions[t] EXCEPT !.lastActivityAt = now, !.idleExpiresAt = idle] IN
            /\ r1 \in Session /\ r1.idleExpiresAt = idle
            /\ r1.absoluteExpiresAt = sessions[t].absoluteExpiresAt
            /\ r1.revokedAt = sessions[t].revokedAt
            /\ r1.csrfSecret = sessions[t].csrfSecret
      BY <1>4, <2>1 DEF Session
    <2>3. QED
      BY <2>1, <2>2
  <1>6. sessions' = [sessions EXCEPT ![t] = row]
    BY <1>1, <1>2, <1>3
  <1> HIDE DEF row
  <1>7. /\ sessions' \in Seq(Session) /\ Len(sessions') = Len(sessions)
         /\ \A i \in 1..Len(sessions) : sessions'[i] = IF i = t THEN row ELSE sessions[i]
    BY <1>3, <1>5, <1>6, RowWritten
  <1>8. /\ sessions' \in Seq(Session) /\ Len(sessions') = Len(sessions)
        /\ \A i \in 1..Len(sessions) :
             /\ sessions'[i].absoluteExpiresAt = sessions[i].absoluteExpiresAt
             /\ sessions'[i].revokedAt = sessions[i].revokedAt
             /\ sessions'[i].csrfSecret = sessions[i].csrfSecret
             /\ sessions'[i].idleExpiresAt =
                  IF i = t THEN now + IDLE_TIMEOUT ELSE sessions[i].idleExpiresAt
    BY <1>5, <1>7
  <1>9. Tables' /\ TablesGrow
    <2>1. \A i \in 1..MaxSessions : lastUse[i] >= lastUse[i]
      BY NaturalTimeouts DEF AccessInv, TypeInv
    <2>2. Tables'
      BY <1>1, <1>8 DEF Tables, AccessInv, TypeInv
    <2>3. QED
      BY <1>1, <1>3, <1>8, <2>1, <2>2 DEF TablesGrow
  <1>10. SessionsInv'
    <2> SUFFICES ASSUME NEW i \in 1..Len(sessions)
                 PROVE  /\ sessions'[i].csrfSecret \in 1..Len(secrets)
                        /\ secrets[sessions'[i].csrfSecret].token = i
                        /\ secrets[sessions'[i].csrfSecret].until = Never
                        /\ sessions'[i].idleExpiresAt <= lastUse[i] + IDLE_TIMEOUT
      BY <1>1, <1>8 DEF SessionsInv, Never
    <2>1. /\ sessions[i].csrfSecret \in 1..Len(secrets)
          /\ secrets[sessions[i].csrfSecret].token = i
          /\ secrets[sessions[i].csrfSecret].until = Never
          /\ sessions[i].idleExpiresAt <= lastUse[i] + IDLE_TIMEOUT
      BY DEF AccessInv, SessionsInv
    <2>2. now + IDLE_TIMEOUT <= lastUse[t] + IDLE_TIMEOUT
      <3>1. t \in 1..MaxSessions
        BY <1>2, <1>3, NaturalTimeouts DEF AccessInv, TypeInv
      <3>2. lastUse[t] \in 0..MaxTime
        BY <3>1 DEF AccessInv, TypeInv
      <3>3. QED
        BY <3>2, <1>2, NaturalTimeouts
    <2>3. QED
      BY <2>1, <2>2, <1>8
  <1>11. QED
    BY <1>9, <1>10

(* A new session, with a secret of its own.                                    *)
LEMMA LoginTables ==
  ASSUME AccessInv, NEW r \in Requests, Login(r)
  PROVE  Tables' /\ TablesGrow /\ SessionsInv'
  <1> DEFINE token == Len(sessions) + 1
             secret == Len(secrets) + 1
             session == NewSession(secret)
  <1>1. /\ sessions' = Append(sessions, session)
        /\ secrets' = Append(secrets, [token |-> token, until |-> Never])
        /\ lastUse' = [lastUse EXCEPT ![token] = clock]
        /\ UNCHANGED clock
        /\ Len(sessions) < MaxSessions /\ Len(secrets) < MaxSecrets
    BY DEF Login
  <1>2. /\ sessions \in Seq(Session) /\ Len(sessions) \in Nat
        /\ secrets \in Seq(Secret) /\ Len(secrets) \in Nat
        /\ clock \in 0..MaxTime /\ lastUse \in [1..MaxSessions -> 0..MaxTime]
        /\ \A t \in 1..MaxSessions : lastUse[t] <= clock
    BY DEF AccessInv, TypeInv
  <1>3. /\ session \in Session /\ session.csrfSecret = secret
        /\ session.idleExpiresAt = clock + IDLE_TIMEOUT
    BY <1>2, NaturalTimeouts DEF NewSession, Session, Never, Times
  <1>4. [token |-> token, until |-> Never] \in Secret
    BY <1>2, NaturalTimeouts DEF Secret, Never, Times
  <1> HIDE DEF session
  <1>5. /\ sessions' \in Seq(Session) /\ Len(sessions') = token
        /\ sessions'[token] = session
        /\ \A t \in 1..Len(sessions) : sessions'[t] = sessions[t]
    BY <1>1, <1>2, <1>3, RowAdded
  <1>6. /\ secrets' \in Seq(Secret) /\ Len(secrets') = secret
        /\ secrets'[secret] = [token |-> token, until |-> Never]
        /\ \A h \in 1..Len(secrets) : secrets'[h] = secrets[h]
    BY <1>1, <1>2, <1>4, RowAdded
  <1>7. token \in 1..MaxSessions
    BY <1>1, <1>2, NaturalTimeouts
  <1>8. /\ lastUse' \in [1..MaxSessions -> 0..MaxTime]
        /\ lastUse'[token] = clock
        /\ \A t \in 1..MaxSessions : lastUse'[t] >= lastUse[t] /\ lastUse'[t] <= clock
        /\ \A t \in 1..Len(sessions) : lastUse'[t] = lastUse[t]
    BY <1>1, <1>2, <1>7, NaturalTimeouts
  <1>9. Tables'
    BY <1>1, <1>2, <1>5, <1>6, <1>8, NaturalTimeouts DEF Tables
  <1>10. TablesGrow
    BY <1>2, <1>5, <1>6, <1>8 DEF TablesGrow
  <1>11. SessionsInv'
    <2> SUFFICES ASSUME NEW t \in 1..token
                 PROVE  /\ sessions'[t].csrfSecret \in 1..secret
                        /\ secrets'[sessions'[t].csrfSecret].token = t
                        /\ secrets'[sessions'[t].csrfSecret].until = Never
                        /\ sessions'[t].idleExpiresAt <= lastUse'[t] + IDLE_TIMEOUT
      BY <1>5, <1>6 DEF SessionsInv, Never
    <2>1. CASE t = token
      BY <2>1, <1>2, <1>3, <1>5, <1>6, <1>8, NaturalTimeouts
    <2>2. CASE t \in 1..Len(sessions)
      <3>1. /\ sessions[t].csrfSecret \in 1..Len(secrets)
            /\ secrets[sessions[t].csrfSecret].token = t
            /\ secrets[sessions[t].csrfSecret].until = Never
            /\ sessions[t].idleExpiresAt <= lastUse[t] + IDLE_TIMEOUT
        BY <2>2 DEF AccessInv, SessionsInv
      <3>2. sessions'[t] = sessions[t] /\ lastUse'[t] = lastUse[t]
        BY <2>2, <1>5, <1>8
      <3>3. sessions[t].csrfSecret \in 1..secret
        BY <3>1, <1>2
      <3>4. QED
        BY <3>1, <3>2, <3>3, <1>6
    <2>3. QED
      BY <2>1, <2>2, <1>2
  <1>12. QED
    BY <1>9, <1>10, <1>11

(* A session is revoked once.                                                  *)
LEMMA LogoutTables ==
  ASSUME AccessInv, NEW r \in Requests, Logout(r)
  PROVE  Tables' /\ TablesGrow /\ SessionsInv'
  <1> DEFINE t == req[r].cookies[resolveCookieNames.session]
  <1>1. /\ \/ sessions' = sessions
           \/ /\ t # 0 /\ sessions[t].revokedAt = Never
              /\ sessions' = [sessions EXCEPT ![t].revokedAt = clock]
        /\ UNCHANGED <<clock, secrets, lastUse>>
    BY DEF Logout
  <1>2. /\ sessions \in Seq(Session) /\ Len(sessions) \in Nat
        /\ secrets \in Seq(Secret) /\ Len(secrets) \in Nat
        /\ clock \in Times
    BY NaturalTimeouts DEF AccessInv, TypeInv, Times, Never
  <1> HIDE DEF t
  <1> DEFINE row == [sessions[t] EXCEPT !.revokedAt = clock]
  <1>3. t \in 1..Len(sessions) =>
          /\ row \in Session /\ row.revokedAt = clock
          /\ row.absoluteExpiresAt = sessions[t].absoluteExpiresAt
          /\ row.csrfSecret = sessions[t].csrfSecret
          /\ row.idleExpiresAt = sessions[t].idleExpiresAt
    <2> SUFFICES ASSUME t \in 1..Len(sessions)
                 PROVE  /\ row \in Session /\ row.revokedAt = clock
                        /\ row.absoluteExpiresAt = sessions[t].absoluteExpiresAt
                        /\ row.csrfSecret = sessions[t].csrfSecret
                        /\ row.idleExpiresAt = sessions[t].idleExpiresAt
      OBVIOUS
    <2>1. sessions[t] \in Session
      BY <1>2
    <2>2. QED
      BY <2>1, <1>2 DEF Session
  <1>4. \/ sessions' = sessions
        \/ sessions[t].revokedAt = Never /\ sessions' = [sessions EXCEPT ![t] = row]
    BY <1>1
  <1> HIDE DEF row
  <1>5. \/ sessions' = sessions
        \/ /\ sessions[t].revokedAt = Never
           /\ sessions' \in Seq(Session) /\ Len(sessions') = Len(sessions)
           /\ \A i \in 1..Len(sessions) : sessions'[i] = IF i = t THEN row ELSE sessions[i]
    BY <1>2, <1>3, <1>4, RowWritten
  <1>6. /\ sessions' \in Seq(Session) /\ Len(sessions') = Len(sessions)
        /\ \A i \in 1..Len(sessions) :
             /\ sessions'[i].absoluteExpiresAt = sessions[i].absoluteExpiresAt
             /\ \/ sessions'[i].revokedAt = sessions[i].revokedAt
                \/ sessions[i].revokedAt = Never /\ sessions'[i].revokedAt = clock
             /\ sessions'[i].csrfSecret = sessions[i].csrfSecret
             /\ sessions'[i].idleExpiresAt = sessions[i].idleExpiresAt
    BY <1>2, <1>3, <1>5
  <1>7. Tables' /\ TablesGrow
    <2>1. \A i \in 1..MaxSessions : lastUse[i] >= lastUse[i]
      BY NaturalTimeouts DEF AccessInv, TypeInv
    <2>2. Tables'
      BY <1>1, <1>6 DEF Tables, AccessInv, TypeInv
    <2>3. QED
      BY <1>1, <1>2, <1>6, <2>1, <2>2 DEF TablesGrow
  <1>8. SessionsInv'
    BY <1>1, <1>6 DEF AccessInv, SessionsInv
  <1>9. QED
    BY <1>7, <1>8

(* A session's secret is replaced: the old one was its own.                    *)
LEMMA RotateTables ==
  ASSUME AccessInv, NEW r \in Requests, RotateCsrf(r)
  PROVE  Tables' /\ TablesGrow /\ SessionsInv'
  <1> DEFINE t == Token(r)
             secret == Len(secrets) + 1
             old == sessions[t].csrfSecret
             ended == [secrets EXCEPT ![old].until = clock]
  <1>1. /\ sessions' = [sessions EXCEPT ![t].csrfSecret = secret]
        /\ secrets' = Append(ended, [token |-> t, until |-> Never])
        /\ UNCHANGED <<clock, lastUse>>
        /\ Len(secrets) < MaxSecrets
    BY DEF RotateCsrf
  <1>2. /\ sessions \in Seq(Session) /\ Len(sessions) \in Nat
        /\ secrets \in Seq(Secret) /\ Len(secrets) \in Nat
        /\ clock \in Times
    BY NaturalTimeouts DEF AccessInv, TypeInv, Times, Never
  <1>3. t \in 1..Len(sessions)
    BY DEF AccessInv, RequestInv, Admitted, Grounds, RotateCsrf
  <1>4. old \in 1..Len(secrets) /\ secrets[old].token = t
    BY <1>3 DEF AccessInv, SessionsInv
  <1> HIDE DEF t, old
  <1>5. /\ ended \in Seq(Secret) /\ Len(ended) = Len(secrets)
        /\ \A h \in 1..Len(secrets) :
             /\ ended[h].token = secrets[h].token
             /\ ended[h].until = IF h = old THEN clock ELSE secrets[h].until
    <2> DEFINE row == [secrets[old] EXCEPT !.until = clock]
    <2>1. secrets[old] \in Secret
      BY <1>2, <1>4
    <2>2. row \in Secret /\ row.until = clock /\ row.token = secrets[old].token
      BY <2>1, <1>2 DEF Secret
    <2>3. ended = [secrets EXCEPT ![old] = row]
      OBVIOUS
    <2> HIDE DEF row, ended
    <2>4. QED
      BY <2>2, <2>3, <1>2, RowWritten
  <1>6. [token |-> t, until |-> Never] \in Secret
    BY <1>2, <1>3, NaturalTimeouts DEF Secret, Never, Times
  <1> HIDE DEF ended
  <1>7. /\ secrets' \in Seq(Secret) /\ Len(secrets') = secret
        /\ secrets'[secret] = [token |-> t, until |-> Never]
        /\ \A h \in 1..Len(secrets) : secrets'[h] = ended[h]
    BY <1>1, <1>2, <1>5, <1>6, RowAdded
  <1>8. /\ sessions' \in Seq(Session) /\ Len(sessions') = Len(sessions)
        /\ \A i \in 1..Len(sessions) :
             /\ sessions'[i].absoluteExpiresAt = sessions[i].absoluteExpiresAt
             /\ sessions'[i].revokedAt = sessions[i].revokedAt
             /\ sessions'[i].csrfSecret = IF i = t THEN secret ELSE sessions[i].csrfSecret
             /\ sessions'[i].idleExpiresAt = sessions[i].idleExpiresAt
    <2> DEFINE row == [sessions[t] EXCEPT !.csrfSecret = secret]
    <2>1. sessions[t] \in Session
      BY <1>2, <1>3
    <2>2. /\ row \in Session /\ row.csrfSecret = secret
          /\ row.absoluteExpiresAt = sessions[t].absoluteExpiresAt
          /\ row.revokedAt = sessions[t].revokedAt
          /\ row.idleExpiresAt = sessions[t].idleExpiresAt
      <3>1. secret \in Nat
        BY <1>2
      <3> HIDE DEF secret
      <3>2. QED
        BY <2>1, <3>1 DEF Session
    <2>3. sessions' = [sessions EXCEPT ![t] = row]
      BY <1>1
    <2> HIDE DEF row
    <2>4. /\ sessions' \in Seq(Session) /\ Len(sessions') = Len(sessions)
          /\ \A i \in 1..Len(sessions) : sessions'[i] = IF i = t THEN row ELSE sessions[i]
      BY <1>2, <2>2, <2>3, RowWritten
    <2>5. QED
      BY <2>2, <2>4
  <1>9. Tables' /\ TablesGrow
    <2>1. \A i \in 1..MaxSessions : lastUse[i] >= lastUse[i]
      BY NaturalTimeouts DEF AccessInv, TypeInv
    <2>2. Tables'
      BY <1>1, <1>2, <1>7, <1>8, NaturalTimeouts DEF Tables, AccessInv, TypeInv
    <2>3. QED
      BY <1>1, <1>2, <1>5, <1>7, <1>8, <2>1, <2>2 DEF TablesGrow
  <1>10. SessionsInv'
    <2> SUFFICES ASSUME NEW i \in 1..Len(sessions)
                 PROVE  /\ sessions'[i].csrfSecret \in 1..secret
                        /\ secrets'[sessions'[i].csrfSecret].token = i
                        /\ secrets'[sessions'[i].csrfSecret].until = Never
                        /\ sessions'[i].idleExpiresAt <= lastUse[i] + IDLE_TIMEOUT
      BY <1>1, <1>7, <1>8 DEF SessionsInv, Never
    <2>1. /\ sessions[i].csrfSecret \in 1..Len(secrets)
          /\ secrets[sessions[i].csrfSecret].token = i
          /\ secrets[sessions[i].csrfSecret].until = Never
          /\ sessions[i].idleExpiresAt <= lastUse[i] + IDLE_TIMEOUT
      BY DEF AccessInv, SessionsInv
    <2>2. CASE i = t
      BY <2>1, <2>2, <1>2, <1>7, <1>8
    <2>3. CASE i # t
      <3>1. sessions[i].csrfSecret # old
        BY <2>1, <2>3, <1>4
      <3>2. QED
        <4>1. sessions'[i].csrfSecret = sessions[i].csrfSecret
          BY <2>3, <1>8
        <4>2. sessions[i].csrfSecret \in 1..secret
          BY <2>1, <1>2
        <4>3. secrets'[sessions[i].csrfSecret].until = Never
          BY <2>1, <3>1, <1>5, <1>7
        <4>4. secrets'[sessions[i].csrfSecret].token = i
          BY <2>1, <1>5, <1>7
        <4>5. QED
          BY <2>1, <4>1, <4>2, <4>3, <4>4, <1>8
    <2>4. QED
      BY <2>2, <2>3
  <1>11. QED
    BY <1>9, <1>10

LEMMA SessionsKept ==
  ASSUME AccessInv, UNCHANGED <<sessions, secrets>>, Tables', TablesGrow
  PROVE  SessionsInv'
  <1> SUFFICES ASSUME NEW t \in 1..Len(sessions)
               PROVE  /\ sessions[t].csrfSecret \in 1..Len(secrets)
                      /\ secrets[sessions[t].csrfSecret].token = t
                      /\ secrets[sessions[t].csrfSecret].until = Never
                      /\ sessions[t].idleExpiresAt <= lastUse'[t] + IDLE_TIMEOUT
    BY DEF SessionsInv, Never
  <1>1. /\ sessions[t].csrfSecret \in 1..Len(secrets)
        /\ secrets[sessions[t].csrfSecret].token = t
        /\ secrets[sessions[t].csrfSecret].until = Never
        /\ sessions[t].idleExpiresAt <= lastUse[t] + IDLE_TIMEOUT
    BY DEF AccessInv, SessionsInv
  <1>2. /\ sessions \in Seq(Session) /\ Len(sessions) <= MaxSessions
        /\ lastUse \in [1..MaxSessions -> 0..MaxTime]
        /\ lastUse' \in [1..MaxSessions -> 0..MaxTime]
        /\ \A i \in 1..MaxSessions : lastUse'[i] >= lastUse[i]
    BY DEF AccessInv, TypeInv, Tables, TablesGrow
  <1>3. sessions[t] \in Session /\ t \in 1..MaxSessions
    BY <1>2, NaturalTimeouts
  <1>4. lastUse[t] \in Nat /\ lastUse'[t] \in Nat /\ lastUse'[t] >= lastUse[t]
    BY <1>2, <1>3, NaturalTimeouts
  <1>5. sessions[t].idleExpiresAt \in Nat
    BY <1>3 DEF Session
  <1>6. sessions[t].idleExpiresAt <= lastUse'[t] + IDLE_TIMEOUT
    BY <1>1, <1>4, <1>5, NaturalTimeouts
  <1>7. QED
    BY <1>1, <1>6

(* What a request was admitted on stays so, as of that time.                   *)
LEMMA GroundsKept ==
  ASSUME TypeInv, Tables', TablesGrow
  PROVE  \A t, h \in Nat, now \in 0..clock : Grounds(t, h, now) =>
           /\ t \in 1..Len(sessions')
           /\ sessions'[t].revokedAt >= now
           /\ sessions'[t].absoluteExpiresAt > now
           /\ h \in 1..Len(secrets')
           /\ secrets'[h].token = t
           /\ secrets'[h].until >= now
  <1> SUFFICES ASSUME NEW t \in Nat, NEW h \in Nat, NEW now \in 0..clock, Grounds(t, h, now)
               PROVE  /\ t \in 1..Len(sessions')
                      /\ sessions'[t].revokedAt >= now
                      /\ sessions'[t].absoluteExpiresAt > now
                      /\ h \in 1..Len(secrets')
                      /\ secrets'[h].token = t
                      /\ secrets'[h].until >= now
    OBVIOUS
  <1>1. /\ t \in 1..Len(sessions) /\ h \in 1..Len(secrets)
        /\ sessions[t].revokedAt >= now /\ sessions[t].absoluteExpiresAt > now
        /\ secrets[h].token = t /\ secrets[h].until >= now
    BY DEF Grounds
  <1>2. clock \in Nat /\ now \in Nat /\ clock >= now
    BY NaturalTimeouts DEF TypeInv
  <1>3. /\ sessions'[t].absoluteExpiresAt = sessions[t].absoluteExpiresAt
        /\ \/ sessions'[t].revokedAt = sessions[t].revokedAt
           \/ sessions'[t].revokedAt = clock
        /\ secrets'[h].token = secrets[h].token
        /\ secrets'[h].until = secrets[h].until \/ secrets'[h].until = clock
    BY <1>1 DEF TablesGrow
  <1>4. /\ Len(sessions) \in Nat /\ Len(secrets) \in Nat
        /\ Len(sessions') >= Len(sessions) /\ Len(secrets') >= Len(secrets)
        /\ Len(sessions') \in Nat /\ Len(secrets') \in Nat
    BY DEF TypeInv, Tables, TablesGrow
  <1>5. t \in 1..Len(sessions') /\ h \in 1..Len(secrets')
    BY <1>1, <1>4
  <1>6. QED
    BY <1>1, <1>2, <1>3, <1>5

(* A request that does not move, while others do.                              *)
LEMMA Bystander ==
  ASSUME AccessInv, Tables', TablesGrow, clock' \in 0..MaxTime, clock' >= clock,
         NEW q \in Requests, pc'[q] = pc[q], req'[q] = req[q],
         seen'[q].now = seen[q].now, seen'[q].csrfSecret = seen[q].csrfSecret,
         seen[q].everOwner => seen'[q].everOwner,
         pc[q] \notin {"idle", "answer"} /\ role' = "owner" => seen'[q].everOwner
  PROVE  RequestInv(q)'
  <1> DEFINE t == Token(q)
             h == seen[q].csrfSecret
             now == seen[q].now
  <1>1. /\ TypeInv /\ RequestInv(q) /\ seen[q] \in Observed /\ req[q] \in Request
        /\ clock \in 0..MaxTime
    BY DEF AccessInv, TypeInv
  <1>2. now \in 0..MaxTime /\ h \in Nat /\ now <= clock
    BY <1>1 DEF Observed, RequestInv
  <1>3. t \in Nat
    BY <1>1 DEF Request, Token, CookieNames, SESSION_COOKIE_NAME
  <1>4. now \in 0..clock /\ now <= clock'
    BY <1>1, <1>2, NaturalTimeouts
  <1>5. Token(q)' = t /\ Admitted(q)' = Admitted(q)
    BY DEF Token, Admitted
  <1>6. Admitted(q) => Grounds(t, h, now)
    BY <1>1 DEF RequestInv
  <1>7. Admitted(q)' => Grounds(Token(q), seen[q].csrfSecret, seen[q].now)'
    <2>1. Grounds(t, h, now) =>
            /\ t \in 1..Len(sessions')
            /\ sessions'[t].revokedAt >= now
            /\ sessions'[t].absoluteExpiresAt > now
            /\ h \in 1..Len(secrets')
            /\ secrets'[h].token = t
            /\ secrets'[h].until >= now
      BY <1>1, <1>2, <1>3, <1>4, GroundsKept
    <2>2. QED
      BY <2>1, <1>5, <1>6 DEF Grounds
  <1>8. pc[q] \in {"select", "touch"} /\ t \in 1..MaxSessions => now <= lastUse'[t]
    <2> SUFFICES ASSUME pc[q] \in {"select", "touch"}, t \in 1..MaxSessions
                 PROVE  now <= lastUse'[t]
      OBVIOUS
    <2>1. now <= lastUse[t]
      BY <1>1 DEF RequestInv
    <2>2. lastUse[t] \in Nat /\ lastUse'[t] \in Nat /\ lastUse'[t] >= lastUse[t]
      BY NaturalTimeouts DEF AccessInv, TypeInv, Tables, TablesGrow
    <2>3. QED
      BY <2>1, <2>2, <1>2
  <1>9. pc[q] = "handle" /\ req[q].op = "rename" =>
          seen[q].everOwner /\ req[q].header = seen[q].csrfSecret
    BY <1>1 DEF RequestInv
  <1>10. QED
    BY <1>4, <1>5, <1>7, <1>8, <1>9 DEF RequestInv

(* A step of one request.                                                      *)
LEMMA RequestStep ==
  ASSUME AccessInv, NEW r \in Requests, Tables', TablesGrow, SessionsInv',
         UNCHANGED <<clock, role>>, jar' \in [CookieNames -> Nat],
         pc' \in [Requests -> Labels], req' \in [Requests -> Request],
         seen' \in [Requests -> Observed], answer' \in [Requests -> Reply],
         \A q \in Requests \ {r} : pc'[q] = pc[q] /\ req'[q] = req[q] /\ seen'[q] = seen[q],
         RequestInv(r)'
  PROVE  AccessInv'
  <1>1. clock' \in 0..MaxTime /\ clock' >= clock /\ role' \in Roles
    BY NaturalTimeouts DEF AccessInv, TypeInv
  <1>2. TypeInv'
    BY <1>1 DEF Tables, TypeInv
  <1>3. ASSUME NEW q \in Requests \ {r} PROVE RequestInv(q)'
    <2>1. pc[q] \notin {"idle", "answer"} /\ role = "owner" => seen[q].everOwner
      BY DEF AccessInv, RequestInv
    <2>2. QED
      BY <1>1, <2>1, Bystander
  <1>4. QED
    BY <1>2, <1>3 DEF AccessInv

(* A request ends: what it has read is forgotten.                              *)
LEMMA FinishStep ==
  ASSUME AccessInv, NEW r \in Requests, Tables', TablesGrow, SessionsInv',
         UNCHANGED <<clock, role, jar>>,
         NEW status \in {200, 204, 401, 403, 404}, NEW cookies \in CookieSets,
         Finish(r, status, cookies)
  PROVE  AccessInv'
  <1>1. TypeInv
    BY DEF AccessInv
  <1>2. /\ pc' \in [Requests -> Labels]
        /\ req' \in [Requests -> Request]
        /\ seen' \in [Requests -> Observed]
        /\ answer' \in [Requests -> Reply]
    BY <1>1, FinishTyped
  <1>3. /\ \A q \in Requests \ {r} : pc'[q] = pc[q] /\ req'[q] = req[q] /\ seen'[q] = seen[q]
        /\ pc'[r] = "answer" /\ seen'[r] = NothingSeen
    BY DEF Finish, AccessInv, TypeInv
  <1>4. RequestInv(r)'
    <2>1. seen'[r].now = 0 /\ 0 <= clock'
      BY <1>3, NaturalTimeouts DEF NothingSeen, AccessInv, TypeInv
    <2>2. QED
      BY <2>1, <1>3 DEF RequestInv, Admitted
  <1>5. jar' \in [CookieNames -> Nat]
    BY DEF AccessInv, TypeInv
  <1>6. QED
    BY <1>2, <1>3, <1>4, <1>5, RequestStep

-------------------------------------------------------------------------------
(* The steps of a request.                                                     *)

LEMMA SendStep ==
  ASSUME AccessInv, NEW r \in Requests, NEW op \in Operations, Send(r, op)
  PROVE  AccessInv'
  <1> DEFINE token == jar[SESSION_COOKIE_NAME]
  <1>1. TypeInv
    BY DEF AccessInv
  <1>2. /\ Tables' /\ TablesGrow /\ UNCHANGED <<sessions, secrets>>
        /\ token \in 1..MaxSessions => lastUse'[token] = clock
    BY <1>1, SendTables
  <1>3. SessionsInv'
    BY <1>2, SessionsKept
  <1>4. UNCHANGED <<clock, role, jar>>
    BY DEF Send
  <1>5. CASE Finish(r, 401, NoneSet)
    BY <1>2, <1>3, <1>4, <1>5, CookiesTyped, FinishStep
  <1>6. ASSUME /\ Continue(r, IF token # 0 THEN "select" ELSE "handle")
               /\ token # 0 \/ op = "login"
               /\ req' = [req EXCEPT ![r] = [op |-> op, cookies |-> jar,
                    header |-> IF op \in CsrfGuarded THEN jar[CSRF_COOKIE_NAME] ELSE 0]]
               /\ seen' = [seen EXCEPT ![r] = [now |-> clock, csrfSecret |-> 0,
                                               everOwner |-> role = "owner"]]
        PROVE  AccessInv'
    <2> DEFINE request == [op |-> op, cookies |-> jar,
                 header |-> IF op \in CsrfGuarded THEN jar[CSRF_COOKIE_NAME] ELSE 0]
               first == [now |-> clock, csrfSecret |-> 0, everOwner |-> role = "owner"]
    <2>1. jar \in [CookieNames -> Nat] /\ token \in Nat /\ jar[CSRF_COOKIE_NAME] \in Nat
      BY <1>1 DEF TypeInv, CookieNames, SESSION_COOKIE_NAME, CSRF_COOKIE_NAME
    <2>2. request \in Request
      BY <2>1 DEF Request
    <2>3. first \in Observed
      <3>1. clock \in 0..MaxTime /\ (role = "owner") \in BOOLEAN
        BY <1>1 DEF TypeInv
      <3>2. QED
        BY <3>1 DEF Observed
    <2>4. /\ request.op = op /\ request.cookies = jar
          /\ first.now = clock /\ first.everOwner = (role = "owner")
      OBVIOUS
    <2>5. req' = [req EXCEPT ![r] = request] /\ seen' = [seen EXCEPT ![r] = first]
      BY <1>6
    <2> HIDE DEF request, first
    <2>6. /\ req' \in [Requests -> Request] /\ req'[r] = request
          /\ seen' \in [Requests -> Observed] /\ seen'[r] = first
          /\ \A q \in Requests \ {r} : req'[q] = req[q] /\ seen'[q] = seen[q]
      BY <1>1, <2>2, <2>3, <2>5 DEF TypeInv
    <2>7. /\ pc' \in [Requests -> Labels] /\ answer' \in [Requests -> Reply]
          /\ pc'[r] = IF token # 0 THEN "select" ELSE "handle"
          /\ \A q \in Requests \ {r} : pc'[q] = pc[q]
      BY <1>1, <1>6 DEF Continue, TypeInv, Labels
    <2>8. Token(r)' = token
      BY <2>4, <2>6 DEF Token
    <2>9. ~Admitted(r)'
      BY <1>6, <2>4, <2>6, <2>7 DEF Admitted
    <2>10. /\ seen'[r].now <= clock'
           /\ Token(r)' \in 1..MaxSessions => seen'[r].now <= lastUse'[Token(r)']
      BY <1>1, <1>2, <1>4, <2>4, <2>6, <2>8, NaturalTimeouts DEF TypeInv
    <2>11. role' = "owner" => seen'[r].everOwner
      BY <1>4, <2>4, <2>6
    <2>12. ~(pc'[r] = "handle" /\ req'[r].op = "rename")
      BY <1>6, <2>4, <2>6, <2>7
    <2>13. RequestInv(r)'
      BY <2>9, <2>10, <2>11, <2>12 DEF RequestInv
    <2>14. QED
      BY <1>2, <1>3, <1>4, <2>1, <2>6, <2>7, <2>13, RequestStep
  <1>7. QED
    BY <1>5, <1>6 DEF Send

LEMMA SelectStep ==
  ASSUME AccessInv, NEW r \in Requests, Select(r)
  PROVE  AccessInv'
  <1> DEFINE t == Token(r)
             now == seen[r].now
  <1>1. /\ UNCHANGED <<clock, sessions, secrets, role, jar, lastUse>> /\ pc[r] = "select"
        /\ TypeInv /\ RequestInv(r)
    BY DEF Select, AccessInv
  <1>2. Tables' /\ TablesGrow /\ SessionsInv'
    BY <1>1, TablesKept, SessionsKept
  <1>3. jar' \in [CookieNames -> Nat]
    BY <1>1 DEF TypeInv
  <1>4. CASE Live(t, now) /\ UNCHANGED req
             /\ seen' = [seen EXCEPT ![r].csrfSecret = sessions[t].csrfSecret]
             /\ Continue(r, IF now - sessions[t].lastActivityAt >= ACTIVITY_TOUCH_THROTTLE
                              THEN "touch" ELSE IF IsPublic(r) THEN "handle" ELSE "guard")
    <2> DEFINE h == sessions[t].csrfSecret
    <2>1. /\ t \in 1..Len(sessions) /\ sessions[t].revokedAt = Never
          /\ sessions[t].absoluteExpiresAt > now
      BY <1>4 DEF Live
    <2>2. h \in 1..Len(secrets) /\ secrets[h].token = t /\ secrets[h].until = Never
      BY <2>1 DEF AccessInv, SessionsInv
    <2>3. now \in 0..MaxTime /\ seen[r] \in Observed /\ h \in Nat
      BY <1>1, <2>2 DEF TypeInv, Observed
    <2>4. Never >= now
      BY <2>3, NaturalTimeouts DEF Never
    <2>5. Grounds(t, h, now)
      BY <2>1, <2>2, <2>4 DEF Grounds
    <2> HIDE DEF h
    <2>6. /\ seen' \in [Requests -> Observed]
          /\ seen'[r].now = now /\ seen'[r].csrfSecret = h
          /\ seen'[r].everOwner = seen[r].everOwner
          /\ \A q \in Requests \ {r} : seen'[q] = seen[q]
      <3>1. seen' = [seen EXCEPT ![r] = [seen[r] EXCEPT !.csrfSecret = h]]
        BY <1>4 DEF h
      <3>2. /\ [seen[r] EXCEPT !.csrfSecret = h] \in Observed
            /\ [seen[r] EXCEPT !.csrfSecret = h].now = now
            /\ [seen[r] EXCEPT !.csrfSecret = h].csrfSecret = h
            /\ [seen[r] EXCEPT !.csrfSecret = h].everOwner = seen[r].everOwner
        BY <2>3 DEF Observed
      <3>3. QED
        BY <1>1, <3>1, <3>2 DEF TypeInv
    <2>7. /\ pc' \in [Requests -> Labels] /\ answer' \in [Requests -> Reply]
          /\ pc'[r] \in {"touch", "handle", "guard"}
          /\ pc'[r] = "handle" => req[r].op = "login"
          /\ \A q \in Requests \ {r} : pc'[q] = pc[q]
      BY <1>1, <1>4 DEF Continue, TypeInv, Labels, IsPublic
    <2>8. req' \in [Requests -> Request] /\ req' = req
      BY <1>1, <1>4 DEF TypeInv
    <2>9. Token(r)' = t
      BY <2>8 DEF Token
    <2>10. Grounds(Token(r), seen[r].csrfSecret, seen[r].now)'
      BY <1>1, <2>5, <2>6, <2>9 DEF Grounds
    <2>11. RequestInv(r)'
      BY <1>1, <2>6, <2>7, <2>8, <2>9, <2>10 DEF RequestInv
    <2>12. QED
      BY <1>1, <1>2, <1>3, <2>6, <2>7, <2>8, <2>11, RequestStep
  <1>5. CASE ~Live(t, now) /\ IsPublic(r) /\ Continue(r, "handle") /\ UNCHANGED <<req, seen>>
    <2>1. /\ pc' \in [Requests -> Labels] /\ answer' \in [Requests -> Reply]
          /\ req' \in [Requests -> Request] /\ seen' \in [Requests -> Observed]
          /\ pc'[r] = "handle" /\ req[r].op = "login"
          /\ \A q \in Requests \ {r} : pc'[q] = pc[q] /\ req'[q] = req[q] /\ seen'[q] = seen[q]
      BY <1>1, <1>5 DEF Continue, TypeInv, Labels, IsPublic
    <2>2. RequestInv(r)'
      BY <1>1, <1>5, <2>1 DEF RequestInv, Admitted
    <2>3. QED
      BY <1>1, <1>2, <1>3, <2>1, <2>2, RequestStep
  <1>6. CASE Finish(r, 401, NoneSet)
    BY <1>1, <1>2, <1>6, CookiesTyped, FinishStep
  <1>7. QED
    BY <1>4, <1>5, <1>6 DEF Select

LEMMA TouchStep ==
  ASSUME AccessInv, NEW r \in Requests, Touch(r)
  PROVE  AccessInv'
  <1> DEFINE t == Token(r)
             now == seen[r].now
  <1>1. /\ UNCHANGED <<clock, secrets, role, jar, req, seen, lastUse>>
        /\ pc[r] = "touch" /\ TypeInv /\ RequestInv(r)
        /\ Continue(r, IF IsPublic(r) THEN "handle" ELSE "guard")
    BY DEF Touch, AccessInv
  <1>2. Tables' /\ TablesGrow /\ SessionsInv'
    BY TouchTables
  <1>3. /\ pc' \in [Requests -> Labels] /\ answer' \in [Requests -> Reply]
        /\ req' \in [Requests -> Request] /\ seen' \in [Requests -> Observed]
        /\ jar' \in [CookieNames -> Nat]
        /\ pc'[r] \in {"handle", "guard"} /\ (pc'[r] = "handle" => req[r].op = "login")
        /\ \A q \in Requests \ {r} : pc'[q] = pc[q] /\ req'[q] = req[q] /\ seen'[q] = seen[q]
    BY <1>1 DEF Continue, TypeInv, Labels, IsPublic
  <1>4. /\ Grounds(t, seen[r].csrfSecret, now)
        /\ t \in Nat /\ seen[r].csrfSecret \in Nat /\ now \in 0..clock
    <2>1. Grounds(t, seen[r].csrfSecret, now) /\ seen[r] \in Observed /\ now <= clock
      BY <1>1 DEF RequestInv, Admitted, TypeInv
    <2>2. clock \in 0..MaxTime /\ now \in 0..MaxTime /\ seen[r].csrfSecret \in Nat
      BY <1>1, <2>1 DEF TypeInv, Observed
    <2>3. t \in Nat
      BY <2>1 DEF Grounds
    <2>4. QED
      BY <2>1, <2>2, <2>3, NaturalTimeouts
  <1>5. Grounds(Token(r), seen[r].csrfSecret, seen[r].now)'
    <2>1. Token(r)' = t
      BY <1>1 DEF Token
    <2>2. QED
      BY <1>1, <1>2, <1>4, <2>1, GroundsKept DEF Grounds
  <1>6. RequestInv(r)'
    BY <1>1, <1>3, <1>5 DEF RequestInv
  <1>7. QED
    BY <1>1, <1>2, <1>3, <1>6, RequestStep

LEMMA GuardStep ==
  ASSUME AccessInv, NEW r \in Requests, Guard(r)
  PROVE  AccessInv'
  <1>1. /\ UNCHANGED <<clock, sessions, secrets, role, jar, lastUse>>
        /\ pc[r] = "guard" /\ TypeInv /\ RequestInv(r)
    BY DEF Guard, AccessInv
  <1>2. Tables' /\ TablesGrow /\ SessionsInv'
    BY <1>1, TablesKept, SessionsKept
  <1>3. CASE Finish(r, 404, NoneSet) \/ Finish(r, 403, NoneSet)
    BY <1>1, <1>2, <1>3, CookiesTyped, FinishStep
  <1>4. CASE /\ RoleAllows(r) /\ (req[r].op \in CsrfGuarded => verifyCsrfToken(r))
             /\ Continue(r, "handle") /\ UNCHANGED <<req, seen>>
    <2>1. /\ pc' \in [Requests -> Labels] /\ answer' \in [Requests -> Reply]
          /\ req' \in [Requests -> Request] /\ seen' \in [Requests -> Observed]
          /\ jar' \in [CookieNames -> Nat]
          /\ pc'[r] = "handle"
          /\ \A q \in Requests \ {r} : pc'[q] = pc[q] /\ req'[q] = req[q] /\ seen'[q] = seen[q]
      BY <1>1, <1>4 DEF Continue, TypeInv, Labels
    <2>2. Grounds(Token(r), seen[r].csrfSecret, seen[r].now)
      BY <1>1 DEF RequestInv, Admitted
    <2>3. Grounds(Token(r), seen[r].csrfSecret, seen[r].now)'
      BY <1>1, <1>4, <2>2 DEF Grounds, Token
    <2>4. req[r].op = "rename" =>
            seen[r].everOwner /\ req[r].header = seen[r].csrfSecret
      BY <1>1, <1>4 DEF RoleAllows, CsrfGuarded, verifyCsrfToken, RequestInv
    <2>5. RequestInv(r)'
      BY <1>1, <1>4, <2>1, <2>3, <2>4 DEF RequestInv
    <2>6. QED
      BY <1>1, <1>2, <2>1, <2>5, RequestStep
  <1>5. QED
    BY <1>3, <1>4 DEF Guard

LEMMA HandlerStep ==
  ASSUME AccessInv, NEW r \in Requests,
         \/ Login(r) \/ Logout(r) \/ RotateCsrf(r)
         \/ ReadOrganization(r) \/ RenameOrganization(r)
  PROVE  AccessInv'
  <1>1. /\ UNCHANGED <<clock, role, jar>> /\ TypeInv
        /\ sessions \in Seq(Session) /\ secrets \in Seq(Secret)
    BY DEF Login, Logout, RotateCsrf, ReadOrganization, RenameOrganization, AccessInv, TypeInv
  <1>2. CASE Login(r)
    <2>1. \E cookies \in CookieSets : Finish(r, 200, cookies)
      <3>1. Len(sessions) + 1 \in Nat /\ Len(secrets) + 1 \in Nat
        BY <1>1
      <3>2. QED
        BY <1>2, <3>1, CookiesTyped DEF Login
    <2>2. Tables' /\ TablesGrow /\ SessionsInv'
      BY <1>2, LoginTables
    <2>3. QED
      BY <1>1, <2>1, <2>2, FinishStep
  <1>3. CASE Logout(r)
    <2>1. Tables' /\ TablesGrow /\ SessionsInv' /\ Finish(r, 204, Cleared)
      BY <1>3, LogoutTables DEF Logout
    <2>2. QED
      BY <1>1, <2>1, CookiesTyped, FinishStep
  <1>4. CASE RotateCsrf(r)
    <2>1. \E cookies \in CookieSets : Finish(r, 200, cookies)
      <3>1. Len(secrets) + 1 \in Nat
        BY <1>1
      <3>2. QED
        BY <1>4, <3>1, CookiesTyped DEF RotateCsrf
    <2>2. Tables' /\ TablesGrow /\ SessionsInv'
      BY <1>4, RotateTables
    <2>3. QED
      BY <1>1, <2>1, <2>2, FinishStep
  <1>5. CASE ReadOrganization(r) \/ RenameOrganization(r)
    <2>1. Finish(r, 200, NoneSet) /\ UNCHANGED <<clock, sessions, secrets, lastUse>>
      BY <1>5 DEF ReadOrganization, RenameOrganization
    <2>2. Tables' /\ TablesGrow /\ SessionsInv'
      BY <1>1, <2>1, TablesKept, SessionsKept
    <2>3. QED
      BY <1>1, <2>1, <2>2, CookiesTyped, FinishStep
  <1>6. QED
    BY <1>2, <1>3, <1>4, <1>5

LEMMA DeliverStep ==
  ASSUME AccessInv, NEW r \in Requests, NEW lost \in BOOLEAN, Deliver(r, lost)
  PROVE  AccessInv'
  <1>1. /\ UNCHANGED <<clock, sessions, secrets, role, req, seen, lastUse>>
        /\ pc[r] = "answer" /\ TypeInv /\ RequestInv(r)
    BY DEF Deliver, AccessInv
  <1>2. Tables' /\ TablesGrow /\ SessionsInv'
    BY <1>1, TablesKept, SessionsKept
  <1>3. jar' \in [CookieNames -> Nat]
    <2>1. jar \in [CookieNames -> Nat] /\ answer[r].cookies \in CookieSets
      BY <1>1 DEF TypeInv, Reply
    <2>2. PICK S \in SUBSET CookieNames : answer[r].cookies \in [S -> Nat]
      BY <2>1 DEF CookieSets
    <2>3. QED
      BY <2>1, <2>2 DEF Deliver
  <1>4. NoAnswer \in Reply
    BY CookiesTyped DEF NoAnswer, Reply
  <1>5. /\ pc' \in [Requests -> Labels] /\ answer' \in [Requests -> Reply]
        /\ req' \in [Requests -> Request] /\ seen' \in [Requests -> Observed]
        /\ pc'[r] = "idle"
        /\ \A q \in Requests \ {r} : pc'[q] = pc[q] /\ req'[q] = req[q] /\ seen'[q] = seen[q]
    BY <1>1, <1>4 DEF Deliver, TypeInv, Labels
  <1>6. RequestInv(r)'
    BY <1>1, <1>5 DEF RequestInv, Admitted
  <1>7. QED
    BY <1>1, <1>2, <1>3, <1>5, <1>6, RequestStep

LEMMA ChangeRoleStep ==
  ASSUME AccessInv, NEW newRole \in Roles, ChangeRole(newRole)
  PROVE  AccessInv'
  <1>1. /\ UNCHANGED <<clock, sessions, secrets, jar, pc, req, answer, lastUse>>
        /\ role' = newRole /\ TypeInv
        /\ seen' = [r \in Requests |-> [seen[r] EXCEPT !.everOwner =
                      @ \/ (pc[r] \notin {"idle", "answer"} /\ newRole = "owner")]]
    BY DEF ChangeRole, AccessInv
  <1>2. Tables' /\ TablesGrow /\ SessionsInv'
    BY <1>1, TablesKept, SessionsKept
  <1>3. clock' \in 0..MaxTime /\ clock' >= clock
    BY <1>1, NaturalTimeouts DEF TypeInv
  <1>4. ASSUME NEW q \in Requests
        PROVE  /\ seen'[q] \in Observed
               /\ seen'[q].now = seen[q].now /\ seen'[q].csrfSecret = seen[q].csrfSecret
               /\ seen'[q].everOwner =
                    (seen[q].everOwner \/ (pc[q] \notin {"idle", "answer"} /\ newRole = "owner"))
    <2>1. seen[q] \in Observed
      BY <1>1 DEF TypeInv
    <2>2. \A ever \in BOOLEAN :
            /\ [seen[q] EXCEPT !.everOwner = ever] \in Observed
            /\ [seen[q] EXCEPT !.everOwner = ever].now = seen[q].now
            /\ [seen[q] EXCEPT !.everOwner = ever].csrfSecret = seen[q].csrfSecret
            /\ [seen[q] EXCEPT !.everOwner = ever].everOwner = ever
      BY <2>1 DEF Observed
    <2>3. (seen[q].everOwner \/ (pc[q] \notin {"idle", "answer"} /\ newRole = "owner"))
            \in BOOLEAN
      OBVIOUS
    <2>4. seen'[q] = [seen[q] EXCEPT !.everOwner =
            seen[q].everOwner \/ (pc[q] \notin {"idle", "answer"} /\ newRole = "owner")]
      BY <1>1
    <2>5. QED
      BY <2>2, <2>3, <2>4
  <1>5. TypeInv'
    <2>1. seen' \in [Requests -> Observed]
      BY <1>1, <1>4
    <2>2. QED
      BY <1>1, <1>2, <2>1 DEF TypeInv, Tables
  <1>6. ASSUME NEW q \in Requests PROVE RequestInv(q)'
    <2>1. pc[q] \notin {"idle", "answer"} /\ role' = "owner" => seen'[q].everOwner
      BY <1>1, <1>4
    <2>2. seen[q].everOwner => seen'[q].everOwner
      BY <1>4
    <2>3. pc'[q] = pc[q] /\ req'[q] = req[q]
      BY <1>1
    <2>4. QED
      BY <1>2, <1>3, <1>4, <2>1, <2>2, <2>3, Bystander
  <1>7. QED
    BY <1>2, <1>5, <1>6 DEF AccessInv

LEMMA TickStep ==
  ASSUME AccessInv, Tick
  PROVE  AccessInv'
  <1>1. /\ UNCHANGED <<sessions, secrets, role, jar, pc, req, seen, answer, lastUse>>
        /\ clock < MaxTime /\ clock' = clock + 1 /\ TypeInv
    BY DEF Tick, AccessInv
  <1>2. Tables' /\ TablesGrow /\ SessionsInv'
    BY <1>1, TablesKept, SessionsKept
  <1>3. clock' \in 0..MaxTime /\ clock' >= clock
    BY <1>1, NaturalTimeouts DEF TypeInv
  <1>4. TypeInv'
    BY <1>1, <1>2, <1>3 DEF TypeInv, Tables
  <1>5. ASSUME NEW q \in Requests PROVE RequestInv(q)'
    <2>1. pc[q] \notin {"idle", "answer"} /\ role = "owner" => seen[q].everOwner
      BY DEF AccessInv, RequestInv
    <2>2. QED
      BY <1>1, <1>2, <1>3, <2>1, Bystander
  <1>6. QED
    BY <1>2, <1>4, <1>5 DEF AccessInv

-------------------------------------------------------------------------------
(* The theorems.                                                               *)

LEMMA AccessNext ==
  ASSUME AccessInv, [Next]_vars
  PROVE  AccessInv'
  <1>1. ASSUME NEW r \in Requests, NEW op \in Operations, Send(r, op) PROVE AccessInv'
    BY <1>1, SendStep
  <1>2. ASSUME NEW r \in Requests, Select(r) PROVE AccessInv'
    BY <1>2, SelectStep
  <1>3. ASSUME NEW r \in Requests, Touch(r) PROVE AccessInv'
    BY <1>3, TouchStep
  <1>4. ASSUME NEW r \in Requests, Guard(r) PROVE AccessInv'
    BY <1>4, GuardStep
  <1>5. ASSUME NEW r \in Requests,
               \/ Login(r) \/ Logout(r) \/ RotateCsrf(r)
               \/ ReadOrganization(r) \/ RenameOrganization(r)
        PROVE  AccessInv'
    BY <1>5, HandlerStep
  <1>6. ASSUME NEW r \in Requests, NEW lost \in BOOLEAN, Deliver(r, lost) PROVE AccessInv'
    BY <1>6, DeliverStep
  <1>7. ASSUME NEW newRole \in Roles, ChangeRole(newRole) PROVE AccessInv'
    BY <1>7, ChangeRoleStep
  <1>8. CASE Tick
    BY <1>8, TickStep
  <1>9. CASE UNCHANGED vars
    BY <1>9 DEF vars, AccessInv, TypeInv, SessionsInv, RequestInv, Admitted, Grounds, Token
  <1>10. QED
    BY <1>1, <1>2, <1>3, <1>4, <1>5, <1>6, <1>7, <1>8, <1>9 DEF Next

(* The inductive invariant of the guards' statements.                          *)
THEOREM AccessInvariant == Spec => []AccessInv
<1>1. AccessInv /\ [Next]_vars => AccessInv'
  BY AccessNext
<1>2. QED
  BY <1>1, AccessInit, PTL DEF Spec

(* Types of rows, cookies and requests (schema.ts, session.service.ts).        *)
THEOREM AccessTyped == Spec => []TypeOK
<1>1. AccessInv => TypeOK
  <2> SUFFICES ASSUME AccessInv PROVE TypeOK
    OBVIOUS
  <2>1. TypeInv
    BY DEF AccessInv
  <2>2. ASSUME NEW r \in Requests
        PROVE  /\ answer[r].status \in {0, 200, 204, 401, 403, 404}
               /\ DOMAIN answer[r].cookies \subseteq CookieNames
    <3>1. /\ answer[r].status \in {0, 200, 204, 401, 403, 404}
          /\ answer[r].cookies \in CookieSets
      BY <2>1 DEF TypeInv, Reply
    <3>2. PICK S \in SUBSET CookieNames : answer[r].cookies \in [S -> Nat]
      BY <3>1 DEF CookieSets
    <3>3. QED
      BY <3>1, <3>2
  <2>3. QED
    BY <2>1, <2>2 DEF TypeInv, TypeOK, Secret, Request, Observed, Labels
<1>2. QED
  BY <1>1, AccessInvariant, PTL

(* What a step may do to the tables, whichever it is.                          *)
LEMMA TablesStep ==
  ASSUME AccessInv, [Next]_vars
  PROVE  TablesGrow /\ clock' >= clock
  <1>1. TypeInv
    BY DEF AccessInv
  <1>2. ASSUME NEW r \in Requests, NEW op \in Operations, Send(r, op)
        PROVE  TablesGrow /\ UNCHANGED clock
    BY <1>1, <1>2, SendTables DEF Send
  <1>3. ASSUME NEW r \in Requests,
               \/ Select(r) \/ Guard(r) \/ ReadOrganization(r) \/ RenameOrganization(r)
               \/ \E lost \in BOOLEAN : Deliver(r, lost)
        PROVE  TablesGrow /\ UNCHANGED clock
    <2>1. UNCHANGED <<clock, sessions, secrets, lastUse>>
      BY <1>3 DEF Select, Guard, ReadOrganization, RenameOrganization, Deliver
    <2>2. QED
      BY <1>1, <2>1, TablesKept
  <1>4. ASSUME NEW r \in Requests, Touch(r) \/ Login(r) \/ Logout(r) \/ RotateCsrf(r)
        PROVE  TablesGrow /\ UNCHANGED clock
    BY <1>4, TouchTables, LoginTables, LogoutTables, RotateTables
       DEF Touch, Login, Logout, RotateCsrf
  <1>5. ASSUME (\E newRole \in Roles : ChangeRole(newRole)) \/ UNCHANGED vars
        PROVE  TablesGrow /\ UNCHANGED clock
    <2>1. UNCHANGED <<clock, sessions, secrets, lastUse>>
      BY <1>5 DEF ChangeRole, vars
    <2>2. QED
      BY <1>1, <2>1, TablesKept
  <1>6. CASE Tick
    <2>1. UNCHANGED <<sessions, secrets, lastUse>> /\ clock' = clock + 1
      BY <1>6 DEF Tick
    <2>2. QED
      BY <1>1, <2>1, TablesKept, NaturalTimeouts DEF TypeInv
  <1>7. clock \in Nat
    BY <1>1, NaturalTimeouts DEF TypeInv
  <1>8. QED
    BY <1>2, <1>3, <1>4, <1>5, <1>6, <1>7 DEF Next

(* A revoked or ended session is never valid again (SessionService.touch and   *)
(* revokeByToken).                                                             *)
THEOREM RevokedForGood == Spec => RevocationIsFinal
<1>1. AccessInv /\ [Next]_vars =>
        [\A t \in 1..Len(sessions) :
           sessions[t].revokedAt # Never \/ sessions[t].absoluteExpiresAt <= clock
             => ~ValidAt(t, clock)']_vars
  <2> SUFFICES ASSUME AccessInv, [Next]_vars, NEW t \in 1..Len(sessions),
                      sessions[t].revokedAt # Never \/ sessions[t].absoluteExpiresAt <= clock
               PROVE  ~ValidAt(t, clock)'
    OBVIOUS
  <2>1. /\ clock' >= clock
        /\ sessions'[t].absoluteExpiresAt = sessions[t].absoluteExpiresAt
        /\ sessions[t].revokedAt # Never => sessions'[t].revokedAt = sessions[t].revokedAt
    BY TablesStep DEF TablesGrow
  <2>2. clock \in Nat /\ clock' \in Nat /\ sessions[t] \in Session
    BY AccessNext, NaturalTimeouts DEF AccessInv, TypeInv
  <2>3. sessions[t].absoluteExpiresAt <= clock => ~(sessions'[t].absoluteExpiresAt > clock')
    BY <2>1, <2>2 DEF Session
  <2>4. Never' = Never
    BY DEF Never
  <2>5. QED
    BY <2>1, <2>3, <2>4 DEF ValidAt
<1>2. QED
  BY <1>1, AccessInvariant, PTL DEF Spec, RevocationIsFinal

(* An unused session expires, however late its updates land (validateToken and *)
(* touch).                                                                     *)
THEOREM IdleSessionsEnd == Spec => []UnusedSessionsExpire
<1>1. AccessInv => UnusedSessionsExpire
  <2> SUFFICES ASSUME AccessInv, NEW t \in 1..Len(sessions), ValidAt(t, clock)
               PROVE  clock < lastUse[t] + IDLE_TIMEOUT
    BY DEF UnusedSessionsExpire
  <2>1. /\ sessions[t].idleExpiresAt > clock
        /\ sessions[t].idleExpiresAt <= lastUse[t] + IDLE_TIMEOUT
    BY DEF ValidAt, AccessInv, SessionsInv
  <2>2. clock \in Nat /\ sessions[t] \in Session /\ t \in 1..MaxSessions
    BY NaturalTimeouts DEF AccessInv, TypeInv
  <2>3. sessions[t].idleExpiresAt \in Nat /\ lastUse[t] \in 0..MaxTime
    BY <2>2 DEF AccessInv, TypeInv, Session
  <2>4. QED
    BY <2>1, <2>2, <2>3, NaturalTimeouts
<1>2. QED
  BY <1>1, AccessInvariant, PTL

(* A rename that takes effect was admitted with a session, an owner's role and *)
(* a secret that all held at some time since it arrived (SessionAuthGuard,     *)
(* MembershipGuard, RolesGuard and CsrfGuard).                                 *)
THEOREM RenamesAreAuthorized == Spec => RenameIsAuthorized
<1>1. AccessInv =>
        \A r \in Requests : pc[r] = "handle" /\ req[r].op = "rename" =>
          LET t == Token(r)  now == seen[r].now  h == req[r].header IN
          /\ t \in 1..Len(sessions)
          /\ sessions[t].revokedAt >= now
          /\ sessions[t].absoluteExpiresAt > now
          /\ seen[r].everOwner
          /\ h \in 1..Len(secrets)
          /\ secrets[h].token = t
          /\ secrets[h].until >= now
  <2> SUFFICES ASSUME AccessInv, NEW r \in Requests, pc[r] = "handle", req[r].op = "rename"
               PROVE  /\ Grounds(Token(r), req[r].header, seen[r].now)
                      /\ seen[r].everOwner
    BY DEF Grounds
  <2>1. RequestInv(r) /\ Admitted(r)
    BY DEF AccessInv, Admitted
  <2>2. QED
    BY <2>1 DEF RequestInv
<1>2. AccessInv /\ [Next]_vars =>
        [\A r \in Requests :
           pc[r] = "handle" /\ req[r].op = "rename" /\ pc'[r] = "answer"
             => LET t == Token(r)  now == seen[r].now  h == req[r].header IN
                /\ t \in 1..Len(sessions)
                /\ sessions[t].revokedAt >= now
                /\ sessions[t].absoluteExpiresAt > now
                /\ seen[r].everOwner
                /\ h \in 1..Len(secrets)
                /\ secrets[h].token = t
                /\ secrets[h].until >= now]_vars
  BY <1>1
<1>3. QED
  BY <1>2, AccessInvariant, PTL DEF Spec, RenameIsAuthorized

(* With plain cookie names no request with a valid session's cookie is answered *)
(* 401 (SessionAuthGuard reads SESSION_COOKIE_NAME, whatever NODE_ENV says).    *)
THEOREM LiveCookiesAccepted ==
  ASSUME Production = FALSE
  PROVE  Spec => LiveCookieIsAccepted
<1>1. resolveCookieNames.session = SESSION_COOKIE_NAME
  BY DEF resolveCookieNames
<1>2. AccessInv /\ [Next]_vars =>
        [\A r \in Requests :
           pc[r] # "answer" /\ pc'[r] = "answer" /\ answer'[r].status = 401
             => LET cookies == IF pc[r] = "idle" THEN jar ELSE req[r].cookies IN
                ~ValidAt(cookies[resolveCookieNames.session], clock)]_vars
  <2> SUFFICES ASSUME AccessInv, [Next]_vars, NEW r \in Requests,
                      pc[r] # "answer", pc'[r] = "answer", answer'[r].status = 401
               PROVE  ~ValidAt((IF pc[r] = "idle" THEN jar ELSE req[r].cookies)
                                 [SESSION_COOKIE_NAME], clock)
    BY <1>1
  <2>1. TypeInv
    BY DEF AccessInv
  <2>2. ASSUME NEW q \in Requests, NEW status \in {200, 204, 403, 404}, NEW cookies,
               Finish(q, status, cookies)
        PROVE  FALSE
    BY <2>1, <2>2 DEF Finish, TypeInv
  <2>3. ASSUME NEW q \in Requests, NEW cookies, Finish(q, 401, cookies)
        PROVE  q = r
    BY <2>1, <2>3 DEF Finish, TypeInv
  <2>4. ASSUME NEW q \in Requests, NEW label \in Labels \ {"answer"}, Continue(q, label)
        PROVE  FALSE
    BY <2>1, <2>4 DEF Continue, TypeInv
  <2>5. CASE UNCHANGED pc
    BY <2>5
  <2>6. ASSUME NEW q \in Requests, NEW op \in Operations, Send(q, op)
        PROVE  pc[r] = "idle" /\ ~ValidAt(jar[SESSION_COOKIE_NAME], clock)
    <3>1. Finish(q, 401, NoneSet) /\ jar[SESSION_COOKIE_NAME] = 0 /\ pc[q] = "idle"
      BY <2>4, <2>6 DEF Send, Labels
    <3>2. QED
      BY <2>3, <3>1 DEF ValidAt
  <2>7. ASSUME NEW q \in Requests, Select(q)
        PROVE  pc[r] = "select" /\ ~ValidAt(req[r].cookies[SESSION_COOKIE_NAME], clock)
    <3>1. Finish(q, 401, NoneSet) /\ ~Live(Token(q), seen[q].now) /\ pc[q] = "select"
      BY <2>4, <2>7 DEF Select, Labels
    <3>2. q = r
      BY <2>3, <3>1
    <3>3. seen[r].now <= clock /\ seen[r].now \in Nat /\ clock \in Nat
      BY <2>1, NaturalTimeouts DEF AccessInv, RequestInv, TypeInv, Observed
    <3>4. ~ValidAt(Token(r), clock)
      <4> SUFFICES ASSUME ValidAt(Token(r), clock) PROVE Live(Token(r), seen[r].now)
        BY <3>1, <3>2
      <4>1. sessions[Token(r)] \in Session
        BY <2>1 DEF ValidAt, TypeInv
      <4>2. /\ sessions[Token(r)].idleExpiresAt \in Nat
            /\ sessions[Token(r)].absoluteExpiresAt \in Nat
        BY <4>1 DEF Session
      <4>3. QED
        BY <3>3, <4>2 DEF ValidAt, Live
    <3>5. QED
      BY <3>1, <3>2, <3>4 DEF Token
  <2>8. ASSUME NEW q \in Requests, Touch(q) \/ Guard(q) PROVE FALSE
    BY <2>2, <2>4, <2>8 DEF Touch, Guard, Labels
  <2>9. ASSUME NEW q \in Requests,
               \/ Login(q) \/ Logout(q) \/ RotateCsrf(q)
               \/ ReadOrganization(q) \/ RenameOrganization(q)
        PROVE  FALSE
    BY <2>2, <2>9 DEF Login, Logout, RotateCsrf, ReadOrganization, RenameOrganization
  <2>10. ASSUME NEW q \in Requests, NEW lost \in BOOLEAN, Deliver(q, lost) PROVE FALSE
    BY <2>1, <2>10 DEF Deliver, TypeInv
  <2>11. ASSUME (\E newRole \in Roles : ChangeRole(newRole)) \/ Tick \/ UNCHANGED vars
         PROVE  UNCHANGED pc
    BY <2>11 DEF ChangeRole, Tick, vars
  <2>12. QED
    BY <2>5, <2>6, <2>7, <2>8, <2>9, <2>10, <2>11 DEF Next
<1>3. Spec => [][\A r \in Requests :
        pc[r] # "answer" /\ pc'[r] = "answer" /\ answer'[r].status = 401
          => LET cookies == IF pc[r] = "idle" THEN jar ELSE req[r].cookies IN
             ~ValidAt(cookies[resolveCookieNames.session], clock)]_vars
  BY <1>2, AccessInvariant, PTL DEF Spec
<1>4. QED
  BY <1>3 DEF LiveCookieIsAccepted
===============================================================================
