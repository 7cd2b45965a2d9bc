---------------------------- MODULE WebContextsProofs ----------------------------
(***************************************************************************)
(* TLAPS proofs of the three invariants of WebContexts, for any users,     *)
(* organizations, memberships, and number of logins.                       *)
(***************************************************************************)
EXTENDS WebContexts, TLAPS

Somebody == Users \cup {None}
Session  == [user: Users, live: BOOLEAN]
Selection == Organizations \cup {None}
Provider == [mounted: BOOLEAN, organizations: SUBSET Selection, current: Selection,
             loads: SUBSET Somebody, mixed: BOOLEAN]
Fetches  == [org: Organizations, as: Somebody, effect: BOOLEAN]

(* A session number that is in use names a row of the table.                   *)
AuthInv ==
  /\ sessions \in Seq(Session)
  /\ cookie \in 0..Len(sessions)
  /\ user \in Somebody
  /\ me \in [sent: BOOLEAN, session: 0..Len(sessions), user: Somebody]
  /\ me.user # None => me.session # 0 /\ sessions[me.session].user = me.user
  /\ form \in [Forms -> [stage: {"idle", "login", "me"}, session: 0..Len(sessions)]]
  /\ \A f \in Forms : form[f].stage = "me" => form[f].session # 0
  /\ logout \in [stage: {"idle", "sent", "handled"}, session: 0..Len(sessions)]

(* What a page awaits and shows is of the organization selected.               *)
PageInv ==
  /\ page \in [loading: BOOLEAN, shown: Selection, fetches: SUBSET Fetches]
  /\ \A f \in page.fetches : f.org = provider.current
  /\ page.shown # None => page.shown = provider.current

(* A provider of one user lists and selects what is that user's.               *)
ProviderInv ==
  /\ provider \in Provider
  /\ ~provider.mounted => provider = NoProvider
  /\ provider.mounted => user \in Users
  /\ provider.mounted /\ ~provider.mixed =>
       /\ provider.loads \subseteq {None, user}
       /\ provider.organizations \subseteq Memberships[user] \cup {None}
       /\ provider.current # None => provider.current \in Memberships[user]

TabInv == AuthInv /\ PageInv /\ ProviderInv

-------------------------------------------------------------------------------
LEMMA OwnerIsSomebody ==
  ASSUME AuthInv, NEW n \in 0..Len(sessions)
  PROVE  Owner(n) \in Somebody
  <1>1. CASE n # 0
    <2>1. sessions \in Seq(Session) /\ Len(sessions) \in Nat
      BY DEF AuthInv
    <2>2. n \in 1..Len(sessions)
      BY <1>1, <2>1
    <2>3. sessions[n] \in Session
      BY <2>1, <2>2
    <2>4. QED
      BY <2>3 DEF Owner, Somebody, Session
  <1>2. CASE n = 0
    BY <1>2 DEF Owner, Somebody
  <1>3. QED
    BY <1>1, <1>2

LEMMA TabInit == Init => TabInv /\ UserIsSession
  <1> SUFFICES ASSUME Init PROVE TabInv /\ UserIsSession
    OBVIOUS
  <1>1. AuthInv
    <2>1. Owner(0) = None
      BY DEF Owner
    <2>2. /\ sessions = <<>> /\ cookie = 0 /\ user = None /\ overtaken = FALSE
          /\ me = [sent |-> TRUE, session |-> 0, user |-> None]
          /\ form = [f \in Forms |-> [stage |-> "idle", session |-> 0]]
          /\ logout = [stage |-> "idle", session |-> 0]
      BY <2>1 DEF Init, Check, Idle
    <2>3. sessions \in Seq(Session) /\ Len(sessions) = 0
      BY <2>2
    <2>4. /\ cookie \in 0..Len(sessions) /\ user \in Somebody
          /\ me \in [sent: BOOLEAN, session: 0..Len(sessions), user: Somebody]
          /\ me.user = None
          /\ logout \in [stage: {"idle", "sent", "handled"}, session: 0..Len(sessions)]
      BY <2>2, <2>3 DEF Somebody
    <2>5. /\ form \in [Forms -> [stage: {"idle", "login", "me"}, session: 0..Len(sessions)]]
          /\ \A f \in Forms : form[f].stage = "idle"
      BY <2>2, <2>3
    <2>6. QED
      BY <2>3, <2>4, <2>5 DEF AuthInv
  <1>2. PageInv
    BY DEF Init, PageInv, NoPage, Selection
  <1>3. ProviderInv
    BY DEF Init, ProviderInv, Provider, NoProvider, NoList, Selection, Somebody
  <1>4. UserIsSession
    BY DEF Init, UserIsSession
  <1>5. QED
    BY <1>1, <1>2, <1>3, <1>4 DEF TabInv

-------------------------------------------------------------------------------
(* Rendering.                                                                  *)

(* The page a provider is given keeps to its organization.                     *)
LEMMA KeyedStep ==
  ASSUME PageInv, Owner(cookie) \in Somebody, NEW p \in Provider, Keyed(p)
  PROVE  PageInv' /\ provider' = p
  <1>1. provider' = p
    BY DEF Keyed
  <1>2. CASE ~p.mounted
    BY <1>1, <1>2 DEF Keyed, PageInv, NoPage, Selection
  <1>3. CASE p.mounted /\ provider.mounted /\ p.current = provider.current
    BY <1>1, <1>3 DEF Keyed, PageInv
  <1>4. CASE p.mounted /\ ~(provider.mounted /\ p.current = provider.current)
    <2>1. page' = NewPage(p.current)
      BY <1>4 DEF Keyed
    <2>2. p.current \in Selection
      BY DEF Provider
    <2>3. p.current # None => Fetch(p.current, TRUE) \in Fetches
                              /\ Fetch(p.current, TRUE).org = p.current
      BY <2>2 DEF Fetch, Fetches, Selection
    <2>4. QED
      BY <1>1, <2>1, <2>3 DEF NewPage, PageInv, Selection
  <1>5. QED
    BY <1>1, <1>2, <1>3, <1>4

(* A load asks for the user's own organizations, or the provider is mixed.     *)
LEMMA LoadStep ==
  ASSUME Owner(cookie) \in Somebody, NEW p \in Provider, NEW as
  PROVE  /\ Load(p, as) \in Provider
         /\ Load(p, as).mounted = p.mounted
         /\ Load(p, as).organizations = p.organizations
         /\ Load(p, as).current = p.current
         /\ Load(p, as).loads = p.loads \cup {Owner(cookie)}
         /\ ~Load(p, as).mixed => ~p.mixed /\ Owner(cookie) \in {None, as}
  BY DEF Load, Provider

LEMMA RenderStep ==
  ASSUME TabInv, Owner(cookie) \in Somebody, NEW newPath, NEW newUser \in Somebody,
         Render(newPath, newUser)
  PROVE  PageInv' /\ ProviderInv' /\ user' = newUser
  <1>1. user' = newUser
    BY DEF Render
  <1>2. NoProvider \in Provider
    BY DEF Provider, NoProvider, NoList, Selection, Somebody
  <1>3. CASE newPath # "dashboard" \/ newUser = None
    <2>1. Keyed(NoProvider)
      BY <1>3 DEF Render
    <2>2. PageInv' /\ provider' = NoProvider
      BY <1>2, <2>1, KeyedStep DEF TabInv
    <2>3. ProviderInv'
      BY <1>2, <2>2 DEF ProviderInv, NoProvider
    <2>4. QED
      BY <1>1, <2>2, <2>3
  <1>4. ASSUME newUser # None, NEW p \in Provider, p.mounted, Keyed(Load(p, newUser)),
               ~p.mixed => /\ p.loads \subseteq {None, newUser}
                           /\ p.organizations \subseteq Memberships[newUser] \cup {None}
                           /\ p.current # None => p.current \in Memberships[newUser]
        PROVE  PageInv' /\ ProviderInv'
    <2>1. PageInv' /\ provider' = Load(p, newUser)
      BY <1>4, LoadStep, KeyedStep DEF TabInv
    <2>2. newUser \in Users
      BY <1>4 DEF Somebody
    <2>3. ProviderInv'
      BY <1>1, <1>4, <2>1, <2>2, LoadStep DEF ProviderInv
    <2>4. QED
      BY <2>1, <2>3
  <1>5. CASE newPath = "dashboard" /\ newUser # None /\ provider.mounted
    <2> DEFINE p == [provider EXCEPT !.mixed = @ \/ newUser # user]
    <2>1. /\ p \in Provider /\ p.mounted
          /\ p.loads = provider.loads /\ p.organizations = provider.organizations
          /\ p.current = provider.current
          /\ ~p.mixed => ~provider.mixed /\ newUser = user
      BY <1>5 DEF TabInv, ProviderInv, Provider
    <2>2. Keyed(Load(p, newUser))
      BY <1>5 DEF Render
    <2> HIDE DEF p
    <2>3. ~p.mixed => /\ p.loads \subseteq {None, newUser}
                      /\ p.organizations \subseteq Memberships[newUser] \cup {None}
                      /\ p.current # None => p.current \in Memberships[newUser]
      BY <1>5, <2>1 DEF TabInv, ProviderInv
    <2>4. QED
      BY <1>1, <1>4, <1>5, <2>1, <2>2, <2>3
  <1>6. CASE newPath = "dashboard" /\ newUser # None /\ ~provider.mounted
    <2> DEFINE p == [NoProvider EXCEPT !.mounted = TRUE]
    <2>1. /\ p \in Provider /\ p.mounted /\ p.loads = {} /\ p.organizations = {None}
          /\ p.current = None
      BY <1>2 DEF Provider, NoProvider, NoList
    <2>2. Keyed(Load(p, newUser))
      BY <1>6 DEF Render
    <2> HIDE DEF p
    <2>3. QED
      BY <1>1, <1>4, <1>6, <2>1, <2>2
  <1>7. QED
    BY <1>1, <1>3, <1>5, <1>6

-------------------------------------------------------------------------------
(* Who is signed in.                                                           *)

(* Steps that change none of it.                                               *)
LEMMA AuthFrame ==
  ASSUME AuthInv, UserIsSession,
         UNCHANGED <<sessions, cookie, user, me, form, logout, overtaken>>
  PROVE  AuthInv' /\ UserIsSession'
  BY DEF AuthInv, UserIsSession, LoginPending

(* A check that is answered: the user is the session's, if it is still that.   *)
LEMMA SetUserStep ==
  ASSUME AuthInv, NEW check, NEW answered \in BOOLEAN, NEW newPath,
         check.session \in 0..Len(sessions), check.user \in Somebody,
         check.user # None =>
           check.session # 0 /\ sessions[check.session].user = check.user,
         SetUser(check, answered, newPath), UNCHANGED <<sessions, cookie>>
  PROVE  /\ user' \in Somebody
         /\ user' # None /\ ~overtaken' => cookie' # 0 /\ sessions'[cookie'].user = user'
  <1>1. user' = Checked(check, answered)
    BY DEF SetUser, Render
  <1>2. QED
    BY <1>1 DEF SetUser, Checked, Somebody

LEMMA AuthNext ==
  ASSUME TabInv, UserIsSession, [Next]_vars
  PROVE  AuthInv' /\ UserIsSession'
  <1>1. AuthInv
    BY DEF TabInv
  <1>2. ASSUME NEW answered \in BOOLEAN, MeAnswered(answered)
        PROVE  AuthInv' /\ UserIsSession'
    <2>1. /\ user' \in Somebody
          /\ user' # None /\ ~overtaken' => cookie' # 0 /\ sessions'[cookie'].user = user'
      <3>1. /\ me.session \in 0..Len(sessions) /\ me.user \in Somebody
            /\ me.user # None => me.session # 0 /\ sessions[me.session].user = me.user
            /\ SetUser(me, answered, path) /\ UNCHANGED <<sessions, cookie>>
        BY <1>1, <1>2 DEF AuthInv, MeAnswered
      <3>2. QED
        BY <1>1, <3>1, SetUserStep
    <2>2. /\ UNCHANGED <<sessions, cookie, form, logout>>
          /\ me' = [sent |-> FALSE, session |-> 0, user |-> None]
      BY <1>2 DEF MeAnswered, NoCheck
    <2>3. AuthInv'
      BY <1>1, <2>1, <2>2 DEF AuthInv, Somebody
    <2>4. UserIsSession'
      BY <2>1 DEF UserIsSession
    <2>5. QED
      BY <2>3, <2>4
  <1>3. ASSUME NEW answered \in BOOLEAN, LogoutEnds(answered)
        PROVE  AuthInv' /\ UserIsSession'
    <2>1. /\ user' = None /\ overtaken' = FALSE
          /\ cookie' = 0 \/ cookie' = cookie
          /\ logout' = [stage |-> "idle", session |-> 0]
          /\ UNCHANGED <<sessions, me, form>>
      BY <1>3 DEF LogoutEnds, Render, Idle
    <2>2. Len(sessions) \in Nat
      BY <1>1 DEF AuthInv
    <2>3. AuthInv'
      <3>1. logout' \in [stage: {"idle", "sent", "handled"}, session: 0..Len(sessions)]
        BY <2>1, <2>2
      <3>2. cookie' \in 0..Len(sessions) /\ user' \in Somebody
        BY <1>1, <2>1, <2>2 DEF AuthInv, Somebody
      <3>3. QED
        BY <1>1, <2>1, <3>1, <3>2 DEF AuthInv
    <2>4. UserIsSession'
      BY <2>1 DEF UserIsSession
    <2>5. QED
      BY <2>3, <2>4
  <1>4. ASSUME NEW answered \in BOOLEAN, NEW f \in Forms, Refreshed(f, answered)
        PROVE  AuthInv' /\ UserIsSession'
    <2> DEFINE n == form[f].session
               check == [session |-> n, user |-> sessions[n].user]
    <2>1. n \in 0..Len(sessions) /\ n # 0
      BY <1>1, <1>4 DEF AuthInv, Refreshed
    <2>2. sessions[n] \in Session
      <3>1. sessions \in Seq(Session) /\ Len(sessions) \in Nat
        BY <1>1 DEF AuthInv
      <3>2. n \in 1..Len(sessions)
        BY <2>1, <3>1
      <3>3. QED
        BY <3>1, <3>2
    <2>3. check.session = n /\ check.user = sessions[n].user /\ check.user \in Somebody
      BY <2>2 DEF Somebody, Session
    <2>4. SetUser(check, answered, "dashboard") /\ UNCHANGED <<sessions, cookie, me, logout>>
      BY <1>4 DEF Refreshed
    <2> HIDE DEF check
    <2>5. /\ user' \in Somebody
          /\ user' # None /\ ~overtaken' => cookie' # 0 /\ sessions'[cookie'].user = user'
      BY <1>1, <2>1, <2>3, <2>4, SetUserStep
    <2>6. form' = [form EXCEPT ![f] = [stage |-> "idle", session |-> 0]]
      BY <1>4 DEF Refreshed, Idle
    <2>7. Len(sessions) \in Nat
      BY <1>1 DEF AuthInv
    <2> HIDE DEF n
    <2>8. AuthInv'
      BY <1>1, <2>4, <2>5, <2>6, <2>7 DEF AuthInv
    <2>9. UserIsSession'
      BY <2>5 DEF UserIsSession
    <2>10. QED
      BY <2>8, <2>9
  <1>5. CASE Logout
    <2>1. /\ UNCHANGED <<sessions, cookie, user, overtaken, me, form>>
          /\ logout' = [stage |-> "sent", session |-> cookie]
      BY <1>5 DEF Logout, auth
    <2>2. AuthInv'
      BY <1>1, <2>1 DEF AuthInv
    <2>3. UserIsSession'
      BY <2>1 DEF UserIsSession, LoginPending
    <2>4. QED
      BY <2>2, <2>3
  <1>6. ASSUME NEW n \in 0..Len(sessions), Owner(n) # None,
               sessions' = [sessions EXCEPT ![n].live = FALSE],
               UNCHANGED <<cookie, user, overtaken, me, form>>,
               logout' \in [stage: {"idle", "sent", "handled"}, session: 0..Len(sessions)]
        PROVE  AuthInv' /\ UserIsSession'
    <2>1. n \in 1..Len(sessions) /\ Len(sessions) \in Nat
      BY <1>1, <1>6 DEF Owner, AuthInv
    <2>2. /\ sessions' \in Seq(Session)
          /\ Len(sessions') = Len(sessions)
          /\ \A m \in 1..Len(sessions) : sessions'[m].user = sessions[m].user
      <3>1. sessions \in Seq(Session)
        BY <1>1 DEF AuthInv
      <3>2. sessions[n] \in Session
        BY <2>1, <3>1
      <3> DEFINE row == [sessions[n] EXCEPT !.live = FALSE]
      <3>3. row \in Session /\ row.user = sessions[n].user
        BY <3>2 DEF Session
      <3>4. sessions' = [sessions EXCEPT ![n] = row]
        BY <1>6
      <3> HIDE DEF row
      <3>5. QED
        BY <2>1, <3>1, <3>3, <3>4
    <2>3. AuthInv'
      BY <1>1, <1>6, <2>1, <2>2 DEF AuthInv
    <2>4. UserIsSession'
      BY <1>1, <1>6, <2>1, <2>2 DEF UserIsSession, LoginPending, AuthInv
    <2>5. QED
      BY <2>3, <2>4
  <1>7. CASE LogoutHandled
    <2>1. logout' \in [stage: {"idle", "sent", "handled"}, session: 0..Len(sessions)]
      BY <1>1, <1>7 DEF AuthInv, LogoutHandled
    <2>2. logout.session \in 0..Len(sessions)
      BY <1>1 DEF AuthInv
    <2>3. QED
      BY <1>6, <1>7, <2>1, <2>2 DEF LogoutHandled, auth
  <1>8. CASE Expire
    <2>1. cookie \in 0..Len(sessions)
          /\ logout \in [stage: {"idle", "sent", "handled"}, session: 0..Len(sessions)]
      BY <1>1 DEF AuthInv
    <2>2. QED
      BY <1>6, <1>8, <2>1 DEF Expire, auth
  <1>9. ASSUME NEW f \in Forms, Submit(f)
        PROVE  AuthInv' /\ UserIsSession'
    <2>1. /\ UNCHANGED <<sessions, cookie, user, overtaken, me, logout>>
          /\ form' = [form EXCEPT ![f].stage = "login"] /\ form[f].stage = "idle"
      BY <1>9 DEF Submit, auth, Idle
    <2>2. AuthInv'
      BY <1>1, <2>1 DEF AuthInv
    <2>3. LoginPending => LoginPending'
      BY <1>1, <2>1 DEF AuthInv, LoginPending
    <2>4. UserIsSession'
      BY <2>1, <2>3 DEF UserIsSession
    <2>5. QED
      BY <2>2, <2>4
  <1>10. ASSUME NEW f \in Forms, LoginFailed(f)
        PROVE  AuthInv' /\ UserIsSession'
    <2>1. /\ UNCHANGED <<sessions, cookie, user, overtaken, me, logout>>
          /\ form' = [form EXCEPT ![f] = [stage |-> "idle", session |-> 0]]
          /\ form[f].stage = "login"
      BY <1>10 DEF LoginFailed, auth, Idle
    <2>2. Len(sessions) \in Nat
      BY <1>1 DEF AuthInv
    <2>3. AuthInv'
      BY <1>1, <2>1, <2>2 DEF AuthInv
    <2>4. LoginPending => LoginPending'
      BY <1>1, <2>1 DEF AuthInv, LoginPending
    <2>5. UserIsSession'
      BY <2>1, <2>4 DEF UserIsSession
    <2>6. QED
      BY <2>3, <2>5
  <1>11. ASSUME NEW f \in Forms, NEW u \in Users, LoggedIn(f, u)
         PROVE  AuthInv' /\ UserIsSession'
    <2> DEFINE row == [user |-> u, live |-> TRUE]
    <2>1. sessions \in Seq(Session) /\ Len(sessions) \in Nat
      BY <1>1 DEF AuthInv
    <2>2. row \in Session /\ sessions' = Append(sessions, row)
      BY <1>11 DEF LoggedIn, Session
    <2> HIDE DEF row
    <2>3. /\ sessions' \in Seq(Session)
          /\ Len(sessions') = Len(sessions) + 1
          /\ \A m \in 1..Len(sessions) : sessions'[m] = sessions[m]
      BY <2>1, <2>2
    <2>4. /\ UNCHANGED <<user, overtaken, me, logout>>
          /\ cookie' = Len(sessions) + 1
          /\ form' = [form EXCEPT ![f] = [stage |-> "me", session |-> Len(sessions) + 1]]
      BY <1>11 DEF LoggedIn, auth
    <2>5. \A m \in 0..Len(sessions) : m \in 0..Len(sessions')
      BY <2>1, <2>3
    <2>6. AuthInv'
      <3>1. form' \in [Forms -> [stage: {"idle", "login", "me"}, session: 0..Len(sessions')]]
        BY <1>1, <2>1, <2>3, <2>4, <2>5 DEF AuthInv
      <3>2. \A g \in Forms : form'[g].stage = "me" => form'[g].session # 0
        BY <1>1, <2>1, <2>4 DEF AuthInv
      <3>3. me \in [sent: BOOLEAN, session: 0..Len(sessions'), user: Somebody]
        BY <1>1, <2>5 DEF AuthInv
      <3>4. logout \in [stage: {"idle", "sent", "handled"}, session: 0..Len(sessions')]
        BY <1>1, <2>5 DEF AuthInv
      <3>5. me.user # None => me.session # 0 /\ sessions'[me.session].user = me.user
        BY <1>1, <2>3 DEF AuthInv
      <3>6. QED
        BY <1>1, <2>1, <2>3, <2>4, <3>1, <3>2, <3>3, <3>4, <3>5 DEF AuthInv
    <2>7. LoginPending'
      BY <1>1, <2>4 DEF AuthInv, LoginPending
    <2>8. QED
      BY <2>6, <2>7 DEF UserIsSession
  <1>12. CASE Redirect
    <2>1. UNCHANGED <<sessions, cookie, me, form, logout, overtaken>> /\ user' = None
      BY <1>12 DEF Redirect, Render
    <2>2. QED
      BY <1>1, <2>1 DEF AuthInv, Somebody, UserIsSession
  <1>13. ASSUME NEW p, NEW u, Render(p, user), UNCHANGED <<sessions, cookie, me, form, logout, overtaken>>
         PROVE  AuthInv' /\ UserIsSession'
    BY <1>1, <1>13, AuthFrame DEF Render
  <1>14. ASSUME NEW p \in {"public", "dashboard"}, Open(p)
         PROVE  AuthInv' /\ UserIsSession'
    <2>1. /\ UNCHANGED <<sessions, cookie>> /\ user' = None /\ overtaken' = FALSE
          /\ me' = [sent |-> TRUE, session |-> cookie, user |-> Owner(cookie)]
          /\ form' = [f \in Forms |-> [stage |-> "idle", session |-> 0]]
          /\ logout' = [stage |-> "idle", session |-> 0]
      BY <1>14 DEF Open, Check, Idle
    <2>2. /\ cookie \in 0..Len(sessions) /\ Len(sessions) \in Nat
          /\ Owner(cookie) \in Somebody
          /\ Owner(cookie) # None => cookie # 0 /\ sessions[cookie].user = Owner(cookie)
      <3>1. cookie \in 0..Len(sessions) /\ Len(sessions) \in Nat
        BY <1>1 DEF AuthInv
      <3>2. QED
        BY <1>1, <3>1, OwnerIsSomebody DEF Owner
    <2>3. AuthInv'
      <3>1. /\ user' \in Somebody
            /\ me' \in [sent: BOOLEAN, session: 0..Len(sessions), user: Somebody]
            /\ me'.user # None => me'.session # 0 /\ sessions[me'.session].user = me'.user
            /\ logout' \in [stage: {"idle", "sent", "handled"}, session: 0..Len(sessions)]
        BY <2>1, <2>2 DEF Somebody
      <3>2. /\ form' \in [Forms -> [stage: {"idle", "login", "me"}, session: 0..Len(sessions)]]
            /\ \A f \in Forms : form'[f].stage = "idle"
        BY <2>1, <2>2
      <3>3. QED
        BY <1>1, <2>1, <3>1, <3>2 DEF AuthInv
    <2>4. QED
      BY <2>1, <2>3 DEF UserIsSession
  <1>15. CASE Next
    <2>1. ASSUME NEW p \in {"public", "dashboard"}, Navigate(p)
          PROVE  AuthInv' /\ UserIsSession'
      BY <1>13, <2>1 DEF Navigate
    <2>2. ASSUME NEW f, SessionExpired(f)
          PROVE  AuthInv' /\ UserIsSession'
      BY <1>13, <2>2 DEF SessionExpired
    <2>3. ASSUME NEW u, NEW answered, OrganizationsLoaded(u, answered)
          PROVE  AuthInv' /\ UserIsSession'
      BY <1>1, <2>3, AuthFrame DEF OrganizationsLoaded, auth
    <2>4. ASSUME NEW o, switchOrganization(o)
          PROVE  AuthInv' /\ UserIsSession'
      BY <1>1, <2>4, AuthFrame DEF switchOrganization, auth
    <2>5. ASSUME NEW f, Fetched(f)
          PROVE  AuthInv' /\ UserIsSession'
      BY <1>1, <2>5, AuthFrame DEF Fetched, auth
    <2>6. CASE Visit \/ refreshOrganizations \/ Reload
      BY <1>1, <2>6, AuthFrame DEF Visit, refreshOrganizations, Reload, auth
    <2>7. QED
      BY <1>2, <1>3, <1>4, <1>5, <1>7, <1>8, <1>9, <1>10, <1>11, <1>12, <1>14, <1>15,
         <2>1, <2>2, <2>3, <2>4, <2>5, <2>6 DEF Next
  <1>16. CASE UNCHANGED vars
    BY <1>1, <1>16, AuthFrame DEF vars
  <1>17. QED
    BY <1>15, <1>16

-------------------------------------------------------------------------------
(* What is selected and shown.                                                 *)

LEMMA ContextNext ==
  ASSUME TabInv, [Next]_vars
  PROVE  PageInv' /\ ProviderInv'
  <1>1. AuthInv /\ PageInv /\ ProviderInv
    BY DEF TabInv
  <1>2. user \in Somebody /\ cookie \in 0..Len(sessions) /\ None \in Somebody
    BY <1>1 DEF AuthInv, Somebody
  <1>3. Owner(cookie) \in Somebody
    BY <1>1, <1>2, OwnerIsSomebody
  <1>4. ASSUME UNCHANGED <<provider, page, user>>
        PROVE  PageInv' /\ ProviderInv'
    BY <1>1, <1>4 DEF PageInv, ProviderInv
  <1>5. ASSUME NEW newPath, NEW newUser \in Somebody, Render(newPath, newUser)
        PROVE  PageInv' /\ ProviderInv'
    BY <1>3, <1>5, RenderStep
  <1>6. ASSUME NEW check, NEW answered, NEW newPath, check.user \in Somebody,
               SetUser(check, answered, newPath)
        PROVE  PageInv' /\ ProviderInv'
    <2>1. Checked(check, answered) \in Somebody
      BY <1>2, <1>6 DEF Checked
    <2>2. QED
      BY <1>5, <1>6, <2>1 DEF SetUser
  <1>7. ASSUME NEW answered, MeAnswered(answered) PROVE PageInv' /\ ProviderInv'
    BY <1>1, <1>6, <1>7 DEF MeAnswered, AuthInv
  <1>8. ASSUME NEW f \in Forms, NEW answered, Refreshed(f, answered)
        PROVE  PageInv' /\ ProviderInv'
    <2> DEFINE n == form[f].session
               check == [session |-> n, user |-> sessions[n].user]
    <2>1. sessions \in Seq(Session) /\ Len(sessions) \in Nat
      BY <1>1 DEF AuthInv
    <2>2. n \in 1..Len(sessions)
      BY <1>1, <1>8, <2>1 DEF AuthInv, Refreshed
    <2>3. sessions[n] \in Session
      BY <2>1, <2>2
    <2>4. check.user \in Somebody
      BY <2>3 DEF Somebody, Session
    <2>5. SetUser(check, answered, "dashboard")
      BY <1>8 DEF Refreshed
    <2>6. QED
      BY <1>6, <2>4, <2>5
  <1>9. ASSUME NEW answered, LogoutEnds(answered) PROVE PageInv' /\ ProviderInv'
    BY <1>2, <1>5, <1>9 DEF LogoutEnds
  <1>10. ASSUME NEW newPath, Navigate(newPath) PROVE PageInv' /\ ProviderInv'
    BY <1>2, <1>5, <1>10 DEF Navigate
  <1>11. CASE Redirect
    BY <1>2, <1>5, <1>11 DEF Redirect
  <1>12. ASSUME NEW f \in page.fetches, SessionExpired(f) PROVE PageInv' /\ ProviderInv'
    BY <1>2, <1>5, <1>12 DEF SessionExpired
  <1>13. ASSUME NEW newPath, Open(newPath) PROVE PageInv' /\ ProviderInv'
    <2>1. provider' = NoProvider /\ page' = NoPage
      BY <1>13 DEF Open
    <2>2. NoProvider \in Provider
      BY DEF Provider, NoProvider, NoList, Selection, Somebody
    <2>3. PageInv'
      BY <2>1 DEF PageInv, NoPage, Selection
    <2>4. ProviderInv'
      BY <2>1, <2>2 DEF ProviderInv, NoProvider
    <2>5. QED
      BY <2>3, <2>4
  <1>14. CASE Visit
    <2>1. /\ page' = NewPage(provider.current) /\ UNCHANGED <<provider, user>>
          /\ provider.current \in Selection
      BY <1>1, <1>14 DEF Visit, auth, ProviderInv, Provider
    <2>2. provider.current # None => Fetch(provider.current, TRUE) \in Fetches
                                     /\ Fetch(provider.current, TRUE).org = provider.current
      BY <1>3, <2>1 DEF Fetch, Fetches, Selection
    <2>3. PageInv'
      BY <2>1, <2>2 DEF NewPage, PageInv, Selection
    <2>4. ProviderInv'
      BY <1>1, <2>1 DEF ProviderInv
    <2>5. QED
      BY <2>3, <2>4
  <1>15. ASSUME NEW u \in provider.loads, NEW answered, OrganizationsLoaded(u, answered)
         PROVE  PageInv' /\ ProviderInv'
    <2> DEFINE p == [provider EXCEPT !.loads = @ \ {u}]
    <2>1. /\ p \in Provider /\ p.mounted = provider.mounted /\ p.mixed = provider.mixed
          /\ p.current = provider.current /\ p.organizations = provider.organizations
          /\ p.loads = provider.loads \ {u}
      BY <1>1 DEF ProviderInv, Provider
    <2>2. provider.mounted /\ user \in Users /\ UNCHANGED user
      BY <1>1, <1>15 DEF ProviderInv, NoProvider, OrganizationsLoaded, auth
    <2>3. ASSUME answered PROVE PageInv' /\ ProviderInv'
      <3> DEFINE mine == Memberships[u]
                 q == [p EXCEPT !.organizations = mine, !.current = Selected(mine)]
      <3>1. u \in Users
        BY <1>1, <1>15, <2>3 DEF OrganizationsLoaded, ProviderInv, Provider, Somebody
      <3>2. mine \subseteq Organizations
        BY <3>1, MembershipsAssumption
      <3>3. Selected(mine) \in mine \cup {None}
        BY DEF Selected
      <3>4. Keyed(q)
        BY <1>15, <2>3 DEF OrganizationsLoaded
      <3> HIDE DEF p, mine
      <3>5. /\ q \in Provider /\ q.mounted = p.mounted /\ q.mixed = p.mixed
            /\ q.loads = p.loads /\ q.organizations = mine /\ q.current = Selected(mine)
        BY <2>1, <3>2, <3>3 DEF Provider, Selection
      <3> HIDE DEF q
      <3>6. PageInv' /\ provider' = q
        BY <1>1, <1>3, <3>4, <3>5, KeyedStep
      <3>7. ~provider.mixed => u = user
        BY <1>1, <1>15, <2>2, <2>3 DEF ProviderInv, OrganizationsLoaded
      <3>8. ProviderInv'
        BY <1>1, <2>1, <2>2, <3>3, <3>5, <3>6, <3>7 DEF ProviderInv, mine
      <3>9. QED
        BY <3>6, <3>8
    <2>4. ASSUME ~answered PROVE PageInv' /\ ProviderInv'
      <3> DEFINE q == [p EXCEPT !.organizations = NoList]
      <3>1. Keyed(q)
        BY <1>15, <2>4 DEF OrganizationsLoaded
      <3> HIDE DEF p
      <3>2. /\ q \in Provider /\ q.mounted = p.mounted /\ q.mixed = p.mixed
            /\ q.loads = p.loads /\ q.organizations = {None} /\ q.current = p.current
        BY <2>1 DEF Provider, Selection, NoList
      <3> HIDE DEF q
      <3>3. PageInv' /\ provider' = q
        BY <1>1, <1>3, <3>1, <3>2, KeyedStep
      <3>4. ProviderInv'
        BY <1>1, <2>1, <2>2, <3>2, <3>3 DEF ProviderInv
      <3>5. QED
        BY <3>3, <3>4
    <2>5. QED
      BY <2>3, <2>4
  <1>16. CASE refreshOrganizations
    <2>1. /\ provider \in Provider /\ Keyed(Load(provider, user)) /\ provider.mounted
          /\ UNCHANGED user
      BY <1>1, <1>16 DEF refreshOrganizations, ProviderInv, auth
    <2>2. PageInv' /\ provider' = Load(provider, user)
      BY <1>1, <1>3, <2>1, LoadStep, KeyedStep
    <2>3. ProviderInv'
      BY <1>1, <1>3, <2>1, <2>2, LoadStep DEF ProviderInv
    <2>4. QED
      BY <2>2, <2>3
  <1>17. ASSUME NEW o \in provider.organizations, switchOrganization(o)
         PROVE  PageInv' /\ ProviderInv'
    <2> DEFINE q == [provider EXCEPT !.current = o]
    <2>1. provider.mounted /\ o # None /\ Keyed(q) /\ UNCHANGED user
      BY <1>17 DEF switchOrganization, auth
    <2>2. /\ q \in Provider /\ q.mounted = provider.mounted /\ q.mixed = provider.mixed
          /\ q.loads = provider.loads /\ q.organizations = provider.organizations
          /\ q.current = o
      BY <1>1 DEF ProviderInv, Provider
    <2> HIDE DEF q
    <2>3. PageInv' /\ provider' = q
      BY <1>1, <1>3, <2>1, <2>2, KeyedStep
    <2>4. ProviderInv'
      BY <1>1, <2>1, <2>2, <2>3 DEF ProviderInv
    <2>5. QED
      BY <2>3, <2>4
  <1>18. CASE Reload
    <2>1. /\ UNCHANGED <<provider, user>> /\ provider.current \in Organizations
          /\ page' = [page EXCEPT !.loading = TRUE,
                                  !.fetches = @ \cup {Fetch(provider.current, FALSE)}]
      BY <1>1, <1>18 DEF Reload, auth, ProviderInv, Provider, Selection
    <2>2. Fetch(provider.current, FALSE) \in Fetches
          /\ Fetch(provider.current, FALSE).org = provider.current
      BY <1>3, <2>1 DEF Fetch, Fetches
    <2>3. PageInv'
      BY <1>1, <2>1, <2>2 DEF PageInv
    <2>4. ProviderInv'
      BY <1>1, <2>1 DEF ProviderInv
    <2>5. QED
      BY <2>3, <2>4
  <1>19. ASSUME NEW f \in page.fetches, Fetched(f) PROVE PageInv' /\ ProviderInv'
    <2>1. f \in Fetches /\ f.org = provider.current /\ UNCHANGED <<provider, user>>
      BY <1>1, <1>19 DEF PageInv, Fetched, auth
    <2>2. PageInv'
      <3>1. CASE page' = [loading |-> FALSE, shown |-> f.org, fetches |-> page.fetches \ {f}]
        <4>1. f.org \in Organizations
          BY <2>1 DEF Fetches
        <4>2. QED
          BY <1>1, <2>1, <3>1, <4>1 DEF PageInv, Selection
      <3>2. CASE page' = [loading |-> FALSE, shown |-> None, fetches |-> page.fetches \ {f}]
        BY <1>1, <2>1, <3>2 DEF PageInv, Selection
      <3>3. QED
        BY <1>19, <3>1, <3>2 DEF Fetched
    <2>3. ProviderInv'
      BY <1>1, <2>1 DEF ProviderInv
    <2>4. QED
      BY <2>2, <2>3
  <1>20. ASSUME NEW f, Submit(f) \/ LoginFailed(f) \/ \E u \in Users : LoggedIn(f, u)
         PROVE  PageInv' /\ ProviderInv'
    BY <1>4, <1>20 DEF Submit, LoginFailed, LoggedIn, auth
  <1>21. CASE Logout \/ LogoutHandled \/ Expire
    BY <1>4, <1>21 DEF Logout, LogoutHandled, Expire, auth
  <1>22. CASE UNCHANGED vars
    BY <1>4, <1>22 DEF vars
  <1>23. QED
    BY <1>7, <1>8, <1>9, <1>10, <1>11, <1>12, <1>13, <1>14, <1>15, <1>16, <1>17, <1>18, <1>19,
       <1>20, <1>21, <1>22 DEF Next

(* The inductive invariant: the session numbers in use, what a page awaits,    *)
(* and what the provider of one user has been told.                            *)
THEOREM TabInvariant == Spec => [](TabInv /\ UserIsSession)
  <1>1. TabInv /\ UserIsSession /\ [Next]_vars => (TabInv /\ UserIsSession)'
    BY AuthNext, ContextNext DEF TabInv
  <1>2. QED
    BY <1>1, TabInit, PTL DEF Spec

-------------------------------------------------------------------------------
(* Whoever the tab shows as signed in is the one its requests are made as      *)
(* (refresh, logout and the first check of AuthProvider), but for those cases  *)
(* that UserIsSession excepts.                                                 *)
THEOREM UsersAreSessions == Spec => []UserIsSession
  BY TabInvariant, PTL

(* The organization selected is one of the user's, also where localStorage     *)
(* remembers one of whoever used the tab before, in a provider that is not     *)
(* mixed, that is, whose loads were all of one user.  In a mixed one the load  *)
(* that ends last decides, and it may be another user's: nothing is claimed    *)
(* (loadOrganizations and switchOrganization).                                 *)
THEOREM SelectionIsTheirs == Spec => []SelectedIsTheirs
  <1>1. TabInv => SelectedIsTheirs
    BY DEF TabInv, ProviderInv, SelectedIsTheirs, NoProvider
  <1>2. QED
    BY <1>1, TabInvariant, PTL

(* A page never shows data of another organization than the selected one (the  *)
(* effect of OverviewPage, its abort, and reload()).                           *)
THEOREM ShownBelongs == Spec => []ShownIsOfCurrent
  <1>1. TabInv => ShownIsOfCurrent
    BY DEF TabInv, PageInv, ShownIsOfCurrent
  <1>2. QED
    BY <1>1, TabInvariant, PTL
===============================================================================
