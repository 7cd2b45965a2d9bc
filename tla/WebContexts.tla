------------------------------- MODULE WebContexts -------------------------------
(***************************************************************************)
(* One tab of the web client: AuthProvider, the login and register forms,  *)
(* the dashboard's layout and OrganizationProvider, and the page in it,    *)
(* over an API whose answers come in any order or not at all.  Of the API  *)
(* only what they see of it is here: whose session a cookie stands for.    *)
(*                                                                         *)
(* A request carries what the browser's cookie stood for when it was sent. *)
(* Its answer is what the API says of that, or an error: the session may   *)
(* have ended since, or the network have failed.                           *)
(*                                                                         *)
(* Operators named Faulty_... are variants with one plausible mistake.  No *)
(* action uses them: they show that the properties can fail.               *)
(***************************************************************************)
EXTENDS Naturals, Sequences

CONSTANTS
  Organizations,
  Memberships,   \* the organizations of each user; no endpoint changes them
  Forms,         \* submissions of login or register forms pending at once
  MaxLogins      \* bound on the sessions created

Users == DOMAIN Memberships

ASSUME MembershipsAssumption ==
  \A u \in Users : Memberships[u] \subseteq Organizations
ASSUME BoundAssumption == MaxLogins \in Nat

VARIABLES
  sessions,      \* the API: [user, live] in the order of creation
  cookie,        \* the browser: the session its cookie names, 0 if it has none
  stored,        \*   localStorage: the organization last switched to
  path,          \* the tab: "public" or "dashboard"
  user, loading, \*   AuthProvider
  me,            \*   the check of its first effect: sent, and as whom
  form,          \*   submissions: "idle", "login" or "me", and the session made
  logout,        \*   a logout: idle, sent or handled, and under which session
  provider,      \*   OrganizationProvider, if it is mounted
  page,          \*   the page in it
  overtaken      \* history: user comes from a check sent under another cookie

vars == <<sessions, cookie, stored, path, user, loading, me, form, logout,
          provider, page, overtaken>>
auth == <<user, loading, overtaken>>

None    == "none"
NoCheck == [sent |-> FALSE, session |-> 0, user |-> None]
Idle    == [stage |-> "idle", session |-> 0]
NoList  == {None}

(* provider.mixed (history): while it was mounted its user was replaced by     *)
(* another, or it asked for the organizations of another session's user.       *)
NoProvider == [mounted |-> FALSE, organizations |-> NoList, current |-> None,
               loads |-> {}, mixed |-> FALSE]
NoPage     == [loading |-> FALSE, shown |-> None, fetches |-> {}]

(* As whom a request under session n is handled, if at once.                   *)
Owner(n) == IF n # 0 /\ sessions[n].live THEN sessions[n].user ELSE None

Check == [sent |-> TRUE, session |-> cookie, user |-> Owner(cookie)]

Init ==
  /\ sessions = <<>> /\ cookie = 0 /\ stored = None
  /\ path = "public"
  /\ user = None /\ loading = TRUE /\ overtaken = FALSE
  /\ me = Check
  /\ form = [f \in Forms |-> Idle]
  /\ logout = Idle
  /\ provider = NoProvider /\ page = NoPage

-------------------------------------------------------------------------------
(* Rendering.                                                                  *)

(* A page is fetched by its effect, with a signal, and by reload() without.    *)
Fetch(org, effect) == [org |-> org, as |-> Owner(cookie), effect |-> effect]

(* Faulty: a page without a key is kept: its effect aborts and fetches again.  *)
Faulty_Patched(org) ==
  [page EXCEPT !.loading = TRUE,
               !.fetches = {f \in @ : ~f.effect} \cup {Fetch(org, TRUE)}]

(* The key of <main> makes it another page: what the old one awaits is lost    *)
(* on it.  Without an organization it fetches nothing and stays as it is.      *)
NewPage(org) ==
  [loading |-> TRUE, shown |-> None,
   fetches |-> IF org = None THEN {} ELSE {Fetch(org, TRUE)}]

Keyed(p) ==
  /\ provider' = p
  /\ page' = IF ~p.mounted THEN NoPage
             ELSE IF provider.mounted /\ p.current = provider.current THEN page
             ELSE NewPage(p.current)

Load(p, as) ==
  [p EXCEPT !.loads = @ \cup {Owner(cookie)},
            !.mixed = @ \/ Owner(cookie) \notin {None, as}]

(* The tab with this path and user: DashboardLayout mounts the provider only   *)
(* for a user; a new user object makes its effect load the organizations.      *)
Render(newPath, newUser) ==
  /\ path' = newPath
  /\ user' = newUser
  /\ Keyed(IF newPath # "dashboard" \/ newUser = None THEN NoProvider
           ELSE IF provider.mounted
             THEN Load([provider EXCEPT !.mixed = @ \/ newUser # user], newUser)
             ELSE Load([NoProvider EXCEPT !.mounted = TRUE], newUser))

-------------------------------------------------------------------------------
(* AuthProvider.                                                               *)

(* Faulty: a failed check leaves the user as it was.                           *)
Faulty_KeepUser(check, answered) == IF answered THEN check.user ELSE user

Checked(check, answered) == IF answered THEN check.user ELSE None

SetUser(check, answered, newPath) ==
  /\ answered => check.user # None
  /\ Render(newPath, Checked(check, answered))
  /\ overtaken' = (answered /\ check.session # cookie)
  /\ loading' = FALSE

(* The effect's check; nothing but a reload of the tab cancels it.             *)
MeAnswered(answered) ==
  /\ me.sent
  /\ SetUser(me, answered, path)
  /\ me' = NoCheck
  /\ UNCHANGED <<sessions, cookie, stored, form, logout>>

(* The button of either menu.                                                  *)
Logout ==
  /\ user # None /\ ~loading
  /\ logout = Idle
  /\ logout' = [stage |-> "sent", session |-> cookie]
  /\ UNCHANGED <<sessions, cookie, stored, path, auth, me, form, provider, page>>

LogoutHandled ==
  /\ logout.stage = "sent"
  /\ Owner(logout.session) # None
  /\ sessions' = [sessions EXCEPT ![logout.session].live = FALSE]
  /\ logout' = [logout EXCEPT !.stage = "handled"]
  /\ UNCHANGED <<cookie, stored, path, auth, me, form, provider, page>>

(* finally: setUser(null), also when the call has failed.  Only an answer of   *)
(* the handler clears the cookie, whichever it is by now.  After a failure it  *)
(* is the layout that leaves the dashboard.                                    *)
LogoutEnds(answered) ==
  /\ logout # Idle
  /\ answered => logout.stage = "handled"
  /\ cookie' = IF answered THEN 0 ELSE cookie
  /\ Render(IF answered THEN "public" ELSE path, None)
  /\ overtaken' = FALSE
  /\ logout' = Idle
  /\ UNCHANGED <<sessions, stored, loading, me, form>>

-------------------------------------------------------------------------------
(* The forms: api.login (for a new account after api.register), refresh() and  *)
(* router.push, whether or not the form is still on the screen.                *)

Submit(f) ==
  /\ path = "public"
  /\ form[f] = Idle
  /\ form' = [form EXCEPT ![f].stage = "login"]
  /\ UNCHANGED <<sessions, cookie, stored, path, auth, me, logout, provider, page>>

LoggedIn(f, u) ==
  /\ form[f].stage = "login"
  /\ Len(sessions) < MaxLogins
  /\ sessions' = Append(sessions, [user |-> u, live |-> TRUE])
  /\ cookie' = Len(sessions) + 1
  /\ form' = [form EXCEPT ![f] = [stage |-> "me", session |-> Len(sessions) + 1]]
  /\ UNCHANGED <<stored, path, auth, me, logout, provider, page>>

(* Refused, or not answered: the form shows the error.                         *)
LoginFailed(f) ==
  /\ form[f].stage = "login"
  /\ form' = [form EXCEPT ![f] = Idle]
  /\ UNCHANGED <<sessions, cookie, stored, path, auth, me, logout, provider, page>>

Refreshed(f, answered) ==
  /\ form[f].stage = "me"
  /\ LET n == form[f].session IN
     SetUser([session |-> n, user |-> sessions[n].user], answered, "dashboard")
  /\ form' = [form EXCEPT ![f] = Idle]
  /\ UNCHANGED <<sessions, cookie, stored, me, logout>>

-------------------------------------------------------------------------------
(* Moving about.                                                               *)

(* The redirect of DashboardLayout, links, and the browser's own buttons.      *)
Redirect ==
  /\ path = "dashboard" /\ ~loading /\ user = None
  /\ Render("public", None)
  /\ UNCHANGED <<sessions, cookie, stored, loading, me, form, logout, overtaken>>

Navigate(newPath) ==
  /\ path # newPath
  /\ Render(newPath, user)
  /\ UNCHANGED <<sessions, cookie, stored, loading, me, form, logout, overtaken>>

(* Another page of the dashboard, or the same one anew.                        *)
Visit ==
  /\ provider.mounted
  /\ page' = NewPage(provider.current)
  /\ UNCHANGED <<sessions, cookie, stored, path, auth, me, form, logout, provider>>

(* The tab is opened or reloaded: only cookies and localStorage remain.        *)
Open(newPath) ==
  /\ path' = newPath
  /\ user' = None /\ loading' = TRUE /\ overtaken' = FALSE
  /\ me' = Check
  /\ form' = [f \in Forms |-> Idle]
  /\ logout' = Idle
  /\ provider' = NoProvider /\ page' = NoPage
  /\ UNCHANGED <<sessions, cookie, stored>>

Expire ==
  /\ Owner(cookie) # None
  /\ sessions' = [sessions EXCEPT ![cookie].live = FALSE]
  /\ UNCHANGED <<cookie, stored, path, auth, me, form, logout, provider, page>>

-------------------------------------------------------------------------------
(* OrganizationProvider.                                                       *)

(* Faulty: the stored organization is taken without looking for it.            *)
Faulty_TrustStored(fetched) ==
  IF provider.current \in fetched THEN provider.current
  ELSE IF stored # None THEN stored
  ELSE IF fetched = {} THEN None ELSE CHOOSE o \in fetched : TRUE

(* The updater of setCurrentOrganizationId; fetched[0] is some element.        *)
Selected(fetched) ==
  IF provider.current \in fetched THEN provider.current
  ELSE IF stored \in fetched THEN stored
  ELSE IF fetched = {} THEN None ELSE CHOOSE o \in fetched : TRUE

(* Loads are not cancelled: whichever answer comes last stays.                 *)
OrganizationsLoaded(u, answered) ==
  /\ u \in provider.loads
  /\ answered => u # None
  /\ LET p == [provider EXCEPT !.loads = @ \ {u}] IN
     IF answered
       THEN Keyed([p EXCEPT !.organizations = Memberships[u],
                            !.current = Selected(Memberships[u])])
       ELSE Keyed([p EXCEPT !.organizations = NoList])
  /\ UNCHANGED <<sessions, cookie, stored, path, auth, me, form, logout>>

(* After the settings page has renamed one.                                    *)
refreshOrganizations ==
  /\ provider.mounted /\ provider.current # None
  /\ Keyed(Load(provider, user))
  /\ UNCHANGED <<sessions, cookie, stored, path, auth, me, form, logout>>

(* OrgSwitcher offers the listed ones.                                         *)
switchOrganization(o) ==
  /\ provider.mounted
  /\ o \in provider.organizations \ {provider.current, None}
  /\ Keyed([provider EXCEPT !.current = o])
  /\ stored' = o
  /\ UNCHANGED <<sessions, cookie, path, auth, me, form, logout>>

-------------------------------------------------------------------------------
(* The page.                                                                   *)

Reload ==
  /\ provider.mounted /\ ~page.loading /\ provider.current # None
  /\ page' = [page EXCEPT !.loading = TRUE,
                          !.fetches = @ \cup {Fetch(provider.current, FALSE)}]
  /\ UNCHANGED <<sessions, cookie, stored, path, auth, me, form, logout, provider>>

(* Data for a member; an error leaves what it had, which the error covers.     *)
Fetched(f) ==
  /\ f \in page.fetches
  /\ \/ /\ f.as # None /\ f.org \in Memberships[f.as]
        /\ page' = [loading |-> FALSE, shown |-> f.org, fetches |-> page.fetches \ {f}]
     \/ page' = [loading |-> FALSE, shown |-> None, fetches |-> page.fetches \ {f}]
  /\ UNCHANGED <<sessions, cookie, stored, path, auth, me, form, logout, provider>>

(* isSessionExpired: to the login page; the user stays as it is.               *)
SessionExpired(f) ==
  /\ f \in page.fetches
  /\ \/ f.as = None
     \/ \E n \in DOMAIN sessions : sessions[n].user = f.as /\ ~sessions[n].live
  /\ Render("public", user)
  /\ UNCHANGED <<sessions, cookie, stored, loading, me, form, logout, overtaken>>

Next ==
  \/ \E answered \in BOOLEAN :
       \/ MeAnswered(answered) \/ LogoutEnds(answered)
       \/ \E f \in Forms : Refreshed(f, answered)
       \/ \E u \in provider.loads : OrganizationsLoaded(u, answered)
  \/ Logout \/ LogoutHandled
  \/ \E f \in Forms : Submit(f) \/ LoginFailed(f) \/ \E u \in Users : LoggedIn(f, u)
  \/ \E p \in {"public", "dashboard"} : Navigate(p) \/ Open(p)
  \/ Redirect \/ Visit \/ Expire
  \/ refreshOrganizations \/ \E o \in provider.organizations : switchOrganization(o)
  \/ Reload \/ \E f \in page.fetches : Fetched(f) \/ SessionExpired(f)

Spec == Init /\ [][Next]_vars

-------------------------------------------------------------------------------
LoginPending == \E f \in Forms : form[f].stage = "me"

(* Whoever the tab shows as signed in is the one its requests are made as,     *)
(* "entirely derived from the real API's /auth/me" (lib/auth-context.tsx:18):  *)
(* also after another login in the same tab, a logout that failed, or a check  *)
(* that did.  Two exceptions: while a login awaits its check, and after a      *)
(* check sent under an earlier cookie has answered last.                       *)
UserIsSession ==
  user # None /\ ~LoginPending /\ ~overtaken =>
    cookie # 0 /\ sessions[cookie].user = user

(* The organization selected is one of the user's, whoever used the tab before *)
(* and whichever organization localStorage remembers, unless the two exceptions*)
(* above reach a provider: one whose user is replaced under it, or is not the  *)
(* one of the session, keeps what its loads say, in whatever order they end.   *)
SelectedIsTheirs ==
  provider.current # None /\ ~provider.mixed =>
    provider.current \in Memberships[user]

(* A page never shows data of another organization than the selected one,      *)
(* though reload() fetches without a signal: a late answer "can never render   *)
(* over the new organization's UI" (docs/architecture/frontend.md:121-124).    *)
ShownIsOfCurrent ==
  ~page.loading /\ page.shown # None => page.shown = provider.current
===============================================================================
