---------------------------- MODULE PortalSession ----------------------------
(***************************************************************************)
(* The session of a merchant in the portal                                 *)
(* (frontend/merchant-portal/src): stores/auth.js in each tab, over the    *)
(* localStorage the tabs share, with the interceptor of services/api.js,   *)
(* which on any 401 empties the storage and loads /login anew, and the     *)
(* guard of the router.                                                    *)
(*                                                                         *)
(* JavaScript runs one callback at a time: an action is what runs between  *)
(* two awaits.  Requests of a tab may be answered in any order, or fail    *)
(* (no connection, 30 seconds, an error of the server); a page that is     *)
(* being replaced still handles answers until it is gone.  A token is      *)
(* the number of the login that made it, 0 is none.                        *)
(***************************************************************************)
EXTENDS Naturals, FiniteSets

CONSTANTS
  Tabs,        \* tabs of the browser
  MaxLogins,   \* bound: logins that succeed
  MaxCalls     \* bound: data and logout requests of a tab in flight together

ASSUME PortalAssumption == MaxLogins \in Nat /\ MaxCalls \in Nat

VARIABLES
  storage,     \* localStorage.accessToken (refreshToken comes and goes with it)
  \* a tab's store
  token,       \* accessToken, also the Authorization header of its requests
  profile,     \* the login whose merchant is shown
  isLoading,
  \* a tab's page
  view,        \* "login" or "app", a view behind the login
  leaving,     \* window.location.href was set, the page is not gone yet
  signingIn,   \* the login call: "no", waiting for "login" or for "profile"
  asking,      \* the token its request for the profile carries
  data,        \* tokens its other requests carry
  goodbye,     \* tokens its logout requests carry
  \* the server
  logins,      \* logins that succeeded
  expired      \* tokens it takes no more

store == <<token, profile, isLoading>>
calls == <<signingIn, asking, data, goodbye>>
server == <<logins, expired>>
vars == <<storage, store, view, leaving, calls, server>>

Init ==
  /\ storage = 0
  /\ token = [t \in Tabs |-> 0]
  /\ profile = [t \in Tabs |-> 0]
  /\ isLoading = [t \in Tabs |-> FALSE]
  /\ view = [t \in Tabs |-> "login"]
  /\ leaving = [t \in Tabs |-> FALSE]
  /\ signingIn = [t \in Tabs |-> "no"]
  /\ asking = [t \in Tabs |-> 0]
  /\ data = [t \in Tabs |-> {}]
  /\ goodbye = [t \in Tabs |-> {}]
  /\ logins = 0
  /\ expired = {0}

-----------------------------------------------------------------------------
\* clearTokens, which forgets the login of this tab and the one in the storage.
clearTokens(t) ==
  /\ storage' = 0
  /\ token' = [token EXCEPT ![t] = 0]
  /\ profile' = [profile EXCEPT ![t] = 0]

\* The interceptor: on a 401 the page is left for /login, loaded anew.
Leave(t, is401) == leaving' = [leaving EXCEPT ![t] = @ \/ is401]

\* The end of login(): its finally.
SignedIn(t) ==
  /\ isLoading' = [isLoading EXCEPT ![t] = FALSE]
  /\ signingIn' = [signingIn EXCEPT ![t] = "no"]

\* Mutation: the button is not disabled while a login is under way.
loginAnyTime(t) ==
  /\ view[t] = "login"
  /\ isLoading' = [isLoading EXCEPT ![t] = TRUE]
  /\ signingIn' = [signingIn EXCEPT ![t] = "login"]
  /\ UNCHANGED <<storage, token, profile, view, leaving, asking, data, goodbye, server>>

\* The form is sent; its button is disabled while isLoading.
login(t) ==
  /\ view[t] = "login"
  /\ ~isLoading[t]
  /\ isLoading' = [isLoading EXCEPT ![t] = TRUE]
  /\ signingIn' = [signingIn EXCEPT ![t] = "login"]
  /\ UNCHANGED <<storage, token, profile, view, leaving, asking, data, goodbye, server>>

\* The login succeeds: setTokens, and the profile is asked for...
LoginAnswered(t) ==
  /\ signingIn[t] = "login"
  /\ logins < MaxLogins
  /\ logins' = logins + 1
  /\ storage' = logins'
  /\ token' = [token EXCEPT ![t] = logins']
  /\ signingIn' = [signingIn EXCEPT ![t] = "profile"]
  /\ asking' = [asking EXCEPT ![t] = logins']
  /\ UNCHANGED <<profile, isLoading, view, leaving, data, goodbye, expired>>

\* ... or is refused (a 401 too), or fails.
LoginFailed(t) ==
  /\ signingIn[t] = "login"
  /\ \E is401 \in BOOLEAN :
       /\ Leave(t, is401)
       /\ storage' = IF is401 THEN 0 ELSE storage
  /\ SignedIn(t)
  /\ UNCHANGED <<token, profile, view, asking, data, goodbye, server>>

\* fetchProfile returns: the merchant is shown, and the router goes to the
\* dashboard, or back if the tab has been logged out meanwhile.
ProfileAnswered(t) ==
  /\ signingIn[t] = "profile"
  /\ asking[t] \notin expired
  /\ profile' = [profile EXCEPT ![t] = asking[t]]
  /\ view' = [view EXCEPT ![t] = IF token[t] # 0 THEN "app" ELSE "login"]
  /\ asking' = [asking EXCEPT ![t] = 0]
  /\ SignedIn(t)
  /\ UNCHANGED <<storage, token, leaving, data, goodbye, server>>

\* Mutation: the failure of the profile is not caught.
ProfileFailedUncaught(t) ==
  /\ signingIn[t] = "profile"
  /\ clearTokens(t)
  /\ signingIn' = [signingIn EXCEPT ![t] = "no"]
  /\ asking' = [asking EXCEPT ![t] = 0]
  /\ UNCHANGED <<isLoading, leaving, view, data, goodbye, server>>

ProfileFailed(t) ==
  /\ signingIn[t] = "profile"
  /\ Leave(t, asking[t] \in expired)
  /\ clearTokens(t)
  /\ asking' = [asking EXCEPT ![t] = 0]
  /\ SignedIn(t)
  /\ UNCHANGED <<view, data, goodbye, server>>

CallsLeft(t) == Cardinality(data[t]) + Cardinality(goodbye[t]) < MaxCalls

\* A view behind the login asks for its data, without a header if there is no token.
FetchData(t) ==
  /\ view[t] = "app"
  /\ CallsLeft(t)
  /\ data' = [data EXCEPT ![t] = @ \cup {token[t]}]
  /\ UNCHANGED <<storage, store, view, leaving, signingIn, asking, goodbye, server>>

\* Data or a failure only change what the view shows; a 401 ends the session that
\* is in the storage by then, whoever began it.
DataAnswered(t, s) ==
  /\ s \in data[t]
  /\ data' = [data EXCEPT ![t] = @ \ {s}]
  /\ IF s \in expired
     THEN storage' = 0 /\ Leave(t, TRUE)
     ELSE UNCHANGED <<storage, leaving>>
  /\ UNCHANGED <<store, view, signingIn, asking, goodbye, server>>

\* The logout button, which is never disabled.
logout(t) ==
  /\ view[t] = "app"
  /\ CallsLeft(t)
  /\ goodbye' = [goodbye EXCEPT ![t] = @ \cup {token[t]}]
  /\ UNCHANGED <<storage, store, view, leaving, signingIn, asking, data, server>>

\* The refresh token is blacklisted (the portal never uses it), the tab forgets its
\* login and shows /login.
LogoutAnswered(t, s) ==
  /\ s \in goodbye[t] \ expired
  /\ goodbye' = [goodbye EXCEPT ![t] = @ \ {s}]
  /\ clearTokens(t)
  /\ view' = [view EXCEPT ![t] = "login"]
  /\ UNCHANGED <<isLoading, leaving, signingIn, asking, data, server>>

\* The tab forgets its login but stays where it is.
LogoutFailed(t, s) ==
  /\ s \in goodbye[t]
  /\ goodbye' = [goodbye EXCEPT ![t] = @ \ {s}]
  /\ Leave(t, s \in expired)
  /\ clearTokens(t)
  /\ UNCHANGED <<isLoading, view, signingIn, asking, data, server>>

\* Another view of the tab is asked for; the guard of the router decides.
Navigate(t) ==
  /\ view' = [view EXCEPT ![t] = IF token[t] # 0 THEN "app" ELSE "login"]
  /\ UNCHANGED <<storage, store, leaving, calls, server>>

\* The page is loaded, after a 401 or by the user: the store starts from the
\* storage, and what the old page waited for is lost.
Load(t) ==
  /\ token' = [token EXCEPT ![t] = storage]
  /\ profile' = [profile EXCEPT ![t] = 0]
  /\ isLoading' = [isLoading EXCEPT ![t] = FALSE]
  /\ view' = [view EXCEPT ![t] = IF storage # 0 THEN "app" ELSE "login"]
  /\ leaving' = [leaving EXCEPT ![t] = FALSE]
  /\ signingIn' = [signingIn EXCEPT ![t] = "no"]
  /\ asking' = [asking EXCEPT ![t] = 0]
  /\ data' = [data EXCEPT ![t] = {}]
  /\ goodbye' = [goodbye EXCEPT ![t] = {}]
  /\ UNCHANGED <<storage, server>>

\* ACCESS_TOKEN_LIFETIME has passed; the portal never asks for another token.
TokenExpires(s) ==
  /\ s \in 1..logins \ expired
  /\ expired' = expired \cup {s}
  /\ UNCHANGED <<storage, store, view, leaving, calls, logins>>

\* An answer, or the failure of a request after its timeout.
SignInStep(t) ==
  LoginAnswered(t) \/ LoginFailed(t) \/ ProfileAnswered(t) \/ ProfileFailed(t)

Next ==
  \/ \E t \in Tabs :
       \/ login(t)
       \/ SignInStep(t)
       \/ FetchData(t)
       \/ logout(t)
       \/ Navigate(t)
       \/ Load(t)
       \/ \E s \in data[t] : DataAnswered(t, s)
       \/ \E s \in goodbye[t] : LogoutAnswered(t, s) \/ LogoutFailed(t, s)
  \/ \E s \in 1..MaxLogins : TokenExpires(s)

\* Every request is answered or times out.
Spec == Init /\ [][Next]_vars /\ \A t \in Tabs : WF_vars(SignInStep(t))
-----------------------------------------------------------------------------
\* The name in the sidebar belongs to the login the tab works with, unless a login
\* is under way: an answer for an earlier login cannot come between, because the
\* form is disabled until the profile has arrived or failed (LoginView.vue 53).
ProfileIsOwn ==
  \A t \in Tabs :
    token[t] # 0 /\ profile[t] # 0 /\ ~isLoading[t] => profile[t] = token[t]

\* The form becomes usable again, whatever fails (auth.js 45-47, 55-58).
LoginSettles == \A t \in Tabs : isLoading[t] ~> ~isLoading[t]
=============================================================================
