----------------------------- MODULE BrowserSession -----------------------------
(***************************************************************************)
(* Signing in and out in one browser tab of the frontend: AuthorizeService *)
(* over oidc-client, the Login, LoginCallback and Logout components, the   *)
(* guarded routes and the menu.                                            *)
(*                                                                         *)
(* Between two awaits on the network the page runs to completion: reading  *)
(* the user from localStorage takes microtasks only, so every event brings *)
(* menu and routes up to date by itself.  A call of AuthorizeService is    *)
(* not cancelled when the component that made it goes; only leaving the    *)
(* document ends it.  Silent sign-in is left out since it always times out *)
(* (the iframe's address matches no route), pop-ups since they are off.    *)
(***************************************************************************)
EXTENDS Naturals

CONSTANTS
    People,      \* those with an account at Identity
    Nobody,      \* no user: null
    RoleOf,      \* the role claim of each
    MaxCalls     \* bound: calls of AuthorizeService of one kind in progress

ASSUME SessionAssumption ==
    /\ Nobody \notin People
    /\ RoleOf \in [People -> {"Admin", "Player", "Other"}]
    /\ MaxCalls \in Nat \ {0}

VARIABLES
    idp,      \* the user of Identity's session cookie
    stored,   \* the user in localStorage, where the access token is read from
    cached,   \* _user of this document's AuthorizeService
    nav,      \* the user the menu shows
    at,       \* the page the tab is at
    code,     \* whom the authorization code in the address stands for
    calls,    \* how many calls of each operation are in progress
    foreign   \* whether another tab changed localStorage under this document

sessionVars == <<idp, stored, cached, nav, at, code, calls, foreign>>

Somebody == People \cup {Nobody}

Guarded == {"catalog", "inventory", "users", "store"}
Authentication == {"login", "loginCallback", "logoutCallback", "loggedOut", "blank"}
Processing == {"login", "loginCallback", "logoutCallback"}
InApp == {"home"} \cup Guarded \cup Authentication
\* Identity's authorize, end-session and account pages.
Outside == {"authorize", "endSession", "account"}
\* A render threw, and React unmounted the app: no menu and no page, while the
\* document and the calls in progress are still there.
Crashed == "crashed"

Operations == {"signIn", "completeSignIn", "signOut", "completeSignOut"}
NoCalls == [o \in Operations |-> 0]

Begin(o) == calls[o] < MaxCalls /\ calls' = [calls EXCEPT ![o] = @ + 1]
End(o) == calls[o] > 0 /\ calls' = [calls EXCEPT ![o] = @ - 1]

\* getUser: the cached user, else the one in localStorage.
AuthUser == IF cached # Nobody THEN cached ELSE stored

-----------------------------------------------------------------------------
(* Where links lead.                                                       *)

\* NavMenu's links, with the brand's; a role without a view of its own is left
\* with the last part.
MenuLinks ==
    CASE nav = Nobody -> {"home", "login"}
      [] nav # Nobody /\ RoleOf[nav] = "Admin" -> {"home", "account"} \cup Guarded
      [] nav # Nobody /\ RoleOf[nav] = "Player" -> {"home", "account", "store", "inventory"}
      [] OTHER -> {"home", "account"}

\* Home offers the inventory to everyone; what it offers administrators is in
\* the menu.
HomeLinks == IF at = "home" THEN {"inventory"} ELSE {}

\* The inventory of each user in the list.
UsersLinks == IF at = "users" THEN {"inventory"} ELSE {}

Links == MenuLinks \cup HomeLinks \cup UsersLinks

\* Mutant: the page is shown to anyone.
Unguarded(p) == TRUE

\* AuthorizeRoute: it asks when it is mounted, so going from one guarded page
\* to another does not ask again.
MayEnter(p) == at \in Guarded \/ AuthUser # Nobody

\* A guarded page without a user is replaced by Login, which signs in when mounted.
Follow(p) ==
    /\ at \in InApp /\ p \in Links
    /\ \/ p = "home" /\ at' = "home" /\ UNCHANGED calls
       \/ p \in Guarded /\ MayEnter(p) /\ at' = p /\ UNCHANGED calls
       \/ p \in Guarded /\ ~MayEnter(p) /\ at' = "login" /\ Begin("signIn")
       \/ p = "login" /\ at # "login" /\ at' = "login" /\ Begin("signIn")
    /\ UNCHANGED <<idp, stored, cached, nav, code, foreign>>

\* Leaving the document for p: what was in progress goes with it.
Leave(p) ==
    /\ at' = p
    /\ calls' = NoCalls
    /\ cached' = Nobody /\ nav' = Nobody /\ code' = Nobody /\ foreign' = FALSE

\* Login's profile and register actions.  Login does not act again when it is
\* already on the page.
GoToAccount ==
    /\ at \in InApp \ {"login"} /\ "account" \in Links
    /\ Leave("account")
    /\ UNCHANGED <<idp, stored>>

\* The call that a component of the authentication routes makes when mounted.
LoginBegins(p) == IF p = "login" THEN {"signIn"} ELSE {}
CallbackBegins(p) == IF p = "loginCallback" THEN {"completeSignIn"} ELSE {}
LogoutBegins(p) == IF p = "logoutCallback" THEN {"completeSignOut"} ELSE {}
Begins(p) == LoginBegins(p) \cup CallbackBegins(p) \cup LogoutBegins(p)

\* A document of the app is loaded at p, with c for the code in its address.
LoadAt(p, c) ==
    /\ at' = IF p \in Guarded /\ stored = Nobody THEN "login" ELSE p
    /\ calls' = [o \in Operations |-> IF o \in Begins(at') THEN 1 ELSE 0]
    /\ cached' = Nobody
    /\ nav' = IF p = Crashed THEN Nobody ELSE stored
    /\ code' = c
    /\ foreign' = FALSE

\* The addresses of the app.  /authentication/logout and login-failed throw
\* while they are mounted, which unmounts everything.
Addresses == {"home", "login", "loginCallback", "logoutCallback", "loggedOut", Crashed}
                \cup Guarded

\* The user enters an address, reloads, or comes back: a code in it is spent.
Visit(p) ==
    /\ LoadAt(p, Nobody)
    /\ UNCHANGED <<idp, stored>>

-----------------------------------------------------------------------------
(* Signing in.                                                             *)

\* Mutant: subscribers are not told.
Unannounced(u) == cached' = u /\ UNCHANGED nav

\* updateState tells the subscribers, and the menu asks for the user again.
UpdateState(u) == cached' = u /\ nav' = IF at = Crashed THEN nav ELSE u

\* navigate, which renders nothing in an app that threw.
Navigate(p) == at' = IF at = Crashed THEN at ELSE p

\* Mutant: the component does not care whether its call failed.
Overlooked(o, p) == TRUE

\* Whether there is a call of o that no component at p waits for any more.
Abandoned(o, p) == calls[o] > (IF at = p THEN 1 ELSE 0)

\* signinRedirect takes the tab to Identity, wherever it is by now.
SignInRedirects ==
    /\ calls["signIn"] > 0
    /\ Leave("authorize")
    /\ UNCHANGED <<idp, stored>>

\* signIn reports the Error itself as its message.  Login renders it, which
\* throws; a Login that is gone does not.
SignInFails ==
    /\ End("signIn")
    /\ \/ at = "login" /\ at' = Crashed /\ nav' = Nobody
       \/ Abandoned("signIn", "login") /\ UNCHANGED <<at, nav>>
    /\ UNCHANGED <<idp, stored, cached, code, foreign>>

\* Identity returns with a code, at once if it has a session, or with an error.
IdentityAnswers ==
    /\ at = "authorize"
    /\ \/ \E u \in People : idp \in {u, Nobody} /\ idp' = u /\ LoadAt("loginCallback", u)
       \/ UNCHANGED idp /\ LoadAt("loginCallback", Nobody)
    /\ UNCHANGED stored

\* The code is exchanged.  navigate is given the return url's full address,
\* which it takes for a relative path: no route matches.
CompleteSignIn ==
    /\ End("completeSignIn") /\ code # Nobody
    /\ stored' = code /\ UpdateState(code) /\ code' = Nobody
    /\ Navigate("blank")
    /\ UNCHANGED <<idp, foreign>>

\* Mutant: the callback logs the failure and stays.
CallbackFailsSilently ==
    /\ End("completeSignIn") /\ code' = Nobody
    /\ UNCHANGED <<idp, stored, cached, nav, at, foreign>>

\* completeSignIn reports a failure and does not throw; without a state the
\* callback navigates home.
CompleteSignInFails ==
    /\ End("completeSignIn") /\ code' = Nobody
    /\ Navigate("home")
    /\ UNCHANGED <<idp, stored, cached, nav, foreign>>

-----------------------------------------------------------------------------
(* Signing out.                                                            *)

\* The menu's Logout: the user is removed from localStorage, then Identity's
\* metadata are awaited.
SignOut ==
    /\ at \in InApp /\ nav # Nobody
    /\ Begin("signOut")
    /\ stored' = Nobody
    /\ UNCHANGED <<idp, cached, nav, at, code, foreign>>

SignOutRedirects ==
    /\ calls["signOut"] > 0
    /\ Leave("endSession")
    /\ UNCHANGED <<idp, stored>>

\* The result is ignored: menu and cached user stay.
SignOutFails ==
    /\ End("signOut")
    /\ UNCHANGED <<idp, stored, cached, nav, at, code, foreign>>

SessionEnds ==
    /\ at = "endSession"
    /\ idp' = Nobody
    /\ LoadAt("logoutCallback", Nobody)
    /\ UNCHANGED stored

\* The document is replaced by the logged-out page, wherever the tab is by now.
CompleteSignOut ==
    /\ calls["completeSignOut"] > 0
    /\ LoadAt("loggedOut", Nobody)
    /\ UNCHANGED <<idp, stored>>

\* As in SignInFails, Logout renders the Error itself.
CompleteSignOutFails ==
    /\ End("completeSignOut")
    /\ \/ at = "logoutCallback" /\ at' = Crashed /\ nav' = Nobody
       \/ Abandoned("completeSignOut", "logoutCallback") /\ UNCHANGED <<at, nav>>
    /\ UNCHANGED <<idp, stored, cached, code, foreign>>

\* Another tab signs in or out.
OtherTab ==
    /\ \E u \in Somebody : u # stored /\ stored' = u /\ idp' \in {idp, u}
    /\ foreign' = (at \in InApp)
    /\ UNCHANGED <<cached, nav, at, code, calls>>

SessionInit ==
    /\ idp = Nobody /\ stored = Nobody /\ cached = Nobody /\ nav = Nobody
    /\ at = "home"
    /\ code = Nobody
    /\ calls = NoCalls
    /\ foreign = FALSE

User ==
    \/ \E p \in InApp : Follow(p)
    \/ \E p \in Addresses : Visit(p)
    \/ GoToAccount
    \/ SignOut

SignInEnds == SignInRedirects \/ SignInFails
CompleteSignInEnds == CompleteSignIn \/ CompleteSignInFails
CompleteSignOutEnds == CompleteSignOut \/ CompleteSignOutFails

SessionNext ==
    \/ User
    \/ SignInEnds \/ CompleteSignInEnds \/ CompleteSignOutEnds
    \/ SignOutRedirects \/ SignOutFails
    \/ IdentityAnswers \/ SessionEnds
    \/ OtherTab

SessionSpec == SessionInit /\ [][SessionNext]_sessionVars

\* Awaits end, by an answer or by an error; what the user, Identity's pages and
\* other tabs do is not fair.
SessionFairness ==
    /\ WF_sessionVars(SignInEnds /\ at' # at)
    /\ WF_sessionVars(CompleteSignInEnds)
    /\ WF_sessionVars(CompleteSignOutEnds /\ at' # at)

-----------------------------------------------------------------------------
(* Type invariant: besides the types, where calls may be in progress.      *)

SessionTypeOK ==
    /\ idp \in Somebody /\ stored \in Somebody /\ cached \in Somebody
    /\ nav \in Somebody /\ code \in Somebody
    /\ at \in InApp \cup Outside \cup {Crashed}
    /\ calls \in [Operations -> 0..MaxCalls]
    /\ foreign \in BOOLEAN
    /\ at \in Outside => calls = NoCalls
    /\ at = Crashed => nav = Nobody
    /\ at = "login" => calls["signIn"] > 0
    /\ at = "loginCallback" => calls["completeSignIn"] > 0
    /\ at = "logoutCallback" => calls["completeSignOut"] > 0
    /\ code # Nobody => calls["completeSignIn"] > 0

(* Unless another tab interferes, the token that requests carry is that of *)
(* the user whose name the menu shows, or there is none: whatever calls of *)
(* AuthorizeService overlap, are abandoned or fail half way (populateState *)
(* and updateState against getAccessToken).                                *)
ActsAsShown ==
    at \in InApp /\ ~foreign => stored \in {Nobody, nav}

(* The menu of a signed-in user stands beside every guarded page, although *)
(* AuthorizeRoute and the menu each ask by themselves and at different     *)
(* times.                                                                  *)
MenuFitsPage ==
    at \in Guarded /\ ~foreign => nav # Nobody

(* Signing in and out never stay at "Processing", unless the user keeps    *)
(* navigating for ever: the page with the call is left, or the call failed *)
(* and the app is gone, since Login and Logout render the Error that       *)
(* signIn and completeSignOut return (Login.js, Logout.js).                *)
AuthEnds ==
    \/ []<><<User>>_sessionVars
    \/ at \in Processing ~> at \notin Processing
=============================================================================
