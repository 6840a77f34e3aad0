-------------------------- MODULE BrowserSessionProofs --------------------------
(***************************************************************************)
(* Proofs about BrowserSession, for any people, roles and number of calls  *)
(* in progress: its type invariant, that the token carried is that of the  *)
(* user shown, and that a guarded page has a signed-in user's menu.        *)
(***************************************************************************)
EXTENDS BrowserSession, TLAPS

\* While the app is loaded, menu and cached user do not contradict each other.
MenuOfCached == at \in InApp => cached \in {Nobody, nav}

SessionInv == SessionTypeOK /\ MenuOfCached /\ ActsAsShown /\ MenuFitsPage

-----------------------------------------------------------------------------
\* Counting calls.

LEMMA Counting ==
    ASSUME SessionTypeOK, NEW o \in Operations
    PROVE  /\ Begin(o) => /\ calls' \in [Operations -> 0..MaxCalls] /\ calls'[o] > 0
                          /\ \A q \in Operations \ {o} : calls'[q] = calls[q]
           /\ End(o) => /\ calls' \in [Operations -> 0..MaxCalls] /\ calls'[o] = calls[o] - 1
                        /\ \A q \in Operations \ {o} : calls'[q] = calls[q]
                        /\ at \notin Outside
<1>1. calls \in [Operations -> 0..MaxCalls] /\ MaxCalls \in Nat
      /\ calls[o] \in 0..MaxCalls
  BY SessionAssumption DEF SessionTypeOK
<1>2. Begin(o) => /\ calls' \in [Operations -> 0..MaxCalls] /\ calls'[o] > 0
                  /\ \A q \in Operations \ {o} : calls'[q] = calls[q]
  BY <1>1 DEF Begin
<1>3. End(o) => /\ calls' \in [Operations -> 0..MaxCalls] /\ calls'[o] = calls[o] - 1
                /\ \A q \in Operations \ {o} : calls'[q] = calls[q]
  BY <1>1 DEF End
<1>4. End(o) => at \notin Outside
  BY <1>1 DEF End, SessionTypeOK, NoCalls
<1> QED
  BY <1>2, <1>3, <1>4

LEMMA NoCallsType == NoCalls \in [Operations -> 0..MaxCalls]
BY SessionAssumption DEF NoCalls

\* A document that is loaded starts afresh: it shows the user in localStorage.
LEMMA LoadKeeps ==
    ASSUME SessionTypeOK, NEW p \in Addresses, NEW c \in Somebody, LoadAt(p, c),
           c # Nobody => p = "loginCallback",
           idp' \in Somebody, UNCHANGED stored
    PROVE  SessionInv'
<1>1. /\ at' \in InApp \cup {Crashed} /\ (at' \in Guarded => stored # Nobody)
      /\ p = "loginCallback" => at' = "loginCallback"
      /\ at' = Crashed <=> p = Crashed
  BY DEF LoadAt, Addresses, InApp, Guarded, Authentication, Crashed
<1>2. calls' \in [Operations -> 0..MaxCalls]
      /\ \A o \in Operations : calls'[o] = IF o \in Begins(at') THEN 1 ELSE 0
  BY SessionAssumption DEF LoadAt
<1>3. at' \notin Outside /\ Crashed \notin InApp
  BY <1>1 DEF Outside, InApp, Guarded, Authentication, Crashed
<1>4. /\ at' = "login" => calls'["signIn"] > 0
      /\ at' = "loginCallback" => calls'["completeSignIn"] > 0
      /\ at' = "logoutCallback" => calls'["completeSignOut"] > 0
  BY <1>2 DEF Operations, Begins, LoginBegins, CallbackBegins, LogoutBegins
<1>5. /\ stored' \in Somebody /\ cached' = Nobody /\ code' = c /\ foreign' = FALSE
      /\ nav' \in Somebody /\ nav' = IF p = Crashed THEN Nobody ELSE stored'
  BY DEF LoadAt, SessionTypeOK, Somebody
<1>6. SessionTypeOK'
  BY <1>1, <1>2, <1>3, <1>4, <1>5 DEF SessionTypeOK, Somebody
<1>7. MenuOfCached' /\ ActsAsShown' /\ MenuFitsPage'
  BY <1>1, <1>3, <1>5 DEF MenuOfCached, ActsAsShown, MenuFitsPage, InApp
<1> QED
  BY <1>6, <1>7 DEF SessionInv

LEMMA LeaveKeeps ==
    ASSUME SessionTypeOK, NEW p \in {"authorize", "endSession", "account"}, Leave(p),
           UNCHANGED <<idp, stored>>
    PROVE  SessionInv'
<1>1. at' = p /\ calls' = NoCalls /\ cached' = Nobody /\ nav' = Nobody /\ code' = Nobody
      /\ foreign' = FALSE /\ idp' = idp /\ stored' = stored
  BY DEF Leave
<1>2. p \in Outside /\ p \notin InApp /\ p \notin Guarded
      /\ p \notin {"login", "loginCallback", "logoutCallback"} /\ p # Crashed
  BY DEF Crashed, Outside, InApp, Guarded, Authentication
<1>3. SessionTypeOK'
  BY <1>1, <1>2, NoCallsType DEF SessionTypeOK, Somebody
<1> QED
  BY <1>1, <1>2, <1>3 DEF SessionInv, MenuOfCached, ActsAsShown, MenuFitsPage

-----------------------------------------------------------------------------
(* Inside a document.                                                      *)

\* Going to another page of the app, where the guard was asked if there is one.
LEMMA GoKeeps ==
    ASSUME SessionInv, at \in InApp, at' \in InApp,
           UNCHANGED <<idp, stored, cached, nav, foreign>>,
           code' \in Somebody, calls' \in [Operations -> 0..MaxCalls],
           at' \in Guarded => at \in Guarded \/ AuthUser # Nobody,
           at' = "login" => calls'["signIn"] > 0,
           at' = "loginCallback" => calls'["completeSignIn"] > 0,
           at' = "logoutCallback" => calls'["completeSignOut"] > 0,
           code' # Nobody => calls'["completeSignIn"] > 0
    PROVE  SessionInv'
<1>1. at' \notin Outside /\ at' # Crashed
  BY DEF Outside, InApp, Guarded, Authentication, Crashed
<1>2. SessionTypeOK'
  BY <1>1 DEF SessionInv, SessionTypeOK
<1>3. MenuOfCached' /\ ActsAsShown'
  BY DEF SessionInv, MenuOfCached, ActsAsShown
<1>4. MenuFitsPage'
  BY DEF SessionInv, MenuOfCached, ActsAsShown, MenuFitsPage, AuthUser
<1> QED
  BY <1>2, <1>3, <1>4 DEF SessionInv

LEMMA FollowKeeps ==
    ASSUME SessionInv, NEW p \in InApp, Follow(p)
    PROVE  SessionInv'
<1>1. at \in InApp /\ UNCHANGED <<idp, stored, cached, nav, code, foreign>>
      /\ code \in Somebody /\ calls \in [Operations -> 0..MaxCalls]
      /\ (code # Nobody => calls["completeSignIn"] > 0)
  BY DEF Follow, SessionInv, SessionTypeOK
<1>2. CASE p = "home" /\ at' = "home" /\ UNCHANGED calls
  <2>1. "home" \in InApp /\ "home" \notin Guarded
    BY DEF InApp, Guarded
  <2> QED
    BY <1>1, <1>2, <2>1, GoKeeps
<1>3. CASE p \in Guarded /\ MayEnter(p) /\ at' = p /\ UNCHANGED calls
  <2>1. p \notin {"login", "loginCallback", "logoutCallback"}
    BY <1>3 DEF Guarded
  <2> QED
    BY <1>1, <1>3, <2>1, GoKeeps DEF MayEnter
<1>4. CASE at' = "login" /\ Begin("signIn")
  <2>1. "login" \in InApp /\ "login" \notin Guarded
    BY DEF InApp, Guarded, Authentication
  <2>2. "signIn" \in Operations /\ "completeSignIn" \in Operations \ {"signIn"}
    BY DEF Operations
  <2>3. calls' \in [Operations -> 0..MaxCalls] /\ calls'["signIn"] > 0
        /\ calls'["completeSignIn"] = calls["completeSignIn"]
    BY <1>4, <2>2, Counting DEF SessionInv
  <2> QED
    BY <1>1, <1>4, <2>1, <2>3, GoKeeps
<1> QED
  BY <1>2, <1>3, <1>4 DEF Follow

LEMMA UserKeeps ==
    ASSUME SessionInv, User
    PROVE  SessionInv'
<1>1. ASSUME NEW p \in InApp, Follow(p) PROVE SessionInv'
  BY <1>1, FollowKeeps
<1>2. ASSUME NEW p \in Addresses, Visit(p) PROVE SessionInv'
  <2>1. Nobody \in Somebody /\ idp' \in Somebody /\ UNCHANGED stored /\ LoadAt(p, Nobody)
    BY <1>2 DEF Visit, Somebody, SessionInv, SessionTypeOK
  <2> QED
    BY <2>1, LoadKeeps DEF SessionInv
<1>3. CASE GoToAccount
  BY <1>3, LeaveKeeps DEF GoToAccount, SessionInv
<1>4. CASE SignOut
  <2>1. at \in InApp /\ stored' = Nobody /\ UNCHANGED <<idp, cached, nav, at, code, foreign>>
        /\ Begin("signOut")
    BY <1>4 DEF SignOut
  <2>2. "signOut" \in Operations /\ {"signIn", "completeSignIn", "completeSignOut"}
                                        \subseteq Operations \ {"signOut"}
    BY DEF Operations
  <2>3. calls' \in [Operations -> 0..MaxCalls]
        /\ \A o \in {"signIn", "completeSignIn", "completeSignOut"} : calls'[o] = calls[o]
    BY <2>1, <2>2, Counting DEF SessionInv
  <2>4. at \notin Outside /\ at # Crashed
    BY <2>1 DEF Outside, InApp, Guarded, Authentication, Crashed
  <2>5. SessionTypeOK'
    BY <2>1, <2>3, <2>4 DEF SessionInv, SessionTypeOK, Somebody
  <2> QED
    BY <2>1, <2>5 DEF SessionInv, MenuOfCached, ActsAsShown, MenuFitsPage
<1> QED
  BY <1>1, <1>2, <1>3, <1>4 DEF User

-----------------------------------------------------------------------------
(* Answers.                                                                *)

\* An app that throws, or has thrown when a call ends, shows nothing.
LEMMA CrashedKeeps ==
    ASSUME SessionInv, at' = Crashed, nav' = Nobody, UNCHANGED <<idp, foreign>>,
           stored' \in Somebody, cached' \in Somebody, code' \in Somebody,
           calls' \in [Operations -> 0..MaxCalls],
           code' # Nobody => calls'["completeSignIn"] > 0
    PROVE  SessionInv'
<1>1. Crashed \notin InApp \cup Outside /\ Crashed \notin {"login", "loginCallback", "logoutCallback"}
      /\ Guarded \subseteq InApp
  BY DEF InApp, Outside, Guarded, Authentication, Crashed
<1>2. SessionTypeOK'
  BY <1>1 DEF SessionInv, SessionTypeOK, Somebody
<1> QED
  BY <1>1, <1>2 DEF SessionInv, MenuOfCached, ActsAsShown, MenuFitsPage

\* A call of o at page p fails: the app throws, or nobody waits for the call.
LEMMA FailureKeeps ==
    ASSUME SessionInv,
           NEW o \in {"signIn", "completeSignOut"}, NEW p,
           p = IF o = "signIn" THEN "login" ELSE "logoutCallback", End(o),
           \/ at = p /\ at' = Crashed /\ nav' = Nobody
           \/ Abandoned(o, p) /\ UNCHANGED <<at, nav>>,
           UNCHANGED <<idp, stored, cached, code, foreign>>
    PROVE  SessionInv'
<1>1. o \in Operations /\ "completeSignIn" \in Operations \ {o}
      /\ (IF o = "signIn" THEN "completeSignOut" ELSE "signIn") \in Operations \ {o}
  BY DEF Operations
<1>2. /\ calls' \in [Operations -> 0..MaxCalls] /\ calls'[o] = calls[o] - 1
      /\ \A q \in Operations \ {o} : calls'[q] = calls[q]
      /\ at \notin Outside
  BY <1>1, Counting DEF SessionInv
<1>3. /\ stored \in Somebody /\ cached \in Somebody /\ code \in Somebody
      /\ calls[o] \in 0..MaxCalls /\ MaxCalls \in Nat
      /\ code' # Nobody => calls'["completeSignIn"] > 0
  BY <1>1, <1>2, SessionAssumption DEF SessionInv, SessionTypeOK
<1>4. CASE at = p /\ at' = Crashed /\ nav' = Nobody
  BY <1>2, <1>3, <1>4, CrashedKeeps
<1>5. CASE Abandoned(o, p) /\ UNCHANGED <<at, nav>>
  <2>1. at = p => calls'[o] > 0
    BY <1>2, <1>3, <1>5 DEF Abandoned
  <2>2. /\ at = "login" => calls'["signIn"] > 0
        /\ at = "loginCallback" => calls'["completeSignIn"] > 0
        /\ at = "logoutCallback" => calls'["completeSignOut"] > 0
    BY <1>1, <1>2, <2>1 DEF SessionInv, SessionTypeOK
  <2> QED
    BY <1>2, <1>3, <1>5, <2>2
    DEF SessionInv, SessionTypeOK, MenuOfCached, ActsAsShown, MenuFitsPage
<1> QED
  BY <1>4, <1>5

LEMMA SignInKeeps ==
    ASSUME SessionInv, SignInEnds \/ CompleteSignInEnds
    PROVE  SessionInv'
<1>1. CASE SignInRedirects
  BY <1>1, LeaveKeeps DEF SignInRedirects, SessionInv
<1>2. CASE SignInFails
  BY <1>2, FailureKeeps DEF SignInFails
<1>3. CASE CompleteSignIn \/ CompleteSignInFails
  <2>1. "completeSignIn" \in Operations
        /\ {"signIn", "completeSignOut"} \subseteq Operations \ {"completeSignIn"}
    BY DEF Operations
  <2>2. End("completeSignIn") /\ code' = Nobody /\ (Navigate("blank") \/ Navigate("home"))
        /\ UNCHANGED <<idp, foreign>>
    BY <1>3 DEF CompleteSignIn, CompleteSignInFails
  <2>3. calls' \in [Operations -> 0..MaxCalls] /\ at \notin Outside
    BY <2>1, <2>2, Counting DEF SessionInv
  <2>4. \/ /\ stored' = code /\ cached' = code
           /\ nav' = IF at = Crashed THEN nav ELSE code
        \/ UNCHANGED <<stored, cached, nav>>
    BY <1>3 DEF CompleteSignIn, CompleteSignInFails, UpdateState
  <2>5. /\ stored \in Somebody /\ cached \in Somebody /\ code \in Somebody /\ nav \in Somebody
        /\ at = Crashed => nav = Nobody
    BY DEF SessionInv, SessionTypeOK
  <2>6. CASE at = Crashed
    <3>1. at' = Crashed /\ nav' = Nobody /\ Nobody \in Somebody
      BY <2>2, <2>4, <2>5, <2>6 DEF Navigate, Somebody
    <3> QED
      BY <2>2, <2>3, <2>4, <2>5, <3>1, CrashedKeeps
  <2>7. CASE at # Crashed
    <3>1. at' \in {"blank", "home"}
      BY <2>2, <2>7 DEF Navigate
    <3>2. at' \in InApp /\ at' \notin Guarded /\ at' \notin Outside /\ at' # Crashed
          /\ at' \notin {"login", "loginCallback", "logoutCallback"}
      BY <3>1 DEF InApp, Guarded, Authentication, Outside, Crashed
    <3>3. at \in InApp
      BY <2>3, <2>7 DEF SessionInv, SessionTypeOK
    <3>4. SessionTypeOK'
      BY <2>2, <2>3, <2>4, <2>5, <2>7, <3>2 DEF SessionInv, SessionTypeOK, Somebody
    <3> QED
      BY <2>2, <2>4, <2>7, <3>2, <3>3, <3>4
      DEF SessionInv, MenuOfCached, ActsAsShown, MenuFitsPage
  <2> QED
    BY <2>6, <2>7
<1> QED
  BY <1>1, <1>2, <1>3 DEF SignInEnds, CompleteSignInEnds

LEMMA SignOutKeeps ==
    ASSUME SessionInv, SignOutRedirects \/ SignOutFails \/ CompleteSignOutEnds
    PROVE  SessionInv'
<1>1. CASE SignOutRedirects
  BY <1>1, LeaveKeeps DEF SignOutRedirects, SessionInv
<1>2. CASE SignOutFails
  <2>1. "signOut" \in Operations /\ {"signIn", "completeSignIn", "completeSignOut"}
                                        \subseteq Operations \ {"signOut"}
    BY DEF Operations
  <2>2. calls' \in [Operations -> 0..MaxCalls] /\ at \notin Outside
        /\ \A o \in {"signIn", "completeSignIn", "completeSignOut"} : calls'[o] = calls[o]
    BY <1>2, <2>1, Counting DEF SignOutFails, SessionInv
  <2>3. UNCHANGED <<idp, stored, cached, nav, at, code, foreign>>
    BY <1>2 DEF SignOutFails
  <2> QED
    BY <2>2, <2>3 DEF SessionInv, SessionTypeOK, MenuOfCached, ActsAsShown, MenuFitsPage
<1>3. CASE CompleteSignOut
  <2>1. "loggedOut" \in Addresses /\ Nobody \in Somebody /\ idp' \in Somebody
    BY <1>3 DEF Addresses, Somebody, CompleteSignOut, SessionInv, SessionTypeOK
  <2> QED
    BY <1>3, <2>1, LoadKeeps DEF CompleteSignOut, SessionInv
<1>4. CASE CompleteSignOutFails
  BY <1>4, FailureKeeps DEF CompleteSignOutFails
<1> QED
  BY <1>1, <1>2, <1>3, <1>4 DEF CompleteSignOutEnds

LEMMA OutsideKeeps ==
    ASSUME SessionInv, IdentityAnswers \/ SessionEnds \/ OtherTab
    PROVE  SessionInv'
<1>1. "loginCallback" \in Addresses /\ "logoutCallback" \in Addresses /\ Nobody \in Somebody
      /\ People \subseteq Somebody /\ idp \in Somebody
  BY DEF Addresses, Somebody, SessionInv, SessionTypeOK
<1>2. CASE IdentityAnswers
  <2>1. ASSUME NEW u \in People, idp' = u, LoadAt("loginCallback", u), UNCHANGED stored
        PROVE  SessionInv'
    BY <1>1, <2>1, LoadKeeps DEF SessionInv
  <2>2. CASE UNCHANGED idp /\ LoadAt("loginCallback", Nobody) /\ UNCHANGED stored
    BY <1>1, <2>2, LoadKeeps DEF SessionInv
  <2> QED
    BY <1>2, <2>1, <2>2 DEF IdentityAnswers
<1>3. CASE SessionEnds
  BY <1>1, <1>3, LoadKeeps DEF SessionEnds, SessionInv
<1>4. CASE OtherTab
  <2>1. PICK u \in Somebody : stored' = u /\ idp' \in {idp, u}
    BY <1>4 DEF OtherTab
  <2>2. foreign' = (at \in InApp) /\ UNCHANGED <<cached, nav, at, code, calls>>
    BY <1>4, Zenon DEF OtherTab
  <2>3. foreign' \in BOOLEAN /\ (at \in InApp => foreign')
    <3>1. CASE at \in InApp
      BY <2>2, <3>1
    <3>2. CASE at \notin InApp
      BY <2>2, <3>2
    <3> QED
      BY <3>1, <3>2
  <2>4. SessionTypeOK'
    BY <1>1, <2>1, <2>2, <2>3 DEF SessionInv, SessionTypeOK
  <2>5. at \in Guarded => at \in InApp
    BY DEF InApp
  <2> QED
    BY <2>2, <2>3, <2>4, <2>5 DEF SessionInv, MenuOfCached, ActsAsShown, MenuFitsPage
<1> QED
  BY <1>2, <1>3, <1>4

-----------------------------------------------------------------------------
LEMMA InitSession == SessionInit => SessionInv
<1> SUFFICES ASSUME SessionInit PROVE SessionInv
  OBVIOUS
<1>1. "home" \in InApp /\ "home" \notin Guarded /\ "home" \notin Outside /\ "home" # Crashed
  BY DEF InApp, Guarded, Outside, Crashed
<1> QED
  BY <1>1, NoCallsType
  DEF SessionInit, SessionInv, SessionTypeOK, Somebody, MenuOfCached, ActsAsShown, MenuFitsPage

LEMMA StepKeepsSession == SessionInv /\ [SessionNext]_sessionVars => SessionInv'
<1> SUFFICES ASSUME SessionInv, [SessionNext]_sessionVars PROVE SessionInv'
  OBVIOUS
<1>1. CASE UNCHANGED sessionVars
  BY <1>1 DEF sessionVars, SessionInv, SessionTypeOK, MenuOfCached, ActsAsShown, MenuFitsPage
<1>2. CASE SessionNext
  BY <1>2, UserKeeps, SignInKeeps, SignOutKeeps, OutsideKeeps DEF SessionNext
<1> QED
  BY <1>1, <1>2

LEMMA SessionInvHolds == SessionSpec => []SessionInv
BY InitSession, StepKeepsSession, PTL DEF SessionSpec

\* Every page that waits for a call of AuthorizeService has one in progress, and
\* a tab that left the app has none.
THEOREM SessionTypeCorrect == SessionSpec => []SessionTypeOK
<1>1. SessionInv => SessionTypeOK
  BY DEF SessionInv
<1> QED
  BY <1>1, SessionInvHolds, PTL

\* Requests carry the token of the user whom the menu shows, or none.
THEOREM TokenOfUserShown == SessionSpec => []ActsAsShown
<1>1. SessionInv => ActsAsShown
  BY DEF SessionInv
<1> QED
  BY <1>1, SessionInvHolds, PTL

\* Beside a guarded page stands a signed-in user's menu.
THEOREM GuardedMenu == SessionSpec => []MenuFitsPage
<1>1. SessionInv => MenuFitsPage
  BY DEF SessionInv
<1> QED
  BY <1>1, SessionInvHolds, PTL
=================================================================================
