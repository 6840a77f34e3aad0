--------------------------- MODULE TokenProviderProofs ---------------------------
(***************************************************************************)
(* Proofs about TokenProvider, for any callers, lifetimes and delays: its  *)
(* type invariant with the semaphore's discipline, that no fetch is        *)
(* needless, and that a token handed out is no staler than its slow answer *)
(* makes it.                                                               *)
(***************************************************************************)
EXTENDS TokenProvider, TLAPS

\* A call about to return has a token; one about to take the cached token
\* finds one, for _cachedToken is never set to null.
HasToken ==
    \A c \in Callers :
        /\ call[c].pc \in Storing \cup {"release", "done"} => call[c].token \in Tokens
        /\ call[c].pc = "take" => cachedToken # NoToken

FetchInv == TokenTypeOK /\ HasToken /\ NoNeedlessFetch

-----------------------------------------------------------------------------
\* What freshness rests on.

\* Calls began in the past, and the tokens they fetch are issued after that.
Chronology ==
    \A c \in Callers :
        /\ call[c].started <= now
        /\ call[c].pc \in Storing => /\ call[c].started <= call[c].token.issued
                                     /\ call[c].token.issued <= now
                                     /\ now <= call[c].token.issued + call[c].token.delay

\* While a token is being fetched and stored the expiry in force is over.
ExpiryOver ==
    /\ cachedToken = NoToken => expiresAt <= now
    /\ \A c \in Callers :
          /\ call[c].pc \in {"discover", "fetch", "receive", "storeExpiry"} => expiresAt <= now
          /\ call[c].pc # "storeToken"
          /\ call[c].pc = "storeExpiry" => cachedToken = call[c].token

\* A usable token is given up when it expires, or later by what its answer was slow.
ExpiryCovered ==
    Usable /\ cachedToken.lifetime > 0 =>
        expiresAt <= cachedToken.issued + cachedToken.lifetime + Overdue(cachedToken)

Fresh(t, c) == t.lifetime > 0 => t.issued + t.lifetime + Overdue(t) > call[c].started

\* The first check's verdict stays right until the token is read again: a token
\* that replaces the one checked was issued after the check.
TakesFresh ==
    \A c \in Callers : call[c].pc = "take" =>
        /\ Fresh(cachedToken, c)
        /\ \A d \in Callers : call[d].pc \in {"receive", "storeExpiry"} =>
              call[c].started <= call[d].token.issued

ReturnsFresh ==
    \A c \in Callers : call[c].pc \in {"release", "done"} => Fresh(call[c].token, c)

TimeInv == Chronology /\ ExpiryOver /\ ExpiryCovered /\ TakesFresh /\ ReturnsFresh

FreshInv == FetchInv /\ (~weak => TimeInv)

-----------------------------------------------------------------------------
(* Types, the semaphore and needless fetches.                              *)

LEMMA StartKeeps ==
    ASSUME FetchInv, NEW c \in Callers, Start(c)
    PROVE  FetchInv'
BY DEF FetchInv, Start, TokenTypeOK, HasToken, NoNeedlessFetch, Usable, Calls, Inside, Storing, Ended

LEMMA UnlockedKeeps ==
    ASSUME FetchInv, NEW c \in Callers, FirstCheck(c) \/ TakeCached(c) \/ CancelWait(c)
    PROVE  FetchInv'
<1>1. CASE FirstCheck(c)
  BY <1>1 DEF FetchInv, FirstCheck, Go, TokenTypeOK, HasToken, NoNeedlessFetch, Usable,
              Calls, Inside, Storing, Ended
<1>2. CASE TakeCached(c)
  BY <1>2 DEF FetchInv, TakeCached, GoWith, TokenTypeOK, HasToken, NoNeedlessFetch, Usable,
              Calls, Inside, Storing, Ended
<1>3. CASE CancelWait(c)
  BY <1>3 DEF FetchInv, CancelWait, Go, TokenTypeOK, HasToken, NoNeedlessFetch, Usable,
              Calls, Inside, Storing, Ended
<1> QED
  BY <1>1, <1>2, <1>3

LEMMA AcquireKeeps ==
    ASSUME FetchInv, NEW c \in Callers, Acquire(c)
    PROVE  FetchInv'
BY TokenAssumption
DEF FetchInv, Acquire, Go, TokenTypeOK, HasToken, NoNeedlessFetch, Usable,
    Calls, Inside, Storing, Ended

LEMMA RequestKeeps ==
    ASSUME FetchInv, NEW c \in Callers, NEW t \in Tokens, call[c].pc = "fetch",
           GoWith(c, "receive", t),
           UNCHANGED <<weak, now, cachedToken, expiresAt, endpoint, holder>>
    PROVE  FetchInv'
BY DEF FetchInv, GoWith, TokenTypeOK, HasToken, NoNeedlessFetch, Usable, Calls, Inside, Storing, Ended

LEMMA FetchingKeeps ==
    ASSUME FetchInv, NEW c \in Callers,
           SecondCheck(c) \/ Discover(c) \/ RequestToken(c) \/ FetchFails(c)
    PROVE  FetchInv'
<1>1. CASE SecondCheck(c)
  BY <1>1 DEF FetchInv, SecondCheck, Go, GoWith, TokenTypeOK, HasToken, NoNeedlessFetch, Usable,
              Calls, Inside, Storing, Ended
<1>2. CASE Discover(c)
  BY <1>2 DEF FetchInv, Discover, Go, TokenTypeOK, HasToken, NoNeedlessFetch, Usable,
              Calls, Inside, Storing, Ended
<1>3. CASE RequestToken(c)
  <2>1. PICK l \in Lifetimes, w \in Delays : GoWith(c, "receive", [issued |-> now, lifetime |-> l, delay |-> w])
    BY <1>3 DEF RequestToken
  <2> DEFINE t == [issued |-> now, lifetime |-> l, delay |-> w]
  <2>2. t \in Tokens /\ GoWith(c, "receive", t)
    BY <2>1 DEF Tokens, FetchInv, TokenTypeOK
  <2>3. call[c].pc = "fetch" /\ UNCHANGED <<weak, now, cachedToken, expiresAt, endpoint, holder>>
    BY <1>3 DEF RequestToken
  <2> QED
    BY <2>2, <2>3, RequestKeeps
<1>4. CASE FetchFails(c)
  BY <1>4 DEF FetchInv, FetchFails, GoWith, TokenTypeOK, HasToken, NoNeedlessFetch, Usable,
              Calls, Inside, Storing, Ended
<1> QED
  BY <1>1, <1>2, <1>3, <1>4

\* Whoever stores holds the semaphore, so nobody else is about to fetch.
LEMMA StoringKeeps ==
    ASSUME FetchInv, NEW c \in Callers, StoreToken(c) \/ StoreExpiry(c)
    PROVE  FetchInv'
<1>1. call[c].pc \in Storing /\ call[c].token \in Tokens /\ holder = c
  BY DEF StoreToken, StoreExpiry, FetchInv, HasToken, TokenTypeOK, Storing, Inside
<1>2. \A d \in Callers : d # c => call[d].pc \notin Inside
  BY <1>1 DEF FetchInv, TokenTypeOK
<1>3. cachedToken' # NoToken \/ cachedToken' = cachedToken
  BY <1>1, TokenAssumption DEF StoreToken, StoreExpiry, Tokens
<1>4. expiresAt' \in Int
  <2>1. call[c].token.lifetime \in Nat /\ now \in Nat /\ expiresAt \in Int
    BY <1>1, TokenAssumption DEF Tokens, FetchInv, TokenTypeOK
  <2>2. Expiry(call[c].token) \in Int
    BY <2>1, TokenAssumption DEF Expiry
  <2> QED
    BY <2>1, <2>2 DEF StoreToken, StoreExpiry
<1>5. CASE StoreToken(c)
  BY <1>1, <1>2, <1>3, <1>5 DEF FetchInv, StoreToken, Go, TokenTypeOK, HasToken,
        NoNeedlessFetch, Usable, Calls, Inside, Storing, Ended
<1>6. CASE StoreExpiry(c)
  BY <1>1, <1>2, <1>4, <1>6 DEF FetchInv, StoreExpiry, Go, TokenTypeOK, HasToken,
        NoNeedlessFetch, Usable, Calls, Inside, Storing, Ended
<1> QED
  BY <1>5, <1>6

LEMMA ReleaseKeeps ==
    ASSUME FetchInv, NEW c \in Callers, Release(c)
    PROVE  FetchInv'
BY TokenAssumption
DEF FetchInv, Release, Go, TokenTypeOK, HasToken, NoNeedlessFetch, Usable,
    Calls, Inside, Storing, Ended

LEMMA TickKeeps ==
    ASSUME FetchInv, Tick
    PROVE  FetchInv'
BY DEF FetchInv, Tick, TokenTypeOK, HasToken, NoNeedlessFetch, Usable

LEMMA FetchStep ==
    ASSUME FetchInv, [TokenNext]_tokenVars
    PROVE  FetchInv'
<1>1. ASSUME NEW c \in Callers, Start(c) \/ Acquire(c) \/ CancelWait(c) \/ Step(c)
      PROVE  FetchInv'
  BY <1>1, StartKeeps, AcquireKeeps, UnlockedKeeps, FetchingKeeps, StoringKeeps, ReleaseKeeps
  DEF Step
<1>2. CASE UNCHANGED tokenVars
  BY <1>2 DEF tokenVars, FetchInv, TokenTypeOK, HasToken, NoNeedlessFetch, Usable
<1> QED
  BY <1>1, <1>2, TickKeeps DEF TokenNext

LEMMA FetchStart == TokenInit => FetchInv
<1> SUFFICES ASSUME TokenInit
             PROVE  FetchInv
  OBVIOUS
<1>1. call \in [Callers -> Calls] /\ \A c \in Callers : call[c].pc = "failed"
  BY DEF TokenInit, Calls, Ended
<1>2. HasToken /\ NoNeedlessFetch
  BY <1>1 DEF HasToken, NoNeedlessFetch, Storing
<1>3. TokenTypeOK
  <2>1. weak \in BOOLEAN /\ endpoint \in BOOLEAN
    BY DEF TokenInit
  <2>2. \A c \in Callers : holder = c <=> call[c].pc \in Inside
    BY <1>1, TokenAssumption DEF TokenInit, Inside, Storing
  <2>3. now \in Nat /\ expiresAt \in Int
    BY DEF TokenInit
  <2>4. cachedToken \in Tokens \cup {NoToken} /\ holder \in Callers \cup {Free}
    BY DEF TokenInit
  <2> QED
    BY <1>1, <2>1, <2>2, <2>3, <2>4 DEF TokenTypeOK
<1> QED
  BY <1>2, <1>3 DEF FetchInv

\* The provider's fields have their types, and the semaphore is held by exactly
\* the call inside it, through failures and cancellations.
THEOREM TokenTypeIsCorrect == TokenSpec => []TokenTypeOK
<1>1. FetchInv => TokenTypeOK
  BY DEF FetchInv
<1> QED
  BY <1>1, FetchStart, FetchStep, PTL DEF TokenSpec

\* For any number of callers, GetTokenAsync goes to Identity only while the
\* cached token is of no use.
THEOREM NoFetchIsNeedless == TokenSpec => []NoNeedlessFetch
<1>1. FetchInv => NoNeedlessFetch
  BY DEF FetchInv
<1> QED
  BY <1>1, FetchStart, FetchStep, PTL DEF TokenSpec

-----------------------------------------------------------------------------
(* Freshness.  Of the calls inside the semaphore there is one at a time, so  *)
(* the expiry in force and the cached token are changed by one at a time.    *)

LEMMA Numbers ==
    ASSUME FetchInv
    PROVE  /\ now \in Nat /\ expiresAt \in Int /\ Margin \in Nat
           /\ \A t \in Tokens : t.issued \in Nat /\ t.lifetime \in Nat /\ t.delay \in Nat /\ Overdue(t) \in Nat
           /\ cachedToken # NoToken => cachedToken \in Tokens
           /\ \A c \in Callers :
                 /\ call[c].started \in Nat
                 /\ call[c].pc \in Storing \cup {"release", "done"} => call[c].token \in Tokens
<1>1. ASSUME NEW t \in Tokens
      PROVE  t.issued \in Nat /\ t.lifetime \in Nat /\ t.delay \in Nat /\ Overdue(t) \in Nat
  <2>1. t.issued \in Nat /\ t.lifetime \in Nat /\ t.delay \in Nat /\ Margin \in Nat
    BY <1>1, TokenAssumption DEF Tokens
  <2> QED
    BY <2>1 DEF Overdue
<1>2. now \in Nat /\ expiresAt \in Int /\ Margin \in Nat
  BY TokenAssumption DEF FetchInv, TokenTypeOK
<1>3. cachedToken # NoToken => cachedToken \in Tokens
  BY DEF FetchInv, TokenTypeOK
<1>4. \A c \in Callers :
         /\ call[c].started \in Nat
         /\ call[c].pc \in Storing \cup {"release", "done"} => call[c].token \in Tokens
  BY DEF FetchInv, TokenTypeOK, HasToken, Calls
<1> QED
  BY <1>1, <1>2, <1>3, <1>4

\* A usable token is fresh for every call so far.
LEMMA UsableIsFresh ==
    ASSUME FetchInv, TimeInv, Usable, NEW c \in Callers
    PROVE  Fresh(cachedToken, c)
BY Numbers DEF TimeInv, Chronology, ExpiryCovered, Usable, Fresh

LEMMA StartInTime ==
    ASSUME FetchInv, TimeInv, NEW c \in Callers, Start(c)
    PROVE  TimeInv'
<1>1. /\ call'[c].pc = "first" /\ call'[c].started = now
      /\ \A d \in Callers : d # c => call'[d] = call[d]
  BY DEF Start, FetchInv, TokenTypeOK
<1>2. UNCHANGED <<weak, now, cachedToken, expiresAt, endpoint, holder>>
  BY DEF Start
<1> QED
  BY <1>1, <1>2, Numbers
  DEF TimeInv, Chronology, ExpiryOver, ExpiryCovered, TakesFresh, ReturnsFresh, Fresh, Usable, Storing

\* A call that moves without storing leaves the rest to its own stages.
Moved(c) ==
    /\ UNCHANGED <<weak, now, cachedToken, expiresAt, holder>>
    /\ \A d \in Callers : d # c => call'[d] = call[d]
    /\ call'[c].started = call[c].started

LEMMA GoMoves ==
    ASSUME FetchInv, NEW c \in Callers, NEW pc, Go(c, pc),
           UNCHANGED <<weak, now, cachedToken, expiresAt, holder>>
    PROVE  Moved(c) /\ call'[c].pc = pc /\ call'[c].token = call[c].token
BY DEF FetchInv, TokenTypeOK, Calls, Go, Moved

LEMMA GoWithMoves ==
    ASSUME FetchInv, NEW c \in Callers, NEW pc, NEW t, GoWith(c, pc, t),
           UNCHANGED <<weak, now, cachedToken, expiresAt, holder>>
    PROVE  Moved(c) /\ call'[c].pc = pc /\ call'[c].token = t
BY DEF FetchInv, TokenTypeOK, Calls, GoWith, Moved

\* To a stage that promises nothing.
LEMMA MovedFreely ==
    ASSUME FetchInv, TimeInv, NEW c \in Callers, Moved(c),
           call'[c].pc \in {"wait", "check", "failed", "abort"}
    PROVE  TimeInv'
BY DEF TimeInv, Chronology, ExpiryOver, ExpiryCovered, TakesFresh, ReturnsFresh, Fresh, Usable,
       Moved, Storing

\* To a stage that returns a fresh token.
LEMMA MovedToReturn ==
    ASSUME FetchInv, TimeInv, NEW c \in Callers, Moved(c),
           call'[c].pc \in {"release", "done"}, Fresh(call'[c].token, c)
    PROVE  TimeInv'
BY DEF TimeInv, Chronology, ExpiryOver, ExpiryCovered, TakesFresh, ReturnsFresh, Fresh, Usable,
       Moved, Storing

LEMMA FirstCheckInTime ==
    ASSUME FetchInv, TimeInv, NEW c \in Callers, FirstCheck(c)
    PROVE  TimeInv'
<1>1. CASE ~Usable
  BY <1>1, GoMoves, MovedFreely DEF FirstCheck
<1>2. CASE Usable
  <2>1. Moved(c) /\ call'[c].pc = "take" /\ call'[c].token = call[c].token
    BY <1>2, GoMoves DEF FirstCheck
  <2>2. \A d \in Callers : call[d].pc \notin {"receive", "storeExpiry"}
    BY <1>2, Numbers DEF TimeInv, ExpiryOver, Usable
  <2>3. TakesFresh'
    BY <1>2, <2>1, <2>2, UsableIsFresh DEF Moved, TimeInv, TakesFresh, Fresh
  <2> QED
    BY <2>1, <2>3
    DEF Moved, TimeInv, Chronology, ExpiryOver, ExpiryCovered, ReturnsFresh, Fresh, Usable, Storing
<1> QED
  BY <1>1, <1>2

LEMMA TakeInTime ==
    ASSUME FetchInv, TimeInv, NEW c \in Callers, TakeCached(c)
    PROVE  TimeInv'
<1>1. Moved(c) /\ call'[c].pc = "done" /\ call'[c].token = cachedToken
  BY GoWithMoves DEF TakeCached
<1>2. Fresh(cachedToken, c)
  BY DEF TakeCached, TimeInv, TakesFresh
<1> QED
  BY <1>1, <1>2, MovedToReturn

LEMMA AcquireInTime ==
    ASSUME FetchInv, TimeInv, NEW c \in Callers, Acquire(c)
    PROVE  TimeInv'
<1>1. /\ \A d \in Callers : d # c => call'[d] = call[d]
      /\ call'[c].pc = "check" /\ call'[c].started = call[c].started
      /\ UNCHANGED <<weak, now, cachedToken, expiresAt>>
  BY DEF Acquire, Go, FetchInv, TokenTypeOK, Calls
<1> QED
  BY <1>1 DEF TimeInv, Chronology, ExpiryOver, ExpiryCovered, TakesFresh, ReturnsFresh, Fresh,
              Usable, Storing

LEMMA SecondCheckInTime ==
    ASSUME FetchInv, TimeInv, NEW c \in Callers, SecondCheck(c)
    PROVE  TimeInv'
<1>1. CASE Usable
  <2>1. Moved(c) /\ call'[c].pc = "release" /\ call'[c].token = cachedToken
    BY <1>1, GoWithMoves DEF SecondCheck
  <2> QED
    BY <1>1, <2>1, UsableIsFresh, MovedToReturn
<1>2. CASE ~Usable
  <2>1. Moved(c) /\ call'[c].pc \in {"discover", "fetch"}
    BY <1>2, GoMoves DEF SecondCheck
  <2>2. expiresAt <= now
    BY <1>2, Numbers DEF Usable, TimeInv, ExpiryOver
  <2> QED
    BY <2>1, <2>2 DEF Moved, TimeInv, Chronology, ExpiryOver, ExpiryCovered, TakesFresh,
                      ReturnsFresh, Fresh, Usable, Storing
<1> QED
  BY <1>1, <1>2

LEMMA DiscoverInTime ==
    ASSUME FetchInv, TimeInv, NEW c \in Callers, Discover(c)
    PROVE  TimeInv'
<1>1. Moved(c) /\ call'[c].pc = "fetch" /\ call[c].pc = "discover"
  BY GoMoves DEF Discover
<1> QED
  BY <1>1 DEF Moved, TimeInv, Chronology, ExpiryOver, ExpiryCovered, TakesFresh,
              ReturnsFresh, Fresh, Usable, Storing

LEMMA RequestInTime ==
    ASSUME FetchInv, TimeInv, NEW c \in Callers, RequestToken(c)
    PROVE  TimeInv'
<1>1. PICK l \in Lifetimes, w \in Delays : GoWith(c, "receive", [issued |-> now, lifetime |-> l, delay |-> w])
  BY DEF RequestToken
<1>2. /\ Moved(c) /\ call'[c].pc = "receive"
      /\ call'[c].token.issued = now /\ call'[c].token.delay \in Nat
  BY <1>1, GoWithMoves, TokenAssumption DEF RequestToken
<1>3. call[c].pc = "fetch" /\ expiresAt <= now
  BY DEF RequestToken, TimeInv, ExpiryOver
<1>4. Chronology'
  BY <1>2, Numbers DEF Moved, TimeInv, Chronology
<1>5. TakesFresh'
  BY <1>2, <1>3 DEF Moved, TimeInv, Chronology, TakesFresh, Fresh
<1> QED
  BY <1>2, <1>3, <1>4, <1>5
  DEF Moved, TimeInv, ExpiryOver, ExpiryCovered, ReturnsFresh, Fresh, Usable

LEMMA FailInTime ==
    ASSUME FetchInv, TimeInv, NEW c \in Callers, CancelWait(c) \/ FetchFails(c)
    PROVE  TimeInv'
<1>1. CASE CancelWait(c)
  BY <1>1, GoMoves, MovedFreely DEF CancelWait
<1>2. CASE FetchFails(c)
  BY <1>2, GoWithMoves, MovedFreely DEF FetchFails
<1> QED
  BY <1>1, <1>2

LEMMA StoreTokenInTime ==
    ASSUME FetchInv, TimeInv, NEW c \in Callers, StoreToken(c)
    PROVE  TimeInv'
<1>1. call[c].pc = "receive" /\ Go(c, "storeExpiry") /\ cachedToken' = call[c].token
  BY DEF StoreToken, TimeInv, ExpiryOver
<1>2. /\ \A d \in Callers : d # c => call'[d] = call[d]
      /\ call'[c].pc = "storeExpiry" /\ call'[c].token = call[c].token
      /\ call'[c].started = call[c].started
      /\ UNCHANGED <<weak, now, expiresAt>>
  BY <1>1 DEF Go, StoreToken, FetchInv, TokenTypeOK, Calls
<1>3. call[c].token \in Tokens /\ expiresAt <= now
  BY <1>1, Numbers DEF Storing, TimeInv, ExpiryOver
<1>4. \A d \in Callers : d # c => call[d].pc \notin Inside
  BY <1>1 DEF FetchInv, TokenTypeOK, Inside, Storing
<1>5. Chronology'
  BY <1>1, <1>2 DEF TimeInv, Chronology, Storing
<1>6. ExpiryOver'
  BY <1>1, <1>2, <1>3, <1>4 DEF TimeInv, ExpiryOver, Inside, Storing
<1>7. ExpiryCovered'
  BY <1>2, <1>3, Numbers DEF ExpiryCovered, Usable
<1>8. TakesFresh'
  <2> SUFFICES ASSUME NEW d \in Callers, call'[d].pc = "take"
               PROVE  /\ Fresh(cachedToken, d)'
                      /\ \A e \in Callers : call'[e].pc \in {"receive", "storeExpiry"} =>
                            call'[d].started <= call'[e].token.issued
    BY DEF TakesFresh
  <2>1. d # c /\ call'[d] = call[d]
    BY <1>2
  <2>2. call[d].started <= call[c].token.issued
    BY <1>1, <2>1 DEF TimeInv, TakesFresh
  <2>3. Fresh(cachedToken, d)'
    BY <1>1, <1>3, <2>1, <2>2, Numbers DEF Fresh
  <2>4. \A e \in Callers : call'[e].pc \in {"receive", "storeExpiry"} => e = c
    BY <1>2, <1>4 DEF Inside, Storing
  <2> QED
    BY <1>2, <2>1, <2>2, <2>3, <2>4
<1>9. ReturnsFresh'
  BY <1>2 DEF TimeInv, ReturnsFresh, Fresh
<1> QED
  BY <1>5, <1>6, <1>7, <1>8, <1>9 DEF TimeInv

\* The margin makes up for the time the token took, but for what is overdue.
LEMMA StoreExpiryInTime ==
    ASSUME FetchInv, TimeInv, ~weak, NEW c \in Callers, StoreExpiry(c)
    PROVE  TimeInv'
<1>1. call[c].pc = "storeExpiry" /\ Go(c, "release") /\ expiresAt' = Expiry(call[c].token)
  BY DEF StoreExpiry
<1>2. /\ \A d \in Callers : d # c => call'[d] = call[d]
      /\ call'[c].pc = "release" /\ call'[c].token = call[c].token
      /\ call'[c].started = call[c].started
      /\ UNCHANGED <<weak, now, cachedToken>>
  BY <1>1 DEF Go, StoreExpiry, FetchInv, TokenTypeOK, Calls
<1>3. /\ call[c].token \in Tokens /\ cachedToken = call[c].token
      /\ call[c].started <= call[c].token.issued
      /\ now <= call[c].token.issued + call[c].token.delay
  BY <1>1, Numbers DEF Storing, TimeInv, ExpiryOver, Chronology
<1>4. \A d \in Callers : d # c => call[d].pc \notin Inside
  BY <1>1 DEF FetchInv, TokenTypeOK, Inside, Storing
<1>5. Chronology'
  BY <1>2 DEF TimeInv, Chronology, Storing
<1>6. ExpiryOver'
  <2>1. cachedToken' # NoToken
    BY <1>2, <1>3, TokenAssumption DEF Tokens
  <2> QED
    BY <1>2, <1>4, <2>1 DEF TimeInv, ExpiryOver, Inside, Storing
<1>7. ExpiryCovered'
  <2>1. call[c].token.lifetime > 0 => expiresAt' = now + (call[c].token.lifetime - Margin)
    BY <1>1 DEF Expiry
  <2> QED
    BY <1>2, <1>3, <2>1, Numbers DEF ExpiryCovered, Overdue
<1>8. TakesFresh'
  BY <1>2 DEF TimeInv, TakesFresh, Fresh
<1>9. ReturnsFresh'
  <2>1. Fresh(call[c].token, c)
    BY <1>3, Numbers DEF Fresh
  <2> QED
    BY <1>2, <2>1 DEF TimeInv, ReturnsFresh, Fresh
<1> QED
  BY <1>5, <1>6, <1>7, <1>8, <1>9 DEF TimeInv

LEMMA ReleaseInTime ==
    ASSUME FetchInv, TimeInv, NEW c \in Callers, Release(c)
    PROVE  TimeInv'
<1>1. /\ \A d \in Callers : d # c => call'[d] = call[d]
      /\ call'[c].started = call[c].started /\ call'[c].token = call[c].token
      /\ UNCHANGED <<weak, now, cachedToken, expiresAt>>
  BY DEF Release, Go, FetchInv, TokenTypeOK, Calls
<1>2. \/ call[c].pc = "release" /\ call'[c].pc = "done"
      \/ call'[c].pc = "failed"
  BY DEF Release, Go, FetchInv, TokenTypeOK, Calls
<1> QED
  BY <1>1, <1>2 DEF TimeInv, Chronology, ExpiryOver, ExpiryCovered, TakesFresh, ReturnsFresh, Fresh,
                    Usable, Storing

LEMMA TickInTime ==
    ASSUME FetchInv, TimeInv, Tick
    PROVE  TimeInv'
<1>1. now' = now + 1 /\ UNCHANGED <<weak, cachedToken, expiresAt, endpoint, holder, call>>
  BY DEF Tick
<1>2. \A c \in Callers : call[c].pc \in Storing => now < call[c].token.issued + call[c].token.delay
  BY DEF Tick
<1>3. Chronology'
  BY <1>1, <1>2, Numbers DEF TimeInv, Chronology
<1>4. ExpiryOver'
  BY <1>1, Numbers DEF TimeInv, ExpiryOver
<1>5. ExpiryCovered'
  BY <1>1, Numbers DEF TimeInv, ExpiryCovered, Usable
<1>6. TakesFresh' /\ ReturnsFresh'
  BY <1>1 DEF TimeInv, TakesFresh, ReturnsFresh, Fresh
<1> QED
  BY <1>3, <1>4, <1>5, <1>6 DEF TimeInv

LEMMA FreshStart == TokenInit => FreshInv
<1> SUFFICES ASSUME TokenInit
             PROVE  FreshInv
  OBVIOUS
<1>1. \A c \in Callers : call[c].pc = "failed" /\ call[c].started = 0
  BY DEF TokenInit
<1>2. now = 0 /\ expiresAt = 0 /\ cachedToken = NoToken
  BY DEF TokenInit
<1>3. TimeInv
  BY <1>1, <1>2 DEF TimeInv, Chronology, ExpiryOver, ExpiryCovered, TakesFresh, ReturnsFresh,
                    Usable, Storing
<1> QED
  BY <1>3, FetchStart DEF FreshInv

LEMMA FreshStep ==
    ASSUME FreshInv, [TokenNext]_tokenVars
    PROVE  FreshInv'
<1>1. FetchInv'
  BY FetchStep DEF FreshInv
<1>2. weak' = weak
  BY DEF TokenNext, Start, Acquire, CancelWait, Step, FirstCheck, TakeCached, SecondCheck, Discover,
         RequestToken, StoreToken, StoreExpiry, FetchFails, Release, Tick, tokenVars
<1>3. ASSUME ~weak
      PROVE  TimeInv'
  <2>1. FetchInv /\ TimeInv
    BY <1>3 DEF FreshInv
  <2>2. ASSUME NEW c \in Callers, Start(c) \/ Acquire(c) \/ CancelWait(c) \/ Step(c)
        PROVE  TimeInv'
    BY <1>3, <2>1, <2>2, StartInTime, AcquireInTime, FailInTime, FirstCheckInTime, TakeInTime,
       SecondCheckInTime, DiscoverInTime, RequestInTime, StoreTokenInTime, StoreExpiryInTime,
       ReleaseInTime
    DEF Step
  <2>3. CASE UNCHANGED tokenVars
    BY <2>1, <2>3 DEF tokenVars, TimeInv, Chronology, ExpiryOver, ExpiryCovered, TakesFresh,
                      ReturnsFresh, Fresh, Usable
  <2> QED
    BY <2>1, <2>2, <2>3, TickInTime DEF TokenNext
<1> QED
  BY <1>1, <1>2, <1>3 DEF FreshInv

\* For any callers, lifetimes and delays: while stores stay in order, no call returns
\* a token that had expired when the call began by as much as its answer was
\* slower than the margin, or at all if the answer was not.
THEOREM TokensAreFresh == TokenSpec => []TokenFresh
<1>1. FreshInv => TokenFresh
  BY DEF FreshInv, TimeInv, ReturnsFresh, Fresh, TokenFresh
<1> QED
  BY <1>1, FreshStart, FreshStep, PTL DEF TokenSpec
================================================================================
