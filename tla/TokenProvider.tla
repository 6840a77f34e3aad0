------------------------------ MODULE TokenProvider ------------------------------
(***************************************************************************)
(* Play.Common's ClientCredentialsTokenProvider: concurrent callers share  *)
(* one cached token, fetched from Identity under a semaphore.              *)
(*                                                                         *)
(* The first check runs without the semaphore, on two fields that the      *)
(* holder writes one after the other.  Time is in units of the reader's    *)
(* choice; only sums and order of Margin, Fallback and lifetimes matter.   *)
(***************************************************************************)
EXTENDS Integers

CONSTANTS
    Callers,     \* requests that pass through TokenDelegatingHandler
    Free,        \* the semaphore is not held
    NoToken,     \* null
    Lifetimes,   \* what expires_in may say; 0 if it is missing or no number
    Margin,      \* the 30 seconds a token is given up early
    Fallback,    \* the 5 minutes a token without expires_in is kept
    Delays,      \* how long answering and storing a token may take after it is issued
    MaxTime      \* bound: the clock stops here

ASSUME TokenAssumption ==
    /\ Free \notin Callers
    /\ Lifetimes \subseteq Nat /\ Delays \subseteq Nat
    /\ Margin \in Nat /\ Fallback \in Nat /\ MaxTime \in Nat
    /\ NoToken \notin [issued : Nat, lifetime : Lifetimes, delay : Delays]

VARIABLES
    weak,         \* whether the platform may reorder plain stores (Arm64) or not (x64)
    now,          \* DateTime.UtcNow, the same for Identity
    cachedToken,  \* _cachedToken
    expiresAt,    \* _expiresAt
    endpoint,     \* whether _cachedTokenEndpoint is known
    holder,       \* who is inside _sync
    call          \* each caller's current or last call

tokenVars == <<weak, now, cachedToken, expiresAt, endpoint, holder, call>>

\* A token with the time its answer takes at most, which the code does not know.
Tokens == [issued : Nat, lifetime : Lifetimes, delay : Delays]

\* Where a call is: Inside, it holds the semaphore.
Storing == {"receive", "storeExpiry", "storeToken"}
Inside == Storing \cup {"check", "discover", "fetch", "release", "abort"}
Ended == {"done", "failed"}

Calls == [pc : Inside \cup Ended \cup {"first", "take", "wait"},
          started : Nat, token : Tokens \cup {NoToken}]

Go(c, pc) == call' = [call EXCEPT ![c].pc = pc]
GoWith(c, pc, t) == call' = [call EXCEPT ![c].pc = pc, ![c].token = t]

Usable == cachedToken # NoToken /\ now < expiresAt

-----------------------------------------------------------------------------
(* GetTokenAsync.                                                          *)

Start(c) ==
    /\ call[c].pc \in Ended
    /\ call' = [call EXCEPT ![c] = [pc |-> "first", started |-> now, token |-> NoToken]]
    /\ UNCHANGED <<weak, now, cachedToken, expiresAt, endpoint, holder>>

\* The check without the semaphore; it reads the token again to return it.
FirstCheck(c) ==
    /\ call[c].pc = "first"
    /\ Go(c, IF Usable THEN "take" ELSE "wait")
    /\ UNCHANGED <<weak, now, cachedToken, expiresAt, endpoint, holder>>

TakeCached(c) ==
    /\ call[c].pc = "take"
    /\ GoWith(c, "done", cachedToken)
    /\ UNCHANGED <<weak, now, cachedToken, expiresAt, endpoint, holder>>

Acquire(c) ==
    /\ call[c].pc = "wait" /\ holder = Free
    /\ holder' = c
    /\ Go(c, "check")
    /\ UNCHANGED <<weak, now, cachedToken, expiresAt, endpoint>>

\* Mutant: Release is called even if the wait was cancelled.
ReleaseUnheld(c) ==
    /\ call[c].pc = "wait"
    /\ Go(c, "failed") /\ holder' = Free
    /\ UNCHANGED <<weak, now, cachedToken, expiresAt, endpoint>>

\* The cancellation token ends the wait, before the try.
CancelWait(c) ==
    /\ call[c].pc = "wait"
    /\ Go(c, "failed")
    /\ UNCHANGED <<weak, now, cachedToken, expiresAt, endpoint, holder>>

\* Mutant: the token is not checked again inside the semaphore.
FetchAnyway(c) ==
    /\ call[c].pc = "check"
    /\ Go(c, IF endpoint THEN "fetch" ELSE "discover")
    /\ UNCHANGED <<weak, now, cachedToken, expiresAt, endpoint, holder>>

SecondCheck(c) ==
    /\ call[c].pc = "check"
    /\ \/ Usable /\ GoWith(c, "release", cachedToken)
       \/ ~Usable /\ Go(c, IF endpoint THEN "fetch" ELSE "discover")
    /\ UNCHANGED <<weak, now, cachedToken, expiresAt, endpoint, holder>>

Discover(c) ==
    /\ call[c].pc = "discover"
    /\ endpoint' = TRUE
    /\ Go(c, "fetch")
    /\ UNCHANGED <<weak, now, cachedToken, expiresAt, holder>>

\* Identity issues a token; its answer is under way, and may be slow.
RequestToken(c) ==
    /\ call[c].pc = "fetch"
    /\ \E l \in Lifetimes, d \in Delays :
          GoWith(c, "receive", [issued |-> now, lifetime |-> l, delay |-> d])
    /\ UNCHANGED <<weak, now, cachedToken, expiresAt, endpoint, holder>>

\* Mutant: the token is kept until the very end of its lifetime.
ExpiryWithoutMargin(t) == now + (IF t.lifetime > 0 THEN t.lifetime ELSE Fallback)

Expiry(t) == now + (IF t.lifetime > 0 THEN t.lifetime - Margin ELSE Fallback)

\* First the token is stored, then its expiry; other threads see it that way
\* only if the platform keeps the order of plain stores.
StoreToken(c) ==
    /\ \/ call[c].pc = "receive" /\ Go(c, "storeExpiry")
       \/ call[c].pc = "storeToken" /\ Go(c, "release")
    /\ cachedToken' = call[c].token
    /\ UNCHANGED <<weak, now, expiresAt, endpoint, holder>>

StoreExpiry(c) ==
    /\ \/ call[c].pc = "storeExpiry" /\ Go(c, "release")
       \/ weak /\ call[c].pc = "receive" /\ Go(c, "storeToken")
    /\ expiresAt' = Expiry(call[c].token)
    /\ UNCHANGED <<weak, now, cachedToken, endpoint, holder>>

\* Configuration, discovery or the token request throws, or the answer has no
\* access_token.
FetchFails(c) ==
    /\ call[c].pc \in {"discover", "fetch", "receive"}
    /\ GoWith(c, "abort", NoToken)
    /\ UNCHANGED <<weak, now, cachedToken, expiresAt, endpoint, holder>>

\* Mutant: Release is not in the finally block.
ReleaseOnReturn(c) ==
    \/ /\ call[c].pc = "release"
       /\ Go(c, "done") /\ holder' = Free
       /\ UNCHANGED <<weak, now, cachedToken, expiresAt, endpoint>>
    \/ /\ call[c].pc = "abort"
       /\ Go(c, "failed")
       /\ UNCHANGED <<weak, now, cachedToken, expiresAt, endpoint, holder>>

Release(c) ==
    /\ \/ call[c].pc = "release" /\ Go(c, "done")
       \/ call[c].pc = "abort" /\ Go(c, "failed")
    /\ holder' = Free
    /\ UNCHANGED <<weak, now, cachedToken, expiresAt, endpoint>>

\* The time a token takes until it is stored is its own: within HttpClient's 100
\* seconds it may well be more than the margin.
Tick ==
    /\ now < MaxTime
    /\ \A c \in Callers :
          call[c].pc \in Storing => now < call[c].token.issued + call[c].token.delay
    /\ now' = now + 1
    /\ UNCHANGED <<weak, cachedToken, expiresAt, endpoint, holder, call>>

-----------------------------------------------------------------------------
TokenInit ==
    /\ weak \in BOOLEAN
    /\ now = 0
    /\ cachedToken = NoToken
    /\ expiresAt = 0
    /\ endpoint = FALSE
    /\ holder = Free
    /\ call = [c \in Callers |-> [pc |-> "failed", started |-> 0, token |-> NoToken]]

Step(c) ==
    \/ FirstCheck(c) \/ TakeCached(c) \/ SecondCheck(c)
    \/ Discover(c) \/ RequestToken(c) \/ StoreToken(c) \/ StoreExpiry(c)
    \/ FetchFails(c) \/ Release(c)

TokenNext ==
    \/ \E c \in Callers : Start(c) \/ Acquire(c) \/ CancelWait(c) \/ Step(c)
    \/ Tick

\* Requests end, by answer or by HttpClient's timeout, and SemaphoreSlim hands
\* the semaphore to those who wait for it in turn.
TokenFairness == \A c \in Callers : WF_tokenVars(Step(c)) /\ SF_tokenVars(Acquire(c))

TokenSpec == TokenInit /\ [][TokenNext]_tokenVars /\ TokenFairness

-----------------------------------------------------------------------------
(* Properties.                                                             *)

\* The fields hold what GetTokenAsync puts in them, and the semaphore is held
\* by the one call that is inside it.
TokenTypeOK ==
    /\ weak \in BOOLEAN /\ now \in Nat /\ expiresAt \in Int /\ endpoint \in BOOLEAN
    /\ cachedToken \in Tokens \cup {NoToken}
    /\ call \in [Callers -> Calls]
    /\ holder \in Callers \cup {Free}
    /\ \A c \in Callers : holder = c <=> call[c].pc \in Inside

\* A call goes to Identity only while the cached token is of no use, also when
\* another call filled the cache while it waited for the semaphore.
NoNeedlessFetch ==
    \A c \in Callers : call[c].pc \in {"discover", "fetch"} => ~Usable

\* How much later than it should the provider gives a token up: the expiry counts
\* from the time the answer is stored, so an answer slower than the margin makes
\* the token outlive itself.
Overdue(t) == IF t.delay > Margin THEN t.delay - Margin ELSE 0

\* A token handed out had not expired when the call began, or had by less than its
\* answer was slower than the margin: two calls never mix one token with another's
\* expiry, on a platform that keeps the order of the stores.  Only tokens of which
\* Identity says when they expire count.
TokenFresh ==
    \A c \in Callers :
        ~weak /\ call[c].pc = "done" /\ call[c].token.lifetime > 0
            => call[c].token.issued + call[c].token.lifetime + Overdue(call[c].token)
                  > call[c].started

\* Every call ends: no exception or cancellation leaves the semaphore held.
CallsEnd == \A c \in Callers : call[c].pc \notin Ended ~> call[c].pc \in Ended
================================================================================
