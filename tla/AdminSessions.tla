--------------------------- MODULE AdminSessions ---------------------------
(***************************************************************************)
(* The admin sessions of rl-scheduler (admin_sessions.py): tokens that     *)
(* expire when idle, a bounded store, and privileged requests (main.py)    *)
(* that check their token before they await and renew it afterwards.       *)
(*                                                                         *)
(* An expiry is the time that remains until it, so the clock needs no      *)
(* bound; what has expired, has nothing left.                              *)
(***************************************************************************)
EXTENDS Integers, FiniteSets

CONSTANTS
    Tokens,        \* secrets.token_urlsafe never draws one twice
    Requests,      \* privileged requests under way, each a coroutine
    Timeout,       \* ADMIN_SESSION_TIMEOUT_SECONDS
    MaxSessions,   \* max_sessions
    None

ASSUME ConstantsAssumption ==
    /\ Timeout \in Nat \ {0}
    /\ MaxSessions \in Nat \ {0}
    /\ None \notin Tokens /\ None \notin Int

VARIABLES
    remaining,     \* AdminSessionStore._sessions, None for what is not in it
    request,       \* the token that each request under way was admitted with
    ended,         \* history: tokens that were revoked, evicted, or found expired
    idle           \* history: time since a token was last used, up to Timeout

vars == <<remaining, request, ended, idle>>

-----------------------------------------------------------------------------
Stored == {token \in Tokens : remaining[token] # None}
Live == {token \in Stored : remaining[token] > 0}

\* Tokens that are not in the store and have not been.
Fresh == Tokens \ (Stored \cup ended)

Init ==
    /\ remaining = [token \in Tokens |-> None]
    /\ request = [r \in Requests |-> None]
    /\ ended = {}
    /\ idle = [token \in Tokens |-> 0]

\* Whatever is dropped from the store has ended.
Keep(kept) ==
    /\ remaining' = [token \in Tokens |-> IF token \in kept THEN remaining[token] ELSE None]
    /\ ended' = ended \cup (Stored \ kept)

\* validate(): what has expired is dropped.
Validated(token) == Keep(IF token \in Live THEN Stored ELSE Stored \ {token})

\* Time passes.
Pass ==
    /\ remaining' = [token \in Tokens |->
                        IF token \in Live THEN remaining[token] - 1 ELSE remaining[token]]
    /\ idle' = [token \in Tokens |->
                    IF idle[token] < Timeout THEN idle[token] + 1 ELSE idle[token]]
    /\ UNCHANGED <<request, ended>>

\* Faulty variant of Evicts: the session that expires last goes.
EvictsLast(evicted) ==
    /\ evicted \subseteq Live
    /\ \A token \in evicted, other \in Live \ evicted : remaining[token] >= remaining[other]
    /\ IF Cardinality(Live) < MaxSessions
       THEN evicted = {}
       ELSE Cardinality(Live \ evicted) = MaxSessions - 1

\* While there are MaxSessions sessions, the one that expires first goes.
Evicts(evicted) ==
    /\ evicted \subseteq Live
    /\ \A token \in evicted, other \in Live \ evicted : remaining[token] <= remaining[other]
    /\ IF Cardinality(Live) < MaxSessions
       THEN evicted = {}
       ELSE Cardinality(Live \ evicted) = MaxSessions - 1

\* create(): prune, make room, add.
Login(token) ==
    /\ token \in Fresh
    /\ \E evicted \in SUBSET Live :
        /\ Evicts(evicted)
        /\ remaining' = [t \in Tokens |-> IF t = token THEN Timeout
                                          ELSE IF t \in Live \ evicted THEN remaining[t]
                                          ELSE None]
        /\ ended' = ended \cup (Stored \ (Live \ evicted))
    /\ idle' = [idle EXCEPT ![token] = 0]
    /\ UNCHANGED request

\* Faulty variant of Begin: validate() renews, whatever comes of the operation.
BeginRenewing(r, token) ==
    /\ request[r] = None
    /\ IF token \in Live
       THEN /\ remaining' = [remaining EXCEPT ![token] = Timeout]
            /\ request' = [request EXCEPT ![r] = token]
            /\ UNCHANGED ended
       ELSE Validated(token) /\ UNCHANGED request
    /\ UNCHANGED idle

\* _require_admin with a token, at the start of a privileged request.
Begin(r, token) ==
    /\ request[r] = None
    /\ Validated(token)
    /\ request' = IF token \in Live THEN [request EXCEPT ![r] = token] ELSE request
    /\ UNCHANGED idle

\* The operation has failed: the handler raises, or reports it.
Fail(r) ==
    /\ request[r] # None
    /\ request' = [request EXCEPT ![r] = None]
    /\ UNCHANGED <<remaining, ended, idle>>

\* Faulty variant of Succeed: the token was valid when the request began.
SucceedBlindly(r) ==
    /\ request[r] # None
    /\ request' = [request EXCEPT ![r] = None]
    /\ remaining' = [remaining EXCEPT ![request[r]] = Timeout]
    /\ idle' = [idle EXCEPT ![request[r]] = 0]
    /\ UNCHANGED ended

\* Faulty variant of Succeed: touch() adds the timeout to the expiry.
SucceedAdding(r) ==
    /\ request[r] # None
    /\ request' = [request EXCEPT ![r] = None]
    /\ IF request[r] \in Live
       THEN /\ remaining' = [remaining EXCEPT ![request[r]] = @ + Timeout]
            /\ idle' = [idle EXCEPT ![request[r]] = 0]
            /\ UNCHANGED ended
       ELSE Validated(request[r]) /\ UNCHANGED idle

\* The operation has succeeded: touch() renews the token if it is still valid.
Succeed(r) ==
    /\ request[r] # None
    /\ request' = [request EXCEPT ![r] = None]
    /\ IF request[r] \in Live
       THEN /\ remaining' = [remaining EXCEPT ![request[r]] = Timeout]
            /\ idle' = [idle EXCEPT ![request[r]] = 0]
            /\ UNCHANGED ended
       ELSE Validated(request[r]) /\ UNCHANGED idle

\* delete_admin_session: whether the token was valid or not, it is gone.
Logout(token) ==
    /\ token \in Stored
    /\ Keep(Stored \ {token})
    /\ UNCHANGED <<request, idle>>

\* The application restarts with an empty store.
Restart ==
    /\ Keep({})
    /\ request' = [r \in Requests |-> None]
    /\ UNCHANGED idle

Next ==
    \/ Pass
    \/ \E token \in Tokens : Login(token) \/ Logout(token)
    \/ \E r \in Requests :
        \/ \E token \in Tokens : Begin(r, token)
        \/ Fail(r)
        \/ Succeed(r)
    \/ Restart

Spec == Init /\ [][Next]_vars

-----------------------------------------------------------------------------
(* Properties                                                              *)

\* Every variable stays in its type.
TypeOK ==
    /\ remaining \in [Tokens -> 0..Timeout \cup {None}]
    /\ request \in [Requests -> Tokens \cup {None}]
    /\ ended \subseteq Tokens
    /\ idle \in [Tokens -> 0..Timeout]

\* "Use Lock to revoke it immediately": a session that has ended is never valid
\* again, although requests that began before renew it when they are done.
EndedIsOver == ended \cap Stored = {}

\* "Remaining idle past the timeout requires the password again": only a login and
\* the success of a privileged operation count as use.
IdleExpires == \A token \in Live : idle[token] < Timeout

\* The store is bounded.
StoreIsBounded == Cardinality(Stored) <= MaxSessions

\* A login ends another session only if there is no room beside the sessions that
\* are still valid, and then not one that would have outlived another.
EvictsTheLeast ==
    [][\A new \in Stored' \ Stored, token \in Live \ Stored' :
        /\ Cardinality(Live) >= MaxSessions
        /\ \A other \in Live \cap Stored' : remaining[token] <= remaining[other]]_vars

(* The inductive invariant.                                                *)

\* What remains and what has passed make up at most the timeout.
TimesAddUp == \A token \in Stored : remaining[token] + idle[token] <= Timeout

\* Only finitely many logins have happened.
StoreIsFinite == IsFiniteSet(Stored)

IInv ==
    /\ EndedIsOver
    /\ TimesAddUp
    /\ StoreIsFinite
    /\ StoreIsBounded
=============================================================================
