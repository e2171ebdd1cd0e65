------------------------------- MODULE Session -------------------------------
(***************************************************************************)
(* The session of one browser tab: AuthService, which keeps the user and   *)
(* the two tokens in localStorage, and authInterceptor, which answers a    *)
(* 401 by refreshing the access token and retrying.  JavaScript runs one   *)
(* event handler at a time, so an action here is one handler: an answer, a *)
(* timer, a click.  Handlers share isRefreshing and refreshTokenSubject.   *)
(*                                                                         *)
(* The server may answer 401 to any call (the guard does so on any error   *)
(* of its own, too) and may refuse any refresh (logging out revokes the    *)
(* refresh token).                                                         *)
(***************************************************************************)
EXTENDS Naturals, FiniteSets

CONSTANTS
    Users,
    Calls,      \* HTTP calls that may be open at once
    MaxTokens,  \* bound: access tokens issued
    None,       \* no user, no token
    Idle        \* no call in this slot

ASSUME BoundAssumption == MaxTokens \in Nat
ASSUME NoneAssumption == None \notin Users /\ None \notin [user: Users, n: Nat]

Tokens == [user: Users, n: 1..MaxTokens]

VARIABLES
    user,           \* currentUserSubject and etrucky_user
    access,         \* etrucky_access_token
    refresh,        \* etrucky_refresh_token: the user it was issued to
    isRefreshing,
    subject,        \* refreshTokenSubject: its value
    call,           \* call slot -> call or Idle
    issued,         \* access tokens issued so far
    abandoned       \* history: a refreshing call was unsubscribed since the
                    \* flag was last set

store == <<user, access, refresh>>
vars == <<store, isRefreshing, subject, call, issued, abandoned>>

Init ==
    /\ user = None /\ access = None /\ refresh = None
    /\ isRefreshing = FALSE
    /\ subject = None
    /\ call = [c \in Calls |-> Idle]
    /\ issued = 0
    /\ abandoned = FALSE

At(c, pc) == call[c] # Idle /\ call[c].pc = pc
IsLogout(c) == call[c].kind = "logout"

isAuthenticated == user # None

\* The pages of the application, whose components call the server, open for
\* whoever is signed in, the login page for nobody else.
authGuard == isAuthenticated
noAuthGuard == ~isAuthenticated

\* What a login stores.  A refresh stores the access token alone.
storeAccessToken(token) == access' = token
handleAuthResponse(u, token) == user' = u /\ storeAccessToken(token) /\ refresh' = u

clearUserData == user' = None /\ access' = None /\ refresh' = None
ResetFlag == isRefreshing' = FALSE /\ subject' = None

\* The call is answered or fails.  For logout, either clears the session.
Ends(c) ==
    /\ call' = [call EXCEPT ![c] = Idle]
    /\ IF IsLogout(c) THEN clearUserData ELSE UNCHANGED store

\* POST /auth/login.
Login(u) ==
    /\ noAuthGuard
    /\ issued < MaxTokens
    /\ issued' = issued + 1
    /\ handleAuthResponse(u, [user |-> u, n |-> issued + 1])
    /\ UNCHANGED <<isRefreshing, subject, call, abandoned>>

\* The server refuses the login, before which the store was cleared.
LoginRefused ==
    /\ noAuthGuard
    /\ clearUserData
    /\ UNCHANGED <<isRefreshing, subject, call, issued, abandoned>>

\* A component, or logout, sends a call with the stored access token.
Send(c, kind) ==
    /\ call[c] = Idle
    /\ authGuard
    /\ call' = [call EXCEPT ![c] = [kind |-> kind, pc |-> "sent", sent |-> access,
                                    owner |-> None, again |-> None]]
    /\ UNCHANGED <<store, isRefreshing, subject, issued, abandoned>>

\* Any answer but a 401, and the final answer to a retry of a waiter.
Answered(c) ==
    /\ At(c, "sent") \/ At(c, "retried") \/ At(c, "resent")
    /\ Ends(c)
    /\ UNCHANGED <<isRefreshing, subject, issued, abandoned>>

\* A 401 while another call refreshes: wait, with a timer, for a value of the
\* subject that is not null, which may be the one it has.
Wait(c) ==
    /\ At(c, "sent")
    /\ isRefreshing
    /\ call' = [call EXCEPT ![c].pc = IF subject = None THEN "waiting" ELSE "resent",
                            ![c].again = subject]
    /\ UNCHANGED <<store, isRefreshing, subject, issued, abandoned>>

\* Mutated form: the subject keeps the token of the last refresh, which a
\* waiter is then given at once.
StartRefresh_KeepsSubject(c) ==
    /\ At(c, "sent")
    /\ ~isRefreshing
    /\ refresh # None
    /\ isRefreshing' = TRUE
    /\ abandoned' = FALSE
    /\ call' = [call EXCEPT ![c].pc = "refreshing", ![c].owner = refresh]
    /\ UNCHANGED <<store, subject, issued>>

\* A 401 while no call refreshes: set the flag and POST /auth/refresh.
StartRefresh(c) ==
    /\ At(c, "sent")
    /\ ~isRefreshing
    /\ refresh # None
    /\ isRefreshing' = TRUE
    /\ subject' = None
    /\ abandoned' = FALSE
    /\ call' = [call EXCEPT ![c].pc = "refreshing", ![c].owner = refresh]
    /\ UNCHANGED <<store, issued>>

\* The same without a refresh token: sign out, and the call fails.
NothingToRefresh(c) ==
    /\ At(c, "sent")
    /\ ~isRefreshing
    /\ refresh = None
    /\ clearUserData
    /\ ResetFlag
    /\ call' = [call EXCEPT ![c] = Idle]
    /\ UNCHANGED <<issued, abandoned>>

\* POST /auth/refresh: a new access token for whoever the refresh token was issued
\* to; the refresh token stays as it is.
refreshToken(owner) == [user |-> owner, n |-> issued + 1]

\* The waiters that a value of the subject resumes, and the call that got it.
Resume(c, token) ==
    [d \in Calls |->
        IF d = c THEN [call[d] EXCEPT !.pc = "retried", !.owner = None, !.again = token]
        ELSE IF At(d, "waiting") THEN [call[d] EXCEPT !.pc = "resent", !.again = token]
        ELSE call[d]]

\* Mutated form: the whole response is stored for the token.
Refreshed_StoresResponse(c) ==
    /\ At(c, "refreshing")
    /\ issued < MaxTokens
    /\ issued' = issued + 1
    /\ LET token == refreshToken(call[c].owner)
       IN  /\ access' = [accessToken |-> token]
           /\ subject' = token
           /\ call' = Resume(c, token)
    /\ isRefreshing' = FALSE
    /\ UNCHANGED <<user, refresh, abandoned>>

\* The new token is stored, the flag reset, everybody retries with it.
Refreshed(c) ==
    /\ At(c, "refreshing")
    /\ issued < MaxTokens
    /\ issued' = issued + 1
    /\ LET token == refreshToken(call[c].owner)
       IN  /\ storeAccessToken(token)
           /\ subject' = token
           /\ call' = Resume(c, token)
    /\ isRefreshing' = FALSE
    /\ UNCHANGED <<user, refresh, abandoned>>

\* Mutated form: a failed refresh leaves the flag set.
RefreshRefused_FlagStays(c) ==
    /\ At(c, "refreshing")
    /\ clearUserData
    /\ call' = [call EXCEPT ![c] = Idle]
    /\ UNCHANGED <<isRefreshing, subject, issued, abandoned>>

\* Mutated form: signing out keeps the user.
RefreshRefused_KeepsUser(c) ==
    /\ At(c, "refreshing")
    /\ access' = None /\ refresh' = None
    /\ ResetFlag
    /\ call' = [call EXCEPT ![c] = Idle]
    /\ UNCHANGED <<user, issued, abandoned>>

\* The refresh fails: sign out and go to the login page.  The waiters are not
\* told (the subject's value is null).
RefreshRefused(c) ==
    /\ At(c, "refreshing")
    /\ clearUserData
    /\ ResetFlag
    /\ call' = [call EXCEPT ![c] = Idle]
    /\ UNCHANGED <<issued, abandoned>>

\* The retry of the call that refreshed fails: the handler takes that for a
\* failed refresh, and resets the flag of whoever refreshes by now.
RetryFailed(c) ==
    /\ At(c, "retried")
    /\ ResetFlag
    /\ Ends(c)
    /\ UNCHANGED <<issued, abandoned>>

\* Mutated form: the timer only warns.
WaitTimeout_WarnsOnly(c) ==
    /\ At(c, "waiting")
    /\ ResetFlag
    /\ UNCHANGED <<store, call, issued, abandoned>>

\* The timer of a waiting call: reset the flag, fail the call.
WaitTimeout(c) ==
    /\ At(c, "waiting")
    /\ ResetFlag
    /\ Ends(c)
    /\ UNCHANGED <<issued, abandoned>>

\* A component goes away, or asks again, and unsubscribes: the call and a
\* refresh it started are aborted and no handler of theirs runs.
Unsubscribe(c) ==
    /\ call[c] # Idle
    /\ ~IsLogout(c)
    /\ abandoned' = (abandoned \/ At(c, "refreshing"))
    /\ call' = [call EXCEPT ![c] = Idle]
    /\ UNCHANGED <<store, isRefreshing, subject, issued>>

\* The page is loaded anew, by the user or because a refresh was aborted.  Only
\* localStorage is left, and a user without tokens is dropped.
Reload ==
    /\ ResetFlag
    /\ call' = [c \in Calls |-> Idle]
    /\ abandoned' = FALSE
    /\ IF isAuthenticated /\ (access = None \/ refresh = None)
       THEN clearUserData ELSE UNCHANGED store
    /\ UNCHANGED issued

Next ==
    \/ \E u \in Users : Login(u)
    \/ LoginRefused
    \/ Reload
    \/ \E c \in Calls :
        \/ \E kind \in {"data", "logout"} : Send(c, kind)
        \/ Answered(c)
        \/ Wait(c)
        \/ StartRefresh(c)
        \/ NothingToRefresh(c)
        \/ Refreshed(c)
        \/ RefreshRefused(c)
        \/ RetryFailed(c)
        \/ WaitTimeout(c)
        \/ Unsubscribe(c)

\* Timers fire.  Nothing is assumed of the server or the user.
Fairness == \A c \in Calls : WF_vars(WaitTimeout(c))

Spec == Init /\ [][Next]_vars /\ Fairness

-----------------------------------------------------------------------------
OpenCalls == [kind: {"data", "logout"},
              pc: {"sent", "waiting", "refreshing", "retried", "resent"},
              sent: Tokens \cup {None}, owner: Users \cup {None}, again: Tokens \cup {None}]

\* Nobody sends what stands for no call.
ASSUME IdleAssumption == Idle \notin OpenCalls

\* The store, the interceptor's variables and the open calls are of their kinds.
TypeOK ==
    /\ user \in Users \cup {None} /\ refresh \in Users \cup {None}
    /\ access \in Tokens \cup {None} /\ subject \in Tokens \cup {None}
    /\ isRefreshing \in BOOLEAN /\ abandoned \in BOOLEAN
    /\ call \in [Calls -> OpenCalls \cup {Idle}]
    /\ issued \in 0..MaxTokens

\* Whoever is signed in has both tokens, in every state a reload can find, so
\* the constructor's check for corrupted data never signs anybody out.
SignedInWhole == user # None => access # None /\ refresh = user

\* Well typed, and whole.
SessionIsWhole == TypeOK /\ SignedInWhole

\* A call is never retried with the token that its 401 refused, neither after
\* its own refresh nor after one it waited for, however refreshes overlap.
RetryIsNew ==
    \A c \in Calls : (At(c, "retried") \/ At(c, "resent")) => call[c].again # call[c].sent

\* The flag is never left set by a refresh that ended: somebody refreshes, or
\* the caller who did has unsubscribed.
FlagHasOwner == isRefreshing => abandoned \/ \E c \in Calls : At(c, "refreshing")

\* Nobody waits for ever, although a refresh that fails wakes no waiter.
WaitersEnd == \A c \in Calls : At(c, "waiting") ~> ~At(c, "waiting")
=============================================================================
