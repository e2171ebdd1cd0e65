---------------------------- MODULE SessionProofs ----------------------------
(***************************************************************************)
(* Proofs about Session for any number of users, calls and tokens.  A call *)
(* is retried with a new token because the subject is empty while the flag *)
(* is set, so that a waiter can only be given the token of a refresh that  *)
(* ends after it began to wait, and because tokens are numbered in the     *)
(* order of their issue.                                                   *)
(*                                                                         *)
(* The second half is about Reports, for any orders, parties, months and   *)
(* amounts: what sums over finite sets are, that the figures agree state   *)
(* by state, and what a step does to them.                                 *)
(***************************************************************************)
EXTENDS Session, Reports, FiniteSetTheorems, WellFoundedInduction, TLAPS

\* Tokens that are kept or were sent have been issued.
NoneIsEarly ==
    /\ access # None => access.n <= issued
    /\ subject # None => subject.n <= issued
    /\ \A c \in Calls : call[c] # Idle /\ call[c].sent # None => call[c].sent.n <= issued

\* A call that refreshes does so for somebody.
RefreshersHaveOwner == \A c \in Calls : At(c, "refreshing") => call[c].owner \in Users

\* The inductive invariant: besides the properties, the subject is empty while the
\* flag is set.
IInv ==
    /\ TypeOK /\ SignedInWhole /\ RetryIsNew /\ FlagHasOwner
    /\ isRefreshing => subject = None
    /\ NoneIsEarly /\ RefreshersHaveOwner

\* A token is not the lack of one.
LEMMA TokensAreSome == \A t \in Tokens : t # None /\ t.n \in 1..MaxTokens
BY NoneAssumption, BoundAssumption DEF Tokens

\* The next token is a token, and has the next number.
LEMMA NextIsToken ==
    ASSUME NEW u \in Users, issued \in 0..MaxTokens, issued < MaxTokens
    PROVE  /\ refreshToken(u) \in Tokens /\ refreshToken(u).n = issued + 1
           /\ issued + 1 \in 0..MaxTokens
BY BoundAssumption DEF refreshToken, Tokens

\* An open call is a record of its kind, which stands for a call.
LEMMA OpenIsCall ==
    ASSUME TypeOK
    PROVE  /\ \A c \in Calls : call[c] # Idle => call[c] \in OpenCalls
           /\ \A r \in OpenCalls : r # Idle
BY IdleAssumption DEF TypeOK

\* The stored tokens that a step leaves are its own, or none.
LEMMA StoreTypes ==
    ASSUME TypeOK, SignedInWhole, clearUserData \/ UNCHANGED store
    PROVE  /\ user' \in Users \cup {None} /\ refresh' \in Users \cup {None}
           /\ access' \in Tokens \cup {None} /\ SignedInWhole'
           /\ access' = access \/ access' = None
BY DEF TypeOK, SignedInWhole, clearUserData, store

\* Nothing is open at the start.
LEMMA InitHolds == Init => IInv
<1> SUFFICES ASSUME Init PROVE IInv
    OBVIOUS
<1>1. \A c \in Calls : call[c] = Idle
    BY DEF Init
<1>2. issued \in 0..MaxTokens
    BY BoundAssumption DEF Init
<1>3. call \in [Calls -> OpenCalls \cup {Idle}]
    BY DEF Init
<1>4. TypeOK
    BY <1>2, <1>3 DEF Init, TypeOK
<1> QED
    BY <1>1, <1>4 DEF Init, IInv, SignedInWhole, RetryIsNew, FlagHasOwner, NoneIsEarly,
       RefreshersHaveOwner, At

\* Every call stays as it is or ends; the flag and the subject stay or are reset,
\* the store stays or is cleared.  The flag may stay only if no refresh ends.
LEMMA EndingKeeps ==
    ASSUME IInv, clearUserData \/ UNCHANGED store,
           ResetFlag \/ UNCHANGED <<isRefreshing, subject>>,
           \A d \in Calls : call'[d] \in {call[d], Idle},
           call' \in [Calls -> OpenCalls \cup {Idle}],
           issued' = issued, abandoned' \in BOOLEAN,
           isRefreshing' => \/ abandoned'
                            \/ \E d \in Calls : At(d, "refreshing") /\ call'[d] = call[d]
    PROVE  IInv'
<1> USE DEF IInv
<1>1. /\ isRefreshing' \in BOOLEAN /\ subject' \in {subject, None}
      /\ isRefreshing' => subject' = None
    <2>1. CASE ResetFlag
        BY <2>1 DEF ResetFlag
    <2>2. CASE UNCHANGED <<isRefreshing, subject>>
        BY <2>2 DEF TypeOK
    <2> QED
        BY <2>1, <2>2
<1>2. TypeOK' /\ SignedInWhole'
    BY <1>1, StoreTypes DEF TypeOK
<1>3. RetryIsNew' /\ RefreshersHaveOwner'
    BY DEF RetryIsNew, RefreshersHaveOwner, At
<1>4. NoneIsEarly'
    BY <1>1, StoreTypes DEF NoneIsEarly
<1>5. FlagHasOwner'
    BY DEF FlagHasOwner, At
<1> QED
    BY <1>1, <1>2, <1>3, <1>4, <1>5

\* One call ends.
LEMMA OneEnds ==
    ASSUME TypeOK, NEW c \in Calls, call' = [call EXCEPT ![c] = Idle]
    PROVE  /\ \A d \in Calls : call'[d] \in {call[d], Idle} /\ (d # c => call'[d] = call[d])
           /\ call' \in [Calls -> OpenCalls \cup {Idle}]
BY DEF TypeOK

\* An answer that is no 401 ends its call, which does not refresh.
LEMMA AnsweredStep == ASSUME IInv, NEW c \in Calls, Answered(c) PROVE IInv'
<1>1. TypeOK /\ abandoned \in BOOLEAN /\ FlagHasOwner
    BY DEF IInv, TypeOK
<1>2. ~At(c, "refreshing") /\ call' = [call EXCEPT ![c] = Idle]
    BY DEF Answered, Ends, At
<1> QED
    BY <1>1, <1>2, OneEnds, EndingKeeps DEF Answered, Ends, FlagHasOwner, At

\* The failures that reset the flag.
LEMMA ResetStep ==
    ASSUME IInv, NEW c \in Calls, ResetFlag, clearUserData \/ UNCHANGED store,
           call' = [call EXCEPT ![c] = Idle], UNCHANGED <<issued, abandoned>>
    PROVE  IInv'
<1>1. TypeOK /\ abandoned' \in BOOLEAN /\ isRefreshing' = FALSE
    BY DEF IInv, TypeOK, ResetFlag
<1> QED
    BY <1>1, OneEnds, EndingKeeps

\* A login stores a new token of its user.
LEMMA LoginStep == ASSUME IInv, NEW u \in Users, Login(u) PROVE IInv'
<1> DEFINE t == [user |-> u, n |-> issued + 1]
<1> USE DEF IInv
<1>1. /\ issued < MaxTokens /\ issued' = issued + 1 /\ user' = u /\ access' = t /\ refresh' = u
      /\ UNCHANGED <<isRefreshing, subject, call, abandoned>>
    BY DEF Login, handleAuthResponse, storeAccessToken
<1>2. t \in Tokens /\ t.n = issued + 1 /\ issued' \in 0..MaxTokens /\ issued \in Nat
    BY <1>1, BoundAssumption DEF Tokens, TypeOK
<1>3. TypeOK'
    BY <1>1, <1>2 DEF TypeOK
<1>4. SignedInWhole'
    BY <1>1, <1>2, TokensAreSome DEF SignedInWhole
<1>5. RetryIsNew' /\ FlagHasOwner' /\ RefreshersHaveOwner' /\ (isRefreshing' => subject' = None)
    BY <1>1 DEF RetryIsNew, FlagHasOwner, RefreshersHaveOwner, At
<1>6. /\ subject \in Tokens \cup {None}
      /\ \A d \in Calls : call[d] # Idle => call[d].sent \in Tokens \cup {None}
    BY OpenIsCall DEF TypeOK, OpenCalls
<1>7. NoneIsEarly'
    BY <1>1, <1>2, <1>6, TokensAreSome, BoundAssumption DEF NoneIsEarly
<1> QED
    BY <1>3, <1>4, <1>5, <1>7

\* A new call carries the token that is stored.
LEMMA SendStep ==
    ASSUME IInv, NEW c \in Calls, NEW kind \in {"data", "logout"}, Send(c, kind) PROVE IInv'
<1> DEFINE new == [kind |-> kind, pc |-> "sent", sent |-> access, owner |-> None, again |-> None]
<1> USE DEF IInv
<1>1. /\ call[c] = Idle /\ call' = [call EXCEPT ![c] = new]
      /\ UNCHANGED <<user, access, refresh, isRefreshing, subject, issued, abandoned>>
    BY DEF Send, store
<1>2. new \in OpenCalls
    BY DEF TypeOK, OpenCalls
<1>3. call' \in [Calls -> OpenCalls \cup {Idle}] /\ call'[c] = new
      /\ \A d \in Calls : d # c => call'[d] = call[d]
    BY <1>1, <1>2 DEF TypeOK
<1>4. TypeOK' /\ SignedInWhole' /\ (isRefreshing' => subject' = None)
    BY <1>1, <1>3 DEF TypeOK, SignedInWhole
<1>5. RetryIsNew' /\ RefreshersHaveOwner'
    BY <1>3 DEF RetryIsNew, RefreshersHaveOwner, At
<1>6. NoneIsEarly'
    BY <1>1, <1>3 DEF NoneIsEarly
<1>7. FlagHasOwner'
    BY <1>1, <1>3 DEF FlagHasOwner, At
<1> QED
    BY <1>4, <1>5, <1>6, <1>7

\* A call of which only pc, owner and again change is still a call, with its token.
LEMMA MovedIsCall ==
    ASSUME TypeOK, NEW c \in Calls, call[c] # Idle,
           NEW pc \in {"sent", "waiting", "refreshing", "retried", "resent"},
           NEW owner \in Users \cup {None}, NEW again \in Tokens \cup {None}
    PROVE  LET new == [call[c] EXCEPT !.pc = pc, !.owner = owner, !.again = again]
           IN  /\ new \in OpenCalls /\ new # Idle /\ new.pc = pc /\ new.owner = owner
               /\ new.again = again /\ new.sent = call[c].sent
<1>1. call[c] \in OpenCalls
    BY OpenIsCall
<1>2. [call[c] EXCEPT !.pc = pc, !.owner = owner, !.again = again] \in OpenCalls
    BY <1>1 DEF OpenCalls
<1> QED
    BY <1>1, <1>2, IdleAssumption DEF OpenCalls

\* While the flag is set the subject is empty, so the call waits.
LEMMA WaitStep == ASSUME IInv, NEW c \in Calls, Wait(c) PROVE IInv'
<1> USE DEF IInv
<1>1. /\ call[c] # Idle /\ call[c].pc = "sent" /\ subject = None
      /\ call' = [call EXCEPT ![c] = [call[c] EXCEPT !.pc = "waiting", !.again = None]]
      /\ UNCHANGED <<user, access, refresh, isRefreshing, subject, issued, abandoned>>
    BY DEF Wait, At, store
<1> DEFINE new == [call[c] EXCEPT !.pc = "waiting", !.again = None]
<1>2. call[c] \in OpenCalls
    BY <1>1, OpenIsCall
<1>3. new \in OpenCalls /\ new.pc = "waiting" /\ new.sent = call[c].sent
    BY <1>2 DEF OpenCalls
<1>4. call' \in [Calls -> OpenCalls \cup {Idle}] /\ call'[c] = new
      /\ \A d \in Calls : d # c => call'[d] = call[d]
    BY <1>1, <1>3 DEF TypeOK
<1> HIDE DEF new
<1>5. TypeOK' /\ SignedInWhole' /\ (isRefreshing' => subject' = None)
    BY <1>1, <1>4 DEF TypeOK, SignedInWhole
<1>6. RetryIsNew' /\ RefreshersHaveOwner'
    BY <1>3, <1>4 DEF RetryIsNew, RefreshersHaveOwner, At
<1>7. NoneIsEarly'
    BY <1>1, <1>3, <1>4 DEF NoneIsEarly
<1>8. FlagHasOwner'
    BY <1>1, <1>4 DEF FlagHasOwner, At
<1> QED
    BY <1>5, <1>6, <1>7, <1>8

\* The call that sets the flag is its owner.
LEMMA StartRefreshStep == ASSUME IInv, NEW c \in Calls, StartRefresh(c) PROVE IInv'
<1> USE DEF IInv
<1> DEFINE new == [call[c] EXCEPT !.pc = "refreshing", !.owner = refresh]
<1>1. /\ call[c] # Idle /\ refresh # None /\ isRefreshing' = TRUE /\ subject' = None
      /\ abandoned' = FALSE /\ call' = [call EXCEPT ![c] = new]
      /\ UNCHANGED <<user, access, refresh, issued>>
    BY DEF StartRefresh, At, store
<1>2. call[c] \in OpenCalls /\ refresh \in Users
    BY <1>1, OpenIsCall DEF TypeOK
<1>3. new \in OpenCalls /\ new.pc = "refreshing" /\ new.sent = call[c].sent /\ new.owner = refresh
    BY <1>2 DEF OpenCalls
<1>4. call' \in [Calls -> OpenCalls \cup {Idle}] /\ call'[c] = new /\ new # Idle
      /\ \A d \in Calls : d # c => call'[d] = call[d]
    BY <1>1, <1>3, IdleAssumption DEF TypeOK
<1> HIDE DEF new
<1>5. TypeOK' /\ SignedInWhole' /\ (isRefreshing' => subject' = None)
    BY <1>1, <1>4 DEF TypeOK, SignedInWhole
<1>6. RetryIsNew' /\ RefreshersHaveOwner'
    BY <1>2, <1>3, <1>4 DEF RetryIsNew, RefreshersHaveOwner, At
<1>7. NoneIsEarly'
    BY <1>1, <1>3, <1>4 DEF NoneIsEarly
<1>8. FlagHasOwner'
    BY <1>3, <1>4 DEF FlagHasOwner, At
<1> QED
    BY <1>5, <1>6, <1>7, <1>8

\* The new token is later than any that was sent, so all who are resumed have a
\* new one.
LEMMA RefreshedStep == ASSUME IInv, NEW c \in Calls, Refreshed(c) PROVE IInv'
<1> USE DEF IInv
<1> DEFINE t == refreshToken(call[c].owner)
<1>1. /\ At(c, "refreshing") /\ issued < MaxTokens /\ issued' = issued + 1
      /\ access' = t /\ subject' = t /\ call' = Resume(c, t)
      /\ isRefreshing' = FALSE /\ UNCHANGED <<user, refresh, abandoned>>
    BY DEF Refreshed, storeAccessToken
<1>2. /\ t \in Tokens /\ t.n = issued + 1 /\ issued' \in 0..MaxTokens /\ t # None
      /\ issued \in Nat
    BY <1>1, NextIsToken, TokensAreSome, BoundAssumption DEF TypeOK, RefreshersHaveOwner
<1> HIDE DEF t
<1>3. \A d \in Calls : call[d] # Idle => call[d] \in OpenCalls
    BY OpenIsCall
<1>4. ASSUME NEW d \in Calls
      PROVE  /\ call'[d] \in OpenCalls \cup {Idle}
             /\ \/ call'[d] = call[d]
                \/ /\ call[d] # Idle /\ call'[d].again = t
                   /\ call'[d].sent = call[d].sent /\ call'[d].pc \in {"retried", "resent"}
    <2>1. CASE d = c
        <3>1. call'[d] = [call[d] EXCEPT !.pc = "retried", !.owner = None, !.again = t]
            BY <1>1, <2>1 DEF Resume
        <3>2. call[d] \in OpenCalls /\ call[d] # Idle
            BY <1>1, <1>3, <2>1 DEF At
        <3> QED
            BY <1>2, <3>1, <3>2 DEF OpenCalls
    <2>2. CASE d # c /\ At(d, "waiting")
        <3>1. call'[d] = [call[d] EXCEPT !.pc = "resent", !.again = t]
            BY <1>1, <2>2 DEF Resume
        <3>2. call[d] \in OpenCalls /\ call[d] # Idle
            BY <1>3, <2>2 DEF At
        <3> QED
            BY <1>2, <3>1, <3>2 DEF OpenCalls
    <2>3. CASE d # c /\ ~At(d, "waiting")
        BY <1>1, <2>3 DEF Resume, TypeOK
    <2> QED
        BY <2>1, <2>2, <2>3
<1>5. call' \in [Calls -> OpenCalls \cup {Idle}]
    <2>1. DOMAIN call' = Calls /\ call' = [d \in Calls |-> call'[d]]
        BY <1>1 DEF Resume
    <2> QED
        BY <1>4, <2>1
<1>6. TypeOK' /\ SignedInWhole' /\ (isRefreshing' => subject' = None)
    BY <1>1, <1>2, <1>5 DEF TypeOK, SignedInWhole
<1>7. \A d \in Calls : call[d] # Idle => call[d].sent \in Tokens \cup {None}
    BY <1>3 DEF OpenCalls
<1>8. \A d \in Calls : call[d] # Idle => call[d].sent # t
    BY <1>2, <1>7, TokensAreSome, BoundAssumption DEF NoneIsEarly
<1>9. RetryIsNew'
    BY <1>4, <1>8 DEF RetryIsNew, At
<1>10. RefreshersHaveOwner'
    BY <1>4 DEF RefreshersHaveOwner, At
<1>11. NoneIsEarly'
    BY <1>1, <1>2, <1>4, <1>7, TokensAreSome, BoundAssumption DEF NoneIsEarly
<1>12. FlagHasOwner'
    BY <1>1 DEF FlagHasOwner
<1> QED
    BY <1>6, <1>9, <1>10, <1>11, <1>12

\* Whoever unsubscribes from a refresh is remembered.
LEMMA UnsubscribeStep == ASSUME IInv, NEW c \in Calls, Unsubscribe(c) PROVE IInv'
<1>1. TypeOK /\ FlagHasOwner /\ abandoned \in BOOLEAN
    BY DEF IInv, TypeOK
<1>2. /\ call' = [call EXCEPT ![c] = Idle] /\ abandoned' = (abandoned \/ At(c, "refreshing"))
      /\ UNCHANGED <<store, isRefreshing, subject, issued>>
    BY DEF Unsubscribe
<1>3. abandoned' \in BOOLEAN
    BY <1>1, <1>2
<1>4. isRefreshing' => \/ abandoned'
                       \/ \E d \in Calls : At(d, "refreshing") /\ call'[d] = call[d]
    BY <1>1, <1>2, OneEnds DEF FlagHasOwner
<1> QED
    BY <1>1, <1>2, <1>3, <1>4, OneEnds, EndingKeeps

\* A reload ends everything.
LEMMA ReloadStep == ASSUME IInv, Reload PROVE IInv'
<1>1. /\ ResetFlag /\ call' = [d \in Calls |-> Idle] /\ abandoned' = FALSE /\ issued' = issued
      /\ clearUserData \/ UNCHANGED store
    BY DEF Reload
<1>2. isRefreshing' = FALSE /\ \A d \in Calls : call'[d] \in {call[d], Idle}
    BY <1>1 DEF ResetFlag
<1>3. call' \in [Calls -> OpenCalls \cup {Idle}]
    BY <1>1
<1> QED
    BY <1>1, <1>2, <1>3, EndingKeeps

\* A refused login clears the store and nothing else.
LEMMA LoginRefusedStep == ASSUME IInv, LoginRefused PROVE IInv'
<1>1. /\ clearUserData /\ UNCHANGED <<isRefreshing, subject, call, issued, abandoned>>
    BY DEF LoginRefused
<1>2. TypeOK /\ FlagHasOwner
    BY DEF IInv
<1>3. /\ call' \in [Calls -> OpenCalls \cup {Idle}] /\ abandoned' \in BOOLEAN
      /\ \A d \in Calls : call'[d] \in {call[d], Idle}
    BY <1>1, <1>2 DEF TypeOK
<1>4. isRefreshing' => \/ abandoned'
                       \/ \E d \in Calls : At(d, "refreshing") /\ call'[d] = call[d]
    BY <1>1, <1>2 DEF FlagHasOwner
<1> QED
    BY <1>1, <1>3, <1>4, EndingKeeps

\* Every step keeps the invariant.
LEMMA StepHolds == IInv /\ [Next]_vars => IInv'
<1> SUFFICES ASSUME IInv, [Next]_vars PROVE IInv'
    OBVIOUS
<1>1. CASE \E u \in Users : Login(u)
    BY <1>1, LoginStep
<1>2. CASE LoginRefused
    BY <1>2, LoginRefusedStep
<1>3. CASE Reload
    BY <1>3, ReloadStep
<1>4. ASSUME NEW c \in Calls, \E kind \in {"data", "logout"} : Send(c, kind) PROVE IInv'
    BY <1>4, SendStep
<1>5. ASSUME NEW c \in Calls, Answered(c) PROVE IInv'
    BY <1>5, AnsweredStep
<1>6. ASSUME NEW c \in Calls, Wait(c) PROVE IInv'
    BY <1>6, WaitStep
<1>7. ASSUME NEW c \in Calls, StartRefresh(c) PROVE IInv'
    BY <1>7, StartRefreshStep
<1>8. ASSUME NEW c \in Calls, NothingToRefresh(c) PROVE IInv'
    BY <1>8, ResetStep DEF NothingToRefresh
<1>9. ASSUME NEW c \in Calls, Refreshed(c) PROVE IInv'
    BY <1>9, RefreshedStep
<1>10. ASSUME NEW c \in Calls, RefreshRefused(c) PROVE IInv'
    BY <1>10, ResetStep DEF RefreshRefused
<1>11. ASSUME NEW c \in Calls, RetryFailed(c) \/ WaitTimeout(c) PROVE IInv'
    BY <1>11, ResetStep DEF RetryFailed, WaitTimeout, Ends
<1>12. ASSUME NEW c \in Calls, Unsubscribe(c) PROVE IInv'
    BY <1>12, UnsubscribeStep
<1>13. CASE UNCHANGED vars
    BY <1>13 DEF vars, store, IInv, TypeOK, SignedInWhole, RetryIsNew, FlagHasOwner, NoneIsEarly,
       RefreshersHaveOwner, At
<1> QED
    BY <1>1, <1>2, <1>3, <1>4, <1>5, <1>6, <1>7, <1>8, <1>9, <1>10, <1>11, <1>12, <1>13 DEF Next

\* For any number of calls and users, the invariant holds in every reachable state.
THEOREM SessionInductive == Spec => []IInv
BY InitHolds, StepHolds, PTL DEF Spec

\* Whoever is signed in has both tokens, whatever answers, timers and reloads
\* come in between: the constructor's check never signs anybody out.
THEOREM SessionsAreWhole == Spec => []SessionIsWhole
<1>1. IInv => SessionIsWhole
    BY DEF IInv, SessionIsWhole
<1> QED
    BY <1>1, SessionInductive, PTL

\* No call is retried with the token that its 401 refused, however many calls
\* refresh, wait, time out and unsubscribe.
THEOREM RetriesAreNew == Spec => []RetryIsNew
<1>1. IInv => RetryIsNew
    BY DEF IInv
<1> QED
    BY <1>1, SessionInductive, PTL

\* A set flag has a refresh running, or one whose caller has unsubscribed.
THEOREM FlagsHaveOwners == Spec => []FlagHasOwner
<1>1. IInv => FlagHasOwner
    BY DEF IInv
<1> QED
    BY <1>1, SessionInductive, PTL

-----------------------------------------------------------------------------
(***************************************************************************)
(* Sums over finite sets, as SumFunctionOnSet computes them: by a function *)
(* on all subsets, which takes one element at a time.                      *)
(***************************************************************************)

\* The element that is taken first.
Picked(s) == CHOOSE x \in s : TRUE

\* The sum's recursion: of a set, from the sums of the smaller ones.
SumBody(g, S, h) == [s \in SUBSET S |-> IF s = {} THEN 0 ELSE g[Picked(s)] + h[s \ {Picked(s)}]]

\* The function that the sum of a set is a value of.
SumFcn(g, S) == CHOOSE h : h = SumBody(g, S, h)

\* A set of exceptions that has no smallest member is empty.
LEMMA NoException ==
    ASSUME NEW S, IsFiniteSet(S), NEW B \in SUBSET SUBSET S,
           \A s \in B : \E t \in B : t \subseteq s /\ t # s
    PROVE  B = {}
<1> SUFFICES ASSUME B # {} PROVE FALSE
    OBVIOUS
<1>1. IsWellFoundedOn(StrictSubsetOrdering(S), FiniteSubsetsOf(S)) /\ FiniteSubsetsOf(S) = SUBSET S
    BY FS_StrictSubsetOrderingWellFounded, FS_FiniteSubsetsOfFinite
<1> PICK R, F : R = StrictSubsetOrdering(S) /\ F = FiniteSubsetsOf(S)
    OBVIOUS
<1>2. PICK s \in B : \A t \in B : ~ (<<t, s>> \in R)
    <2> IsWellFoundedOn(R, F) /\ B \subseteq F
        BY <1>1
    <2> QED
        BY WFMin
<1>3. PICK t \in B : t \subseteq s /\ t # s
    OBVIOUS
<1>4. <<t, s>> \in R
    BY <1>3 DEF StrictSubsetOrdering
<1> QED
    BY <1>2, <1>4

\* There is a function that does what the sum's definition says.
LEMMA SumExists ==
    ASSUME NEW g, NEW S, IsFiniteSet(S)
    PROVE  SumFcn(g, S) = SumBody(g, S, SumFcn(g, S))
<1> DEFINE Small(n) == {s \in SUBSET S : Cardinality(s) <= n}
           Value(h, s) == IF s = {} THEN 0 ELSE g[Picked(s)] + h[s \ {Picked(s)}]
           Works(h, n) == h = [s \in Small(n) |-> Value(h, s)]
           Fails == {s \in SUBSET S : ~\E h : Works(h, Cardinality(s))}
<1>1. \A s \in SUBSET S : IsFiniteSet(s) /\ Cardinality(s) \in Nat /\ Cardinality(s) <= Cardinality(S)
    BY FS_Subset, FS_CardinalityType
<1>2. \A s \in SUBSET S : s # {} => /\ Picked(s) \in s /\ s \ {Picked(s)} \in SUBSET S
                                   /\ Cardinality(s \ {Picked(s)}) = Cardinality(s) - 1
    BY <1>1, FS_RemoveElement DEF Picked
<1>3. Small(0) = {{}}
    BY <1>1, FS_EmptySet
<1>4. \E h : Works(h, 0)
    <2> DEFINE z == [s \in {{}} |-> 0]
    <2>1. Works(z, 0)
        BY <1>3
    <2> QED
        BY <2>1
<1>5. ASSUME NEW n \in Nat, NEW h, Works(h, n)
      PROVE  \E k : Works(k, n + 1)
    <2> DEFINE k == [s \in Small(n + 1) |-> Value(h, s)]
    <2>1. \A s \in Small(n) : s \in Small(n + 1) /\ k[s] = h[s]
        <3>1. \A s \in Small(n) : s \in Small(n + 1)
            BY <1>1
        <3>2. \A s \in Small(n) : h[s] = Value(h, s)
            BY <1>5
        <3> QED
            BY <3>1, <3>2
    <2>2. \A s \in Small(n + 1) : s # {} => s \ {Picked(s)} \in Small(n)
        BY <1>1, <1>2
    <2>3. \A s \in Small(n + 1) : Value(k, s) = Value(h, s)
        BY <2>1, <2>2
    <2>4. Works(k, n + 1)
        BY <2>3
    <2> QED
        BY <2>4
<1>6. Fails = {}
    <2>1. ASSUME NEW s \in Fails
          PROVE  s # {} /\ s \ {Picked(s)} \in Fails
        <3> HIDE DEF Works
        <3>1. s # {}
            BY <1>4, FS_EmptySet
        <3> PICK n : n = Cardinality(s) - 1
            OBVIOUS
        <3>2. Cardinality(s) \in Nat /\ Cardinality(s) # 0 /\ n = Cardinality(s \ {Picked(s)})
            BY <1>1, <1>2, <3>1, FS_EmptySet
        <3>3. n \in Nat /\ n + 1 = Cardinality(s)
            BY <3>2
        <3>4. ~\E h : Works(h, n)
            BY <1>5, <3>3
        <3> QED
            BY <1>2, <3>1, <3>2, <3>4
    <2>2. \A s \in Fails : \E t \in Fails : t \subseteq s /\ t # s
        BY <1>2, <2>1
    <2> HIDE DEF Fails
    <2>3. Fails \in SUBSET SUBSET S
        BY DEF Fails
    <2> QED
        BY <2>2, <2>3, NoException
<1>7. \E h : Works(h, Cardinality(S))
    BY <1>1, <1>6
<1>8. Small(Cardinality(S)) = SUBSET S
    BY <1>1
<1>9. \E h : h = SumBody(g, S, h)
    BY <1>7, <1>8 DEF SumBody
<1> HIDE DEF SumBody
<1> QED
    BY <1>9 DEF SumFcn

\* What the sum is.
LEMMA SumIs ==
    ASSUME NEW g, NEW S
    PROVE  SumFunctionOnSet(g, S) = SumFcn(g, S)[S]
BY DEF SumFunctionOnSet, FoldFunctionOnSet, MapThenFoldSet, SumFcn, SumBody, Picked

\* Two sums take their elements in the same order, whatever they are sums over.
LEMMA SumsAgree ==
    ASSUME NEW f, NEW g, NEW S, NEW T, IsFiniteSet(S), IsFiniteSet(T),
           NEW U \in SUBSET (S \cap T), \A x \in U : f[x] = g[x]
    PROVE  SumFcn(f, S)[U] = SumFcn(g, T)[U]
<1> DEFINE B == {u \in SUBSET U : SumFcn(f, S)[u] # SumFcn(g, T)[u]}
<1>1. \A u \in SUBSET U : /\ SumFcn(f, S)[u] = IF u = {} THEN 0 ELSE f[Picked(u)] + SumFcn(f, S)[u \ {Picked(u)}]
                         /\ SumFcn(g, T)[u] = IF u = {} THEN 0 ELSE g[Picked(u)] + SumFcn(g, T)[u \ {Picked(u)}]
    <2> SUFFICES ASSUME NEW u \in SUBSET U
                 PROVE /\ SumFcn(f, S)[u] = IF u = {} THEN 0 ELSE f[Picked(u)] + SumFcn(f, S)[u \ {Picked(u)}]
                       /\ SumFcn(g, T)[u] = IF u = {} THEN 0 ELSE g[Picked(u)] + SumFcn(g, T)[u \ {Picked(u)}]
        OBVIOUS
    <2> PICK a, b : a = SumFcn(f, S) /\ b = SumFcn(g, T)
        OBVIOUS
    <2>1. a = SumBody(f, S, a) /\ b = SumBody(g, T, b)
        BY SumExists
    <2>2. u \in SUBSET S /\ u \in SUBSET T
        OBVIOUS
    <2> QED
        BY <2>1, <2>2 DEF SumBody
<1>2. \A u \in SUBSET U : u # {} => Picked(u) \in u
    BY DEF Picked
<1>3. \A u \in B : u # {} /\ u \ {Picked(u)} \in B
    <2> SUFFICES ASSUME NEW u \in B, u = {} \/ u \ {Picked(u)} \notin B PROVE FALSE
        OBVIOUS
    <2>1. u # {}
        BY <1>1
    <2>2. u \ {Picked(u)} \in SUBSET U /\ Picked(u) \in U
        BY <1>2, <2>1
    <2>3. SumFcn(f, S)[u \ {Picked(u)}] = SumFcn(g, T)[u \ {Picked(u)}]
        BY <2>1, <2>2
    <2> QED
        BY <1>1, <2>1, <2>2, <2>3
<1>4. ASSUME NEW u \in B
      PROVE  \E t \in B : t \subseteq u /\ t # u
    <2> u # {} /\ Picked(u) \in u /\ u \ {Picked(u)} \in B
        BY <1>2, <1>3
    <2> HIDE DEF B
    <2> QED
        OBVIOUS
<1>5. B \in SUBSET SUBSET U
    OBVIOUS
<1>6. IsFiniteSet(U)
    BY FS_Subset
<1>7. B = {}
    <2> HIDE DEF B
    <2> QED
        BY <1>4, <1>5, <1>6, NoException
<1> QED
    BY <1>7

\* Sums depend on the values at their elements only.
LEMMA SumOfSame ==
    ASSUME NEW f, NEW g, NEW S, IsFiniteSet(S), \A x \in S : f[x] = g[x]
    PROVE  SumFunctionOnSet(f, S) = SumFunctionOnSet(g, S)
BY SumIs, SumsAgree

\* Nothing adds up to zero.
LEMMA SumOfNone ==
    ASSUME NEW f
    PROVE  SumFunctionOnSet(f, {}) = 0
<1> PICK h : h = SumFcn(f, {})
    OBVIOUS
<1>1. h = SumBody(f, {}, h)
    BY SumExists, FS_EmptySet
<1>2. h[{}] = 0
    BY <1>1 DEF SumBody
<1> QED
    BY <1>2, SumIs

\* The sum is one element's value and the sum of the rest.
LEMMA SumTakesPicked ==
    ASSUME NEW f, NEW S, IsFiniteSet(S), S # {}
    PROVE  /\ Picked(S) \in S
           /\ SumFunctionOnSet(f, S) = f[Picked(S)] + SumFunctionOnSet(f, S \ {Picked(S)})
<1> PICK p, T, h : p = Picked(S) /\ T = S \ {p} /\ h = SumFcn(f, S)
    OBVIOUS
<1>1. p \in S
    BY DEF Picked
<1>2. h = SumBody(f, S, h)
    BY SumExists
<1>3. h[S] = f[p] + h[T]
    BY <1>2 DEF SumBody
<1>4. IsFiniteSet(T) /\ T \in SUBSET (S \cap T)
    BY FS_Subset
<1>5. h[T] = SumFcn(f, T)[T]
    BY <1>4, SumsAgree
<1> QED
    BY <1>1, <1>3, <1>5, SumIs

\* Numbers add up to a number.
LEMMA SumIsNumber ==
    ASSUME NEW f, NEW S, IsFiniteSet(S), \A x \in S : f[x] \in Int
    PROVE  SumFunctionOnSet(f, S) \in Int
<1> DEFINE B == {s \in SUBSET S : SumFunctionOnSet(f, s) \notin Int}
<1>1. ASSUME NEW s \in B
      PROVE  \E t \in B : t \subseteq s /\ t # s
    <2> PICK t : t = s \ {Picked(s)}
        OBVIOUS
    <2>1. IsFiniteSet(s) /\ s # {} /\ SumFunctionOnSet(f, s) \notin Int
        <3>1. IsFiniteSet(s) /\ SumFunctionOnSet(f, s) \notin Int
            BY FS_Subset
        <3>2. SumFunctionOnSet(f, {}) \in Int
            BY SumOfNone
        <3> QED
            BY <3>1, <3>2
    <2>2. Picked(s) \in s /\ SumFunctionOnSet(f, s) = f[Picked(s)] + SumFunctionOnSet(f, t)
        BY <2>1, SumTakesPicked
    <2>3. f[Picked(s)] \in Int /\ t \in SUBSET S /\ t # s
        BY <2>2
    <2>4. SumFunctionOnSet(f, t) \notin Int
        BY <2>1, <2>2, <2>3
    <2> QED
        BY <2>3, <2>4
<1>2. B = {}
    <2> B \in SUBSET SUBSET S
        OBVIOUS
    <2> HIDE DEF B
    <2> QED
        BY <1>1, NoException
<1> QED
    BY <1>2

\* Whichever element is taken first.
LEMMA SumTakes ==
    ASSUME NEW f, NEW S, IsFiniteSet(S), \A x \in S : f[x] \in Int, NEW e \in S
    PROVE  SumFunctionOnSet(f, S) = f[e] + SumFunctionOnSet(f, S \ {e})
<1> DEFINE Sum1(s) == SumFunctionOnSet(f, s)
           B == {s \in SUBSET S : \E x \in s : Sum1(s) # f[x] + Sum1(s \ {x})}
<1>1. \A s \in SUBSET S : IsFiniteSet(s) /\ Sum1(s) \in Int
    BY FS_Subset, SumIsNumber
<1>2. ASSUME NEW s \in SUBSET S, NEW x \in s, Sum1(s) # f[x] + Sum1(s \ {x})
      PROVE  \E t \in B : t \subseteq s /\ t # s
    <2> PICK p : p = Picked(s)
        OBVIOUS
    <2>1. p \in s /\ Sum1(s) = f[p] + Sum1(s \ {p})
        BY <1>1, SumTakesPicked
    <2>2. p # x
        BY <1>2, <2>1
    <2> PICK u, v, w : u = s \ {p} /\ v = s \ {x} /\ w = s \ {p, x}
        OBVIOUS
    <2>3. /\ u \in SUBSET S /\ v \in SUBSET S /\ w \in SUBSET S
          /\ x \in u /\ p \in v /\ u # s /\ v # s /\ u \ {x} = w /\ v \ {p} = w
        BY <2>1, <2>2
    <2> HIDE DEF Sum1
    <2>4. Sum1(u) # f[x] + Sum1(w) \/ Sum1(v) # f[p] + Sum1(w)
        <3> PICK a, b, c, d : a = Sum1(u) /\ b = Sum1(v) /\ c = Sum1(w) /\ d = Sum1(s)
            OBVIOUS
        <3>1. a \in Int /\ b \in Int /\ c \in Int /\ d \in Int /\ f[x] \in Int /\ f[p] \in Int
            BY <1>1, <2>1, <2>3
        <3>2. d = f[p] + a /\ d # f[x] + b
            BY <1>2, <2>1
        <3> QED
            BY <3>1, <3>2
    <2>5. u \in B \/ v \in B
        BY <2>3, <2>4
    <2> HIDE DEF B
    <2> QED
        BY <2>3, <2>5
<1>3. ASSUME NEW s \in B
      PROVE  \E t \in B : t \subseteq s /\ t # s
    BY <1>2
<1>4. B = {}
    <2> B \in SUBSET SUBSET S
        OBVIOUS
    <2> HIDE DEF B
    <2> QED
        BY <1>3, NoException
<1> QED
    BY <1>4

\* The sum over two sets that share nothing.
LEMMA SumOfUnion ==
    ASSUME NEW f, NEW S, NEW T, IsFiniteSet(S), IsFiniteSet(T), S \cap T = {},
           \A x \in S \cup T : f[x] \in Int
    PROVE  SumFunctionOnSet(f, S \cup T) = SumFunctionOnSet(f, S) + SumFunctionOnSet(f, T)
<1> DEFINE Sum1(s) == SumFunctionOnSet(f, s)
           B == {t \in SUBSET T : Sum1(S \cup t) # Sum1(S) + Sum1(t)}
<1>1. \A s \in SUBSET (S \cup T) : IsFiniteSet(s) /\ Sum1(s) \in Int
    BY FS_Union, FS_Subset, SumIsNumber
<1>2. ASSUME NEW t \in B
      PROVE  \E u \in B : u \subseteq t /\ u # t
    <2> HIDE DEF Sum1
    <2>1. t # {}
        <3> SUFFICES ASSUME t = {} PROVE FALSE
            OBVIOUS
        <3>1. Sum1(t) = 0 /\ S \cup t = S
            BY SumOfNone DEF Sum1
        <3>2. Sum1(S) \in Int
            BY <1>1
        <3> QED
            BY <3>1, <3>2
    <2> PICK e \in t : TRUE
        BY <2>1
    <2> PICK u, v, w : u = t \ {e} /\ v = S \cup t /\ w = S \cup u
        OBVIOUS
    <2>2. /\ u \in SUBSET T /\ u # t /\ e \in t /\ e \in v /\ v \ {e} = w
          /\ \A s \in {S, t, u, v, w} : s \in SUBSET (S \cup T)
        OBVIOUS
    <2>3. Sum1(t) = f[e] + Sum1(u) /\ Sum1(v) = f[e] + Sum1(w)
        BY <1>1, <2>2, SumTakes DEF Sum1
    <2>4. /\ f[e] \in Int /\ Sum1(t) \in Int /\ Sum1(u) \in Int
          /\ Sum1(v) \in Int /\ Sum1(w) \in Int /\ Sum1(S) \in Int
        BY <1>1, <2>2
    <2>5. Sum1(w) # Sum1(S) + Sum1(u)
        <3> Sum1(v) # Sum1(S) + Sum1(t)
            OBVIOUS
        <3> PICK a, b, c, d, g : a = Sum1(t) /\ b = Sum1(u) /\ c = Sum1(v) /\ d = Sum1(w) /\ g = Sum1(S)
            OBVIOUS
        <3> QED
            BY <2>3, <2>4
    <2>6. u \in B
        BY <2>2, <2>5
    <2> HIDE DEF B
    <2> QED
        BY <2>2, <2>6
<1>3. B = {}
    <2> B \in SUBSET SUBSET T
        OBVIOUS
    <2> HIDE DEF B
    <2> QED
        BY <1>2, NoException
<1> QED
    BY <1>3

\* The sum of differences is the difference of the sums.
LEMMA SumOfDifference ==
    ASSUME NEW f, NEW g, NEW h, NEW S, IsFiniteSet(S),
           \A x \in S : f[x] \in Int /\ g[x] \in Int /\ h[x] = f[x] - g[x]
    PROVE  SumFunctionOnSet(h, S) = SumFunctionOnSet(f, S) - SumFunctionOnSet(g, S)
<1> DEFINE B == {s \in SUBSET S :
                 SumFunctionOnSet(h, s) # SumFunctionOnSet(f, s) - SumFunctionOnSet(g, s)}
<1>1. \A x \in S : h[x] \in Int
    OBVIOUS
<1>2. ASSUME NEW s \in SUBSET S
      PROVE  /\ IsFiniteSet(s) /\ SumFunctionOnSet(h, s) \in Int
             /\ SumFunctionOnSet(f, s) \in Int /\ SumFunctionOnSet(g, s) \in Int
    BY <1>1, FS_Subset, SumIsNumber
<1>3. ASSUME NEW s \in B
      PROVE  \E t \in B : t \subseteq s /\ t # s
    <2>1. s # {}
        <3> SUFFICES ASSUME s = {} PROVE FALSE
            OBVIOUS
        <3> QED
            BY SumOfNone
    <2> PICK e \in s : TRUE
        BY <2>1
    <2> PICK t : t = s \ {e}
        OBVIOUS
    <2>2. t \in SUBSET S /\ t # s /\ t \subseteq s /\ e \in S
        OBVIOUS
    <2>3. /\ SumFunctionOnSet(f, s) = f[e] + SumFunctionOnSet(f, t)
          /\ SumFunctionOnSet(g, s) = g[e] + SumFunctionOnSet(g, t)
          /\ SumFunctionOnSet(h, s) = h[e] + SumFunctionOnSet(h, t)
        <3> IsFiniteSet(s) /\ \A x \in s : f[x] \in Int /\ g[x] \in Int /\ h[x] \in Int
            BY <1>1, <1>2
        <3> HIDE DEF B
        <3> QED
            BY SumTakes
    <2>4. SumFunctionOnSet(h, t) # SumFunctionOnSet(f, t) - SumFunctionOnSet(g, t)
        <3> SumFunctionOnSet(h, s) # SumFunctionOnSet(f, s) - SumFunctionOnSet(g, s)
            OBVIOUS
        <3> PICK a, b, c, aa, bb, cc : /\ a = SumFunctionOnSet(f, s) /\ aa = SumFunctionOnSet(f, t)
                                       /\ b = SumFunctionOnSet(g, s) /\ bb = SumFunctionOnSet(g, t)
                                       /\ c = SumFunctionOnSet(h, s) /\ cc = SumFunctionOnSet(h, t)
            OBVIOUS
        <3>1. aa \in Int /\ bb \in Int /\ cc \in Int /\ f[e] \in Int /\ g[e] \in Int
            BY <1>2, <2>2
        <3>2. a = f[e] + aa /\ b = g[e] + bb /\ c = h[e] + cc /\ h[e] = f[e] - g[e] /\ c # a - b
            BY <2>2, <2>3
        <3> QED
            BY <3>1, <3>2
    <2>5. t \in B
        BY <2>2, <2>4
    <2> HIDE DEF B
    <2> QED
        BY <2>2, <2>5
<1>4. B = {}
    <2> B \in SUBSET SUBSET S
        OBVIOUS
    <2> HIDE DEF B
    <2> QED
        BY <1>3, NoException
<1> QED
    BY <1>4

\* A set has as many elements as ones.
LEMMA SumOfOnes ==
    ASSUME NEW f, NEW S, IsFiniteSet(S), \A x \in S : f[x] = 1
    PROVE  SumFunctionOnSet(f, S) = Cardinality(S)
<1> DEFINE B == {s \in SUBSET S : SumFunctionOnSet(f, s) # Cardinality(s)}
<1>1. ASSUME NEW s \in B
      PROVE  \E t \in B : t \subseteq s /\ t # s
    <2>1. s # {}
        BY SumOfNone, FS_EmptySet
    <2> PICK e \in s : TRUE
        BY <2>1
    <2> PICK t : t = s \ {e}
        OBVIOUS
    <2>2. t \in SUBSET S /\ t # s /\ t \subseteq s /\ e \in S /\ IsFiniteSet(s)
        BY FS_Subset
    <2>3. SumFunctionOnSet(f, s) = f[e] + SumFunctionOnSet(f, t) /\ f[e] = 1
        BY <2>2, SumTakes
    <2>4. Cardinality(t) = Cardinality(s) - 1 /\ Cardinality(s) \in Nat
        BY <2>2, FS_RemoveElement, FS_CardinalityType
    <2>5. t \in B
        BY <2>2, <2>3, <2>4
    <2> HIDE DEF B
    <2> QED
        BY <2>2, <2>5
<1>2. B = {}
    <2> B \in SUBSET SUBSET S
        OBVIOUS
    <2> HIDE DEF B
    <2> QED
        BY <1>1, NoException
<1> QED
    BY <1>2

\* The members of S that a key puts in one group.
Keyed(S, key, d) == {x \in S : key[x] = d}

\* Grouped by a key, and group by group: t has the sum of each group.
LEMMA SumOfGroups ==
    ASSUME NEW f, NEW S, IsFiniteSet(S), \A x \in S : f[x] \in Int,
           NEW D, IsFiniteSet(D), NEW key, \A x \in S : key[x] \in D,
           NEW t, \A d \in D : t[d] = SumFunctionOnSet(f, Keyed(S, key, d))
    PROVE  SumFunctionOnSet(t, D) = SumFunctionOnSet(f, S)
<1> DEFINE In(E) == {x \in S : key[x] \in E}
           Of(d) == Keyed(S, key, d)
           B == {E \in SUBSET D : SumFunctionOnSet(t, E) # SumFunctionOnSet(f, In(E))}
<1>1. \A s \in SUBSET S : IsFiniteSet(s) /\ SumFunctionOnSet(f, s) \in Int
    BY FS_Subset, SumIsNumber
<1>2. \A d \in D : t[d] \in Int /\ t[d] = SumFunctionOnSet(f, Of(d))
    BY <1>1 DEF Keyed
<1>3. ASSUME NEW E \in B
      PROVE  \E F \in B : F \subseteq E /\ F # E
    <2>1. E # {}
        <3> In({}) = {}
            OBVIOUS
        <3> QED
            BY SumOfNone
    <2> PICK d \in E : TRUE
        BY <2>1
    <2> PICK F : F = E \ {d}
        OBVIOUS
    <2>2. F \in SUBSET D /\ F # E /\ F \subseteq E /\ d \in D /\ IsFiniteSet(E)
        BY FS_Subset
    <2>3. SumFunctionOnSet(t, E) = t[d] + SumFunctionOnSet(t, F)
        <3> \A x \in E : t[x] \in Int
            BY <1>2
        <3> HIDE DEF B
        <3> QED
            BY <2>2, SumTakes
    <2>4. In(E) = Of(d) \cup In(F) /\ Of(d) \cap In(F) = {} /\ Of(d) \in SUBSET S /\ In(F) \in SUBSET S
        BY DEF Keyed
    <2>5. SumFunctionOnSet(f, In(E)) = SumFunctionOnSet(f, Of(d)) + SumFunctionOnSet(f, In(F))
        <3> PICK p, q : p = Of(d) /\ q = In(F)
            OBVIOUS
        <3> QED
            BY <1>1, <2>4, SumOfUnion
    <2>6. SumFunctionOnSet(t, F) # SumFunctionOnSet(f, In(F))
        <3> SumFunctionOnSet(t, E) # SumFunctionOnSet(f, In(E))
            OBVIOUS
        <3> QED
            BY <1>2, <2>2, <2>3, <2>5
    <2>7. F \in B
        BY <2>2, <2>6
    <2> HIDE DEF B
    <2> QED
        BY <2>2, <2>7
<1>4. B = {}
    <2> B \in SUBSET SUBSET D
        OBVIOUS
    <2> HIDE DEF B
    <2> QED
        BY <1>3, NoException
<1>5. In(D) = S
    OBVIOUS
<1> QED
    BY <1>4, <1>5

-----------------------------------------------------------------------------
(***************************************************************************)
(* Reports.  The invariant is only about types; that the figures agree     *)
(* then follows in each state from what sums are.                          *)
(***************************************************************************)
\* The orders' records, in full.
Records ==
    [status: Statuses, brokerId: Ids, driverId: Ids, carrierId: Ids, dispatcherId: Ids,
     month: Months, money: [Money -> Int]]

\* The inductive invariant: the types, and each amount paid or nothing.
ReportInv ==
    /\ role \in Roles /\ ops \in 0..MaxOps /\ order \in [Orders -> Records]
    /\ filters \in [status: Statuses \cup {Nobody}, brokerId: Ids \cup {Nobody}]
    /\ \A o \in Orders, f \in Money : order[o].money[f] \in {0, Paid[o][f]}

\* There are finitely many orders and statuses.
LEMMA SetsAreFinite ==
    /\ IsFiniteSet(Orders) /\ Cardinality(Orders) = N /\ IsFiniteSet(Statuses)
    /\ \A S \in SUBSET Orders : IsFiniteSet(S) /\ Cardinality(S) \in 0..N
<1>1. IsFiniteSet(Orders) /\ Cardinality(Orders) = N
    BY FS_Interval, CountAssumption DEF Orders
<1>2. IsFiniteSet(Statuses)
    <2>1. Statuses = {} \cup {"Scheduled"} \cup {"PickingUp"} \cup {"Transit"} \cup {"Delivered"}
                     \cup {"WaitingRC"} \cup {"ReadyToPay"} \cup {"Canceled"}
        BY DEF Statuses
    <2> QED
        BY <2>1, FS_EmptySet, FS_AddElement
<1> QED
    BY <1>1, <1>2, FS_Subset, FS_CardinalityType

\* The orders that a user has at first are records with all amounts paid.
LEMMA ReportInitHolds == ReportInit => ReportInv
<1> SUFFICES ASSUME ReportInit PROVE ReportInv
    OBVIOUS
<1> PICK id, month : id = (CHOOSE i \in Ids : TRUE) /\ month = (CHOOSE m \in Months : TRUE)
    OBVIOUS
<1>1. id \in Ids /\ month \in Months
    BY IdsAssumption, MonthsAssumption
<1>2. PICK status \in [Orders -> Statuses] :
        order = [o \in Orders |->
            [status |-> status[o], brokerId |-> id, driverId |-> id, carrierId |-> id,
             dispatcherId |-> id, month |-> month, money |-> [f \in Money |-> Paid[o][f]]]]
    BY DEF ReportInit
<1>3. \A o \in Orders, f \in Money : Paid[o][f] \in Int
    BY PaidAssumption
<1>4. order \in [Orders -> Records]
    BY <1>1, <1>2, <1>3 DEF Records
<1>5. \A o \in Orders, f \in Money : order[o].money[f] = Paid[o][f]
    BY <1>2
<1>6. role \in Roles /\ filters = [status |-> Nobody, brokerId |-> Nobody] /\ ops = 0
    BY DEF ReportInit
<1> QED
    BY <1>4, <1>5, <1>6, CountAssumption DEF ReportInv

\* A step that makes records of records keeps the invariant.
LEMMA TypesStay ==
    ASSUME ReportInv, Does, UNCHANGED <<role, filters>>, order' \in [Orders -> Records],
           \A o \in Orders, f \in Money : order'[o].money[f] \in {0, Paid[o][f]}
    PROVE  ReportInv'
<1>1. ops' \in 0..MaxOps
    BY CountAssumption DEF ReportInv, Does
<1> QED
    BY <1>1 DEF ReportInv

\* Every change of an order, and of the filters, keeps the invariant.
LEMMA ReportStep == ReportInv /\ [ReportNext]_reportVars => ReportInv'
<1> SUFFICES ASSUME ReportInv, [ReportNext]_reportVars PROVE ReportInv'
    OBVIOUS
<1>1. CASE UNCHANGED reportVars
    BY <1>1 DEF reportVars, ReportInv
<1> order \in [Orders -> Records]
    BY DEF ReportInv
<1>2. ASSUME NEW o \in Orders, NEW s \in Statuses, Advance(o, s)
      PROVE  ReportInv'
    <2>1. order'[o] = [order[o] EXCEPT !.status = s] /\ order' = [order EXCEPT ![o] = order'[o]]
        BY <1>2 DEF Advance
    <2>2. order'[o] \in Records /\ order'[o].money = order[o].money
        BY <2>1 DEF Records
    <2>3. order' \in [Orders -> Records]
        BY <2>1, <2>2
    <2>4. \A p \in Orders : order'[p].money = order[p].money
        BY <2>1, <2>2
    <2> QED
        BY <1>2, <2>3, <2>4, TypesStay DEF Advance, ReportInv
<1>3. ASSUME NEW o \in Orders, NEW party \in Parties \ {"dispatcherId"}, NEW id \in Ids, Reassign(o, party, id)
      PROVE  ReportInv'
    <2>1. order'[o] = [order[o] EXCEPT ![party] = id] /\ order' = [order EXCEPT ![o] = order'[o]]
        BY <1>3 DEF Reassign
    <2>2. order'[o] \in Records /\ order'[o].money = order[o].money
        BY <2>1 DEF Records, Parties
    <2>3. order' \in [Orders -> Records]
        BY <2>1, <2>2
    <2>4. \A p \in Orders : order'[p].money = order[p].money
        BY <2>1, <2>2
    <2> QED
        BY <1>3, <2>3, <2>4, TypesStay DEF Reassign, ReportInv
<1>4. ASSUME NEW o \in Orders, NEW m \in Months, Reschedule(o, m)
      PROVE  ReportInv'
    <2>1. order'[o] = [order[o] EXCEPT !.month = m] /\ order' = [order EXCEPT ![o] = order'[o]]
        BY <1>4 DEF Reschedule
    <2>2. order'[o] \in Records /\ order'[o].money = order[o].money
        BY <2>1 DEF Records
    <2>3. order' \in [Orders -> Records]
        BY <2>1, <2>2
    <2>4. \A p \in Orders : order'[p].money = order[p].money
        BY <2>1, <2>2
    <2> QED
        BY <1>4, <2>3, <2>4, TypesStay DEF Reschedule, ReportInv
<1>5. ASSUME NEW o \in Orders, NEW f \in Money, Pay(o, f)
      PROVE  ReportInv'
    <2> PICK a : a = Paid[o][f] - order[o].money[f]
        OBVIOUS
    <2>1. Paid[o][f] \in Int /\ order[o].money[f] \in {0, Paid[o][f]}
        BY PaidAssumption DEF ReportInv
    <2>2. a \in Int /\ a \in {0, Paid[o][f]}
        BY <2>1
    <2>3. /\ order' = [order EXCEPT ![o] = order'[o]]
          /\ order'[o] = [order[o] EXCEPT !.money = [order[o].money EXCEPT ![f] = a]]
        BY <1>5 DEF Pay
    <2>4. order'[o] \in Records /\ order'[o].money = [order[o].money EXCEPT ![f] = a]
        BY <2>2, <2>3 DEF Records
    <2>5. order' \in [Orders -> Records]
        BY <2>3, <2>4
    <2>6. order[o].money \in [Money -> Int]
        BY DEF Records
    <2>7. \A p \in Orders, g \in Money : order'[p].money[g] = IF p = o /\ g = f THEN a ELSE order[p].money[g]
        BY <2>3, <2>4, <2>6
    <2>8. \A p \in Orders, g \in Money : order'[p].money[g] \in {0, Paid[p][g]}
        BY <2>2, <2>7 DEF ReportInv
    <2> QED
        BY <1>5, <2>5, <2>8, TypesStay DEF Pay
<1>6. ASSUME NEW s \in Statuses \cup {Nobody}, NEW b \in Ids \cup {Nobody},
             SetFilters([status |-> s, brokerId |-> b])
      PROVE  ReportInv'
    <2>1. ops' \in 0..MaxOps
        BY <1>6, CountAssumption DEF ReportInv, SetFilters, Does
    <2> QED
        BY <1>6, <2>1 DEF ReportInv, SetFilters
<1> QED
    BY <1>1, <1>2, <1>3, <1>4, <1>5, <1>6 DEF ReportNext

\* What is known of every record, amount and sum.
LEMMA OrdersAre ==
    ASSUME ReportInv, NEW o \in Orders
    PROVE  /\ order[o].status \in Statuses /\ order[o].month \in Months
           /\ \A party \in Parties : order[o][party] \in Ids
           /\ \A f \in Money : Amount(o, f) \in Int
<1>1. order[o] \in Records
    BY DEF ReportInv
<1>2. order[o].money \in [Money -> Int] /\ \A f \in Money : order[o].money[f] \in Int
    BY <1>1 DEF Records
<1>3. ASSUME NEW f \in Money
      PROVE  Amount(o, f) \in Int
    <2>1. filterFields(o).money = [g \in Money |-> IF g \in HIDDEN_FIELDS[role] THEN 0 ELSE order[o].money[g]]
        BY <1>1 DEF filterFields, Records
    <2> QED
        BY <1>2, <2>1 DEF Amount
<1> QED
    BY <1>1, <1>3 DEF Records, Parties

\* Every sum that a report has is a number.
LEMMA SumsAre ==
    ASSUME ReportInv, NEW f \in Money, NEW S \in SUBSET Orders
    PROVE  Sum(S, f) \in Int
<1>1. \A o \in S : [p \in Orders |-> Amount(p, f)][o] \in Int
    BY OrdersAre
<1> QED
    BY <1>1, SetsAreFinite, SumIsNumber DEF Sum

\* Amounts of two sets of orders that share none.
LEMMA SumOfBoth ==
    ASSUME ReportInv, NEW f \in Money, NEW S \in SUBSET Orders, NEW T \in SUBSET Orders, S \cap T = {}
    PROVE  Sum(S \cup T, f) = Sum(S, f) + Sum(T, f)
<1>1. \A o \in S \cup T : [p \in Orders |-> Amount(p, f)][o] \in Int
    BY OrdersAre
<1> QED
    BY <1>1, SetsAreFinite, SumOfUnion DEF Sum

\* For any orders, parties and amounts, the invariant holds in every reachable state.
THEOREM ReportsInductive == ReportSpec => []ReportInv
<1> QED
    BY ReportInitHolds, ReportStep, PTL DEF ReportSpec

-----------------------------------------------------------------------------
(***************************************************************************)
(* What the figures have in common.  A profit is the sum over the orders   *)
(* of one order's profit, so it can be grouped and split like any sum.     *)
(***************************************************************************)
\* The profit in the totals of the summary and the report.
Profit(S) == Totals(S).profit

\* An order's part of the profit in the totals.
ProfitOf(o) ==
    CASE role = "Admin" ->
           Amount(o, "adminPayment") - Amount(o, "lumperValue") - Amount(o, "detentionValue")
      [] role = "Dispatcher" -> Amount(o, "dispatcherPayment")
      [] role = "Carrier" ->
           Amount(o, "carrierPayment") - Amount(o, "driverPayment") - Amount(o, "fuelCost")
      [] role = "Driver" -> Amount(o, "driverPayment")

\* One amount less two others, order by order or in sum.
LEMMA ThreeInOne ==
    ASSUME ReportInv, NEW f \in Money, NEW g \in Money, NEW h \in Money, NEW S \in SUBSET Orders
    PROVE  SumFunctionOnSet([o \in Orders |-> Amount(o, f) - Amount(o, g) - Amount(o, h)], S)
           = Sum(S, f) - Sum(S, g) - Sum(S, h)
<1>0. PICK a, b, c, d, e :
        /\ a = [o \in Orders |-> Amount(o, f)] /\ b = [o \in Orders |-> Amount(o, g)]
        /\ c = [o \in Orders |-> Amount(o, h)] /\ d = [o \in Orders |-> Amount(o, f) - Amount(o, g)]
        /\ e = [o \in Orders |-> Amount(o, f) - Amount(o, g) - Amount(o, h)]
    OBVIOUS
<1>1. IsFiniteSet(S)
    BY SetsAreFinite
<1>2. \A o \in S, k \in Money : Amount(o, k) \in Int
    BY OrdersAre
<1>3. \A o \in S : a[o] \in Int /\ b[o] \in Int /\ d[o] = a[o] - b[o]
    BY <1>0, <1>2
<1>4. \A o \in S : d[o] \in Int /\ c[o] \in Int /\ e[o] = d[o] - c[o]
    BY <1>0, <1>2
<1>5. /\ SumFunctionOnSet(d, S) = SumFunctionOnSet(a, S) - SumFunctionOnSet(b, S)
      /\ SumFunctionOnSet(e, S) = SumFunctionOnSet(d, S) - SumFunctionOnSet(c, S)
    BY <1>1, <1>3, <1>4, SumOfDifference
<1>6. /\ SumFunctionOnSet(a, S) = Sum(S, f) /\ SumFunctionOnSet(b, S) = Sum(S, g)
      /\ SumFunctionOnSet(c, S) = Sum(S, h)
    BY <1>0 DEF Sum
<1>7. Sum(S, f) \in Int /\ Sum(S, g) \in Int /\ Sum(S, h) \in Int
    BY SumsAre
<1> QED
    BY <1>0, <1>5, <1>6, <1>7

\* For each role the profit of the totals is the sum of the orders' profits.
LEMMA ProfitIsSum ==
    ASSUME ReportInv, NEW S \in SUBSET Orders
    PROVE  Profit(S) = SumFunctionOnSet([o \in Orders |-> ProfitOf(o)], S)
<1>1. CASE role = "Admin"
    <2>1. [o \in Orders |-> ProfitOf(o)]
          = [o \in Orders |-> Amount(o, "adminPayment") - Amount(o, "lumperValue") - Amount(o, "detentionValue")]
        BY <1>1 DEF ProfitOf
    <2>2. Profit(S) = Sum(S, "adminPayment") - Sum(S, "lumperValue") - Sum(S, "detentionValue")
        BY <1>1 DEF Profit, Totals
    <2> QED
        BY <2>1, <2>2, ThreeInOne DEF Money
<1>2. CASE role = "Carrier"
    <2>1. [o \in Orders |-> ProfitOf(o)]
          = [o \in Orders |-> Amount(o, "carrierPayment") - Amount(o, "driverPayment") - Amount(o, "fuelCost")]
        BY <1>2 DEF ProfitOf
    <2>2. Profit(S) = Sum(S, "carrierPayment") - Sum(S, "driverPayment") - Sum(S, "fuelCost")
        BY <1>2 DEF Profit, Totals
    <2> QED
        BY <2>1, <2>2, ThreeInOne DEF Money
<1>3. CASE role = "Dispatcher"
    <2>1. [o \in Orders |-> ProfitOf(o)] = [o \in Orders |-> Amount(o, "dispatcherPayment")]
        BY <1>3 DEF ProfitOf
    <2>2. Profit(S) = Sum(S, "dispatcherPayment")
        BY <1>3 DEF Profit, Totals
    <2> QED
        BY <2>1, <2>2 DEF Sum
<1>4. CASE role = "Driver"
    <2>1. [o \in Orders |-> ProfitOf(o)] = [o \in Orders |-> Amount(o, "driverPayment")]
        BY <1>4 DEF ProfitOf
    <2>2. Profit(S) = Sum(S, "driverPayment")
        BY <1>4 DEF Profit, Totals
    <2> QED
        BY <2>1, <2>2 DEF Sum
<1> QED
    BY <1>1, <1>2, <1>3, <1>4 DEF ReportInv, Roles

\* Profits are numbers.
LEMMA ProfitsAre ==
    ASSUME ReportInv
    PROVE  /\ \A o \in Orders : [p \in Orders |-> ProfitOf(p)][o] \in Int
           /\ \A S \in SUBSET Orders : Profit(S) \in Int
<1>1. ASSUME NEW o \in Orders
      PROVE  ProfitOf(o) \in Int
    <2>1. \A f \in Money : Amount(o, f) \in Int
        BY OrdersAre
    <2> QED
        BY <2>1 DEF ProfitOf, Money, ReportInv, Roles
<1>2. \A o \in Orders : [p \in Orders |-> ProfitOf(p)][o] \in Int
    BY <1>1
<1>3. ASSUME NEW S \in SUBSET Orders
      PROVE  Profit(S) \in Int
    <2> PICK g : g = [p \in Orders |-> ProfitOf(p)]
        OBVIOUS
    <2>1. \A o \in S : g[o] \in Int
        BY <1>2
    <2> QED
        BY <2>1, SetsAreFinite, SumIsNumber, ProfitIsSum
<1> QED
    BY <1>2, <1>3

\* Profits of two sets of orders that share none.
LEMMA ProfitOfBoth ==
    ASSUME ReportInv, NEW S \in SUBSET Orders, NEW T \in SUBSET Orders, S \cap T = {}
    PROVE  Profit(S \cup T) = Profit(S) + Profit(T)
<1> PICK g : g = [p \in Orders |-> ProfitOf(p)]
    OBVIOUS
<1>1. \A o \in S \cup T : g[o] \in Int
    BY ProfitsAre
<1>2. IsFiniteSet(S) /\ IsFiniteSet(T) /\ S \cup T \in SUBSET Orders
    BY SetsAreFinite
<1> QED
    BY <1>1, <1>2, SumOfUnion, ProfitIsSum

\* The analytics compute the profit of the totals in another way.
LEMMA PerformanceIsTotal ==
    ASSUME ReportInv, NEW S \in SUBSET Orders
    PROVE  /\ Performance(S).profit = Profit(S) /\ Performance(S).trips = Totals(S).orderCount
           /\ Performance(S).revenue = Revenue(S) /\ BrokerAnalytics(S).revenue = Revenue(S)
           /\ role = "Dispatcher" => Revenue(S) = Profit(S)
           /\ role = "Admin" =>
                Revenue(S) = Profit(S) + Sum(S, "lumperValue") + Sum(S, "detentionValue")
<1>1. \A f \in Money : Sum(S, f) \in Int
    BY SumsAre
<1>2. Performance(S).profit = Revenue(S) - Expenses(S)
    BY DEF Performance
<1>3. Revenue(S) - Expenses(S) = Profit(S)
    <2> HIDE DEF Sum
    <2>1. CASE role = "Admin"
        BY <1>1, <2>1 DEF Revenue, Expenses, Profit, Totals, Money
    <2>2. CASE role = "Dispatcher"
        BY <1>1, <2>2 DEF Revenue, Expenses, Profit, Totals, Money
    <2>3. CASE role = "Carrier"
        BY <1>1, <2>3 DEF Revenue, Expenses, Profit, Totals, Money
    <2>4. CASE role = "Driver"
        BY <1>1, <2>4 DEF Revenue, Expenses, Profit, Totals, Money
    <2> QED
        BY <2>1, <2>2, <2>3, <2>4 DEF ReportInv, Roles
<1>4. role = "Dispatcher" => Revenue(S) = Profit(S)
    BY DEF Revenue, Profit, Totals
<1>5. role = "Admin" => Revenue(S) = Profit(S) + Sum(S, "lumperValue") + Sum(S, "detentionValue")
    BY <1>1 DEF Revenue, Profit, Totals, Money
<1> QED
    BY <1>2, <1>3, <1>4, <1>5 DEF Performance, BrokerAnalytics, Totals

\* The profits of the groups are the profit of the whole.
LEMMA ProfitOfGroups ==
    ASSUME ReportInv, NEW S \in SUBSET Orders, NEW D, IsFiniteSet(D), NEW key, \A o \in S : key[o] \in D,
           NEW t, \A d \in D : t[d] = Profit(Keyed(S, key, d))
    PROVE  SumFunctionOnSet(t, D) = Profit(S)
<1> PICK g : g = [o \in Orders |-> ProfitOf(o)]
    OBVIOUS
<1>1. IsFiniteSet(S) /\ \A o \in S : g[o] \in Int
    BY SetsAreFinite, ProfitsAre
<1>2. \A T \in SUBSET Orders : Profit(T) = SumFunctionOnSet(g, T)
    BY ProfitIsSum
<1>3. \A d \in D : t[d] = SumFunctionOnSet(g, Keyed(S, key, d))
    <2> \A d \in D : Keyed(S, key, d) \in SUBSET Orders
        BY DEF Keyed
    <2> QED
        BY <1>2
<1>4. SumFunctionOnSet(t, D) = SumFunctionOnSet(g, S)
    BY <1>1, <1>3, SumOfGroups
<1> QED
    BY <1>2, <1>4

\* So are amounts,
LEMMA AmountOfGroups ==
    ASSUME ReportInv, NEW S \in SUBSET Orders, NEW D, IsFiniteSet(D), NEW key, \A o \in S : key[o] \in D,
           NEW f \in Money, NEW t, \A d \in D : t[d] = Sum(Keyed(S, key, d), f)
    PROVE  SumFunctionOnSet(t, D) = Sum(S, f)
<1> PICK g : g = [o \in Orders |-> Amount(o, f)]
    OBVIOUS
<1>1. IsFiniteSet(S) /\ \A o \in S : g[o] \in Int
    BY SetsAreFinite, OrdersAre
<1>2. \A T : Sum(T, f) = SumFunctionOnSet(g, T)
    BY DEF Sum
<1>3. \A d \in D : t[d] = SumFunctionOnSet(g, Keyed(S, key, d))
    BY <1>2
<1>4. SumFunctionOnSet(t, D) = SumFunctionOnSet(g, S)
    BY <1>1, <1>3, SumOfGroups
<1> QED
    BY <1>2, <1>4

\* and the orders themselves.
LEMMA CountOfGroups ==
    ASSUME NEW S \in SUBSET Orders, NEW D, IsFiniteSet(D), NEW key, \A o \in S : key[o] \in D,
           NEW t, \A d \in D : t[d] = Cardinality(Keyed(S, key, d))
    PROVE  SumFunctionOnSet(t, D) = Cardinality(S)
<1> PICK g : g = [o \in Orders |-> 1]
    OBVIOUS
<1>1. IsFiniteSet(S) /\ \A o \in S : g[o] = 1 /\ g[o] \in Int
    BY SetsAreFinite
<1>2. \A T \in SUBSET S : Cardinality(T) = SumFunctionOnSet(g, T)
    <2> \A T \in SUBSET S : IsFiniteSet(T) /\ \A o \in T : g[o] = 1
        BY <1>1, SetsAreFinite
    <2> QED
        BY SumOfOnes
<1>3. \A d \in D : t[d] = SumFunctionOnSet(g, Keyed(S, key, d))
    <2> \A d \in D : Keyed(S, key, d) \in SUBSET S
        BY DEF Keyed
    <2> QED
        BY <1>2
<1>4. SumFunctionOnSet(t, D) = SumFunctionOnSet(g, S)
    BY <1>1, <1>3, SumOfGroups
<1> QED
    BY <1>2, <1>4

\* Sums of a function over all it is defined for.
LEMMA SumOfAll ==
    ASSUME NEW D, NEW t, DOMAIN t = D
    PROVE  SumFunction(t) = SumFunctionOnSet(t, D)
BY DEF SumFunction

\* Canceled or active.
LEMMA ActiveOrNot ==
    ASSUME NEW S \in SUBSET Orders
    PROVE  /\ Active(S) \in SUBSET S /\ Filtered \in SUBSET Orders
           /\ S = Active(S) \cup {o \in S : order[o].status = "Canceled"}
           /\ Active(S) \cap {o \in S : order[o].status = "Canceled"} = {}
BY DEF Active, Filtered

\* Types, from the invariant.
LEMMA TypesHold == ReportInv => ReportTypeOK
<1> SUFFICES ASSUME ReportInv PROVE ReportTypeOK
    OBVIOUS
<1>1. PaymentReport.orderCount = Cardinality(Active(Filtered))
    BY DEF PaymentReport, Totals
<1>2. Active(Filtered) \in SUBSET Orders
    BY ActiveOrNot
<1> QED
    BY <1>1, <1>2, SetsAreFinite, OrdersAre DEF ReportTypeOK, ReportInv

\* A role's revenue is one amount, so the revenues of the groups are the whole's.
LEMMA RevenueOfGroups ==
    ASSUME ReportInv, NEW S \in SUBSET Orders, NEW D, IsFiniteSet(D), NEW key, \A o \in S : key[o] \in D,
           NEW t, \A d \in D : t[d] = Revenue(Keyed(S, key, d))
    PROVE  SumFunctionOnSet(t, D) = Revenue(S)
<1>1. PICK f \in Money : \A T : Revenue(T) = Sum(T, f)
    <2> HIDE DEF Sum
    <2>1. CASE role = "Admin"
        BY <2>1 DEF Revenue, Money
    <2>2. CASE role = "Dispatcher"
        BY <2>2 DEF Revenue, Money
    <2>3. CASE role = "Carrier"
        BY <2>3 DEF Revenue, Money
    <2>4. CASE role = "Driver"
        BY <2>4 DEF Revenue, Money
    <2> QED
        BY <2>1, <2>2, <2>3, <2>4 DEF ReportInv, Roles
<1> QED
    BY <1>1, AmountOfGroups

\* The cards have the summary's figures, and the lines of the view's table add up to
\* the cards.
LEMMA AnalyticsAgree == ReportInv => AnalyticsAgreeWithSummary
<1> SUFFICES ASSUME ReportInv, role # "Driver" PROVE AnalyticsAgreeWithSummary
    BY DEF AnalyticsAgreeWithSummary
<1>1. PICK A : A = Active(Orders)
    OBVIOUS
<1>2. A \in SUBSET Orders
    BY <1>1, ActiveOrNot
<1>3. /\ DetailedAnalytics.total = Performance(A)
      /\ DetailedAnalytics.byBroker = [id \in Ids |-> BrokerAnalytics(Group(A, "brokerId", id))]
      /\ DetailedAnalytics.byDriver = [id \in Ids |-> Performance(Group(A, "driverId", id))]
      /\ PaymentSummary.totals = Totals(A)
    BY <1>1 DEF DetailedAnalytics, PaymentSummary
<1>4. PICK data : data = DetailedAnalytics
    OBVIOUS
<1>5. PICK party : /\ party \in {"brokerId", "driverId"}
                   /\ party = IF role = "Carrier" THEN "driverId" ELSE "brokerId"
    OBVIOUS
<1>6. /\ View.cards.orders = Performance(A).trips
      /\ View.cards.revenue = Performance(A).revenue
      /\ View.cards.profit = Performance(A).profit
      /\ \A id \in Ids : View.lines[id].revenue =
            IF role = "Carrier" THEN data.byDriver[id].revenue ELSE data.byBroker[id].revenue
      /\ role # "Admin" => \A id \in Ids : View.lines[id].profit =
            IF role = "Carrier" THEN data.byDriver[id].profit ELSE data.byBroker[id].revenue
    BY <1>3, <1>4 DEF View, Cards, DispatcherView, CarrierView, AdminView, ReportInv, Roles
<1>7. \A id \in Ids : Group(A, party, id) \in SUBSET Orders
    BY <1>2 DEF Group
<1>8. PICK revenues, profits :
          /\ revenues = [id \in Ids |-> View.lines[id].revenue]
          /\ profits = [id \in Ids |-> View.lines[id].profit]
    OBVIOUS
<1>9. \A id \in Ids : revenues[id] = Revenue(Group(A, party, id))
    BY <1>3, <1>4, <1>5, <1>6, <1>7, <1>8, PerformanceIsTotal
<1>10. role # "Admin" => \A id \in Ids : profits[id] = Profit(Group(A, party, id))
    BY <1>3, <1>4, <1>5, <1>6, <1>7, <1>8, PerformanceIsTotal DEF ReportInv, Roles
<1>11. PICK key : key = [o \in Orders |-> order[o][party]]
    OBVIOUS
<1>12. /\ \A o \in A : key[o] \in Ids
       /\ \A id \in Ids : Group(A, party, id) = Keyed(A, key, id)
    BY <1>2, <1>5, <1>11, OrdersAre DEF Parties, Group, Keyed
<1>13. SumFunction(revenues) = Revenue(A)
    <2>1. \A id \in Ids : revenues[id] = Revenue(Keyed(A, key, id))
        BY <1>9, <1>12
    <2>2. SumFunctionOnSet(revenues, Ids) = Revenue(A)
        BY <1>2, <1>12, <2>1, RevenueOfGroups, IdsAssumption
    <2> QED
        BY <1>8, <2>2, SumOfAll
<1>14. role # "Admin" => SumFunction(profits) = Profit(A)
    <2> SUFFICES ASSUME role # "Admin" PROVE SumFunction(profits) = Profit(A)
        OBVIOUS
    <2>1. \A id \in Ids : profits[id] = Profit(Keyed(A, key, id))
        BY <1>10, <1>12
    <2>2. SumFunctionOnSet(profits, Ids) = Profit(A)
        BY <1>2, <1>12, <2>1, ProfitOfGroups, IdsAssumption
    <2> QED
        BY <1>8, <2>2, SumOfAll
<1>15. /\ Performance(A).profit = Profit(A) /\ Performance(A).trips = Totals(A).orderCount
       /\ Performance(A).revenue = Revenue(A) /\ Profit(A) = Totals(A).profit
       /\ role = "Admin" => Revenue(A) = Profit(A) + Sum(A, "lumperValue") + Sum(A, "detentionValue")
    BY <1>2, PerformanceIsTotal DEF Profit
<1> QED
    BY <1>1, <1>3, <1>6, <1>8, <1>13, <1>14, <1>15 DEF AnalyticsAgreeWithSummary

\* Without filters the report and the summary are about the same orders.
LEMMA ReportAgrees == ReportAgreesWithSummary
<1> SUFFICES ASSUME Unfiltered PROVE PaymentReport = PaymentSummary.totals
    BY DEF ReportAgreesWithSummary
<1>1. Filtered = Orders
    BY DEF Unfiltered, Filtered, matchesFilters
<1> QED
    BY <1>1 DEF PaymentReport, PaymentSummary

\* Each party's groups share no order and have all that are not canceled.
LEMMA GroupsAgree == ReportInv => GroupsAddUp
<1> SUFFICES ASSUME ReportInv, NEW party \in Parties
             PROVE  /\ SumFunction([id \in Ids |-> PaymentSummary.groups[party][id].total])
                          = Sum(Active(Orders), GroupAmount[party])
                    /\ SumFunction([id \in Ids |-> PaymentSummary.groups[party][id].count])
                          = PaymentSummary.totals.orderCount
    BY DEF GroupsAddUp
<1>1. PICK A : A = Active(Orders)
    OBVIOUS
<1>2. A \in SUBSET Orders
    BY <1>1, ActiveOrNot
<1>3. PaymentSummary.totals.orderCount = Cardinality(A)
    BY <1>1 DEF PaymentSummary, Totals
<1>4. PICK f : f = GroupAmount[party]
    OBVIOUS
<1>5. f \in Money
    BY <1>4 DEF Parties, GroupAmount, Money
<1>6. PaymentSummary.groups[party] =
        [id \in Ids |-> [total |-> Sum(Group(A, party, id), f), count |-> Cardinality(Group(A, party, id))]]
    BY <1>1, <1>4 DEF PaymentSummary, GroupedBy
<1>7. PICK key : key = [o \in Orders |-> order[o][party]]
    OBVIOUS
<1>8. \A o \in A : key[o] \in Ids
    BY <1>2, <1>7, OrdersAre
<1>9. \A id \in Ids : Group(A, party, id) = Keyed(A, key, id)
    BY <1>2, <1>7 DEF Group, Keyed
<1>10. PICK s, t : /\ s = [id \in Ids |-> PaymentSummary.groups[party][id].total]
                   /\ t = [id \in Ids |-> PaymentSummary.groups[party][id].count]
    OBVIOUS
<1>11. \A id \in Ids : /\ s[id] = Sum(Keyed(A, key, id), f)
                      /\ t[id] = Cardinality(Keyed(A, key, id))
    BY <1>6, <1>9, <1>10
<1>12. SumFunctionOnSet(s, Ids) = Sum(A, f)
    BY <1>2, <1>5, <1>8, <1>11, AmountOfGroups, IdsAssumption
<1>13. SumFunctionOnSet(t, Ids) = Cardinality(A)
    BY <1>2, <1>8, <1>11, CountOfGroups, IdsAssumption
<1>14. SumFunction(s) = SumFunctionOnSet(s, Ids) /\ SumFunction(t) = SumFunctionOnSet(t, Ids)
    BY <1>10, SumOfAll
<1> QED
    BY <1>1, <1>3, <1>4, <1>10, <1>12, <1>13, <1>14

\* In its month an order is realized or potential, and not both.
LEMMA EarningsAgree == ReportInv => EarningsAreThePayments
<1> SUFFICES ASSUME ReportInv PROVE EarningsAreThePayments
    OBVIOUS
<1>1. PICK A, agg : A = Active(Filtered) /\ agg = Aggregates(Filtered)
    OBVIOUS
<1>2. A \in SUBSET Orders
    BY <1>1, ActiveOrNot
<1>3. /\ agg.realized = [m \in Months |-> Sum({o \in A : order[o].month = m /\ Realized(o)}, "dispatcherPayment")]
      /\ agg.potential = [m \in Months |-> Sum({o \in A : order[o].month = m /\ Potential(o)}, "dispatcherPayment")]
    BY <1>1 DEF Aggregates
<1>4. PICK key, t : /\ key = [o \in Orders |-> order[o].month]
                    /\ t = [m \in Months |-> agg.realized[m] + agg.potential[m]]
    OBVIOUS
<1>5. \A o \in A : key[o] \in Months
    BY <1>2, <1>4, OrdersAre
<1>6. ASSUME NEW m \in Months
      PROVE  t[m] = Sum(Keyed(A, key, m), "dispatcherPayment")
    <2>1. PICK R, P : /\ R = {o \in A : order[o].month = m /\ Realized(o)}
                      /\ P = {o \in A : order[o].month = m /\ Potential(o)}
        OBVIOUS
    <2>2. /\ R \in SUBSET Orders /\ P \in SUBSET Orders /\ R \cap P = {}
          /\ Keyed(A, key, m) = R \cup P
        BY <1>2, <1>4, <2>1 DEF Keyed, Realized, Potential
    <2>3. Sum(R \cup P, "dispatcherPayment") = Sum(R, "dispatcherPayment") + Sum(P, "dispatcherPayment")
        BY <2>2, SumOfBoth DEF Money
    <2> QED
        BY <1>3, <1>4, <2>1, <2>2, <2>3
<1>7. SumFunctionOnSet(t, Months) = Sum(A, "dispatcherPayment")
    <2> "dispatcherPayment" \in Money
        BY DEF Money
    <2> QED
        BY <1>2, <1>5, <1>6, AmountOfGroups, MonthsAssumption
<1>8. SumFunction(t) = SumFunctionOnSet(t, Months)
    BY <1>4, SumOfAll
<1> QED
    BY <1>1, <1>4, <1>7, <1>8 DEF EarningsAreThePayments

\* The chart's orders are the report's and the canceled ones.
LEMMA ChartsAgree == ReportInv => ChartsAgreeWithReport
<1> SUFFICES ASSUME ReportInv PROVE ChartsAgreeWithReport
    OBVIOUS
<1>1. PICK F, agg : F = Filtered /\ agg = Aggregates(Filtered)
    OBVIOUS
<1>2. F \in SUBSET Orders
    BY <1>1, ActiveOrNot
<1>3. /\ agg.statusSummary = [s \in Statuses |-> Count(F, {s})]
      /\ agg.paymentSummary = [f \in Money |-> Sum(F, f)]
    BY <1>1 DEF Aggregates
<1>4. Charts.trips = Cardinality(F)
    <2>1. PICK key, t : key = [o \in Orders |-> order[o].status] /\ t = agg.statusSummary
        OBVIOUS
    <2>2. \A o \in F : key[o] \in Statuses
        BY <1>2, <2>1, OrdersAre
    <2>3. ASSUME NEW s \in Statuses
          PROVE  t[s] = Cardinality(Keyed(F, key, s))
        <3>1. Keyed(F, key, s) = {o \in F : order[o].status \in {s}}
            BY <1>2, <2>1 DEF Keyed
        <3> QED
            BY <1>3, <2>1, <3>1 DEF Count
    <2>4. SumFunctionOnSet(t, Statuses) = Cardinality(F)
        BY <1>2, <2>2, <2>3, CountOfGroups, SetsAreFinite
    <2>5. SumFunction(t) = SumFunctionOnSet(t, Statuses)
        BY <1>3, <2>1, SumOfAll
    <2>6. Charts.trips = SumFunction(agg.statusSummary)
        BY <1>1 DEF Charts
    <2> QED
        BY <2>1, <2>4, <2>5, <2>6
<1>5. PICK C : C = {o \in F : order[o].status = "Canceled"}
    OBVIOUS
<1>6. Profit(F) = Profit(Active(F)) + Profit(C)
    <2> /\ Active(F) \in SUBSET Orders /\ C \in SUBSET Orders
        /\ F = Active(F) \cup C /\ Active(F) \cap C = {}
        BY <1>2, <1>5, ActiveOrNot
    <2> QED
        BY ProfitOfBoth
<1>7. ASSUME role # "Driver"
      PROVE  Charts.profit = Profit(F)
                + (IF role = "Admin" THEN Sum(F, "lumperValue") + Sum(F, "detentionValue") ELSE 0)
    <2>1. \A f \in Money : Sum(F, f) \in Int
        BY <1>2, SumsAre
    <2>2. CASE role = "Admin"
        <3>1. Charts.profit = Sum(F, "adminPayment")
            BY <1>1, <1>3, <2>2 DEF Charts, AdminChart, Money
        <3>2. Profit(F) = Sum(F, "adminPayment") - Sum(F, "lumperValue") - Sum(F, "detentionValue")
            BY <2>2 DEF Profit, Totals
        <3> QED
            BY <2>1, <2>2, <3>1, <3>2 DEF Money
    <2>3. CASE role = "Dispatcher"
        <3>1. Charts.profit = Sum(F, "dispatcherPayment")
            BY <1>1, <1>3, <2>3 DEF Charts, DispatcherChart, Money
        <3>2. Profit(F) = Sum(F, "dispatcherPayment")
            BY <2>3 DEF Profit, Totals
        <3> QED
            BY <2>1, <2>3, <3>1, <3>2 DEF Money
    <2>4. CASE role = "Carrier"
        <3>1. Charts.profit = Sum(F, "carrierPayment") - (Sum(F, "driverPayment") + Sum(F, "fuelCost"))
            BY <1>1, <1>3, <2>4 DEF Charts, CarrierChart, Money
        <3>2. Profit(F) = Sum(F, "carrierPayment") - Sum(F, "driverPayment") - Sum(F, "fuelCost")
            BY <2>4 DEF Profit, Totals
        <3> QED
            BY <2>1, <2>4, <3>1, <3>2 DEF Money
    <2> QED
        BY <1>7, <2>2, <2>3, <2>4 DEF ReportInv, Roles
<1> QED
    BY <1>1, <1>4, <1>5, <1>6, <1>7 DEF ChartsAgreeWithReport, PaymentReport, Profit

\* A row's profit is made of the amounts that the chart's is made of.
LEMMA RowsAgree == ReportInv => RowsAddUpToCharts
<1> SUFFICES ASSUME ReportInv PROVE RowsAddUpToCharts
    OBVIOUS
<1>1. PICK agg : agg = Aggregates(Filtered)
    OBVIOUS
<1>2. Filtered \in SUBSET Orders
    BY ActiveOrNot
<1>3. agg.paymentSummary = [f \in Money |-> Sum(Filtered, f)]
    BY <1>1 DEF Aggregates
<1>4. CASE role = "Admin"
    <2>1. RowProfits = [o \in Orders |-> Amount(o, "adminPayment")]
        BY <1>4 DEF RowProfits, RowProfit
    <2>2. Charts.profit = Sum(Filtered, "adminPayment")
        BY <1>1, <1>3, <1>4 DEF Charts, AdminChart, Money
    <2> QED
        BY <1>4, <2>1, <2>2 DEF RowsAddUpToCharts, Sum
<1>5. CASE role = "Dispatcher"
    <2>1. RowProfits = [o \in Orders |-> Amount(o, "dispatcherPayment")]
        BY <1>5 DEF RowProfits, RowProfit
    <2>2. Charts.profit = Sum(Filtered, "dispatcherPayment")
        BY <1>1, <1>3, <1>5 DEF Charts, DispatcherChart, Money
    <2>3. ASSUME NEW S \in SUBSET Orders
          PROVE  RecountedProfit(S) = 0
        <3>1. Sum(S, "dispatcherPayment") \in Int
            BY SumsAre DEF Money
        <3>2. RecountedProfit(S) = Sum(S, "dispatcherPayment") - Sum(S, "dispatcherPayment")
            BY <2>1 DEF RecountedProfit, Sum
        <3> QED
            BY <3>1, <3>2
    <2> QED
        BY <1>5, <2>1, <2>2, <2>3 DEF RowsAddUpToCharts, Sum
<1>6. CASE role = "Carrier"
    <2>1. RowProfits = [o \in Orders |-> Amount(o, "carrierPayment") - Amount(o, "driverPayment")
                                         - Amount(o, "fuelCost")]
        BY <1>6 DEF RowProfits, RowProfit
    <2>2. Charts.profit = Sum(Filtered, "carrierPayment")
                          - (Sum(Filtered, "driverPayment") + Sum(Filtered, "fuelCost"))
        BY <1>1, <1>3, <1>6 DEF Charts, CarrierChart, Money
    <2>3. SumFunctionOnSet(RowProfits, Filtered)
          = Sum(Filtered, "carrierPayment") - Sum(Filtered, "driverPayment") - Sum(Filtered, "fuelCost")
        BY <1>2, <2>1, ThreeInOne DEF Money
    <2>4. \A f \in Money : Sum(Filtered, f) \in Int
        BY <1>2, SumsAre
    <2> QED
        BY <1>6, <2>2, <2>3, <2>4 DEF RowsAddUpToCharts, Money
<1> QED
    BY <1>4, <1>5, <1>6 DEF RowsAddUpToCharts, ReportInv, Roles

\* Whatever orders there are, and whatever the amounts: the analytics, the summary,
\* the report, the charts and the rows arrive at the same figures.
THEOREM FiguresAlwaysAgree == ReportSpec => []FiguresAgree
<1>1. ReportInv => FiguresAgree
    BY TypesHold, AnalyticsAgree, ReportAgrees, GroupsAgree, EarningsAgree, ChartsAgree, RowsAgree DEF FiguresAgree
<1> QED
    BY <1>1, ReportsInductive, PTL

-----------------------------------------------------------------------------
(***************************************************************************)
(* The completed orders.                                                   *)
(***************************************************************************)
\* Along the workflow one order takes the status that is asked for.
LEMMA WorkflowStep ==
    ASSUME ReportInv, NEW o \in Orders, NEW s \in Statuses, Advance(o, s)
    PROVE  /\ order'[o].status = s
           /\ \A p \in Orders : p # o => order'[p].status = order[p].status
           /\ s \in After[order[o].status]
<1> order \in [Orders -> Records]
    BY DEF ReportInv
<1>1. order'[o] = [order[o] EXCEPT !.status = s] /\ order' = [order EXCEPT ![o] = order'[o]]
    BY DEF Advance
<1> QED
    BY <1>1 DEF Advance, Records

\* No other action changes a status.
LEMMA StatusStays ==
    ASSUME ReportInv,
           \/ \E o \in Orders, party \in Parties \ {"dispatcherId"}, id \in Ids : Reassign(o, party, id)
           \/ \E o \in Orders, m \in Months : Reschedule(o, m)
           \/ \E o \in Orders, f \in Money : Pay(o, f)
           \/ \E s \in Statuses \union {Nobody}, b \in Ids \union {Nobody} :
                 SetFilters([status |-> s, brokerId |-> b])
           \/ UNCHANGED reportVars
    PROVE  \A o \in Orders : order'[o].status = order[o].status
<1> order \in [Orders -> Records]
    BY DEF ReportInv
<1>1. ASSUME NEW o \in Orders, NEW party \in Parties \ {"dispatcherId"}, NEW id \in Ids, Reassign(o, party, id)
      PROVE  \A p \in Orders : order'[p].status = order[p].status
    <2>1. order'[o] = [order[o] EXCEPT ![party] = id] /\ order' = [order EXCEPT ![o] = order'[o]]
        BY <1>1 DEF Reassign
    <2>2. order'[o].status = order[o].status
        BY <2>1 DEF Records, Parties
    <2> QED
        BY <2>1, <2>2
<1>2. ASSUME NEW o \in Orders, NEW m \in Months, Reschedule(o, m)
      PROVE  \A p \in Orders : order'[p].status = order[p].status
    <2>1. order'[o] = [order[o] EXCEPT !.month = m] /\ order' = [order EXCEPT ![o] = order'[o]]
        BY <1>2 DEF Reschedule
    <2>2. order'[o].status = order[o].status
        BY <2>1 DEF Records
    <2> QED
        BY <2>1, <2>2
<1>3. ASSUME NEW o \in Orders, NEW f \in Money, Pay(o, f)
      PROVE  \A p \in Orders : order'[p].status = order[p].status
    <2>1. PICK m : m = [order[o].money EXCEPT ![f] = Paid[o][f] - @]
        OBVIOUS
    <2>2. order'[o] = [order[o] EXCEPT !.money = m] /\ order' = [order EXCEPT ![o] = order'[o]]
        BY <1>3, <2>1 DEF Pay
    <2>3. order'[o].status = order[o].status
        BY <2>2 DEF Records
    <2> QED
        BY <2>2, <2>3
<1>4. (UNCHANGED order) => \A p \in Orders : order'[p].status = order[p].status
    OBVIOUS
<1> QED
    BY <1>1, <1>2, <1>3, <1>4 DEF SetFilters, reportVars

\* The completed orders that are no longer completed.
LEMMA CompletedKept ==
    ASSUME ReportInv, [ReportNext]_reportVars,
           ~ \E o \in Orders : order[o].status = "Delivered" /\ order'[o].status = "WaitingRC",
           NEW o \in Orders, order[o].status \in {"Delivered", "ReadyToPay"}
    PROVE  order'[o].status \in {"Delivered", "ReadyToPay"}
<1>1. CASE \E p \in Orders, s \in Statuses : Advance(p, s)
    <2> PICK p \in Orders, s \in Statuses : Advance(p, s)
        BY <1>1
    <2>1. order'[p].status = s /\ s \in After[order[p].status]
          /\ \A q \in Orders : q # p => order'[q].status = order[q].status
        BY WorkflowStep
    <2>2. p # o
        BY <2>1 DEF After
    <2> QED
        BY <2>1, <2>2
<1>2. CASE ~ \E p \in Orders, s \in Statuses : Advance(p, s)
    <2>1. order'[o].status = order[o].status
        BY <1>2, StatusStays DEF ReportNext
    <2> QED
        BY <2>1
<1> QED
    BY <1>1, <1>2

\* For any number of orders, the completed ones become fewer only at the step that
\* makes a delivered order wait for its confirmation.
THEOREM CompletedFallsOnlySo == ReportSpec => CompletedFallsOnlyThen
<1>1. ASSUME ReportInv, ReportInv', [ReportNext]_reportVars
      PROVE  \/ DetailedAnalytics'.total.completed >= DetailedAnalytics.total.completed
             \/ \E o \in Orders :
                   order[o].status = "Delivered" /\ order'[o].status = "WaitingRC"
    <2> SUFFICES ASSUME ~ \E o \in Orders : order[o].status = "Delivered" /\ order'[o].status = "WaitingRC"
                 PROVE  DetailedAnalytics'.total.completed >= DetailedAnalytics.total.completed
        OBVIOUS
    <2> DEFINE C == {o \in Orders : order[o].status \in {"Delivered", "ReadyToPay"}}
    <2>1. DetailedAnalytics.total.completed = Cardinality(C)
        <3>1. DetailedAnalytics.total.completed
              = Cardinality({o \in Active(Orders) : order[o].status \in {"Delivered", "ReadyToPay"}})
            BY DEF DetailedAnalytics, Performance, Completed, Count
        <3>2. {o \in Active(Orders) : order[o].status \in {"Delivered", "ReadyToPay"}} = C
            BY DEF Active
        <3> QED
            BY <3>1, <3>2
    <2>2. DetailedAnalytics'.total.completed = Cardinality(C')
        <3>1. DetailedAnalytics'.total.completed
              = Cardinality({o \in Active(Orders)' : order'[o].status \in {"Delivered", "ReadyToPay"}})
            BY DEF DetailedAnalytics, Performance, Completed, Count
        <3>2. {o \in Active(Orders)' : order'[o].status \in {"Delivered", "ReadyToPay"}} = C'
            BY DEF Active
        <3> QED
            BY <3>1, <3>2
    <2>3. C \in SUBSET C' /\ C' \in SUBSET Orders
        BY <1>1, CompletedKept
    <2>4. IsFiniteSet(C') /\ Cardinality(C) \in Nat /\ Cardinality(C') \in Nat /\ Cardinality(C) <= Cardinality(C')
        BY <2>3, SetsAreFinite, FS_Subset, FS_CardinalityType
    <2> QED
        BY <2>1, <2>2, <2>4
<1>2. ReportSpec => []ReportInv
    BY ReportsInductive
<1> QED
    BY <1>1, <1>2, PTL DEF ReportSpec, CompletedFallsOnlyThen

-----------------------------------------------------------------------------
(***************************************************************************)
(* Hidden amounts.  All answers are made of what filterFields leaves.      *)
(***************************************************************************)
\* What a step leaves of all an answer is made of, when it changes a hidden amount.
Unchanged ==
    /\ role' = role /\ filters' = filters
    /\ \A p \in Orders : /\ order'[p].status = order[p].status /\ order'[p].month = order[p].month
                         /\ \A party \in Parties : order'[p][party] = order[p][party]
    /\ \A p \in Orders, g \in Money : Amount(p, g)' = Amount(p, g)

\* A hidden amount is replaced by zero before anything is made of it.
LEMMA HiddenIsUnchanged ==
    ASSUME ReportInv, NEW o \in Orders, NEW f \in HIDDEN_FIELDS[role], Pay(o, f)
    PROVE  Unchanged
<1> order \in [Orders -> Records] /\ role' = role /\ filters' = filters
    BY DEF ReportInv, Pay
<1> PICK m : m = [order[o].money EXCEPT ![f] = Paid[o][f] - @]
    OBVIOUS
<1>1. order'[o] = [order[o] EXCEPT !.money = m] /\ order' = [order EXCEPT ![o] = order'[o]]
    BY DEF Pay
<1>2. \A p \in Orders : /\ order'[p].status = order[p].status /\ order'[p].month = order[p].month
                        /\ \A party \in Parties : order'[p][party] = order[p][party]
    <2>1. /\ order'[o].status = order[o].status /\ order'[o].month = order[o].month
          /\ \A party \in Parties : order'[o][party] = order[o][party]
        BY <1>1 DEF Records, Parties
    <2> QED
        BY <1>1, <2>1
<1>3. \A p \in Orders, g \in Money : g \notin HIDDEN_FIELDS[role] => order'[p].money[g] = order[p].money[g]
    <2>1. order'[o].money = m /\ order[o].money \in [Money -> Int]
        BY <1>1 DEF Records
    <2>2. \A g \in Money : g # f => m[g] = order[o].money[g]
        BY <2>1
    <2> QED
        BY <1>1, <2>1, <2>2
<1>4. ASSUME NEW p \in Orders, NEW g \in Money
      PROVE  /\ Amount(p, g) = IF g \in HIDDEN_FIELDS[role] THEN 0 ELSE order[p].money[g]
             /\ Amount(p, g)' = IF g \in HIDDEN_FIELDS[role] THEN 0 ELSE order'[p].money[g]
    <2>1. order[p] \in Records /\ (order'[p] = [order[p] EXCEPT !.money = order'[p].money])
        BY <1>1 DEF Records
    <2>2. /\ filterFields(p).money = [h \in Money |-> IF h \in HIDDEN_FIELDS[role] THEN 0 ELSE order[p].money[h]]
          /\ filterFields(p)'.money = [h \in Money |-> IF h \in HIDDEN_FIELDS[role] THEN 0 ELSE order'[p].money[h]]
        BY <2>1 DEF filterFields, Records
    <2> QED
        BY <2>2 DEF Amount
<1>5. \A p \in Orders, g \in Money : Amount(p, g)' = Amount(p, g)
    BY <1>3, <1>4
<1> QED
    BY <1>2, <1>5 DEF Unchanged

\* The same orders are filtered, grouped and counted.
LEMMA SetsUnchanged ==
    ASSUME Unchanged
    PROVE  /\ Filtered' = Filtered /\ Active(Orders)' = Active(Orders)
           /\ Active(Filtered)' = Active(Filtered)
           /\ \A S \in SUBSET Orders : \A s : Count(S, s)' = Count(S, s)
           /\ \A S \in SUBSET Orders : Completed(S)' = Completed(S)
           /\ \A S \in SUBSET Orders, party \in Parties, id \in Ids : Group(S, party, id)' = Group(S, party, id)
           /\ \A p \in Orders : (Realized(p)' <=> Realized(p)) /\ (Potential(p)' <=> Potential(p))
<1>1. Filtered' = Filtered
    BY DEF Unchanged, Filtered, matchesFilters, Parties
<1>2. Active(Orders)' = Active(Orders)
    BY DEF Unchanged, Active
<1>3. Active(Filtered)' = Active(Filtered)
    BY <1>1 DEF Unchanged, Active, Filtered
<1>4. ASSUME NEW S \in SUBSET Orders, NEW s
      PROVE  Count(S, s)' = Count(S, s)
    <2> {o \in S : order'[o].status \in s} = {o \in S : order[o].status \in s}
        BY DEF Unchanged
    <2> QED
        BY DEF Count
<1>5. ASSUME NEW S \in SUBSET Orders
      PROVE  Completed(S)' = Completed(S)
    BY <1>4 DEF Completed
<1>6. ASSUME NEW S \in SUBSET Orders, NEW party \in Parties, NEW id \in Ids
      PROVE  Group(S, party, id)' = Group(S, party, id)
    BY DEF Unchanged, Group
<1>7. \A p \in Orders : (Realized(p)' <=> Realized(p)) /\ (Potential(p)' <=> Potential(p))
    BY DEF Unchanged, Realized, Potential
<1> QED
    BY <1>1, <1>2, <1>3, <1>4, <1>5, <1>6, <1>7

\* Their sums are the same.
LEMMA SumsUnchanged ==
    ASSUME Unchanged
    PROVE  /\ \A S, f : f \in Money => Sum(S, f)' = Sum(S, f)
           /\ \A S \in SUBSET Orders : /\ Performance(S)' = Performance(S) /\ Totals(S)' = Totals(S)
                                       /\ BrokerAnalytics(S)' = BrokerAnalytics(S)
<1>1. ASSUME NEW S, NEW f \in Money
      PROVE  Sum(S, f)' = Sum(S, f)
    <2>1. [o \in Orders |-> Amount(o, f)]' = [o \in Orders |-> Amount(o, f)]
        BY DEF Unchanged
    <2> QED
        BY <2>1 DEF Sum
<1>2. ASSUME NEW S \in SUBSET Orders
      PROVE  Revenue(S)' = Revenue(S) /\ Expenses(S)' = Expenses(S)
    BY <1>1 DEF Revenue, Expenses, Money, Unchanged
<1>3. ASSUME NEW S \in SUBSET Orders
      PROVE  Performance(S)' = Performance(S) /\ BrokerAnalytics(S)' = BrokerAnalytics(S)
    BY <1>2, SetsUnchanged DEF Performance, BrokerAnalytics
<1>4. ASSUME NEW S \in SUBSET Orders
      PROVE  Totals(S)' = Totals(S)
    BY <1>1 DEF Totals, Money, Unchanged
<1> QED
    BY <1>1, <1>3, <1>4

\* The dashboard's aggregates are the same,
LEMMA AggregatesUnchanged ==
    ASSUME Unchanged
    PROVE  Aggregates(Filtered)' = Aggregates(Filtered)
<1> PICK F, A : F = Filtered /\ A = Active(Filtered)
    OBVIOUS
<1>1. F = Filtered' /\ A = Active(Filtered)' /\ F \in SUBSET Orders /\ A \in SUBSET Orders
    BY SetsUnchanged, ActiveOrNot
<1>2. [s \in Statuses |-> Count(Filtered, {s})]' = [s \in Statuses |-> Count(Filtered, {s})]
    <2> \A s \in Statuses : Count(F, {s})' = Count(F, {s})
        BY <1>1, SetsUnchanged
    <2> QED
        BY <1>1
<1>3. [f \in Money |-> Sum(Filtered, f)]' = [f \in Money |-> Sum(Filtered, f)]
    <2> \A f \in Money : Sum(F, f)' = Sum(F, f)
        BY SumsUnchanged
    <2> QED
        BY <1>1
<1>4. ASSUME NEW id \in Ids
      PROVE  Group(Filtered, "brokerId", id)' = Group(Filtered, "brokerId", id)
             /\ Group(Filtered, "dispatcherId", id)' = Group(Filtered, "dispatcherId", id)
    <2> \A party \in Parties : Group(F, party, id)' = Group(F, party, id)
        BY <1>1, SetsUnchanged
    <2> QED
        BY <1>1 DEF Parties
<1>5. [o \in Orders |-> IF Amount(o, "carrierPayment") # 0 THEN Amount(o, "carrierPayment")
                         ELSE Amount(o, "orderRate")]'
      = [o \in Orders |-> IF Amount(o, "carrierPayment") # 0 THEN Amount(o, "carrierPayment")
                          ELSE Amount(o, "orderRate")]
    BY DEF Unchanged, Money
<1>6. [id \in Ids |-> SumFunctionOnSet(
        [o \in Orders |-> IF Amount(o, "carrierPayment") # 0 THEN Amount(o, "carrierPayment")
                          ELSE Amount(o, "orderRate")], Group(Filtered, "brokerId", id))]'
      = [id \in Ids |-> SumFunctionOnSet(
        [o \in Orders |-> IF Amount(o, "carrierPayment") # 0 THEN Amount(o, "carrierPayment")
                          ELSE Amount(o, "orderRate")], Group(Filtered, "brokerId", id))]
    BY <1>4, <1>5
<1>7. [id \in Ids |-> Sum(Group(Filtered, "dispatcherId", id), "orderRate")]'
      = [id \in Ids |-> Sum(Group(Filtered, "dispatcherId", id), "orderRate")]
    <2> \A id \in Ids : Sum(Group(Filtered, "dispatcherId", id), "orderRate")'
                        = Sum(Group(Filtered, "dispatcherId", id), "orderRate")
        BY <1>4, SumsUnchanged DEF Money
    <2> QED
        OBVIOUS
<1>8. ASSUME NEW m \in Months
      PROVE  /\ {o \in Active(Filtered) : order[o].month = m /\ Realized(o)}'
                = {o \in Active(Filtered) : order[o].month = m /\ Realized(o)}
             /\ {o \in Active(Filtered) : order[o].month = m /\ Potential(o)}'
                = {o \in Active(Filtered) : order[o].month = m /\ Potential(o)}
    <2> \A o \in A : /\ order'[o].month = order[o].month
                     /\ (Realized(o)' <=> Realized(o)) /\ (Potential(o)' <=> Potential(o))
        BY <1>1, SetsUnchanged DEF Unchanged
    <2> QED
        BY <1>1
<1>9. /\ [m \in Months |-> Sum({o \in Active(Filtered) : order[o].month = m /\ Realized(o)}, "dispatcherPayment")]'
         = [m \in Months |-> Sum({o \in Active(Filtered) : order[o].month = m /\ Realized(o)}, "dispatcherPayment")]
      /\ [m \in Months |-> Sum({o \in Active(Filtered) : order[o].month = m /\ Potential(o)}, "dispatcherPayment")]'
         = [m \in Months |-> Sum({o \in Active(Filtered) : order[o].month = m /\ Potential(o)}, "dispatcherPayment")]
    <2> \A m \in Months :
          /\ Sum({o \in Active(Filtered) : order[o].month = m /\ Realized(o)}, "dispatcherPayment")'
             = Sum({o \in Active(Filtered) : order[o].month = m /\ Realized(o)}, "dispatcherPayment")
          /\ Sum({o \in Active(Filtered) : order[o].month = m /\ Potential(o)}, "dispatcherPayment")'
             = Sum({o \in Active(Filtered) : order[o].month = m /\ Potential(o)}, "dispatcherPayment")
        BY <1>8, SumsUnchanged DEF Money
    <2> QED
        OBVIOUS
<1> QED
    BY <1>1, <1>2, <1>3, <1>6, <1>7, <1>9 DEF Aggregates

\* the analytics are,
LEMMA AnalyticsUnchanged ==
    ASSUME Unchanged
    PROVE  DetailedAnalytics' = DetailedAnalytics
<1> PICK A : A = Active(Orders)
    OBVIOUS
<1>1. A = Active(Orders)' /\ A \in SUBSET Orders
    BY SetsUnchanged, ActiveOrNot
<1>2. ASSUME NEW party \in Parties, NEW id \in Ids
      PROVE  Group(A, party, id)' = Group(A, party, id) /\ Group(A, party, id) \in SUBSET Orders
    BY <1>1, SetsUnchanged DEF Group
<1>3. /\ Performance(A)' = Performance(A)
      /\ [s \in Statuses |-> Count(A, {s})]' = [s \in Statuses |-> Count(A, {s})]
    BY <1>1, SetsUnchanged, SumsUnchanged
<1>4. \A party \in Parties, id \in Ids :
          /\ Performance(Group(A, party, id))' = Performance(Group(A, party, id))
          /\ BrokerAnalytics(Group(A, party, id))' = BrokerAnalytics(Group(A, party, id))
    BY <1>2, SumsUnchanged
<1>5. \A party \in Parties, id \in Ids, f \in Money : Sum(Group(A, party, id), f)' = Sum(Group(A, party, id), f)
    BY <1>2, SumsUnchanged
<1>6. /\ [id \in Ids |-> Performance(Group(A, "driverId", id))]'
         = [id \in Ids |-> Performance(Group(A, "driverId", id))]
      /\ [id \in Ids |-> BrokerAnalytics(Group(A, "brokerId", id))]'
         = [id \in Ids |-> BrokerAnalytics(Group(A, "brokerId", id))]
      /\ [id \in Ids |-> Sum(Group(A, "dispatcherId", id), "dispatcherPayment")]'
         = [id \in Ids |-> Sum(Group(A, "dispatcherId", id), "dispatcherPayment")]
    BY <1>4, <1>5 DEF Parties, Money
<1>7. [id \in Ids |-> Sum(Group(A, "carrierId", id), "carrierPayment")
                      - (Sum(Group(A, "carrierId", id), "driverPayment") + Sum(Group(A, "carrierId", id), "fuelCost"))]'
      = [id \in Ids |-> Sum(Group(A, "carrierId", id), "carrierPayment")
                      - (Sum(Group(A, "carrierId", id), "driverPayment") + Sum(Group(A, "carrierId", id), "fuelCost"))]
    BY <1>5 DEF Parties, Money
<1> QED
    BY <1>1, <1>3, <1>6, <1>7 DEF DetailedAnalytics

\* the summary and the report are,
LEMMA SummaryUnchanged ==
    ASSUME Unchanged
    PROVE  PaymentSummary' = PaymentSummary /\ PaymentReport' = PaymentReport
<1> PICK A, B : A = Active(Orders) /\ B = Active(Filtered)
    OBVIOUS
<1>1. /\ A = Active(Orders)' /\ A \in SUBSET Orders
      /\ B = Active(Filtered)' /\ B \in SUBSET Orders
    BY SetsUnchanged, ActiveOrNot
<1>2. Totals(A)' = Totals(A) /\ Totals(B)' = Totals(B)
    BY <1>1, SumsUnchanged
<1>3. ASSUME NEW party \in Parties
      PROVE  GroupedBy(party)' = GroupedBy(party)
    <2>1. \A id \in Ids : Group(A, party, id)' = Group(A, party, id)
        BY <1>1, SetsUnchanged
    <2>2. GroupAmount[party] \in Money
        BY DEF GroupAmount, Parties, Money
    <2>3. \A id \in Ids : /\ Sum(Group(A, party, id), GroupAmount[party])'
                             = Sum(Group(A, party, id), GroupAmount[party])
                          /\ Cardinality(Group(A, party, id))' = Cardinality(Group(A, party, id))
        BY <2>1, <2>2, SumsUnchanged
    <2> QED
        BY <1>1, <2>3 DEF GroupedBy
<1>4. [party \in Parties |-> GroupedBy(party)]' = [party \in Parties |-> GroupedBy(party)]
    BY <1>3
<1> QED
    BY <1>1, <1>2, <1>4 DEF PaymentSummary, PaymentReport

\* and so is all that is made of them.
LEMMA AnswersUnchanged ==
    ASSUME Unchanged
    PROVE  Answers' = Answers
<1>1. DetailedAnalytics' = DetailedAnalytics
    BY AnalyticsUnchanged
<1>2. Charts' = Charts
    <2> PICK agg : agg = Aggregates(Filtered)
        OBVIOUS
    <2>1. agg = Aggregates(Filtered)' /\ role' = role
        BY AggregatesUnchanged DEF Unchanged
    <2> QED
        BY <2>1 DEF Charts, DispatcherChart, AdminChart, CarrierChart, DriverChart
<1>3. RowProfits' = RowProfits
    <2> \A o \in Orders : RowProfit(o)' = RowProfit(o)
        BY DEF RowProfit, Unchanged, Money
    <2> QED
        BY DEF RowProfits
<1> QED
    BY <1>1, <1>2, <1>3, AggregatesUnchanged, SummaryUnchanged DEF Answers

\* Whatever the amounts, and however many orders: an amount that a role does not see
\* changes none of its reports, nor of the charts and rows made of its orders, sums and
\* differences of sums included.
THEOREM HiddenAmountsAreNeverTold == ReportSpec => HiddenAmountsStayHidden
<1>1. ReportInv => \A o \in Orders, f \in HIDDEN_FIELDS[role] : Pay(o, f) => Answers' = Answers
    BY HiddenIsUnchanged, AnswersUnchanged
<1> QED
    BY <1>1, ReportsInductive, PTL DEF HiddenAmountsStayHidden
=============================================================================
