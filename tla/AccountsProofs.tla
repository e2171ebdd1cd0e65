--------------------------- MODULE AccountsProofs ---------------------------
(***************************************************************************)
(* Proofs about Accounts for any number of people and of deaths.           *)
(* AdminCreateUser lets one request through, the maker; what it finds in   *)
(* the stores is known at each of its calls, because the only calls that   *)
(* others still make are those of claims, which touch neither group nor    *)
(* role.  A death makes every promise void that is for quiet moments, but  *)
(* none about what the stores say of each other.                           *)
(* At the end, about Fleet, for any cast and any number of operations.     *)
(***************************************************************************)
EXTENDS Accounts, Fleet, FiniteSetTheorems, SequenceTheorems, TLAPS

\* What is left of a handler: its calls from one of them on.
Paths(k) ==
    CASE k = "register" ->
            {register, <<"setPassword", "group", "profile">>, <<"group", "profile">>, <<"profile">>,
             claim, <<"claimProfile">>}
      [] k = "placeholder" ->
            {createPlaceholderUser, <<"group", "profile", "subscribe">>, <<"profile", "subscribe">>,
             <<"subscribe">>}
      [] k = "createUser" ->
            {createUser, <<"setPassword", "group", "profile">>, <<"group", "profile">>, <<"profile">>}

\* The handlers that there can be.
InFlight ==
    {w \in Handlers : w.left \in Paths(w.kind) /\ (w.kind = "createUser" => w.role = "Driver")}

\* The call that a handler makes next, the one it makes after that, and whether
\* there is one.
Call(w) == Head(w.left)
Following(w) ==
    CASE Call(w) = "create" -> IF w.kind = "placeholder" THEN "group" ELSE "setPassword"
      [] Call(w) = "setPassword" -> "group"
      [] Call(w) = "group" -> "profile"
      [] Call(w) = "profile" -> "subscribe"
      [] Call(w) = "claimPassword" -> "claimProfile"
AtLast(w) ==
    \/ Call(w) \in {"claimProfile", "subscribe"}
    \/ Call(w) = "profile" /\ w.kind # "placeholder"
Rest(w) == [w EXCEPT !.left = Tail(@)]

\* The four calls of createPlaceholderUser.
LEMMA PlaceholderCalls == createPlaceholderUser = <<"create", "group", "profile", "subscribe">>
<1> DEFINE one == <<"subscribe">>
           four == <<"create", "group", "profile", "subscribe">>
<1>1. createPlaceholder \in Seq(Calls) /\ one \in Seq(Calls) /\ four \in Seq(Calls)
  BY DEF createPlaceholder, Calls
<1>2. Len(createPlaceholder) = 3 /\ Len(one) = 1 /\ Len(four) = 4
  BY DEF createPlaceholder
<1>3. /\ createPlaceholder[1] = four[1] /\ createPlaceholder[2] = four[2]
      /\ createPlaceholder[3] = four[3] /\ one[1] = four[4]
  BY DEF createPlaceholder
<1> HIDE DEF one, four
<1>4. /\ createPlaceholder \o one \in Seq(Calls)
      /\ Len(createPlaceholder \o one) = Len(createPlaceholder) + Len(one)
      /\ \A i \in 1 .. Len(createPlaceholder) + Len(one) : (createPlaceholder \o one)[i] =
            IF i <= Len(createPlaceholder) THEN createPlaceholder[i] ELSE one[i - Len(createPlaceholder)]
  BY <1>1, ConcatProperties
<1>5. \A i \in 1 .. 4 : (createPlaceholder \o one)[i] = four[i]
  BY <1>2, <1>3, <1>4
<1>6. createPlaceholder \o one = four
  BY <1>1, <1>2, <1>4, <1>5, SeqEqual
<1> QED BY <1>6 DEF createPlaceholderUser, one, four

\* What the calls of a handler are, by its kind.
LEMMA CallsOfKind ==
    ASSUME NEW w \in InFlight
    PROVE  /\ w.kind \in {"register", "placeholder", "createUser"} /\ w.role \in Roles
           /\ w.kind = "createUser" => w.role = "Driver"
           /\ w # Idle
           /\ Call(w) \in Calls
           /\ Call(w) \in {"claimPassword", "claimProfile"} => w.kind = "register"
           /\ Call(w) = "setPassword" => w.kind # "placeholder"
           /\ Call(w) = "subscribe" => w.kind = "placeholder"
<1>1. w \in Handlers /\ w.left \in Paths(w.kind) /\ (w.kind = "createUser" => w.role = "Driver")
  BY DEF InFlight
<1>2. w.kind \in {"register", "placeholder", "createUser"} /\ w.role \in Roles
  BY <1>1 DEF Handlers
<1>3. w # Idle
  BY <1>1, NothingAssumption
<1>4. CASE w.kind = "register"
  BY <1>1, <1>2, <1>3, <1>4 DEF Paths, register, claim, Call, Calls
<1>5. CASE w.kind = "placeholder"
  BY <1>1, <1>2, <1>3, <1>5, PlaceholderCalls DEF Paths, Call, Calls
<1>6. CASE w.kind = "createUser"
  BY <1>1, <1>2, <1>3, <1>6 DEF Paths, createUser, Call, Calls
<1> QED BY <1>2, <1>4, <1>5, <1>6

\* What remains of a handler once its call is done.
LEMMA CallIsDone ==
    ASSUME NEW w \in InFlight
    PROVE  /\ Len(w.left) = 1 <=> AtLast(w)
           /\ Len(w.left) # 1 =>
                 /\ Rest(w) \in InFlight /\ Rest(w).kind = w.kind /\ Rest(w).role = w.role
                 /\ Call(Rest(w)) = Following(w)
<1>1. w \in Handlers /\ w.left \in Paths(w.kind) /\ (w.kind = "createUser" => w.role = "Driver")
  BY DEF InFlight
<1>2. w.kind \in {"register", "placeholder", "createUser"} /\ w.role \in Roles
  BY <1>1 DEF Handlers
<1>3. /\ Rest(w).kind = w.kind /\ Rest(w).role = w.role /\ Rest(w).left = Tail(w.left)
      /\ Rest(w) = [kind |-> w.kind, role |-> w.role, left |-> Tail(w.left)]
  <2>1. PICK k, a, s : w = [kind |-> k, role |-> a, left |-> s]
    BY <1>1 DEF Handlers
  <2>2. w.kind = k /\ w.role = a /\ w.left = s
    BY <2>1
  <2>3. \A t : [w EXCEPT !.left = t] = [kind |-> k, role |-> a, left |-> t]
    BY <2>1
  <2>4. Rest(w) = [kind |-> k, role |-> a, left |-> Tail(s)]
    BY <2>2, <2>3 DEF Rest
  <2> QED BY <2>2, <2>4
<1>4. /\ Len(w.left) = 1 <=> AtLast(w)
      /\ Len(w.left) # 1 =>
            /\ Tail(w.left) \in Paths(w.kind) /\ Tail(w.left) \in Seq(Calls) \ {<<>>}
            /\ Head(Tail(w.left)) = Following(w)
  <2>1. CASE w.kind = "register"
    <3>1. PICK c \in Paths("register") : w.left = c
      BY <1>1, <2>1
    <3>2. CASE c = register
      BY <2>1, <3>1, <3>2 DEF Paths, register, Call, Following, AtLast, Calls
    <3>3. CASE c = claim
      BY <2>1, <3>1, <3>3 DEF Paths, claim, Call, Following, AtLast, Calls
    <3>4. CASE c = <<"setPassword", "group", "profile">>
      BY <2>1, <3>1, <3>4 DEF Paths, Call, Following, AtLast, Calls
    <3>5. CASE c = <<"group", "profile">>
      BY <2>1, <3>1, <3>5 DEF Paths, Call, Following, AtLast, Calls
    <3>6. CASE c \in {<<"profile">>, <<"claimProfile">>}
      BY <2>1, <3>1, <3>6 DEF Paths, Call, Following, AtLast, Calls
    <3> QED BY <3>1, <3>2, <3>3, <3>4, <3>5, <3>6 DEF Paths
  <2>2. CASE w.kind = "placeholder"
    <3>1. PICK c \in Paths("placeholder") : w.left = c
      BY <1>1, <2>2
    <3>2. CASE c = createPlaceholderUser
      BY <2>2, <3>1, <3>2, PlaceholderCalls DEF Paths, Call, Following, AtLast, Calls
    <3>3. CASE c = <<"group", "profile", "subscribe">>
      BY <2>2, <3>1, <3>3 DEF Paths, Call, Following, AtLast, Calls
    <3>4. CASE c = <<"profile", "subscribe">>
      BY <2>2, <3>1, <3>4 DEF Paths, Call, Following, AtLast, Calls
    <3>5. CASE c = <<"subscribe">>
      BY <2>2, <3>1, <3>5 DEF Paths, Call, Following, AtLast, Calls
    <3> QED BY <3>1, <3>2, <3>3, <3>4, <3>5 DEF Paths
  <2>3. CASE w.kind = "createUser"
    <3>1. PICK c \in Paths("createUser") : w.left = c
      BY <1>1, <2>3
    <3>2. CASE c = createUser
      BY <2>3, <3>1, <3>2 DEF Paths, createUser, Call, Following, AtLast, Calls
    <3>3. CASE c = <<"setPassword", "group", "profile">>
      BY <2>3, <3>1, <3>3 DEF Paths, Call, Following, AtLast, Calls
    <3>4. CASE c = <<"group", "profile">>
      BY <2>3, <3>1, <3>4 DEF Paths, Call, Following, AtLast, Calls
    <3>5. CASE c = <<"profile">>
      BY <2>3, <3>1, <3>5 DEF Paths, Call, Following, AtLast, Calls
    <3> QED BY <3>1, <3>2, <3>3, <3>4, <3>5 DEF Paths
  <2> QED BY <1>2, <2>1, <2>2, <2>3
<1>5. Len(w.left) # 1 => Call(Rest(w)) = Following(w)
  BY <1>3, <1>4 DEF Call
<1>6. Len(w.left) # 1 => Rest(w) \in InFlight
  BY <1>1, <1>2, <1>3, <1>4 DEF InFlight, Handlers
<1> QED BY <1>3, <1>4, <1>5, <1>6

-----------------------------------------------------------------------------
(* The inductive invariant *)

\* The request that made the user, while it has calls to go: it is one that
\* AdminCreateUser let through.
Making(r) ==
    req[r] # Idle /\ Call(req[r]) \in {"setPassword", "group", "profile", "subscribe"}
\* A request whose person set the password, and who is told so at its end.
Telling(r) ==
    /\ req[r] # Idle
    /\ \/ Call(req[r]) = "claimProfile"
       \/ req[r].kind # "placeholder" /\ Call(req[r]) \in {"group", "profile"}

Whole == profile # NoProfile /\ profile.role # NoRole
Confirmed == cognito # NoUser /\ cognito.status = "CONFIRMED"

Types ==
    /\ cognito \in Users \cup {NoUser}
    /\ profile \in Profiles \cup {NoProfile}
    /\ subscribed \in SUBSET Requests
    /\ session \in [Requests -> Sessions \cup {NoSession}]
    /\ req \in [Requests -> InFlight \cup {Idle}]
    /\ succeeded \in SUBSET Requests
    /\ deaths \in 0 .. MaxDeaths

\* Before there is a user there is nothing else, and handlers are at their first
\* call.
NothingYet ==
    cognito = NoUser =>
        /\ profile = NoProfile /\ subscribed = {} /\ succeeded = {}
        /\ \A r \in Requests : session[r] = NoSession
        /\ \A r \in Requests : req[r] # Idle => Call(req[r]) = "create"

\* AdminCreateUser succeeds once: one handler makes the account.
OneMaker == \A r, s \in Requests : Making(r) /\ Making(s) => r = s

\* What the maker finds in the stores before its next call.
MakerInv ==
    \A r \in Requests : Making(r) =>
        /\ Call(req[r]) \in {"setPassword", "group"} => cognito.group = NoGroup
        /\ Call(req[r]) = "profile" => cognito.group \in {NoGroup, req[r].role}
        /\ Call(req[r]) # "subscribe" => subscribed = {} /\ ~Whole
        /\ Call(req[r]) = "subscribe" =>
               profile # NoProfile /\ profile.createdBy = r /\ profile.role = req[r].role
        /\ req[r].kind = "createUser" => cognito.group = NoGroup
        /\ req[r].kind # "createUser" => cognito.carrierId = NoOne

\* The stores agree on the role, and on the carrier of those who have a group.
RolesInv ==
    /\ Whole =>
        /\ cognito.group \in {NoGroup, profile.role}
        /\ cognito.group # NoGroup => profile.carrierId = OwnCarrier(profile.role)
    /\ cognito # NoUser /\ cognito.group # NoGroup => cognito.carrierId = NoOne

\* Subscriptions are the maker's, or its call for them is still to come.
SubscribedInv ==
    /\ \A r \in subscribed : profile # NoProfile /\ profile.createdBy = r
    /\ deaths = 0 /\ profile # NoProfile /\ profile.role \in {"Carrier", "Admin"} =>
        \/ profile.createdBy \in subscribed \cup {Self}
        \/ /\ profile.createdBy \in Requests /\ req[profile.createdBy] # Idle
           /\ Call(req[profile.createdBy]) = "subscribe"

\* Without a whole profile the maker is still to write it.
WholeInv ==
    deaths = 0 /\ cognito # NoUser /\ ~Whole =>
        \E r \in Requests : Making(r) /\ Call(req[r]) # "subscribe"

\* A password was set by somebody who was told so or will be.
PasswordInv ==
    /\ succeeded # {} => Confirmed
    /\ \A r \in Requests : Telling(r) => Confirmed
    /\ deaths = 0 /\ Confirmed =>
        /\ cognito.password \in Requests
        /\ cognito.password \in succeeded \/ Telling(cognito.password)

\* Whoever is signed in has what the pool says, and was told so or will be.
SessionInv ==
    \A r \in Requests : session[r] # NoSession =>
        /\ session[r] = getUserDetails /\ cognito.group # NoGroup
        /\ deaths = 0 => r \in succeeded \/ Telling(r)

IInv ==
    /\ Types /\ NothingYet /\ OneMaker /\ MakerInv /\ RolesInv
    /\ SubscribedInv /\ WholeInv /\ PasswordInv /\ SessionInv

\* What is known of every handler in flight.
LEMMA HandlersAre ==
    ASSUME NEW q \in [Requests -> InFlight \cup {Idle}]
    PROVE  \A s \in Requests : q[s] # Idle =>
              /\ q[s].kind \in {"register", "placeholder", "createUser"} /\ q[s].role \in Roles
              /\ q[s].kind = "createUser" => q[s].role = "Driver"
              /\ Call(q[s]) \in Calls
              /\ Call(q[s]) \in {"claimPassword", "claimProfile"} => q[s].kind = "register"
              /\ Call(q[s]) = "setPassword" => q[s].kind # "placeholder"
              /\ Call(q[s]) = "subscribe" => q[s].kind = "placeholder"
BY CallsOfKind

\* A handler that has just begun is at its first call.
LEMMA FirstCall ==
    /\ Head(register) = "create" /\ Head(claim) = "claimPassword"
    /\ Head(createPlaceholderUser) = "create" /\ Head(createUser) = "create"
    /\ \A role \in Roles :
          /\ [kind |-> "register", role |-> role, left |-> register] \in InFlight
          /\ [kind |-> "register", role |-> role, left |-> claim] \in InFlight
          /\ [kind |-> "placeholder", role |-> role, left |-> createPlaceholderUser] \in InFlight
          /\ role = "Driver" => [kind |-> "createUser", role |-> role, left |-> createUser] \in InFlight
<1>1. /\ register \in Seq(Calls) \ {<<>>} /\ claim \in Seq(Calls) \ {<<>>}
      /\ createPlaceholderUser \in Seq(Calls) \ {<<>>} /\ createUser \in Seq(Calls) \ {<<>>}
  BY PlaceholderCalls DEF register, claim, createUser, Calls
<1>2. /\ Head(register) = "create" /\ Head(claim) = "claimPassword"
      /\ Head(createPlaceholderUser) = "create" /\ Head(createUser) = "create"
  BY PlaceholderCalls DEF register, claim, createUser
<1>3. /\ register \in Paths("register") /\ claim \in Paths("register")
      /\ createPlaceholderUser \in Paths("placeholder") /\ createUser \in Paths("createUser")
  BY DEF Paths
<1> QED BY <1>1, <1>2, <1>3 DEF InFlight, Handlers

\* The handler r ends and answers, or makes its next call; the others wait.
OthersWait(r) ==
    /\ req' \in [Requests -> InFlight \cup {Idle}]
    /\ \A s \in Requests : s # r => req'[s] = req[s]
    /\ session' = session /\ deaths' = deaths
Answers(r) ==
    /\ req'[r] = Idle
    /\ succeeded' = IF req[r].kind = "placeholder" THEN succeeded ELSE succeeded \cup {r}
GoesTo(r, pc) ==
    /\ req'[r] # Idle /\ req'[r].kind = req[r].kind /\ req'[r].role = req[r].role
    /\ Call(req'[r]) = pc
    /\ succeeded' = succeeded

\* What the end of a call changes.
LEMMA HandlerGoesOn ==
    ASSUME Types, NEW r \in Requests, req[r] # Idle, Done(r)
    PROVE  /\ OthersWait(r)
           /\ AtLast(req[r]) => Answers(r)
           /\ ~AtLast(req[r]) => GoesTo(r, Following(req[r]))
<1> DEFINE w == req[r]
<1>1. w \in InFlight /\ req \in [Requests -> InFlight \cup {Idle}]
  BY DEF Types
<1>2. req' = [req EXCEPT ![r] = IF Len(w.left) = 1 THEN Idle ELSE Rest(w)]
  BY DEF Done, Rest
<1>3. succeeded' = IF Len(w.left) = 1 /\ w.kind # "placeholder" THEN succeeded \cup {r} ELSE succeeded
  BY DEF Done
<1>4. session' = session /\ deaths' = deaths
  BY DEF Done
<1> HIDE DEF w
<1>5. /\ Len(w.left) = 1 <=> AtLast(w)
      /\ Len(w.left) # 1 =>
            /\ Rest(w) \in InFlight /\ Rest(w).kind = w.kind /\ Rest(w).role = w.role
            /\ Call(Rest(w)) = Following(w)
  BY <1>1, CallIsDone
<1>6. Len(w.left) # 1 => Rest(w) # Idle
  BY <1>5, CallsOfKind
<1>7. CASE AtLast(w)
  <2>1. req' = [req EXCEPT ![r] = Idle]
    BY <1>2, <1>5, <1>7
  <2>2. succeeded' = IF w.kind = "placeholder" THEN succeeded ELSE succeeded \cup {r}
    BY <1>3, <1>5, <1>7
  <2> QED BY <1>1, <1>4, <1>7, <2>1, <2>2 DEF w, OthersWait, Answers
<1>8. CASE ~AtLast(w)
  <2>1. req' = [req EXCEPT ![r] = Rest(w)]
    BY <1>2, <1>5, <1>8
  <2>2. req'[r] = Rest(w) /\ \A s \in Requests : s # r => req'[s] = req[s]
    BY <1>1, <2>1
  <2>3. req' \in [Requests -> InFlight \cup {Idle}]
    BY <1>1, <1>5, <1>8, <2>1
  <2> QED BY <1>3, <1>4, <1>5, <1>6, <1>8, <2>2, <2>3 DEF w, OthersWait, GoesTo
<1> QED BY <1>7, <1>8 DEF w

\* AdminSetUserPassword by the maker: only it could be at this call, and nobody
\* else has set a password since the user was made.
LEMMA SetPasswordKeeps ==
    ASSUME IInv, NEW r \in Requests, SetPassword(r)
    PROVE  IInv'
<1>1. req[r] # Idle /\ Call(req[r]) = "setPassword" /\ Done(r) /\ Types
  BY DEF SetPassword, At, Call, IInv
<1>2. /\ req[r].kind # "placeholder"
      /\ ~AtLast(req[r]) /\ Following(req[r]) = "group"
  BY <1>1, HandlersAre DEF Types, AtLast, Following
<1>3. OthersWait(r) /\ GoesTo(r, "group")
  BY <1>1, <1>2, HandlerGoesOn
<1>4. /\ cognito # NoUser /\ cognito \in Users /\ Making(r)
      /\ cognito.group = NoGroup
  BY <1>1 DEF IInv, Types, NothingYet, MakerInv, Making
<1>5. /\ cognito' \in Users /\ cognito'.status = "CONFIRMED" /\ cognito'.password = r
      /\ cognito'.group = cognito.group /\ cognito'.carrierId = cognito.carrierId
      /\ profile' = profile /\ subscribed' = subscribed
  BY <1>4 DEF SetPassword, Users
<1>6. cognito' # NoUser
  BY <1>5, NothingAssumption
<1>7. \A s \in Requests : s # r => Making(s)' = Making(s) /\ Telling(s)' = Telling(s)
  BY <1>3 DEF OthersWait, Making, Telling
<1>8. Making(r)' /\ Telling(r)'
  BY <1>1, <1>2, <1>3 DEF GoesTo, Making, Telling
<1>9. /\ Types' /\ NothingYet'
  BY <1>1, <1>3, <1>5, <1>6 DEF Types, NothingYet, OthersWait, GoesTo
<1>10. OneMaker'
  BY <1>4, <1>7 DEF IInv, OneMaker
<1>11. MakerInv'
  BY <1>1, <1>3, <1>4, <1>5, <1>7 DEF IInv, MakerInv, Whole, OthersWait, GoesTo
<1>12. RolesInv' /\ SubscribedInv'
  BY <1>1, <1>3, <1>4, <1>5 DEF IInv, RolesInv, SubscribedInv, Whole, OthersWait, GoesTo
<1>13. WholeInv'
  BY <1>3, <1>5, <1>8 DEF WholeInv, GoesTo
<1>14. PasswordInv'
  BY <1>3, <1>5, <1>6, <1>8 DEF PasswordInv, Confirmed, GoesTo
<1>15. SessionInv'
  BY <1>3, <1>4 DEF IInv, SessionInv, OthersWait
<1> QED BY <1>9, <1>10, <1>11, <1>12, <1>13, <1>14, <1>15 DEF IInv

\* AdminSetUserPassword by a claim: no step of the maker, of whom the stores keep
\* what they had.
LEMMA ClaimPasswordKeeps ==
    ASSUME IInv, NEW r \in Requests, ClaimPassword(r)
    PROVE  IInv'
<1>1. req[r] # Idle /\ Call(req[r]) = "claimPassword" /\ Done(r) /\ Types
  BY DEF ClaimPassword, At, Call, IInv
<1>2. req[r].kind = "register" /\ ~AtLast(req[r]) /\ Following(req[r]) = "claimProfile"
  BY <1>1, HandlersAre DEF Types, AtLast, Following
<1>3. OthersWait(r) /\ GoesTo(r, "claimProfile")
  BY <1>1, <1>2, HandlerGoesOn
<1>4. cognito # NoUser /\ cognito \in Users
  BY <1>1 DEF IInv, Types, NothingYet
<1>5. /\ cognito' \in Users /\ cognito'.status = "CONFIRMED" /\ cognito'.password = r
      /\ cognito'.group = cognito.group /\ cognito'.carrierId = cognito.carrierId
      /\ profile' = profile /\ subscribed' = subscribed
  BY <1>4 DEF ClaimPassword, Users
<1>6. cognito' # NoUser
  BY <1>5, NothingAssumption
<1>7. /\ \A s \in Requests : Making(s)' = Making(s)
      /\ \A s \in Requests : Making(s) => s # r /\ req'[s] = req[s]
  BY <1>1, <1>3 DEF OthersWait, GoesTo, Making
<1>8. Telling(r)' /\ \A s \in Requests : s # r => Telling(s)' = Telling(s)
  BY <1>3 DEF OthersWait, GoesTo, Telling
<1>9. /\ Types' /\ NothingYet'
  BY <1>1, <1>3, <1>5, <1>6 DEF Types, NothingYet, OthersWait, GoesTo
<1>10. OneMaker'
  BY <1>7 DEF IInv, OneMaker
<1>11. MakerInv'
  BY <1>5, <1>7 DEF IInv, MakerInv, Whole
<1>12. RolesInv' /\ SubscribedInv'
  BY <1>1, <1>3, <1>4, <1>5 DEF IInv, RolesInv, SubscribedInv, Whole, OthersWait, GoesTo
<1>13. WholeInv'
  BY <1>3, <1>4, <1>5, <1>7 DEF IInv, WholeInv, Whole, OthersWait
<1>14. PasswordInv'
  BY <1>3, <1>5, <1>6, <1>8 DEF PasswordInv, Confirmed, GoesTo
<1>15. SessionInv'
  BY <1>3, <1>5, <1>8 DEF IInv, SessionInv, OthersWait, GoesTo, getUserDetails
<1> QED BY <1>9, <1>10, <1>11, <1>12, <1>13, <1>14, <1>15 DEF IInv

\* The claim's own write of the profile: with none there the item that it makes
\* is not whole, and the maker still comes to put its own.
LEMMA ClaimProfileKeeps ==
    ASSUME IInv, NEW r \in Requests, ClaimProfile(r)
    PROVE  IInv'
<1>1. req[r] # Idle /\ Call(req[r]) = "claimProfile" /\ Done(r) /\ Types
  BY DEF ClaimProfile, At, Call, IInv
<1>2. req[r].kind = "register" /\ AtLast(req[r])
  BY <1>1, HandlersAre DEF Types, AtLast
<1>3. OthersWait(r) /\ req'[r] = Idle /\ succeeded' = succeeded \cup {r}
  BY <1>1, <1>2, HandlerGoesOn DEF Answers
<1>4. cognito # NoUser /\ cognito \in Users /\ Telling(r) /\ Confirmed
  BY <1>1 DEF IInv, Types, NothingYet, PasswordInv, Telling
<1>5. /\ cognito' = cognito /\ subscribed' = subscribed
      /\ profile' \in Profiles
      /\ profile # NoProfile => /\ profile'.role = profile.role
                               /\ profile'.createdBy = profile.createdBy
                               /\ profile'.carrierId = profile.carrierId
      /\ profile = NoProfile => profile'.role = NoRole
  BY <1>1 DEF ClaimProfile, Types, Profiles
<1>6. profile' # NoProfile
  BY <1>5, NothingAssumption
<1>7. /\ \A s \in Requests : Making(s)' = Making(s)
      /\ \A s \in Requests : Making(s) => s # r /\ req'[s] = req[s]
  BY <1>1, <1>3 DEF OthersWait, Making
<1>8. \A s \in Requests : s # r => Telling(s)' = Telling(s)
  BY <1>3 DEF OthersWait, Telling
<1>9. Whole' = Whole /\ Confirmed'
  BY <1>4, <1>5, <1>6 DEF Whole, Confirmed
<1>10. Types' /\ NothingYet'
  BY <1>1, <1>3, <1>4, <1>5 DEF Types, NothingYet, OthersWait
<1>11. OneMaker'
  BY <1>7 DEF IInv, OneMaker
<1>12. MakerInv'
  BY <1>5, <1>6, <1>7, <1>9 DEF IInv, MakerInv
<1>13. RolesInv'
  BY <1>5, <1>9 DEF IInv, RolesInv, Whole
<1>14. SubscribedInv'
  <2>1. profile = NoProfile => profile'.role \notin {"Carrier", "Admin"}
    BY <1>5, NamesAssumption
  <2> QED BY <1>1, <1>3, <1>5, <1>6, <2>1 DEF IInv, SubscribedInv, OthersWait
<1>15. WholeInv'
  BY <1>3, <1>5, <1>7, <1>9 DEF IInv, WholeInv, OthersWait
<1>16. PasswordInv'
  BY <1>3, <1>5, <1>8, <1>9 DEF IInv, PasswordInv, Confirmed, OthersWait
<1>17. SessionInv'
  BY <1>3, <1>5, <1>8 DEF IInv, SessionInv, OthersWait, getUserDetails
<1> QED BY <1>10, <1>11, <1>12, <1>13, <1>14, <1>15, <1>16, <1>17 DEF IInv

\* A request that ends before it made anything.
LEMMA RefusalKeeps ==
    ASSUME IInv, NEW r \in Requests, req[r] # Idle, Call(req[r]) = "create", Stop(r),
           UNCHANGED <<stores, session, succeeded, deaths>>
    PROVE  IInv'
<1>1. Types /\ req' = [req EXCEPT ![r] = Idle]
  BY DEF Stop, IInv
<1>2. /\ req' \in [Requests -> InFlight \cup {Idle}] /\ req'[r] = Idle
      /\ \A s \in Requests : s # r => req'[s] = req[s]
  BY <1>1 DEF Types
<1>3. /\ cognito' = cognito /\ profile' = profile /\ subscribed' = subscribed
      /\ session' = session /\ succeeded' = succeeded /\ deaths' = deaths
  BY DEF stores
<1>4. /\ \A s \in Requests : Making(s)' = Making(s) /\ Telling(s)' = Telling(s)
      /\ \A s \in Requests : Making(s) => s # r /\ req'[s] = req[s]
  BY <1>2 DEF Making, Telling
<1>5. Types' /\ NothingYet'
  BY <1>2, <1>3 DEF IInv, Types, NothingYet
<1>6. OneMaker' /\ MakerInv'
  BY <1>3, <1>4 DEF IInv, OneMaker, MakerInv, Whole
<1>7. RolesInv' /\ SubscribedInv'
  BY <1>2, <1>3 DEF IInv, RolesInv, SubscribedInv, Whole
<1>8. WholeInv' /\ PasswordInv'
  BY <1>1, <1>3, <1>4 DEF IInv, WholeInv, PasswordInv, Whole, Confirmed, Types, Users
<1>9. SessionInv'
  BY <1>3, <1>4 DEF IInv, SessionInv, getUserDetails
<1> QED BY <1>5, <1>6, <1>7, <1>8, <1>9 DEF IInv

\* AdminCreateUser lets one request through, which is the maker from then on; all
\* the others are still before this call of theirs.
LEMMA CreateUserKeeps ==
    ASSUME IInv, NEW r \in Requests, CreateUser(r)
    PROVE  IInv'
<1>1. req[r] # Idle /\ Call(req[r]) = "create" /\ Types
  BY DEF CreateUser, At, Call, IInv
<1>2. CASE cognito # NoUser
  BY <1>1, <1>2, RefusalKeeps DEF CreateUser, stores
<1>3. CASE cognito = NoUser
  <2>1. Done(r) /\ cognito' = NewUser(r) /\ profile' = profile /\ subscribed' = subscribed
    BY <1>3 DEF CreateUser
  <2>2. /\ req[r].kind \in {"register", "placeholder", "createUser"}
        /\ ~AtLast(req[r])
        /\ Following(req[r]) = IF req[r].kind = "placeholder" THEN "group" ELSE "setPassword"
    BY <1>1, HandlersAre DEF Types, AtLast, Following
  <2>3. OthersWait(r) /\ GoesTo(r, Following(req[r]))
    BY <1>1, <2>1, <2>2, HandlerGoesOn
  <2>4. /\ cognito' \in Users /\ cognito'.status = "FORCE_CHANGE_PASSWORD"
        /\ cognito'.group = NoGroup
        /\ req[r].kind # "createUser" => cognito'.carrierId = NoOne
    BY <2>1, <2>2 DEF NewUser, Users, generateTemporaryPassword
  <2>5. cognito' # NoUser /\ ~Confirmed'
    BY <2>4, NothingAssumption DEF Confirmed
  <2>6. /\ profile = NoProfile /\ subscribed = {} /\ succeeded = {}
        /\ \A s \in Requests : session[s] = NoSession
        /\ \A s \in Requests : req[s] # Idle => Call(req[s]) = "create"
    BY <1>3 DEF IInv, NothingYet
  <2>7. /\ Making(r)' /\ Call(req'[r]) \in {"setPassword", "group"}
        /\ \A s \in Requests : s # r => ~Making(s)'
    BY <2>2, <2>3, <2>6 DEF OthersWait, GoesTo, Making
  <2>8. \A s \in Requests : ~Telling(s)'
    BY <2>2, <2>3, <2>6 DEF OthersWait, GoesTo, Telling
  <2>9. Types' /\ NothingYet'
    BY <1>1, <2>1, <2>3, <2>4, <2>5 DEF Types, NothingYet, OthersWait, GoesTo
  <2>10. OneMaker'
    BY <2>7 DEF OneMaker
  <2>11. MakerInv'
    BY <2>1, <2>3, <2>4, <2>6, <2>7 DEF MakerInv, Whole, GoesTo
  <2>12. RolesInv' /\ SubscribedInv'
    BY <2>1, <2>4, <2>6 DEF RolesInv, SubscribedInv, Whole
  <2>13. WholeInv'
    BY <2>7 DEF WholeInv
  <2>14. PasswordInv' /\ SessionInv'
    BY <2>3, <2>5, <2>6, <2>8 DEF PasswordInv, SessionInv, OthersWait, GoesTo
  <2> QED BY <2>9, <2>10, <2>11, <2>12, <2>13, <2>14 DEF IInv
<1> QED BY <1>2, <1>3

\* addUserToGroup by the maker: nobody is signed in yet, because the account is
\* in no group, and the group it gets is the role of the profile to come.
LEMMA AddToGroupKeeps ==
    ASSUME IInv, NEW r \in Requests, AddToGroup(r)
    PROVE  IInv'
<1>1. req[r] # Idle /\ Call(req[r]) = "group" /\ req[r].kind # "createUser" /\ Done(r) /\ Types
  BY DEF AddToGroup, At, Call, IInv
<1>2. req[r].role \in Roles /\ ~AtLast(req[r]) /\ Following(req[r]) = "profile"
  BY <1>1, HandlersAre DEF Types, AtLast, Following
<1>3. OthersWait(r) /\ GoesTo(r, "profile")
  BY <1>1, <1>2, HandlerGoesOn
<1>4. /\ cognito # NoUser /\ cognito \in Users /\ Making(r)
      /\ cognito.group = NoGroup /\ cognito.carrierId = NoOne /\ ~Whole
      /\ \A s \in Requests : Making(s) => s = r
  BY <1>1 DEF IInv, Types, NothingYet, OneMaker, MakerInv, Making
<1>5. /\ cognito' \in Users /\ cognito'.status = cognito.status
      /\ cognito'.password = cognito.password /\ cognito'.carrierId = cognito.carrierId
      /\ cognito'.group \in {NoGroup, req[r].role}
      /\ profile' = profile /\ subscribed' = subscribed
  <2>1. CASE UNCHANGED cognito
    BY <1>4, <2>1 DEF AddToGroup
  <2>2. CASE cognito' = [cognito EXCEPT !.group = req[r].role]
    BY <1>2, <1>4, <2>2 DEF AddToGroup, Users
  <2> QED BY <2>1, <2>2 DEF AddToGroup
<1>6. cognito' # NoUser /\ Confirmed' = Confirmed
  BY <1>4, <1>5, NothingAssumption DEF Confirmed
<1>7. Making(r)' /\ \A s \in Requests : s # r => ~Making(s)'
  BY <1>3, <1>4 DEF OthersWait, GoesTo, Making
<1>8. \A s \in Requests : Telling(s)' = Telling(s)
  BY <1>1, <1>3 DEF OthersWait, GoesTo, Telling
<1>9. Types' /\ NothingYet'
  BY <1>1, <1>3, <1>5, <1>6 DEF Types, NothingYet, OthersWait, GoesTo
<1>10. OneMaker'
  BY <1>7 DEF OneMaker
<1>11. MakerInv'
  BY <1>1, <1>3, <1>4, <1>5, <1>7 DEF IInv, MakerInv, Whole, GoesTo
<1>12. RolesInv' /\ SubscribedInv'
  BY <1>1, <1>3, <1>4, <1>5 DEF IInv, RolesInv, SubscribedInv, Whole, OthersWait, GoesTo
<1>13. WholeInv'
  BY <1>3, <1>7 DEF WholeInv, GoesTo
<1>14. PasswordInv'
  BY <1>3, <1>4, <1>5, <1>6, <1>8 DEF IInv, PasswordInv, Confirmed, OthersWait, GoesTo
<1>15. SessionInv'
  BY <1>3, <1>4 DEF IInv, SessionInv, OthersWait
<1> QED BY <1>9, <1>10, <1>11, <1>12, <1>13, <1>14, <1>15 DEF IInv

\* The same call for a user of a Carrier, which puts nobody into a group.
LEMMA AddToRoleGroupKeeps ==
    ASSUME IInv, NEW r \in Requests, AddToRoleGroup(r)
    PROVE  IInv'
<1>1. /\ req[r] # Idle /\ Call(req[r]) = "group" /\ req[r].kind = "createUser"
      /\ Done(r) /\ Types
      /\ cognito' = cognito /\ profile' = profile /\ subscribed' = subscribed
  BY DEF AddToRoleGroup, At, Call, IInv, stores
<1>2. ~AtLast(req[r]) /\ Following(req[r]) = "profile"
  BY <1>1 DEF AtLast, Following
<1>3. OthersWait(r) /\ GoesTo(r, "profile")
  BY <1>1, <1>2, HandlerGoesOn
<1>4. /\ cognito # NoUser /\ Making(r) /\ cognito.group = NoGroup
      /\ \A s \in Requests : Making(s) => s = r
  BY <1>1 DEF IInv, NothingYet, OneMaker, MakerInv, Making
<1>5. Making(r)' /\ \A s \in Requests : s # r => ~Making(s)'
  BY <1>3, <1>4 DEF OthersWait, GoesTo, Making
<1>6. \A s \in Requests : Telling(s)' = Telling(s)
  BY <1>1, <1>3 DEF OthersWait, GoesTo, Telling
<1>7. Types' /\ NothingYet'
  BY <1>1, <1>3, <1>4 DEF Types, NothingYet, OthersWait, GoesTo
<1>8. OneMaker'
  BY <1>5 DEF OneMaker
<1>9. MakerInv'
  BY <1>1, <1>3, <1>4, <1>5 DEF IInv, MakerInv, Whole, GoesTo
<1>10. RolesInv' /\ SubscribedInv'
  BY <1>1, <1>3 DEF IInv, RolesInv, SubscribedInv, Whole, OthersWait, GoesTo
<1>11. WholeInv'
  BY <1>3, <1>5 DEF WholeInv, GoesTo
<1>12. PasswordInv' /\ SessionInv'
  <2>1. Confirmed => cognito \in Users /\ cognito.password \in Requests \cup {Temp}
    BY <1>1 DEF Types, Users, Confirmed
  <2> QED BY <1>1, <1>3, <1>6, <2>1
             DEF IInv, PasswordInv, SessionInv, Confirmed, OthersWait, GoesTo, getUserDetails
<1> QED BY <1>7, <1>8, <1>9, <1>10, <1>11, <1>12 DEF IInv

\* The maker's PutCommand: the profile is whole, and the maker is done, or still
\* has to subscribe the Dispatcher.
LEMMA PutProfileKeeps ==
    ASSUME IInv, NEW r \in Requests, PutProfile(r)
    PROVE  IInv'
<1>1. req[r] # Idle /\ Call(req[r]) = "profile" /\ Done(r) /\ Types
  BY DEF PutProfile, At, Call, IInv
<1>2. /\ req[r].kind \in {"register", "placeholder", "createUser"} /\ req[r].role \in Roles
      /\ req[r].kind = "createUser" => req[r].role = "Driver"
      /\ req[r].kind = "placeholder" => ~AtLast(req[r]) /\ Following(req[r]) = "subscribe"
      /\ req[r].kind # "placeholder" => AtLast(req[r])
  BY <1>1, HandlersAre DEF Types, AtLast, Following
<1>3. /\ OthersWait(r)
      /\ req[r].kind = "placeholder" => GoesTo(r, "subscribe")
      /\ req[r].kind # "placeholder" => req'[r] = Idle /\ succeeded' = succeeded \cup {r}
  BY <1>1, <1>2, HandlerGoesOn DEF Answers
<1>4. /\ cognito # NoUser /\ Making(r) /\ subscribed = {}
      /\ cognito.group \in {NoGroup, req[r].role}
      /\ req[r].kind = "createUser" => cognito.group = NoGroup
      /\ req[r].kind # "createUser" => cognito.carrierId = NoOne
      /\ \A s \in Requests : Making(s) => s = r
      /\ req[r].kind # "placeholder" => Telling(r) /\ Confirmed
  BY <1>1 DEF IInv, NothingYet, OneMaker, MakerInv, Making, Telling, PasswordInv
<1>5. /\ cognito' = cognito /\ subscribed' = subscribed
      /\ profile' \in Profiles /\ profile'.role = req[r].role
      /\ req[r].kind # "createUser" => profile'.carrierId = OwnCarrier(req[r].role)
      /\ req[r].kind = "placeholder" => profile'.createdBy = r
      /\ req[r].kind = "register" => profile'.createdBy = Self
  <2>1. cognito' = cognito /\ subscribed' = subscribed /\ profile' = NewItem(r)
    BY DEF PutProfile
  <2>2. CASE req[r].kind = "register"
    BY <1>2, <2>1, <2>2 DEF NewItem, createUserProfileV2, Item, OwnCarrier, Profiles
  <2>3. CASE req[r].kind = "placeholder"
    BY <1>2, <2>1, <2>3 DEF NewItem, PlaceholderItem, Item, OwnCarrier, Profiles
  <2>4. CASE req[r].kind = "createUser"
    BY <1>2, <2>1, <2>4 DEF NewItem, storeUserInDynamoDB, Item, Profiles
  <2> QED BY <1>2, <2>2, <2>3, <2>4
<1>6. Whole'
  <2>1. profile'.role # NoRole
    BY <1>2, <1>5, RolesAssumption, NamesAssumption
  <2> QED BY <1>5, <2>1, NothingAssumption DEF Whole
<1>7. /\ \A s \in Requests : s # r => ~Making(s)' /\ Telling(s)' = Telling(s)
      /\ Making(r)' => req[r].kind = "placeholder"
  BY <1>3, <1>4 DEF OthersWait, Making, Telling
<1>8. req[r].kind = "placeholder" => ~Telling(r)
  BY <1>1 DEF Telling
<1>9. Types' /\ NothingYet'
  BY <1>1, <1>3, <1>4, <1>5 DEF Types, NothingYet, OthersWait, GoesTo
<1>10. OneMaker'
  BY <1>7 DEF OneMaker
<1>11. MakerInv'
  BY <1>3, <1>4, <1>5, <1>6, <1>7 DEF MakerInv, Whole, GoesTo
<1>12. RolesInv'
  BY <1>2, <1>4, <1>5 DEF IInv, RolesInv, Whole
<1>13. SubscribedInv'
  BY <1>2, <1>3, <1>4, <1>5, <1>6 DEF SubscribedInv, Whole, GoesTo
<1>14. WholeInv'
  BY <1>6 DEF WholeInv
<1>15. PasswordInv' /\ SessionInv'
  <2>1. Confirmed' = Confirmed /\ getUserDetails' = getUserDetails
    BY <1>5 DEF Confirmed, getUserDetails
  <2>2. CASE req[r].kind = "placeholder"
    <3>1. ~Telling(r)'
      BY <1>3, <2>2 DEF GoesTo, Telling
    <3> QED BY <1>3, <1>5, <1>7, <1>8, <2>1, <2>2, <3>1
               DEF IInv, PasswordInv, SessionInv, OthersWait, GoesTo
  <2>3. CASE req[r].kind # "placeholder"
    BY <1>3, <1>4, <1>5, <1>7, <2>1, <2>3
       DEF IInv, PasswordInv, SessionInv, OthersWait, Telling
  <2> QED BY <2>2, <2>3
<1> QED BY <1>9, <1>10, <1>11, <1>12, <1>13, <1>14, <1>15 DEF IInv

\* The last call of createPlaceholderUser: the Dispatcher is subscribed to the
\* account that it made.
LEMMA updateSubscriptionsKeeps ==
    ASSUME IInv, NEW r \in Requests, updateSubscriptions(r)
    PROVE  IInv'
<1>1. req[r] # Idle /\ Call(req[r]) = "subscribe" /\ Done(r) /\ Types
  BY DEF updateSubscriptions, At, Call, IInv
<1>2. req[r].kind = "placeholder" /\ AtLast(req[r])
  BY <1>1, HandlersAre DEF Types, AtLast
<1>3. OthersWait(r) /\ req'[r] = Idle /\ succeeded' = succeeded
  BY <1>1, <1>2, HandlerGoesOn DEF Answers
<1>4. /\ cognito # NoUser /\ Making(r)
      /\ profile # NoProfile /\ profile.createdBy = r /\ profile.role = req[r].role
      /\ \A s \in Requests : Making(s) => s = r
  BY <1>1 DEF IInv, NothingYet, OneMaker, MakerInv, Making
<1>5. /\ cognito' = cognito /\ profile' = profile
      /\ subscribed' = IF req[r].role \in {"Carrier", "Admin"} THEN subscribed \cup {r} ELSE subscribed
  BY DEF updateSubscriptions
<1>6. Whole
  <2>1. req[r].role \in Roles
    BY <1>1, HandlersAre DEF Types
  <2> QED BY <1>4, <2>1, RolesAssumption, NamesAssumption DEF Whole
<1>7. /\ \A s \in Requests : ~Making(s)'
      /\ \A s \in Requests : Telling(s)' = Telling(s)
  BY <1>1, <1>2, <1>3, <1>4 DEF OthersWait, Making, Telling
<1>8. Types' /\ NothingYet'
  BY <1>1, <1>3, <1>4, <1>5 DEF Types, NothingYet, OthersWait
<1>9. OneMaker' /\ MakerInv'
  BY <1>7 DEF OneMaker, MakerInv
<1>10. RolesInv' /\ WholeInv'
  BY <1>5, <1>6 DEF IInv, RolesInv, WholeInv, Whole
<1>11. SubscribedInv'
  BY <1>4, <1>5 DEF IInv, SubscribedInv
<1>12. PasswordInv' /\ SessionInv'
  <2>1. Confirmed' = Confirmed /\ getUserDetails' = getUserDetails
    BY <1>5 DEF Confirmed, getUserDetails
  <2> QED BY <1>3, <1>5, <1>7, <2>1 DEF IInv, PasswordInv, SessionInv, OthersWait
<1> QED BY <1>8, <1>9, <1>10, <1>11, <1>12 DEF IInv

\* A handler that dies: what it had left is not promised to anybody any more.
LEMMA DieKeeps ==
    ASSUME IInv, NEW r \in Requests, Die(r)
    PROVE  IInv'
<1>1. /\ Types /\ req' = [req EXCEPT ![r] = Idle]
      /\ deaths' = deaths + 1 /\ deaths < MaxDeaths
      /\ cognito' = cognito /\ profile' = profile /\ subscribed' = subscribed
      /\ session' = session /\ succeeded' = succeeded
  BY DEF Die, Stop, stores, IInv
<1>2. /\ req' \in [Requests -> InFlight \cup {Idle}] /\ req'[r] = Idle
      /\ \A s \in Requests : s # r => req'[s] = req[s]
  BY <1>1 DEF Types
<1>3. deaths' \in 0 .. MaxDeaths /\ deaths' # 0
  BY <1>1, DeathsAssumption DEF Types
<1>4. /\ \A s \in Requests : Making(s)' => Making(s) /\ req'[s] = req[s]
      /\ \A s \in Requests : Telling(s)' => Telling(s)
  BY <1>2 DEF Making, Telling
<1>5. Types' /\ NothingYet'
  BY <1>1, <1>2, <1>3 DEF IInv, Types, NothingYet
<1>6. OneMaker' /\ MakerInv'
  BY <1>1, <1>4 DEF IInv, OneMaker, MakerInv, Whole
<1>7. RolesInv' /\ SubscribedInv'
  BY <1>1, <1>3 DEF IInv, RolesInv, SubscribedInv, Whole
<1>8. WholeInv' /\ PasswordInv'
  BY <1>1, <1>3, <1>4 DEF IInv, WholeInv, PasswordInv, Confirmed
<1>9. SessionInv'
  BY <1>1, <1>3 DEF IInv, SessionInv, getUserDetails
<1> QED BY <1>5, <1>6, <1>7, <1>8, <1>9 DEF IInv

\* A login: the password is the person's, so it was set by their request.
LEMMA loginKeeps ==
    ASSUME IInv, NEW r \in Requests, login(r)
    PROVE  IInv'
<1>1. /\ Types /\ Confirmed /\ cognito \in Users /\ cognito.password = r
      /\ cognito.group # NoGroup
      /\ session' = [session EXCEPT ![r] = getUserDetails]
      /\ cognito' = cognito /\ profile' = profile /\ subscribed' = subscribed
      /\ req' = req /\ succeeded' = succeeded /\ deaths' = deaths
  BY DEF login, Authenticated, Accepts, getUserDetails, Confirmed, stores, IInv, Types
<1>2. getUserDetails \in Sessions /\ getUserDetails' = getUserDetails
  BY <1>1 DEF getUserDetails, Sessions, Users
<1>3. /\ session' \in [Requests -> Sessions \cup {NoSession}] /\ session'[r] = getUserDetails
      /\ \A s \in Requests : s # r => session'[s] = session[s]
  BY <1>1, <1>2 DEF Types
<1>4. \A s \in Requests : Making(s)' = Making(s) /\ Telling(s)' = Telling(s)
  BY <1>1 DEF Making, Telling
<1>5. Types' /\ NothingYet'
  BY <1>1, <1>3 DEF Types, NothingYet, Confirmed
<1>6. OneMaker' /\ MakerInv'
  BY <1>1, <1>4 DEF IInv, OneMaker, MakerInv, Whole
<1>7. RolesInv' /\ SubscribedInv'
  BY <1>1 DEF IInv, RolesInv, SubscribedInv, Whole
<1>8. WholeInv' /\ PasswordInv'
  BY <1>1, <1>4 DEF IInv, WholeInv, PasswordInv, Whole, Confirmed
<1>9. SessionInv'
  <2>1. deaths = 0 => r \in succeeded \/ Telling(r)
    BY <1>1 DEF IInv, PasswordInv
  <2> QED BY <1>1, <1>2, <1>3, <1>4, <2>1 DEF IInv, SessionInv
<1> QED BY <1>5, <1>6, <1>7, <1>8, <1>9 DEF IInv

\* A logout takes nothing but the session.
LEMMA logoutKeeps ==
    ASSUME IInv, NEW r \in Requests, logout(r)
    PROVE  IInv'
<1>1. /\ Types /\ session' = [session EXCEPT ![r] = NoSession]
      /\ cognito' = cognito /\ profile' = profile /\ subscribed' = subscribed
      /\ req' = req /\ succeeded' = succeeded /\ deaths' = deaths
  BY DEF logout, stores, IInv
<1>2. /\ session' \in [Requests -> Sessions \cup {NoSession}] /\ session'[r] = NoSession
      /\ \A s \in Requests : s # r => session'[s] = session[s]
  BY <1>1 DEF Types
<1>3. \A s \in Requests : Making(s)' = Making(s) /\ Telling(s)' = Telling(s)
  BY <1>1 DEF Making, Telling
<1>4. Types' /\ NothingYet'
  BY <1>1, <1>2 DEF IInv, Types, NothingYet
<1>5. OneMaker' /\ MakerInv'
  BY <1>1, <1>3 DEF IInv, OneMaker, MakerInv, Whole
<1>6. RolesInv' /\ SubscribedInv'
  BY <1>1 DEF IInv, RolesInv, SubscribedInv, Whole
<1>7. WholeInv' /\ PasswordInv'
  BY <1>1, <1>3 DEF IInv, WholeInv, PasswordInv, Whole, Confirmed
<1>8. SessionInv'
  BY <1>1, <1>2, <1>3 DEF IInv, SessionInv, getUserDetails
<1> QED BY <1>4, <1>5, <1>6, <1>7, <1>8 DEF IInv

\* A handler that begins, and is neither the maker nor claims anything yet.
LEMMA StartKeeps ==
    ASSUME IInv, NEW r \in Requests, NEW k, NEW role, NEW calls, Start(r, k, role, calls),
           [kind |-> k, role |-> role, left |-> calls] \in InFlight,
           Head(calls) \in {"create", "claimPassword"}, cognito = NoUser => Head(calls) = "create"
    PROVE  IInv'
<1> DEFINE w == [kind |-> k, role |-> role, left |-> calls]
<1>1. /\ Types /\ req[r] = Idle /\ req' = [req EXCEPT ![r] = w]
      /\ cognito' = cognito /\ profile' = profile /\ subscribed' = subscribed
      /\ session' = session /\ succeeded' = succeeded /\ deaths' = deaths
  BY DEF Start, stores, IInv
<1>2. w \in InFlight /\ Call(w) = Head(calls)
  BY DEF Call
<1> HIDE DEF w
<1>3. /\ req' \in [Requests -> InFlight \cup {Idle}] /\ req'[r] = w
      /\ \A s \in Requests : s # r => req'[s] = req[s]
  BY <1>1, <1>2 DEF Types
<1>4. /\ \A s \in Requests : Making(s)' = Making(s) /\ Telling(s)' = Telling(s)
      /\ \A s \in Requests : Making(s) => req'[s] = req[s]
  BY <1>1, <1>2, <1>3 DEF Making, Telling
<1>5. Types' /\ NothingYet'
  BY <1>1, <1>2, <1>3 DEF IInv, Types, NothingYet
<1>6. OneMaker' /\ MakerInv'
  BY <1>1, <1>4 DEF IInv, OneMaker, MakerInv, Whole
<1>7. RolesInv' /\ SubscribedInv'
  BY <1>1, <1>3 DEF IInv, RolesInv, SubscribedInv, Whole
<1>8. WholeInv' /\ PasswordInv'
  BY <1>1, <1>4 DEF IInv, WholeInv, PasswordInv, Whole, Confirmed, Types, Users
<1>9. SessionInv'
  BY <1>1, <1>4 DEF IInv, SessionInv, getUserDetails
<1> QED BY <1>5, <1>6, <1>7, <1>8, <1>9 DEF IInv

-----------------------------------------------------------------------------
(* The theorems *)

\* The invariant holds before the first request, and no call of any handler,
\* and no login, breaks it.
THEOREM AccountInductive == Spec => []IInv
<1>1. Init => IInv
  <2> SUFFICES ASSUME Init PROVE IInv
    OBVIOUS
  <2>1. \A r \in Requests : req[r] = Idle /\ session[r] = NoSession
    BY DEF Init
  <2>2. Types /\ NothingYet
    BY <2>1, DeathsAssumption DEF Init, Types, NothingYet
  <2>3. \A r \in Requests : ~Making(r) /\ ~Telling(r)
    BY <2>1 DEF Making, Telling
  <2>4. OneMaker /\ MakerInv /\ RolesInv /\ SubscribedInv /\ WholeInv
    BY <2>3 DEF Init, OneMaker, MakerInv, RolesInv, SubscribedInv, WholeInv, Whole
  <2>5. PasswordInv /\ SessionInv
    BY <2>1, <2>3 DEF Init, PasswordInv, SessionInv, Confirmed
  <2> QED BY <2>2, <2>4, <2>5 DEF IInv
<1>2. IInv /\ [Next]_vars => IInv'
  <2> SUFFICES ASSUME IInv, [Next]_vars PROVE IInv'
    OBVIOUS
  <2>1. ASSUME NEW r \in Requests, NEW role \in Roles, RegisterCheck(r, role) PROVE IInv'
    <3>1. CASE cognito = NoUser /\ Start(r, "register", role, register)
      <4>1. [kind |-> "register", role |-> role, left |-> register] \in InFlight /\ Head(register) = "create"
        BY FirstCall
      <4> QED BY <3>1, <4>1, StartKeeps
    <3>2. CASE cognito # NoUser /\ Start(r, "register", role, claim)
      <4>1. [kind |-> "register", role |-> role, left |-> claim] \in InFlight /\ Head(claim) = "claimPassword"
        BY FirstCall
      <4> QED BY <3>2, <4>1, StartKeeps
    <3> QED BY <2>1, <3>1, <3>2 DEF RegisterCheck
  <2>2. ASSUME NEW r \in Requests, NEW role \in Roles, PlaceholderCheck(r, role) PROVE IInv'
    <3>1. /\ [kind |-> "placeholder", role |-> role, left |-> createPlaceholderUser] \in InFlight
          /\ Head(createPlaceholderUser) = "create"
      BY FirstCall
    <3>2. Start(r, "placeholder", role, createPlaceholderUser)
      BY <2>2 DEF PlaceholderCheck
    <3> QED BY <3>1, <3>2, StartKeeps
  <2>3. ASSUME NEW r \in Requests, NEW role \in Roles, CreateUserCheck(r, role) PROVE IInv'
    <3>1. role = "Driver" /\ Start(r, "createUser", role, createUser)
      BY <2>3 DEF CreateUserCheck
    <3>2. /\ [kind |-> "createUser", role |-> role, left |-> createUser] \in InFlight
          /\ Head(createUser) = "create"
      BY <3>1, FirstCall
    <3> QED BY <3>1, <3>2, StartKeeps
  <2>4. CASE UNCHANGED vars
    <3>1. /\ cognito' = cognito /\ profile' = profile /\ subscribed' = subscribed /\ req' = req
          /\ session' = session /\ succeeded' = succeeded /\ deaths' = deaths
      BY <2>4 DEF vars, stores
    <3> QED BY <3>1 DEF IInv, Types, NothingYet, OneMaker, MakerInv, RolesInv, SubscribedInv,
                        WholeInv, PasswordInv, SessionInv, Making, Telling, Whole, Confirmed, getUserDetails
  <2> QED BY <2>1, <2>2, <2>3, <2>4, ClaimPasswordKeeps, ClaimProfileKeeps, CreateUserKeeps,
             SetPasswordKeeps, AddToGroupKeeps, AddToRoleGroupKeeps, PutProfileKeeps,
             updateSubscriptionsKeeps, DieKeeps, loginKeeps, logoutKeeps DEF Next
<1> QED BY <1>1, <1>2, PTL DEF Spec

\* The pool, the table and the lists of subscriptions agree: on who exists once
\* all is quiet, and at all times on the role and on the creator.
THEOREM StoresStayInStep == Spec => []StoresAgree
<1>1. IInv => StoresAgree
  <2> SUFFICES ASSUME IInv PROVE StoresAgree
    OBVIOUS
  <2>1. TypeOK
    BY DEF IInv, Types, TypeOK, InFlight
  <2>2. WholeWhenQuiet
    <3>1. cognito = NoUser => profile = NoProfile
      BY DEF IInv, NothingYet
    <3>2. Quiet => cognito = NoUser \/ Whole
      BY DEF IInv, WholeInv, Quiet, Making
    <3> QED BY <3>1, <3>2 DEF WholeWhenQuiet, Whole
  <2>3. RoleFollowsCreator
    BY DEF IInv, RolesInv, Whole, RoleFollowsCreator
  <2>4. OnlyCreatorSubscribed
    BY DEF IInv, SubscribedInv, OnlyCreatorSubscribed, Quiet
  <2> QED BY <2>1, <2>2, <2>3, <2>4 DEF StoresAgree
<1> QED BY <1>1, AccountInductive, PTL

\* A confirmed account has the password of somebody who was told so, and whoever
\* is signed in is, for the server, whom the browser takes them for.
THEOREM AccountsAreOwned == Spec => []AccountHasAnOwner
<1>1. IInv => AccountHasAnOwner
  <2> SUFFICES ASSUME IInv PROVE AccountHasAnOwner
    OBVIOUS
  <2>1. Quiet => deaths = 0 /\ \A r \in Requests : ~Telling(r)
    BY DEF Quiet, Telling
  <2>2. PasswordIsTold
    BY <2>1 DEF IInv, PasswordInv, PasswordIsTold, Confirmed
  <2>3. ASSUME NEW r \in Requests, session[r] # NoSession
        PROVE  /\ deaths = 0 => r \in succeeded \/ req[r] # Idle
               /\ JwtAuthGuard(r) = session[r]
               /\ Quiet => RolesGuard(r, {profile.role}) /\ JwtAuthGuard(r).carrierId = profile.carrierId
    <3>1. /\ session[r] = getUserDetails /\ cognito.group # NoGroup /\ cognito # NoUser
          /\ deaths = 0 => r \in succeeded \/ Telling(r)
      BY <2>3 DEF IInv, SessionInv, NothingYet
    <3>2. JwtAuthGuard(r) = getUserDetails
      BY <3>1 DEF JwtAuthGuard, getUserDetails
    <3>3. Quiet => Whole
      BY <3>1 DEF IInv, WholeInv, Quiet, Making
    <3>4. Quiet => /\ getUserDetails.role = profile.role
                   /\ getUserDetails.carrierId = profile.carrierId
      BY <3>1, <3>3 DEF IInv, RolesInv, getUserDetails, OwnCarrier
    <3> QED BY <3>1, <3>2, <3>4 DEF Telling, RolesGuard
  <2> QED BY <2>2, <2>3 DEF AccountHasAnOwner, SessionsAreOwned
<1> QED BY <1>1, AccountInductive, PTL

-----------------------------------------------------------------------------
(***************************************************************************)
(* Fleet.  The checks of an asset's creation note what they met, and what  *)
(* was met keeps its numbers or the mark that they changed.  Every copy of *)
(* the list says of which write it is, and at the last write it is what    *)
(* the table has.  A dialog's operation is one request at most, so that    *)
(* the writes made and the requests and dialogs that may still become one  *)
(* are never more than the operations begun; and the saving flag is for    *)
(* one save, or the one load that its answer asked for.                    *)
(***************************************************************************)

\* An asset in the table, and what the page shows of it.
Assets == [carrier: Carriers, vin: Nat, plate: Nat, rate: Rates, active: BOOLEAN, edited: BOOLEAN,
           checked: [vin: Nat, plate: Nat]]
Shows == [vin: Nat, plate: Nat, rate: Rates, active: BOOLEAN]

\* A check met the asset c, which had another number then; 0: it met none.
Met(c, field, v) == c = 0 \/ (c \in DOMAIN table /\ (table[c].edited \/ table[c][field] # v))

TableInv ==
    /\ cast \in Casts /\ kind \in cast.kinds /\ ops \in 0..cast.ops /\ writes \in Nat
    /\ table \in Seq(Assets) /\ first \in DOMAIN table
    /\ \A j \in DOMAIN table :
          \/ table[j].edited
          \/ /\ Met(table[j].checked.vin, "vin", table[j].vin)
             /\ Met(table[j].checked.plate, "plate", table[j].plate)

RequestType ==
    [id: Nat, op: {"create", "update", "switch"}, by: Carriers, asset: Nat, typed: Nat \X Nat, rate: Rates,
     on: BOOLEAN, from: Nat, ph: {"vin", "plate", "put", "read", "write", "done", "refused"},
     checked: [vin: Nat, plate: Nat], at: Nat]
ReqInv(h) ==
    /\ h \in RequestType /\ h.at <= writes
    /\ h.op = "create" => /\ h.ph \notin {"read", "write"}
                          /\ Met(h.checked.vin, "vin", h.typed[1]) /\ Met(h.checked.plate, "plate", h.typed[2])
    /\ h.op # "create" => h.ph \notin {"vin", "plate", "put"} /\ h.asset \in DOMAIN table
    /\ h.ph = "write" => table[h.asset].carrier = h.by
    /\ h.ph \in {"done", "refused"} => h.from # 0

\* The operation that a request stands for: that which opened its dialog, or asked for it.
Token(h) == IF h.from = 0 THEN h.id ELSE h.from - 1
ReqsInv ==
    /\ \A h \in reqs : ReqInv(h) /\ Token(h) \in 0..(ops - 1)
    /\ \A g, h \in reqs : Token(g) = Token(h) => g = h
    /\ \A h \in reqs : dialog.st # "closed" =>
          /\ Token(h) = dialog.id - 1 => h.from = dialog.id
          /\ h.from = dialog.id => h.op # "switch" /\ dialog.st # "confirm"

\* What may still become a write.
WaitingOf(R) == { Token(h) : h \in { g \in R : g.ph # "done" } }
UndecidedOf(d, R) == IF d.st # "closed" /\ (\A h \in R : h.from # d.id) THEN {d.id - 1} ELSE {}
Pending == WaitingOf(reqs) \cup UndecidedOf(dialog, reqs)
WriteBound == Cardinality(Pending) + writes <= ops

Save(h) == h.from # 0 /\ h.op # "switch"
\* The page's flag is for one save, or for the load that its answer asks for; a
\* driver's dialog has its own.
SavingInv ==
    /\ saving \in BOOLEAN
    /\ kind = "driver" =>
          /\ \A l \in loads : ~l.ends
          /\ \A h \in reqs : Save(h) /\ h.from = dialog.id => saving
    /\ kind # "driver" =>
          /\ \A h \in reqs : Save(h) => /\ saving /\ (\A g \in reqs : Save(g) => g = h)
                                       /\ \A l \in loads : ~l.ends
          /\ \A l \in loads : l.ends => saving /\ (\A m \in loads : m.ends => m = l)

DialogInv ==
    /\ dialog \in [st: {"closed", "new", "edit", "confirm"}, id: Nat, asset: Nat, typed: Nat \X Nat,
                   rate: Rates, on: BOOLEAN]
    /\ dialog.st \in {"edit", "confirm"} => dialog.asset \in DOMAIN table
    /\ dialog.st # "closed" => dialog.id \in 1..ops
    /\ dialog.st = "closed" => dialog.id = 0

\* What was read of Mine's assets when the table had been written at times.
CopyIs(copy, at, under) ==
    at = writes => copy = [i \in Matching(Own, under) |-> Row(i)]
Readable(copy, at) ==
    /\ at \in 0..writes /\ DOMAIN copy \subseteq DOMAIN table
    /\ \A i \in DOMAIN copy : copy[i] \in Shows

LoadInv(l) ==
    /\ l.ph \in {"asked", "read"} /\ Readable(l.copy, l.at)
    /\ l.ends \in BOOLEAN
    /\ l = [id |-> l.id, ph |-> l.ph, under |-> l.under, ends |-> l.ends, copy |-> l.copy, at |-> l.at]
    /\ l.ph = "read" => CopyIs(l.copy, l.at, l.under)

ListInv ==
    /\ loading \in BOOLEAN \cup {None} /\ error \in BOOLEAN
    /\ list = [copy |-> list.copy, at |-> list.at, under |-> list.under] /\ Readable(list.copy, list.at)
    /\ list = Unloaded \/ CopyIs(list.copy, list.at, list.under)
    /\ \A l \in loads : LoadInv(l)
    /\ told \in [at: 0..writes, excused: BOOLEAN] /\ OwnChangesAreShown

Picks == [id: Nat, rate: Rates, active: {TRUE}]
IsOf(f, i) == i \in DOMAIN table /\ (f.crossed \/ f.carrier = Text \/ table[i].carrier = f.carrier)
FormInv(f) ==
    /\ f \in [carrier: Carriers \cup {None, Text}, offered: SUBSET Picks, crossed: BOOLEAN,
              pick: Picks \cup {None}, rate: Rates]
    /\ \A a \in f.offered : IsOf(f, a.id)
    /\ f.pick # None /\ f.pick.id # 0 => IsOf(f, f.pick.id) /\ f.rate = Remembered(f.pick)

LookupInv(l) ==
    /\ l \in [id: Nat, carrier: Carriers, ph: {"asked", "read"},
              copy: SUBSET [id: Nat, rate: Rates, active: BOOLEAN]]
    /\ \A a \in l.copy : a.id \in DOMAIN table /\ table[a.id].carrier = l.carrier

OrderInv ==
    order # None /\ order.carrier # Text /\ order.asset # 0 => order.asset \in DOMAIN table

FormsInv ==
    /\ FormInv(form) /\ \A l \in lookups : LookupInv(l)
    /\ sent # None => /\ sent = [ph |-> sent.ph, form |-> sent.form] /\ sent.ph \in {"asked", "done"}
                      /\ FormInv(sent.form) /\ sent.form.carrier # None /\ sent.form.pick # None
    /\ OrderInv /\ OrdersFit

KindInv == TableInv /\ ReqsInv /\ WriteBound /\ SavingInv /\ DialogInv /\ ListInv /\ FormsInv

\* The requests of the other tab, of trucks or of trailers.
TabInv ==
    /\ beside # {} => kind \in {"truck", "trailer"}
    /\ \A r \in beside : /\ r = [id |-> r.id, ph |-> r.ph, ends |-> r.ends]
                          /\ r.ph \in {"asked", "load"} /\ r.ends \in BOOLEAN
\* A save of the other tab that holds the flag holds it alone.
FlagInv ==
    \A r \in beside : r.ends =>
        /\ saving /\ \A q \in beside : q.ends => q = r
        /\ (\A l \in loads : ~l.ends) /\ \A h \in reqs : ~Save(h)
\* A page that is loading waits for a load; of the drivers', for the page's first.
AwaitedInv ==
    loading = TRUE => IF kind = "driver" THEN \E l \in loads : l.id[2] = "page"
                      ELSE loads # {} \/ \E r \in beside : r.ph = "load"
BesideInv == TabInv /\ FlagInv /\ AwaitedInv

FleetInv == KindInv /\ BesideInv

-----------------------------------------------------------------------------
\* What one step counts.
Ticks == ops' = ops \/ Does

\* What a handler may do to the table.
Grows ==
    /\ UNCHANGED <<cast, kind>>
    /\ DOMAIN table \subseteq DOMAIN table' /\ table' \in Seq(Assets) /\ first' \in DOMAIN table'
    /\ UNCHANGED <<table, writes>> \/ writes' = writes + 1
    /\ \A i \in DOMAIN table :
          /\ table'[i].carrier = table[i].carrier
          /\ \/ table'[i].edited
             \/ ~table[i].edited /\ table'[i].vin = table[i].vin /\ table'[i].plate = table[i].plate

\* A step that leaves the service alone is one that writes nothing.
LEMMA TableStays ==
    ASSUME TableInv, UNCHANGED serverVars
    PROVE  Grows
BY DEF TableInv, Grows, serverVars, Assets

\* The user's operations only become more, up to the bound.
LEMMA OpsGrow ==
    ASSUME TableInv, UNCHANGED cast, Ticks
    PROVE  ops \in Nat /\ ops' \in 0..cast.ops /\ ops <= ops' /\ cast \in Casts /\ cast.ops \in Nat
BY CastsAssumption DEF TableInv, Ticks, Does

\* What a check met stays what it met.
LEMMA MetStays ==
    ASSUME TableInv, Grows, NEW c, NEW v
    PROVE  /\ Met(c, "vin", v) => Met(c, "vin", v)'
           /\ Met(c, "plate", v) => Met(c, "plate", v)'
BY DEF Met, Grows

\* A request that its handler leaves alone stays right whatever is written.
LEMMA ReqStays ==
    ASSUME TableInv, Grows, NEW h, ReqInv(h)
    PROVE  ReqInv(h)'
<1>1. h \in RequestType /\ h.at <= writes'
    BY DEF ReqInv, Grows, RequestType, TableInv
<1>2. h.op = "create" => Met(h.checked.vin, "vin", h.typed[1])' /\ Met(h.checked.plate, "plate", h.typed[2])'
    BY MetStays DEF ReqInv
<1>3. h.op # "create" => h.asset \in DOMAIN table'
    BY DEF ReqInv, Grows
<1>4. h.ph = "write" => table'[h.asset].carrier = h.by
    BY DEF ReqInv, Grows
<1> QED
    BY <1>1, <1>2, <1>3, <1>4 DEF ReqInv

\* Mine's assets and their rows are a matter of the table alone.
LEMMA SameOwn ==
    ASSUME table' = table
    PROVE  Own' = Own /\ \A i : Row(i)' = Row(i)
BY DEF Own, Row

\* A copy stays one of the write it says, and is none of a later write.
LEMMA CopyStays ==
    ASSUME TableInv, Grows, NEW copy, NEW at, NEW under, Readable(copy, at)
    PROVE  /\ Readable(copy, at)'
           /\ CopyIs(copy, at, under) => CopyIs(copy, at, under)'
<1>1. Readable(copy, at)'
    BY DEF Readable, Grows, TableInv
<1>2. CASE UNCHANGED <<table, writes>>
  <2>1. Own' = Own /\ \A i : Row(i)' = Row(i)
    BY <1>2, SameOwn
  <2>2. Matching(Own, under)' = Matching(Own, under)
    BY <2>1 DEF Matching, Matches
  <2> QED
    BY <1>1, <1>2, <2>1, <2>2 DEF CopyIs
<1>3. CASE writes' = writes + 1
    BY <1>1, <1>3 DEF Readable, CopyIs, TableInv
<1> QED
    BY <1>2, <1>3 DEF Grows

\* A load under way stays right whatever is written.
LEMMA LoadStays ==
    ASSUME TableInv, Grows, NEW l, LoadInv(l)
    PROVE  LoadInv(l)'
BY CopyStays DEF LoadInv

\* So does the create form: an asset stays its carrier's.
LEMMA FormStays ==
    ASSUME Grows, NEW f, FormInv(f)
    PROVE  FormInv(f)'
<1>1. Remembered(f.pick)' = Remembered(f.pick)
    BY DEF Remembered, Grows
<1> QED
    BY <1>1 DEF Grows, FormInv, IsOf

\* So does a lookup.
LEMMA LookupStays ==
    ASSUME Grows, NEW l, LookupInv(l)
    PROVE  LookupInv(l)'
BY DEF Grows, LookupInv

-----------------------------------------------------------------------------
(* Parts that a step leaves alone *)

\* The page's list, while the page leaves it.
LEMMA ListStays ==
    ASSUME TableInv, ListInv, Grows, UNCHANGED <<list, loading, error, loads, told>>
    PROVE  ListInv'
<1>1. Readable(list.copy, list.at)' /\ (list = Unloaded \/ CopyIs(list.copy, list.at, list.under))'
    BY CopyStays DEF ListInv
<1>2. \A l \in loads' : LoadInv(l)'
    BY LoadStays DEF ListInv
<1>3. told' \in [at: 0..writes', excused: BOOLEAN] /\ OwnChangesAreShown'
    BY DEF ListInv, OwnChangesAreShown, Grows, TableInv
<1> QED
    BY <1>1, <1>2, <1>3 DEF ListInv

\* The Dispatcher's side, while the Dispatcher does nothing.
LEMMA FormsStay ==
    ASSUME TableInv, FormsInv, Grows, UNCHANGED formVars
    PROVE  FormsInv'
<1>1. FormInv(form)' /\ \A l \in lookups' : LookupInv(l)'
    BY FormStays, LookupStays DEF FormsInv, formVars
<1>2. sent' # None => FormInv(sent.form)'
    BY FormStays DEF FormsInv, formVars
<1>3. OrderInv' /\ OrdersFit'
    BY DEF FormsInv, OrderInv, OrdersFit, formVars, Grows
<1> QED
    BY <1>1, <1>2, <1>3 DEF FormsInv, formVars

\* The dialog, while nobody touches it.
LEMMA DialogStays ==
    ASSUME DialogInv, Grows, UNCHANGED dialog, ops \in Nat, ops' \in Nat, ops <= ops'
    PROVE  DialogInv'
BY DEF DialogInv, Grows

\* The saving flag, while no save starts or ends.
LEMMA SavingStays ==
    ASSUME SavingInv, UNCHANGED <<saving, kind, dialog, loads>>, \A h \in reqs' : h \in reqs \/ ~Save(h)
    PROVE  SavingInv'
BY DEF SavingInv, Save

-----------------------------------------------------------------------------
(* Requests and the bound on the writes *)

\* The operations that may still become writes are finitely many.
LEMMA PendingFinite ==
    ASSUME TableInv, ReqsInv, DialogInv
    PROVE  IsFiniteSet(Pending) /\ Cardinality(Pending) \in Nat /\ ops \in Nat /\ writes \in Nat
<1>1. ops \in Nat /\ writes \in Nat
    BY CastsAssumption DEF TableInv
<1>2. WaitingOf(reqs) \subseteq 0..(ops - 1)
    BY DEF ReqsInv, WaitingOf
<1>3. UndecidedOf(dialog, reqs) \subseteq 0..(ops - 1)
    BY <1>1 DEF DialogInv, UndecidedOf
<1>4. Pending \subseteq 0..(ops - 1)
    BY <1>2, <1>3 DEF Pending
<1>5. IsFiniteSet(0..(ops - 1))
    BY <1>1, FS_Interval
<1>6. IsFiniteSet(Pending)
    BY <1>4, <1>5, FS_Subset
<1> QED
    BY <1>1, <1>6, FS_CardinalityType

\* The bound on the writes: no new operation waits, and none is written.
LEMMA BoundStays ==
    ASSUME KindInv, UNCHANGED writes, ops' \in Nat, ops <= ops', Pending' \subseteq Pending
    PROVE  WriteBound'
<1> PICK W : W = Pending
    OBVIOUS
<1> PICK V : V = Pending'
    OBVIOUS
<1>1. IsFiniteSet(W) /\ Cardinality(W) \in Nat /\ ops \in Nat /\ writes \in Nat /\ Cardinality(W) + writes <= ops
    BY PendingFinite DEF KindInv, WriteBound
<1>2. V \subseteq W
    OBVIOUS
<1>3. IsFiniteSet(V) /\ Cardinality(V) <= Cardinality(W)
    BY <1>1, <1>2, FS_Subset
<1>4. Cardinality(V) \in Nat
    BY <1>3, FS_CardinalityType
<1>5. Cardinality(V) + writes' <= ops'
    BY <1>1, <1>3, <1>4
<1> QED
    BY <1>5 DEF WriteBound

\* The bound on the writes: an operation that waits is a new one.
LEMMA BoundOfOneMore ==
    ASSUME KindInv, UNCHANGED writes, ops' = ops + 1, NEW x, Pending' \subseteq Pending \cup {x}
    PROVE  WriteBound'
<1> PICK W : W = Pending
    OBVIOUS
<1> PICK V : V = Pending'
    OBVIOUS
<1>1. IsFiniteSet(W) /\ Cardinality(W) \in Nat /\ ops \in Nat /\ writes \in Nat /\ Cardinality(W) + writes <= ops
    BY PendingFinite DEF KindInv, WriteBound
<1>2. V \subseteq W \cup {x}
    OBVIOUS
<1>3. Cardinality(W \cup {x}) = IF x \in W THEN Cardinality(W) ELSE Cardinality(W) + 1
    BY <1>1, FS_AddElement
<1>4. IsFiniteSet(W \cup {x})
    BY <1>1, FS_AddElement
<1>5. IsFiniteSet(V) /\ Cardinality(V) <= Cardinality(W \cup {x})
    BY <1>2, <1>4, FS_Subset
<1>6. Cardinality(V) \in Nat
    BY <1>5, FS_CardinalityType
<1>7. Cardinality(V) + writes' <= ops'
    BY <1>1, <1>3, <1>5, <1>6
<1> QED
    BY <1>7 DEF WriteBound

\* The bound on the writes: one that waited is written, and waits no longer.
LEMMA BoundOfWrite ==
    ASSUME KindInv, writes' = writes + 1, ops' = ops, NEW x \in Pending, Pending' \subseteq Pending \ {x}
    PROVE  WriteBound'
<1> PICK W : W = Pending
    OBVIOUS
<1> PICK V : V = Pending'
    OBVIOUS
<1>1. IsFiniteSet(W) /\ Cardinality(W) \in Nat /\ ops \in Nat /\ writes \in Nat /\ Cardinality(W) + writes <= ops
    BY PendingFinite DEF KindInv, WriteBound
<1>2. V \subseteq W \ {x} /\ x \in W
    OBVIOUS
<1>3. IsFiniteSet(W \ {x}) /\ Cardinality(W \ {x}) = Cardinality(W) - 1
    BY <1>1, <1>2, FS_RemoveElement
<1>4. IsFiniteSet(V) /\ Cardinality(V) <= Cardinality(W \ {x})
    BY <1>2, <1>3, FS_Subset
<1>5. Cardinality(V) \in Nat
    BY <1>4, FS_CardinalityType
<1>6. Cardinality(V) + writes' <= ops'
    BY <1>1, <1>3, <1>4, <1>5
<1> QED
    BY <1>6 DEF WriteBound

\* Requests go while the dialog closes or stays the same one.
LEMMA ReqsStay ==
    ASSUME TableInv, ReqsInv, Grows, ops' \in Nat, ops <= ops', reqs' \subseteq reqs,
           dialog'.st = "closed" \/ (dialog'.st = dialog.st /\ dialog'.id = dialog.id)
    PROVE  ReqsInv'
<1>1. \A h \in reqs' : ReqInv(h)'
    BY ReqStays DEF ReqsInv
<1>2. ops \in Nat
    BY CastsAssumption DEF TableInv
<1>3. \A h \in reqs' : Token(h) \in 0..(ops' - 1)
    BY <1>2 DEF ReqsInv
<1>4. \A g, h \in reqs' : Token(g) = Token(h) => g = h
    BY DEF ReqsInv
<1> QED
    BY <1>1, <1>3, <1>4 DEF ReqsInv

\* A handler's step: its request goes on, or it ends as another session's.
LEMMA RequestMoves ==
    ASSUME KindInv, TableInv', Grows, UNCHANGED <<pageVars, formVars, ops>>,
           NEW h \in reqs, h.ph # "done", NEW k, k.id = h.id, k.from = h.from, k.op = h.op,
           \/ reqs' = (reqs \ {h}) \cup {k} /\ ReqInv(k)' /\ (UNCHANGED writes \/ k.ph = "done")
           \/ reqs' = reqs \ {h} /\ h.from = 0
    PROVE  KindInv'
<1>1. ops \in Nat /\ ops' = ops /\ writes \in Nat
    BY CastsAssumption DEF KindInv, TableInv
<1>2. dialog' = dialog /\ saving' = saving /\ loads' = loads /\ kind' = kind
    BY DEF pageVars, Grows
<1>3. Token(k) = Token(h) /\ (Save(k) <=> Save(h))
    BY DEF Token, Save
<1>4. ReqsInv'
  <2>1. \A g \in reqs' : ReqInv(g)'
    BY ReqStays DEF KindInv, ReqsInv
  <2>2. \A g \in reqs' : Token(g) \in 0..(ops' - 1)
    BY <1>1, <1>3 DEF KindInv, ReqsInv
  <2>3. \A f, g \in reqs' : Token(f) = Token(g) => f = g
    BY <1>3 DEF KindInv, ReqsInv
  <2>4. \A g \in reqs' : dialog.st # "closed" =>
          /\ Token(g) = dialog.id - 1 => g.from = dialog.id
          /\ g.from = dialog.id => g.op # "switch" /\ dialog.st # "confirm"
    BY <1>3 DEF KindInv, ReqsInv
  <2> QED
    BY <1>2, <2>1, <2>2, <2>3, <2>4 DEF ReqsInv
<1>5. SavingInv'
    BY <1>2, <1>3 DEF KindInv, SavingInv
<1>6. DialogInv' /\ ListInv' /\ FormsInv'
    BY <1>1, DialogStays, ListStays, FormsStay DEF KindInv, pageVars, shown
<1>7. Token(h) \in WaitingOf(reqs)
    BY DEF WaitingOf
<1>8. WaitingOf(reqs') \subseteq WaitingOf(reqs)
    BY <1>3, <1>7 DEF WaitingOf
<1>9. dialog.st # "closed" => dialog.id \in Nat \ {0}
    BY <1>1 DEF KindInv, DialogInv
<1>10. UndecidedOf(dialog, reqs') \subseteq UndecidedOf(dialog, reqs)
    BY <1>9 DEF UndecidedOf
<1>11. Pending' = WaitingOf(reqs') \cup UndecidedOf(dialog, reqs')
    BY <1>2 DEF Pending
<1>12. CASE UNCHANGED writes
  <2>1. WriteBound'
    BY <1>1, <1>8, <1>10, <1>11, <1>12, BoundStays DEF Pending
  <2> QED
    BY <1>4, <1>5, <1>6, <2>1 DEF KindInv
<1>13. CASE writes' = writes + 1
  <2>1. Token(h) \notin WaitingOf(reqs')
    BY <1>1, <1>3, <1>13 DEF WaitingOf, KindInv, ReqsInv
  <2>2. Token(h) \notin UndecidedOf(dialog, reqs')
    BY <1>9 DEF UndecidedOf, KindInv, ReqsInv
  <2>3. WriteBound'
    BY <1>1, <1>7, <1>8, <1>10, <1>11, <1>13, <2>1, <2>2, BoundOfWrite DEF Pending
  <2> QED
    BY <1>4, <1>5, <1>6, <2>3 DEF KindInv
<1> QED
    BY <1>12, <1>13 DEF Grows

-----------------------------------------------------------------------------
(* The service *)

\* What a handler of the carrier has.
LEMMA RequestIs ==
    ASSUME KindInv, NEW h \in reqs
    PROVE  /\ ReqInv(h) /\ h \in RequestType
           /\ table \in Seq(Assets) /\ first \in DOMAIN table /\ first \in Nat \ {0} /\ writes \in Nat
           /\ DOMAIN table = 1..Len(table) /\ Len(table) \in Nat
BY DEF KindInv, TableInv, ReqsInv, ReqInv

\* A handler that refuses, or finds the asset its carrier's.
LEMMA GoesKeeps ==
    ASSUME KindInv, NEW h \in reqs, h.ph # "done", NEW ph, Goes(h, ph), UNCHANGED serverVars,
           UNCHANGED <<pageVars, formVars, ops>>,
           \/ ph = "refused"
           \/ ph = "write" /\ h.op # "create" /\ table[h.asset].carrier = h.by
    PROVE  KindInv'
<1> PICK k : k = [h EXCEPT !.ph = ph]
    OBVIOUS
<1>1. Grows
    BY TableStays DEF KindInv
<1>2. TableInv'
    BY DEF KindInv, TableInv, serverVars, Met
<1>3. k \in RequestType /\ k.id = h.id /\ k.from = h.from /\ k.op = h.op /\ k.ph = ph /\ k.at = h.at
      /\ k.checked = h.checked /\ k.asset = h.asset /\ k.by = h.by /\ k.typed = h.typed
    BY RequestIs DEF RequestType
<1>4. CASE h.from = 0 /\ ph = "refused"
  <2>1. reqs' = reqs \ {h}
    BY <1>4 DEF Goes
  <2> QED
    BY <1>1, <1>2, <1>4, <2>1, RequestMoves
<1>5. CASE ~(h.from = 0 /\ ph = "refused")
  <2>1. reqs' = (reqs \ {h}) \cup {k}
    BY <1>5 DEF Goes
  <2>2. ReqInv(k)
    BY <1>3, <1>5, RequestIs DEF ReqInv
  <2>3. ReqInv(k)'
    BY <1>1, <2>2, ReqStays DEF KindInv
  <2> QED
    BY <1>1, <1>2, <1>3, <2>1, <2>3, RequestMoves DEF serverVars
<1> QED
    BY <1>4, <1>5

\* A check that met none with the number.
LEMMA CheckedKeeps ==
    ASSUME KindInv, NEW h \in reqs, h.op = "create", UNCHANGED serverVars,
           UNCHANGED <<pageVars, formVars, ops>>,
           \/ h.ph = "vin" /\ Checked(h, "plate", "vin") /\ table[first]["vin"] # h.typed[1]
           \/ h.ph = "plate" /\ Checked(h, "put", "plate") /\ table[first]["plate"] # h.typed[2]
    PROVE  KindInv'
<1>1. Grows
    BY TableStays DEF KindInv
<1>2. TableInv'
    BY DEF KindInv, TableInv, serverVars, Met
<1>3. CASE h.ph = "vin" /\ Checked(h, "plate", "vin") /\ table[first]["vin"] # h.typed[1]
  <2> PICK k : k = [h EXCEPT !.ph = "plate", !.checked["vin"] = first]
    OBVIOUS
  <2>1. k \in RequestType /\ k.id = h.id /\ k.from = h.from /\ k.op = h.op /\ k.ph = "plate" /\ k.at = h.at
        /\ k.checked.vin = first /\ k.checked.plate = h.checked.plate /\ k.typed = h.typed
    BY RequestIs DEF RequestType
  <2>2. reqs' = (reqs \ {h}) \cup {k}
    BY <1>3 DEF Checked
  <2>3. Met(first, "vin", h.typed[1])
    BY <1>3, RequestIs DEF Met
  <2>4. ReqInv(k)
    BY <2>1, <2>3, RequestIs DEF ReqInv
  <2>5. ReqInv(k)'
    BY <1>1, <2>4, ReqStays DEF KindInv
  <2> QED
    BY <1>1, <1>2, <1>3, <2>1, <2>2, <2>5, RequestMoves DEF serverVars
<1>4. CASE h.ph = "plate" /\ Checked(h, "put", "plate") /\ table[first]["plate"] # h.typed[2]
  <2> PICK k : k = [h EXCEPT !.ph = "put", !.checked["plate"] = first]
    OBVIOUS
  <2>1. k \in RequestType /\ k.id = h.id /\ k.from = h.from /\ k.op = h.op /\ k.ph = "put" /\ k.at = h.at
        /\ k.checked.plate = first /\ k.checked.vin = h.checked.vin /\ k.typed = h.typed
    BY RequestIs DEF RequestType
  <2>2. reqs' = (reqs \ {h}) \cup {k}
    BY <1>4 DEF Checked
  <2>3. Met(first, "plate", h.typed[2])
    BY <1>4, RequestIs DEF Met
  <2>4. ReqInv(k)
    BY <2>1, <2>3, RequestIs DEF ReqInv
  <2>5. ReqInv(k)'
    BY <1>1, <2>4, ReqStays DEF KindInv
  <2> QED
    BY <1>1, <1>2, <1>4, <2>1, <2>2, <2>5, RequestMoves DEF serverVars
<1> QED
    BY <1>3, <1>4

\* The request of a write is done with it.
LEMMA DoneIs ==
    ASSUME KindInv, Grows, writes' = writes + 1, NEW h \in reqs, h.ph # "done",
           UNCHANGED <<pageVars, formVars, ops>>,
           TableInv', h.op = "create" \/ h.asset \in DOMAIN table,
           reqs' = (reqs \ {h}) \cup (IF h.from = 0 THEN {} ELSE {[h EXCEPT !.ph = "done", !.at = writes + 1]})
    PROVE  KindInv'
<1> PICK n \in Nat : n = writes + 1
    BY RequestIs
<1> PICK k : k = [h EXCEPT !.ph = "done", !.at = n]
    OBVIOUS
<1>1. k \in RequestType
  <2>1. h \in RequestType
    BY RequestIs
  <2> QED
    BY <2>1 DEF RequestType
<1>2. k.id = h.id /\ k.from = h.from /\ k.op = h.op /\ k.ph = "done" /\ k.at = n
      /\ k.checked = h.checked /\ k.typed = h.typed /\ k.asset = h.asset
  <2>1. h \in RequestType
    BY RequestIs
  <2> QED
    BY <2>1 DEF RequestType
<1>3. ReqInv(h)'
    BY RequestIs, ReqStays DEF KindInv
<1>4. k.from # 0 => ReqInv(k)'
    BY <1>1, <1>2, <1>3, RequestIs DEF ReqInv
<1>5. CASE h.from = 0
    BY <1>2, <1>5, RequestMoves
<1>6. CASE h.from # 0
    BY <1>2, <1>4, <1>6, RequestMoves
<1> QED
    BY <1>5, <1>6

\* A table that grows keeps what was known of it.
LEMMA TableGrows ==
    ASSUME TableInv, Grows, UNCHANGED ops,
           \A j \in DOMAIN table' :
              \/ j \in DOMAIN table /\ table'[j].checked = table[j].checked
              \/ /\ Met(table'[j].checked.vin, "vin", table'[j].vin)
                 /\ Met(table'[j].checked.plate, "plate", table'[j].plate)
    PROVE  TableInv'
<1>1. \A j \in DOMAIN table' :
          \/ table'[j].edited
          \/ /\ Met(table'[j].checked.vin, "vin", table'[j].vin)
             /\ Met(table'[j].checked.plate, "plate", table'[j].plate)
    BY DEF TableInv, Grows
<1>2. \A j \in DOMAIN table' :
          \/ table'[j].edited
          \/ /\ Met(table[j].checked.vin, "vin", table[j].vin)'
             /\ Met(table[j].checked.plate, "plate", table[j].plate)'
    BY <1>1 DEF Met, Grows
<1> QED
    BY <1>2 DEF TableInv, Grows

\* createTruck, createTrailer: the new asset has what its checks met.
LEMMA PutKeeps ==
    ASSUME KindInv, NEW h \in reqs, h.op = "create", h.ph = "put", Put(h),
           UNCHANGED <<cast, kind>>, UNCHANGED <<pageVars, formVars, ops>>
    PROVE  KindInv'
<1> PICK a : a = NewAsset(h.by, h.typed[1], h.typed[2], 0, h.checked)
    OBVIOUS
<1>1. a \in Assets /\ a.vin = h.typed[1] /\ a.plate = h.typed[2] /\ a.checked = h.checked
  <2>1. h \in RequestType
    BY RequestIs
  <2>2. h.by \in Carriers /\ h.typed[1] \in Nat /\ h.typed[2] \in Nat /\ h.checked \in [vin: Nat, plate: Nat]
    BY <2>1 DEF RequestType
  <2>3. \A c, v, p, m : c \in Carriers /\ v \in Nat /\ p \in Nat /\ m \in [vin: Nat, plate: Nat] =>
          LET n == NewAsset(c, v, p, 0, m) IN n \in Assets /\ n.vin = v /\ n.plate = p /\ n.checked = m
    BY DEF NewAsset, Assets, Rates
  <2> QED
    BY <2>2, <2>3
<1>2. table' = Append(table, a) /\ first' \in {first, Len(table) + 1} /\ writes' = writes + 1
    BY DEF Put
<1>3. /\ table' \in Seq(Assets) /\ DOMAIN table' = 1..(Len(table) + 1)
      /\ \A i \in DOMAIN table : i \in DOMAIN table' /\ table'[i] = table[i]
      /\ table'[Len(table) + 1] = a
    BY <1>1, <1>2, RequestIs
<1>4. \A i \in DOMAIN table : table[i] \in Assets
    BY RequestIs
<1>5. Grows
  <2>1. \A i \in DOMAIN table : table[i].edited \in BOOLEAN
    BY <1>4 DEF Assets
  <2>2. first' \in DOMAIN table'
    BY <1>2, <1>3, RequestIs
  <2> QED
    BY <1>2, <1>3, <2>1, <2>2 DEF Grows
<1>6. \A j \in DOMAIN table' : j \in DOMAIN table \/ j = Len(table) + 1
    BY <1>3, RequestIs
<1>7. TableInv'
  <2>1. Met(h.checked.vin, "vin", h.typed[1]) /\ Met(h.checked.plate, "plate", h.typed[2])
    BY RequestIs DEF ReqInv
  <2> QED
    BY <1>1, <1>3, <1>5, <1>6, <2>1, TableGrows DEF KindInv
<1> QED
    BY <1>2, <1>5, <1>7, DoneIs DEF Put

\* A write of an asset leaves it its carrier's, and its numbers or the mark that they changed.
LEMMA WritesKeeps ==
    ASSUME KindInv, NEW h \in reqs, h.op # "create", h.ph = "write", NEW a, Writes(h, a),
           UNCHANGED <<pageVars, formVars, ops>>,
           a \in Assets, a.carrier = table[h.asset].carrier, a.checked = table[h.asset].checked,
           \/ a.edited
           \/ a.edited = table[h.asset].edited /\ a.vin = table[h.asset].vin /\ a.plate = table[h.asset].plate
    PROVE  KindInv'
<1>1. h.asset \in DOMAIN table
    BY RequestIs DEF ReqInv
<1>2. table' = [table EXCEPT ![h.asset] = a] /\ writes' = writes + 1
      /\ UNCHANGED <<cast, kind, first>>
    BY DEF Writes
<1>3. table' \in Seq(Assets)
    BY <1>1, <1>2, RequestIs, ExceptSeq
<1>4. DOMAIN table' = DOMAIN table /\ table'[h.asset] = a
      /\ \A i \in DOMAIN table : table[i] \in Assets /\ (i # h.asset => table'[i] = table[i])
    BY <1>1, <1>2, RequestIs
<1>5. Grows
    BY <1>2, <1>3, <1>4, RequestIs DEF Grows, Assets
<1>6. TableInv'
    BY <1>4, <1>5, TableGrows DEF KindInv
<1> QED
    BY <1>1, <1>2, <1>5, <1>6, DoneIs DEF Writes

\* A creation: two checks, one after the other, and the write.
LEMMA CreatesKeeps ==
    ASSUME KindInv, NEW h \in reqs, Creates(h)
    PROVE  KindInv'
<1>1. h.op = "create" /\ UNCHANGED <<pageVars, formVars, ops>>
    BY DEF Creates
<1>2. CASE h.ph = "vin" /\ CheckVin(h) /\ UNCHANGED serverVars
  <2>1. CASE Goes(h, "refused")
    BY <1>1, <1>2, <2>1, GoesKeeps
  <2>2. CASE Checked(h, "plate", "vin") /\ table[first]["vin"] # h.typed[1]
    BY <1>1, <1>2, <2>2, CheckedKeeps
  <2> QED
    BY <1>2, <2>1, <2>2 DEF CheckVin, scanForField
<1>3. CASE h.ph = "plate" /\ CheckPlate(h) /\ UNCHANGED serverVars
  <2>1. CASE Goes(h, "refused")
    BY <1>1, <1>3, <2>1, GoesKeeps
  <2>2. CASE Checked(h, "put", "plate") /\ table[first]["plate"] # h.typed[2]
    BY <1>1, <1>3, <2>2, CheckedKeeps
  <2> QED
    BY <1>3, <2>1, <2>2 DEF CheckPlate, scanForField
<1>4. CASE h.ph = "put" /\ Put(h) /\ UNCHANGED <<cast, kind>>
    BY <1>1, <1>4, PutKeeps
<1> QED
    BY <1>2, <1>3, <1>4 DEF Creates

\* A change: it reads, and then it writes.
LEMMA ChangesKeeps ==
    ASSUME KindInv, NEW h \in reqs, NEW op \in {"update", "switch"}, NEW a, Changes(h, op, a),
           h.asset \in DOMAIN table =>
              /\ a \in Assets /\ a.carrier = table[h.asset].carrier /\ a.checked = table[h.asset].checked
              /\ \/ a.edited
                 \/ /\ a.edited = table[h.asset].edited
                    /\ a.vin = table[h.asset].vin /\ a.plate = table[h.asset].plate
    PROVE  KindInv'
<1>1. h.op # "create" /\ UNCHANGED <<pageVars, formVars, ops>> /\ h.asset \in DOMAIN table
    BY RequestIs DEF Changes, ReqInv
<1>2. CASE h.ph = "read" /\ getById(h) /\ UNCHANGED serverVars
  <2>1. CASE table[h.asset].carrier = h.by /\ Goes(h, "write")
    BY <1>1, <1>2, <2>1, GoesKeeps
  <2>2. CASE Goes(h, "refused")
    BY <1>1, <1>2, <2>2, GoesKeeps
  <2> QED
    BY <1>2, <2>1, <2>2 DEF getById
<1>3. CASE h.ph = "write" /\ Writes(h, a)
    BY <1>1, <1>3, WritesKeeps
<1> QED
    BY <1>2, <1>3 DEF Changes

\* What a change makes of an asset.
LEMMA ChangedIs ==
    ASSUME KindInv, NEW h \in reqs, h.asset \in DOMAIN table,
           NEW a \in {Renamed(h), Switched(h), [table[h.asset] EXCEPT !.rate = h.rate]}
    PROVE  /\ a \in Assets /\ a.carrier = table[h.asset].carrier /\ a.checked = table[h.asset].checked
           /\ \/ a.edited
              \/ /\ a.edited = table[h.asset].edited
                 /\ a.vin = table[h.asset].vin /\ a.plate = table[h.asset].plate
<1> PICK b : b = table[h.asset]
    OBVIOUS
<1>1. b \in Assets /\ h \in RequestType
    BY RequestIs
<1>2. CASE a = Renamed(h)
    BY <1>1, <1>2 DEF Renamed, Assets, RequestType
<1>3. CASE a = Switched(h)
    BY <1>1, <1>3 DEF Switched, Assets, RequestType
<1>4. CASE a = [table[h.asset] EXCEPT !.rate = h.rate]
    BY <1>1, <1>4 DEF Assets, RequestType
<1> QED
    BY <1>2, <1>3, <1>4

\* The handlers of trucks, trailers and users.
LEMMA ServeKeeps ==
    ASSUME KindInv, NEW h \in reqs, Serve(h)
    PROVE  KindInv'
<1>1. CASE Creates(h)
    BY <1>1, CreatesKeeps
<1>2. CASE Changes(h, "update", Renamed(h))
    BY <1>2, ChangesKeeps, ChangedIs
<1>3. CASE Changes(h, "switch", Switched(h))
    BY <1>3, ChangesKeeps, ChangedIs
<1>4. CASE Changes(h, "update", [table[h.asset] EXCEPT !.rate = h.rate])
    BY <1>4, ChangesKeeps, ChangedIs
<1> QED
    BY <1>1, <1>2, <1>3, <1>4
       DEF Serve, createTruck, createTrailer, updateTruck, updateTrailer, updateUser, setTruckActive,
           setTrailerActive, deactivateUser, reactivateUser

-----------------------------------------------------------------------------
(* Other sessions, and the page *)

\* A step of the screens leaves the table as it is.
LEMMA ScreensStep ==
    ASSUME KindInv, UNCHANGED serverVars, Ticks
    PROVE  /\ Grows /\ TableInv' /\ TableInv
           /\ ops \in Nat /\ ops' \in Nat /\ ops <= ops' /\ writes' = writes /\ writes \in Nat
<1>1. Grows /\ TableInv
    BY TableStays DEF KindInv
<1>2. ops \in Nat /\ ops' \in 0..cast.ops /\ ops <= ops' /\ cast \in Casts /\ cast.ops \in Nat
    BY <1>1, OpsGrow DEF serverVars
<1>3. TableInv'
    BY <1>1, <1>2 DEF TableInv, serverVars, Met
<1> QED
    BY <1>1, <1>2, <1>3 DEF TableInv, serverVars

\* A request that is sent now.
LEMMA RequestMade ==
    ASSUME KindInv, NEW op \in {"create", "update", "switch"}, NEW by \in Carriers, NEW asset \in Nat,
           NEW typed \in Nat \X Nat, NEW rate \in Rates, NEW on \in BOOLEAN, NEW from \in Nat,
           op # "create" => asset \in DOMAIN table,
           NEW k, k = Request(op, by, asset, typed, rate, on, from)
    PROVE  ReqInv(k) /\ k.id = ops /\ k.from = from /\ k.op = op /\ k.ph \in {"vin", "read"}
<1>1. k.id = ops /\ k.from = from /\ k.op = op /\ k.ph = (IF op = "create" THEN "vin" ELSE "read")
      /\ k.at = 0 /\ k.checked = Unchecked /\ k.asset = asset
    BY DEF Request
<1>2. ops \in Nat /\ writes \in Nat
    BY CastsAssumption DEF KindInv, TableInv
<1>3. k \in RequestType
    BY <1>2 DEF Request, RequestType, Unchecked
<1>4. k.checked.vin = 0 /\ k.checked.plate = 0
    BY <1>1 DEF Unchecked
<1> QED
    BY <1>1, <1>2, <1>3, <1>4 DEF ReqInv, Met

\* Another session's request: its operation is a new one.
LEMMA OtherAsksKeeps ==
    ASSUME KindInv, OtherAsks
    PROVE  KindInv'
<1>1. UNCHANGED serverVars /\ UNCHANGED <<pageVars, formVars>> /\ Ticks /\ ops' = ops + 1
    BY DEF OtherAsks, Ticks, Does
<1>2. /\ Grows /\ TableInv' /\ TableInv
      /\ ops \in Nat /\ ops' \in Nat /\ ops <= ops' /\ writes' = writes /\ writes \in Nat
    BY <1>1, ScreensStep
<1>3. PICK k : /\ reqs' = reqs \cup {k} /\ ReqInv(k) /\ k.id = ops /\ k.from = 0 /\ k.ph \in {"vin", "read"}
  <2>1. PICK by \in Carriers :
          \/ /\ kind \in {"truck", "trailer"}
             /\ \E t \in Typed : reqs' = reqs \cup {Request("create", by, 0, t, 0, FALSE, 0)}
          \/ \E i \in DOMAIN table, on \in BOOLEAN :
                reqs' = reqs \cup {Request("switch", by, i, <<0, 0>>, 0, on, 0)}
          \/ \E i \in DOMAIN table, t \in Typed, r \in Rates \ {0} :
                /\ kind \in {"truck", "trailer"} => r = 1
                /\ kind \in {"driver", "user"} => t = CHOOSE u \in Typed : TRUE
                /\ reqs' = reqs \cup {Request("update", by, i, t, r, FALSE, 0)}
    BY DEF OtherAsks
  <2>2. table \in Seq(Assets) /\ \A i \in DOMAIN table : i \in Nat
    BY DEF KindInv, TableInv
  <2>3. 0 \in Rates /\ <<0, 0>> \in Nat \X Nat
    BY DEF Rates
  <2>4. ASSUME NEW t \in Typed, reqs' = reqs \cup {Request("create", by, 0, t, 0, FALSE, 0)}
        PROVE  \E k : /\ reqs' = reqs \cup {k} /\ ReqInv(k) /\ k.id = ops /\ k.from = 0
                      /\ k.ph \in {"vin", "read"}
    <3> PICK f \in BOOLEAN : f = FALSE
        OBVIOUS
    <3> PICK k : k = Request("create", by, 0, t, 0, f, 0)
        OBVIOUS
    <3>1. t \in Nat \X Nat /\ 0 \in Nat
        BY TypedAssumption
    <3>2. ReqInv(k) /\ k.id = ops /\ k.from = 0 /\ k.ph \in {"vin", "read"}
        BY <2>3, <3>1, RequestMade
    <3>3. reqs' = reqs \cup {k}
        BY <2>4
    <3> QED
        BY <3>2, <3>3
  <2>5. ASSUME NEW i \in DOMAIN table, NEW on \in BOOLEAN,
               reqs' = reqs \cup {Request("switch", by, i, <<0, 0>>, 0, on, 0)}
        PROVE  \E k : /\ reqs' = reqs \cup {k} /\ ReqInv(k) /\ k.id = ops /\ k.from = 0
                      /\ k.ph \in {"vin", "read"}
    BY <2>2, <2>3, <2>5, RequestMade
  <2>6. ASSUME NEW i \in DOMAIN table, NEW t \in Typed, NEW r \in Rates \ {0},
               reqs' = reqs \cup {Request("update", by, i, t, r, FALSE, 0)}
        PROVE  \E k : /\ reqs' = reqs \cup {k} /\ ReqInv(k) /\ k.id = ops /\ k.from = 0
                      /\ k.ph \in {"vin", "read"}
    <3> PICK f \in BOOLEAN : f = FALSE
        OBVIOUS
    <3> PICK k : k = Request("update", by, i, t, r, f, 0)
        OBVIOUS
    <3>1. t \in Nat \X Nat /\ 0 \in Nat
        BY TypedAssumption
    <3>2. ReqInv(k) /\ k.id = ops /\ k.from = 0 /\ k.ph \in {"vin", "read"}
        BY <2>2, <3>1, RequestMade
    <3>3. reqs' = reqs \cup {k}
        BY <2>6
    <3> QED
        BY <3>2, <3>3
  <2> QED
    BY <2>1, <2>4, <2>5, <2>6
<1>4. Token(k) = ops /\ ~Save(k) /\ dialog' = dialog
    BY <1>1, <1>3 DEF Token, Save, pageVars
<1>5. dialog.st # "closed" => dialog.id \in 1..ops
    BY DEF KindInv, DialogInv
<1>6. ReqsInv'
  <2>1. \A h \in reqs' : ReqInv(h)'
    BY <1>2, <1>3, ReqStays DEF KindInv, ReqsInv
  <2>2. \A h \in reqs' : Token(h) \in 0..(ops' - 1)
    BY <1>1, <1>2, <1>3, <1>4 DEF KindInv, ReqsInv
  <2>3. \A g, h \in reqs' : Token(g) = Token(h) => g = h
    BY <1>2, <1>3, <1>4 DEF KindInv, ReqsInv
  <2>4. \A h \in reqs' : dialog.st # "closed" =>
          /\ Token(h) = dialog.id - 1 => h.from = dialog.id
          /\ h.from = dialog.id => h.op # "switch" /\ dialog.st # "confirm"
    BY <1>2, <1>3, <1>4, <1>5 DEF KindInv, ReqsInv
  <2> QED
    BY <1>4, <2>1, <2>2, <2>3, <2>4 DEF ReqsInv
<1>7. WriteBound'
  <2>1. WaitingOf(reqs') \subseteq WaitingOf(reqs) \cup {ops}
    BY <1>3, <1>4 DEF WaitingOf
  <2>2. UndecidedOf(dialog', reqs') \subseteq UndecidedOf(dialog, reqs)
    BY <1>3, <1>4 DEF UndecidedOf
  <2>3. Pending' \subseteq Pending \cup {ops}
    BY <2>1, <2>2 DEF Pending
  <2> QED
    BY <1>1, <1>2, <2>3, BoundOfOneMore
<1>8. SavingInv'
    BY <1>1, <1>3, <1>4 DEF KindInv, SavingInv, pageVars, serverVars
<1>9. DialogInv' /\ ListInv' /\ FormsInv'
    BY <1>1, <1>2, DialogStays, ListStays, FormsStay DEF KindInv, pageVars, shown
<1> QED
    BY <1>2, <1>6, <1>7, <1>8, <1>9 DEF KindInv

\* Steps that neither make nor end requests or dialogs.
LEMMA OthersStay ==
    ASSUME KindInv, UNCHANGED serverVars, Ticks, UNCHANGED reqs,
           dialog'.st = dialog.st /\ dialog'.id = dialog.id
    PROVE  ReqsInv' /\ WriteBound'
<1>1. /\ Grows /\ TableInv' /\ TableInv
      /\ ops \in Nat /\ ops' \in Nat /\ ops <= ops' /\ writes' = writes /\ writes \in Nat
    BY ScreensStep
<1>2. ReqsInv'
    BY <1>1, ReqsStay DEF KindInv
<1>3. Pending' \subseteq Pending
    BY DEF Pending, WaitingOf, UndecidedOf
<1> QED
    BY <1>1, <1>2, <1>3, BoundStays

\* A load starts.
LEMMA ListOfStart ==
    ASSUME KindInv, UNCHANGED serverVars, Ticks, NEW id, NEW under, NEW ends \in BOOLEAN,
           LoadStarts(Load(id, under, ends)), UNCHANGED list, told' \in [at: 0..writes, excused: BOOLEAN]
    PROVE  ListInv'
<1> PICK l : l = Load(id, under, ends)
    OBVIOUS
<1>1. Grows /\ writes' = writes /\ writes \in Nat /\ TableInv
    BY ScreensStep
<1>2. l.id = id /\ l.ph = "asked" /\ l.under = under /\ l.ends = ends /\ l.copy = <<>> /\ l.at = 0
      /\ l = [id |-> id, ph |-> "asked", under |-> under, ends |-> ends, copy |-> <<>>, at |-> 0]
    BY DEF Load
<1>3. DOMAIN << >> = {}
    OBVIOUS
<1>4. Readable(<<>>, 0)
    BY <1>1, <1>3 DEF Readable
<1>5. LoadInv(l)
    BY <1>2, <1>4 DEF LoadInv
<1>6. loads' = loads \cup {l}
    BY DEF LoadStarts
<1>7. \A m \in loads' : LoadInv(m)'
    BY <1>1, <1>5, <1>6, LoadStays DEF KindInv, ListInv
<1>8. OwnChangesAreShown'
    BY <1>6 DEF OwnChangesAreShown
<1>9. Readable(list.copy, list.at)' /\ (list = Unloaded \/ CopyIs(list.copy, list.at, list.under))'
    BY <1>1, CopyStays DEF KindInv, ListInv
<1>10. loading' \in BOOLEAN \cup {None} /\ error' \in BOOLEAN
    BY DEF KindInv, ListInv, LoadStarts
<1> QED
    BY <1>1, <1>7, <1>8, <1>9, <1>10 DEF KindInv, ListInv

\* loadAllAssets, onRetry, loadUsers: a load that no save waits for.
LEMMA AsksKeeps ==
    ASSUME KindInv, Asks
    PROVE  KindInv'
<1>1. UNCHANGED serverVars /\ Ticks /\ UNCHANGED <<reqs, list, search, dialog, saving, told, formVars>>
    BY DEF Asks, Ticks
<1>2. /\ Grows /\ TableInv' /\ TableInv
      /\ ops \in Nat /\ ops' \in Nat /\ ops <= ops' /\ writes' = writes /\ writes \in Nat
    BY <1>1, ScreensStep
<1>3. ReqsInv' /\ WriteBound'
    BY <1>1, OthersStay
<1> PICK l : l = Load(<<ops, "page">>, SearchSent, FALSE)
    OBVIOUS
<1>4. loads' = loads \cup {l} /\ l.ends = FALSE
    BY DEF Asks, LoadStarts, Load
<1>5. SavingInv'
    BY <1>1, <1>4 DEF KindInv, SavingInv, serverVars
<1>6. ListInv'
  <2>1. told' \in [at: 0..writes, excused: BOOLEAN]
    BY <1>1 DEF KindInv, ListInv
  <2> QED
    BY <1>1, <2>1, ListOfStart DEF Asks
<1>7. DialogInv' /\ FormsInv'
    BY <1>1, <1>2, DialogStays, FormsStay DEF KindInv
<1> QED
    BY <1>2, <1>3, <1>5, <1>6, <1>7 DEF KindInv

\* What is read of the table is what is in it.
LEMMA ReadIs ==
    ASSUME TableInv, NEW under, NEW c, c = [i \in Matching(Own, under) |-> Row(i)]
    PROVE  Readable(c, writes) /\ CopyIs(c, writes, under)
<1>1. Matching(Own, under) \subseteq DOMAIN table
    BY DEF Matching, Own
<1>2. \A i \in DOMAIN table : table[i] \in Assets
    BY DEF TableInv
<1>3. \A i \in DOMAIN table : Row(i) \in Shows
    BY <1>2 DEF Row, Shows, Assets
<1> QED
    BY <1>1, <1>3 DEF Readable, CopyIs, TableInv

\* The service reads the list that a load asks for.
LEMMA ReadListKeeps ==
    ASSUME KindInv, NEW l \in loads, ReadList(l)
    PROVE  KindInv'
<1>1. UNCHANGED serverVars /\ Ticks /\ UNCHANGED <<reqs, shown, dialog, saving, told, formVars, ops>>
    BY DEF ReadList, Ticks
<1>2. /\ Grows /\ TableInv' /\ TableInv
      /\ ops \in Nat /\ ops' \in Nat /\ ops <= ops' /\ writes' = writes /\ writes \in Nat
    BY <1>1, ScreensStep
<1>3. ReqsInv' /\ WriteBound'
    BY <1>1, OthersStay
<1> PICK c : c = [i \in Matching(Own, l.under) |-> Row(i)]
    OBVIOUS
<1> PICK k : k = [l EXCEPT !.ph = "read", !.at = writes, !.copy = c]
    OBVIOUS
<1>4. loads' = (loads \ {l}) \cup {k}
    BY DEF ReadList
<1>5. l = [id |-> l.id, ph |-> l.ph, under |-> l.under, ends |-> l.ends, copy |-> l.copy, at |-> l.at]
      /\ l.ends \in BOOLEAN
    BY DEF KindInv, ListInv, LoadInv
<1>6. k = [id |-> l.id, ph |-> "read", under |-> l.under, ends |-> l.ends, copy |-> c, at |-> writes]
    BY <1>5
<1>7. LoadInv(k)
  <2>1. Readable(c, writes) /\ CopyIs(c, writes, l.under)
    BY <1>2, ReadIs
  <2>2. k.id = l.id /\ k.ph = "read" /\ k.under = l.under /\ k.ends = l.ends /\ k.copy = c /\ k.at = writes
    BY <1>6
  <2> QED
    BY <1>5, <1>6, <2>1, <2>2 DEF LoadInv
<1>8. \A m \in loads' : LoadInv(m)'
    BY <1>2, <1>4, <1>7, LoadStays DEF KindInv, ListInv
<1>9. OwnChangesAreShown'
    BY <1>4 DEF OwnChangesAreShown
<1>10. Readable(list.copy, list.at)' /\ (list = Unloaded \/ CopyIs(list.copy, list.at, list.under))'
    BY <1>1, <1>2, CopyStays DEF KindInv, ListInv, shown
<1>11. ListInv'
    BY <1>1, <1>2, <1>8, <1>9, <1>10 DEF KindInv, ListInv, shown
<1>12. SavingInv'
    BY <1>1, <1>4, <1>6 DEF KindInv, SavingInv, serverVars
<1>13. DialogInv' /\ FormsInv'
    BY <1>1, <1>2, DialogStays, FormsStay DEF KindInv
<1> QED
    BY <1>2, <1>3, <1>11, <1>12, <1>13 DEF KindInv

\* A load ends, with or without a list.
LEMMA LoadEndsKeeps ==
    ASSUME KindInv, NEW l \in loads, NEW fails \in BOOLEAN, LoadEnds(l, fails),
           UNCHANGED serverVars, Ticks, UNCHANGED <<reqs, dialog, formVars>>,
           NEW copy, NEW at, NEW under, list' = [copy |-> copy, at |-> at, under |-> under],
           Readable(copy, at), list' = Unloaded \/ CopyIs(copy, at, under),
           told' \in [at: 0..writes, excused: BOOLEAN], at < told'.at => told'.excused
    PROVE  KindInv'
<1>1. /\ Grows /\ TableInv' /\ TableInv
      /\ ops \in Nat /\ ops' \in Nat /\ ops <= ops' /\ writes' = writes /\ writes \in Nat
    BY ScreensStep
<1>2. ReqsInv' /\ WriteBound'
    BY OthersStay
<1>3. loads' = loads \ {l} /\ saving' = (saving /\ ~l.ends)
    BY DEF LoadEnds
<1>4. l.ends \in BOOLEAN /\ saving \in BOOLEAN /\ error \in BOOLEAN
    BY DEF KindInv, ListInv, LoadInv, SavingInv
<1>5. saving' \in BOOLEAN /\ (saving' <=> saving /\ ~l.ends)
    BY <1>3, Zenon
<1>6. SavingInv'
    BY <1>3, <1>4, <1>5 DEF KindInv, SavingInv, serverVars
<1>7. loading' \in BOOLEAN \cup {None} /\ error' \in BOOLEAN
    BY <1>4 DEF KindInv, ListInv, LoadEnds
<1>8. \A m \in loads' : LoadInv(m)'
    BY <1>1, <1>3, LoadStays DEF KindInv, ListInv
<1>9. Readable(copy, at)' /\ (list' = Unloaded \/ CopyIs(copy, at, under)')
    BY <1>1, CopyStays
<1>10. ListInv'
  <2>1. list'.copy = copy /\ list'.at = at /\ list'.under = under
    OBVIOUS
  <2>2. list' = [copy |-> list'.copy, at |-> list'.at, under |-> list'.under]
    BY <2>1
  <2>3. Readable(list.copy, list.at)' /\ (list' = Unloaded \/ CopyIs(list.copy, list.at, list.under)')
    BY <1>9, <2>1 DEF Readable, CopyIs
  <2>4. (list = Unloaded)' <=> list' = Unloaded
    BY DEF Unloaded
  <2> QED
    BY <1>1, <1>7, <1>8, <2>1, <2>2, <2>3, <2>4 DEF ListInv, OwnChangesAreShown
<1>11. DialogInv' /\ FormsInv'
    BY <1>1, DialogStays, FormsStay DEF KindInv
<1> QED
    BY <1>1, <1>2, <1>6, <1>10, <1>11 DEF KindInv

\* A list arrives: if it is older than what was heard last, that is noted.
LEMMA ListArrivesKeeps ==
    ASSUME KindInv, NEW l \in loads, ListArrives(l)
    PROVE  KindInv'
<1> PICK copy : copy = l.copy
    OBVIOUS
<1> PICK at : at = l.at
    OBVIOUS
<1> PICK under : under = l.under
    OBVIOUS
<1>1. LoadEnds(l, FALSE) /\ UNCHANGED serverVars /\ Ticks /\ UNCHANGED <<reqs, dialog, formVars>>
      /\ list' = [copy |-> copy, at |-> at, under |-> under] /\ l.ph = "read"
    BY DEF ListArrives, Ticks
<1>2. Readable(copy, at) /\ CopyIs(copy, at, under)
    BY <1>1 DEF KindInv, ListInv, LoadInv
<1>3. told \in [at: 0..writes, excused: BOOLEAN] /\ writes \in Nat /\ at \in Nat
    BY <1>2 DEF KindInv, ListInv, TableInv, Readable
<1>b. PICK b : b = (at < told.at)
    OBVIOUS
<1>bool. b \in BOOLEAN
    BY <1>b
<1>older. b <=> at < told.at
    BY <1>b, Zenon
<1>4. b \in BOOLEAN /\ (b <=> at < told.at)
    BY <1>bool, <1>older
<1>5. told' = [told EXCEPT !.excused = b]
    BY <1>b DEF ListArrives
<1>6. told' \in [at: 0..writes, excused: BOOLEAN] /\ told'.at = told.at /\ told'.excused = b
    BY <1>3, <1>4, <1>5
<1>7. at < told'.at => told'.excused
    BY <1>4, <1>6
<1>8. FALSE \in BOOLEAN
    OBVIOUS
<1> QED
    BY <1>1, <1>2, <1>6, <1>7, <1>8, LoadEndsKeeps

\* A load fails: the list may lack what was heard last.
LEMMA ListFailsKeeps ==
    ASSUME KindInv, NEW l \in loads, ListFails(l)
    PROVE  KindInv'
<1> PICK copy : copy = list.copy
    OBVIOUS
<1> PICK at : at = list.at
    OBVIOUS
<1> PICK under : under = list.under
    OBVIOUS
<1>1. LoadEnds(l, TRUE) /\ UNCHANGED serverVars /\ Ticks /\ UNCHANGED <<reqs, dialog, formVars>>
      /\ list' = list
    BY DEF ListFails, Ticks
<1>2. Readable(copy, at) /\ (list = Unloaded \/ CopyIs(copy, at, under))
      /\ list = [copy |-> copy, at |-> at, under |-> under]
    BY DEF KindInv, ListInv
<1>3. told \in [at: 0..writes, excused: BOOLEAN]
    BY DEF KindInv, ListInv
<1>4. told' = [told EXCEPT !.excused = TRUE]
    BY DEF ListFails
<1>5. told' \in [at: 0..writes, excused: BOOLEAN] /\ told'.excused = TRUE
    BY <1>3, <1>4
<1>6. list' = [copy |-> copy, at |-> at, under |-> under] /\ (list' = Unloaded \/ CopyIs(copy, at, under))
    BY <1>1, <1>2
<1>7. TRUE \in BOOLEAN
    OBVIOUS
<1> QED
    BY <1>1, <1>2, <1>5, <1>6, <1>7, LoadEndsKeeps

\* A step that changes no more than the search, or the values in the dialog.
LEMMA DialogChanges ==
    ASSUME KindInv, UNCHANGED serverVars, Ticks,
           UNCHANGED <<reqs, list, loading, error, saving, loads, told, formVars>>,
           dialog'.st = dialog.st, dialog'.id = dialog.id, DialogInv'
    PROVE  KindInv'
<1>1. /\ Grows /\ TableInv' /\ TableInv
      /\ ops \in Nat /\ ops' \in Nat /\ ops <= ops' /\ writes' = writes /\ writes \in Nat
    BY ScreensStep
<1>2. ReqsInv' /\ WriteBound'
    BY OthersStay
<1>3. SavingInv'
    BY DEF KindInv, SavingInv, serverVars
<1>4. ListInv' /\ FormsInv'
    BY <1>1, ListStays, FormsStay DEF KindInv
<1> QED
    BY <1>1, <1>2, <1>3, <1>4 DEF KindInv

\* Typing into the search changes neither list nor dialog.
LEMMA onSearchChangeKeeps ==
    ASSUME KindInv, NEW s, onSearchChange(s)
    PROVE  KindInv'
<1>1. /\ UNCHANGED serverVars /\ Ticks
      /\ UNCHANGED <<reqs, list, loading, error, dialog, saving, loads, told, formVars>>
    BY DEF onSearchChange, Ticks
<1>2. /\ Grows /\ TableInv' /\ TableInv
      /\ ops \in Nat /\ ops' \in Nat /\ ops <= ops' /\ writes' = writes /\ writes \in Nat
    BY <1>1, ScreensStep
<1>3. DialogInv'
    BY <1>1, <1>2, DialogStays DEF KindInv
<1> QED
    BY <1>1, <1>3, DialogChanges

\* Typing leaves the dialog the same one.
LEMMA TypesInSame ==
    ASSUME KindInv, TypesIn
    PROVE  /\ dialog'.st = dialog.st /\ dialog'.id = dialog.id /\ dialog'.asset = dialog.asset
           /\ dialog' \in [st: {"closed", "new", "edit", "confirm"}, id: Nat, asset: Nat, typed: Nat \X Nat,
                            rate: Rates, on: BOOLEAN]
<1>1. dialog \in [st: {"closed", "new", "edit", "confirm"}, id: Nat, asset: Nat, typed: Nat \X Nat,
                   rate: Rates, on: BOOLEAN]
    BY DEF KindInv, DialogInv
<1>2. CASE \E t \in Typed : dialog' = [dialog EXCEPT !.typed = t]
    BY <1>1, <1>2, TypedAssumption
<1>3. CASE \E r \in Rates \ {0} : dialog' = [dialog EXCEPT !.rate = r]
    BY <1>1, <1>3
<1> QED
    BY <1>2, <1>3 DEF TypesIn

\* So does typing into the dialog, but for what was typed.
LEMMA TypesInKeeps ==
    ASSUME KindInv, TypesIn
    PROVE  KindInv'
<1>1. /\ UNCHANGED serverVars /\ Ticks
      /\ UNCHANGED <<reqs, list, loading, error, saving, loads, told, formVars, ops>>
    BY DEF TypesIn, Ticks, shown
<1>2. DialogInv'
    BY <1>1, TypesInSame DEF KindInv, DialogInv, serverVars
<1> QED
    BY <1>1, <1>2, TypesInSame, DialogChanges

\* A dialog opens: a new one, one of an asset in the list, or a confirmation.
LEMMA OpensKeeps ==
    ASSUME KindInv, NEW d, Opens(d),
           d \in [st: {"new", "edit", "confirm"}, id: Nat, asset: Nat, typed: Nat \X Nat, rate: Rates,
                  on: BOOLEAN],
           d.st # "new" => d.asset \in DOMAIN table
    PROVE  KindInv'
<1>1. UNCHANGED serverVars /\ Ticks /\ UNCHANGED <<reqs, list, loading, error, saving, loads, told, formVars>>
      /\ ops' = ops + 1 /\ dialog.st = "closed" /\ dialog' = [d EXCEPT !.id = ops + 1]
    BY DEF Opens, Ticks, shown, Does
<1>2. /\ Grows /\ TableInv' /\ TableInv
      /\ ops \in Nat /\ ops' \in Nat /\ ops <= ops' /\ writes' = writes /\ writes \in Nat
    BY <1>1, ScreensStep
<1> PICK n \in Nat : n = ops + 1
    BY <1>2
<1>3. /\ dialog' \in [st: {"closed", "new", "edit", "confirm"}, id: Nat, asset: Nat, typed: Nat \X Nat,
                       rate: Rates, on: BOOLEAN]
      /\ dialog'.id = n /\ dialog'.asset = d.asset /\ dialog'.st = d.st /\ d.st \in {"new", "edit", "confirm"}
    BY <1>1
<1>4. DialogInv'
    BY <1>1, <1>2, <1>3 DEF DialogInv, serverVars
<1>5. \A h \in reqs : ReqInv(h) /\ Token(h) \in 0..(ops - 1) /\ Token(h) # n - 1 /\ h.from # n
  <2>1. \A h \in reqs : ReqInv(h) /\ Token(h) \in 0..(ops - 1) /\ h.from \in Nat
    BY DEF KindInv, ReqsInv, ReqInv, RequestType
  <2> QED
    BY <1>2, <2>1 DEF Token
<1>6. ReqsInv'
  <2>1. \A h \in reqs : ReqInv(h)' /\ Token(h) \in 0..(ops' - 1)
    BY <1>1, <1>2, <1>5, ReqStays
  <2> QED
    BY <1>1, <1>3, <1>5, <2>1 DEF KindInv, ReqsInv
<1>7. WriteBound'
  <2>1. Pending' \subseteq Pending \cup {n - 1}
    BY <1>1, <1>3 DEF Pending, UndecidedOf, WaitingOf
  <2> QED
    BY <1>1, <1>2, <2>1, BoundOfOneMore
<1>8. SavingInv'
    BY <1>1, <1>3, <1>5 DEF KindInv, SavingInv, serverVars
<1>9. ListInv' /\ FormsInv'
    BY <1>1, <1>2, ListStays, FormsStay DEF KindInv
<1> QED
    BY <1>2, <1>4, <1>6, <1>7, <1>8, <1>9 DEF KindInv

\* The dialog closes.
LEMMA ClosedIs ==
    ASSUME dialog' = Closed
    PROVE  DialogInv' /\ dialog'.st = "closed" /\ dialog'.id = 0 /\ UndecidedOf(dialog', reqs') = {}
BY DEF Closed, DialogInv, UndecidedOf, Rates

\* The dialog is dismissed: a save of it goes on, for a driver without a flag.
LEMMA CloseDialogKeeps ==
    ASSUME KindInv, CloseDialog
    PROVE  KindInv'
<1>1. UNCHANGED serverVars /\ Ticks /\ UNCHANGED <<reqs, list, loading, error, loads, told, formVars, ops>>
      /\ dialog' = Closed /\ saving' = (saving /\ kind # "driver")
    BY DEF CloseDialog, Ticks, shown
<1>2. /\ Grows /\ TableInv' /\ TableInv
      /\ ops \in Nat /\ ops' \in Nat /\ ops <= ops' /\ writes' = writes /\ writes \in Nat
    BY <1>1, ScreensStep
<1>3. ReqsInv'
    BY <1>1, <1>2, ClosedIs, ReqsStay DEF KindInv
<1>4. WriteBound'
  <2>1. Pending' \subseteq Pending
    BY <1>1, ClosedIs DEF Pending
  <2> QED
    BY <1>2, <2>1, BoundStays
<1>5. saving \in BOOLEAN
    BY DEF KindInv, SavingInv
<1>6. saving' \in BOOLEAN /\ (saving' <=> saving /\ kind # "driver")
    BY <1>1, Zenon
<1>7. SavingInv'
    BY <1>1, <1>5, <1>6, ClosedIs DEF KindInv, SavingInv, serverVars, Save
<1>8. DialogInv' /\ ListInv' /\ FormsInv'
    BY <1>1, <1>2, ClosedIs, ListStays, FormsStay DEF KindInv
<1> QED
    BY <1>2, <1>3, <1>4, <1>7, <1>8 DEF KindInv

\* The dialog's request is sent: there is none of it yet.
LEMMA SentOnce ==
    ASSUME KindInv, UNCHANGED serverVars, Ticks, UNCHANGED ops,
           dialog.st # "closed", \A h \in reqs : h.from # dialog.id,
           NEW k, ReqInv(k), k.from = dialog.id, reqs' = reqs \cup {k},
           dialog' = Closed \/ (dialog' = dialog /\ dialog.st # "confirm" /\ k.op # "switch")
    PROVE  ReqsInv' /\ WriteBound' /\ Token(k) = dialog.id - 1 /\ dialog.id \in Nat \ {0}
<1>1. /\ Grows /\ TableInv' /\ TableInv
      /\ ops \in Nat /\ ops' \in Nat /\ ops <= ops' /\ writes' = writes /\ writes \in Nat
    BY ScreensStep
<1>2. dialog.id \in 1..ops
    BY DEF KindInv, DialogInv
<1>3. Token(k) = dialog.id - 1
    BY <1>1, <1>2 DEF Token
<1>4. \A h \in reqs : Token(h) # Token(k)
    BY <1>3 DEF KindInv, ReqsInv
<1>5. ReqsInv'
  <2>1. \A h \in reqs' : ReqInv(h)'
    BY <1>1, ReqStays DEF KindInv, ReqsInv
  <2>2. \A h \in reqs' : Token(h) \in 0..(ops' - 1)
    BY <1>1, <1>2, <1>3 DEF KindInv, ReqsInv
  <2>3. \A g, h \in reqs' : Token(g) = Token(h) => g = h
    BY <1>4 DEF KindInv, ReqsInv
  <2>4. \A h \in reqs' : dialog'.st # "closed" =>
          /\ Token(h) = dialog'.id - 1 => h.from = dialog'.id
          /\ h.from = dialog'.id => h.op # "switch" /\ dialog'.st # "confirm"
    BY <1>4, ClosedIs DEF KindInv, ReqsInv
  <2> QED
    BY <2>1, <2>2, <2>3, <2>4 DEF ReqsInv
<1>6. WriteBound'
  <2>1. UndecidedOf(dialog, reqs) = {Token(k)}
    BY <1>3 DEF UndecidedOf
  <2>2. WaitingOf(reqs') \subseteq WaitingOf(reqs) \cup {Token(k)}
    BY DEF WaitingOf
  <2>3. UndecidedOf(dialog', reqs') = {}
    BY ClosedIs DEF UndecidedOf
  <2>4. Pending' \subseteq Pending
    BY <2>1, <2>2, <2>3 DEF Pending
  <2> QED
    BY <1>1, <2>4, BoundStays
<1> QED
    BY <1>1, <1>2, <1>3, <1>5, <1>6

\* saveTruck, saveTrailer, saveUser, onSave: no save of the dialog is under way.
LEMMA SavesKeeps ==
    ASSUME KindInv, Saves
    PROVE  KindInv'
<1> PICK op : op = IF dialog.st = "new" THEN "create" ELSE "update"
    OBVIOUS
<1> PICK f \in BOOLEAN : f = FALSE
    OBVIOUS
<1> PICK k : k = Request(op, Mine, dialog.asset, dialog.typed, dialog.rate, f, dialog.id)
    OBVIOUS
<1>1. UNCHANGED serverVars /\ Ticks /\ UNCHANGED <<list, loading, error, dialog, loads, told, formVars, ops>>
      /\ dialog.st \in {"new", "edit"} /\ ~saving /\ saving' = TRUE /\ reqs' = reqs \cup {k}
    BY DEF Saves, Ticks, shown
<1>2. /\ Grows /\ TableInv' /\ TableInv
      /\ ops \in Nat /\ ops' \in Nat /\ ops <= ops' /\ writes' = writes /\ writes \in Nat
    BY <1>1, ScreensStep
<1>3. ReqInv(k) /\ k.from = dialog.id /\ k.op = op
  <2>1. dialog.asset \in Nat /\ dialog.typed \in Nat \X Nat /\ dialog.rate \in Rates /\ dialog.id \in Nat
        /\ (op # "create" => dialog.asset \in DOMAIN table)
    BY <1>1 DEF KindInv, DialogInv
  <2>2. op \in {"create", "update", "switch"} /\ Mine \in Carriers
    BY DEF Carriers
  <2> QED
    BY <2>1, <2>2, RequestMade
<1>4. \A h \in reqs : h.from # dialog.id
  <2>1. dialog.id # 0
    BY <1>1, <1>2 DEF KindInv, DialogInv
  <2>2. \A h \in reqs : h.from = dialog.id => Save(h)
    BY <1>1, <2>1 DEF KindInv, ReqsInv, Save
  <2> QED
    BY <1>1, <2>2 DEF KindInv, SavingInv
<1>5. ReqsInv' /\ WriteBound'
    BY <1>1, <1>3, <1>4, SentOnce
<1>6. SavingInv'
    BY <1>1 DEF KindInv, SavingInv, serverVars
<1>7. DialogInv' /\ ListInv' /\ FormsInv'
    BY <1>1, <1>2, DialogStays, ListStays, FormsStay DEF KindInv
<1> QED
    BY <1>2, <1>5, <1>6, <1>7 DEF KindInv

\* A confirmed switch takes the dialog's place.
LEMMA SwitchConfirmedKeeps ==
    ASSUME KindInv, SwitchConfirmed
    PROVE  KindInv'
<1> PICK k : k = Request("switch", Mine, dialog.asset, <<0, 0>>, 0, dialog.on, dialog.id)
    OBVIOUS
<1>1. UNCHANGED serverVars /\ Ticks /\ UNCHANGED <<list, loading, error, saving, loads, told, formVars, ops>>
      /\ dialog.st = "confirm" /\ dialog' = Closed /\ reqs' = reqs \cup {k}
    BY DEF SwitchConfirmed, Ticks, shown
<1>2. /\ Grows /\ TableInv' /\ TableInv
      /\ ops \in Nat /\ ops' \in Nat /\ ops <= ops' /\ writes' = writes /\ writes \in Nat
    BY <1>1, ScreensStep
<1>3. ReqInv(k) /\ k.from = dialog.id /\ k.op = "switch"
  <2>1. dialog.asset \in Nat /\ dialog.on \in BOOLEAN /\ dialog.id \in Nat /\ dialog.asset \in DOMAIN table
    BY <1>1 DEF KindInv, DialogInv
  <2>2. Mine \in Carriers /\ <<0, 0>> \in Nat \X Nat /\ 0 \in Rates
    BY DEF Carriers, Rates
  <2> QED
    BY <2>1, <2>2, RequestMade
<1>4. \A h \in reqs : h.from # dialog.id
    BY <1>1 DEF KindInv, ReqsInv
<1>5. ReqsInv' /\ WriteBound'
    BY <1>1, <1>3, <1>4, SentOnce
<1>6. SavingInv'
    BY <1>1, <1>3, ClosedIs DEF KindInv, SavingInv, serverVars, Save
<1>7. DialogInv' /\ ListInv' /\ FormsInv'
    BY <1>1, <1>2, ClosedIs, ListStays, FormsStay DEF KindInv
<1> QED
    BY <1>2, <1>5, <1>6, <1>7 DEF KindInv

\* An answer ends its request.
LEMMA AnswerTaken ==
    ASSUME KindInv, UNCHANGED serverVars, Ticks, UNCHANGED <<ops, formVars>>,
           NEW h \in reqs, reqs' = reqs \ {h},
           dialog' = Closed \/ (dialog' = dialog /\ (dialog.st # "closed" => h.from # dialog.id)),
           ListInv', SavingInv'
    PROVE  KindInv'
<1>1. /\ Grows /\ TableInv' /\ TableInv
      /\ ops \in Nat /\ ops' \in Nat /\ ops <= ops' /\ writes' = writes /\ writes \in Nat
    BY ScreensStep
<1>2. ReqsInv'
    BY <1>1, ClosedIs, ReqsStay DEF KindInv
<1>3. DialogInv'
    BY <1>1, ClosedIs, DialogStays DEF KindInv
<1>4. FormsInv'
    BY <1>1, FormsStay DEF KindInv
<1>5. WriteBound'
  <2>1. WaitingOf(reqs') \subseteq WaitingOf(reqs)
    BY DEF WaitingOf
  <2>2. UndecidedOf(dialog', reqs') \subseteq UndecidedOf(dialog, reqs)
    BY ClosedIs DEF UndecidedOf
  <2>3. Pending' \subseteq Pending
    BY <2>1, <2>2 DEF Pending
  <2> QED
    BY <1>1, <2>3, BoundStays
<1> QED
    BY <1>1, <1>2, <1>3, <1>4, <1>5 DEF KindInv

\* An answer is heard: but for a dismissed driver's dialog it starts a load,
\* which a save of the other kinds waits for.
LEMMA AnsweredKeeps ==
    ASSUME KindInv, NEW h \in reqs, Answered(h)
    PROVE  KindInv'
<1>1. UNCHANGED serverVars /\ Ticks /\ UNCHANGED <<list, search, formVars, ops>> /\ reqs' = reqs \ {h}
      /\ h.ph = "done"
    BY DEF Answered, Ticks
<1>2. /\ Grows /\ TableInv' /\ TableInv
      /\ ops \in Nat /\ ops' \in Nat /\ ops <= ops' /\ writes' = writes /\ writes \in Nat
    BY <1>1, ScreensStep
<1>3. ReqInv(h) /\ h.from # 0 /\ h.at \in 0..writes
    BY <1>1, <1>2 DEF KindInv, ReqsInv, ReqInv, RequestType
<1>4. told \in [at: 0..writes, excused: BOOLEAN] /\ saving \in BOOLEAN
    BY DEF KindInv, ListInv, SavingInv
<1> PICK n \in 0..writes : n = Heard(h) /\ n >= told.at
    BY <1>2, <1>3, <1>4 DEF Heard
<1>5. ASSUME NEW ends \in BOOLEAN, Reload(h, ends), told' = [told EXCEPT !.at = n]
      PROVE  ListInv'
  <2>1. told' \in [at: 0..writes, excused: BOOLEAN]
    BY <1>4, <1>5
  <2>2. LoadStarts(Load(<<h.id, "answer">>, SearchSent, ends))
    BY <1>5 DEF Reload
  <2> QED
    BY <1>1, <2>1, <2>2, ListOfStart
<1>6. CASE h.op = "switch"
  <2>1. told' = [told EXCEPT !.at = n] /\ Reload(h, FALSE) /\ UNCHANGED <<dialog, saving>>
    BY <1>6 DEF Answered, SwitchDone
  <2> PICK l : l = Load(<<h.id, "answer">>, SearchSent, FALSE)
    OBVIOUS
  <2>2. ListInv'
    BY <1>5, <2>1
  <2>3. loads' = loads \cup {l} /\ l.ends = FALSE
    BY <2>1 DEF Reload, LoadStarts, Load
  <2>4. SavingInv'
    BY <1>1, <2>1, <2>3 DEF KindInv, SavingInv, serverVars
  <2>5. dialog.st # "closed" => h.from # dialog.id
    BY <1>6 DEF KindInv, ReqsInv
  <2> QED
    BY <1>1, <2>1, <2>2, <2>4, <2>5, AnswerTaken
<1>7. CASE h.op # "switch" /\ kind = "driver" /\ h.from # dialog.id
  <2>1. told' = [at |-> n, excused |-> TRUE] /\ UNCHANGED <<dialog, saving, loads, loading, error>>
    BY <1>7 DEF Answered, SaveDone
  <2>2. told' \in [at: 0..writes, excused: BOOLEAN] /\ told'.excused = TRUE
    BY <2>1
  <2>3. ListInv'
    <3>1. Readable(list.copy, list.at)' /\ (list = Unloaded \/ CopyIs(list.copy, list.at, list.under))'
        BY <1>1, <1>2, CopyStays DEF KindInv, ListInv
    <3>2. \A l \in loads' : LoadInv(l)'
        BY <1>2, <2>1, LoadStays DEF KindInv, ListInv
    <3> QED
        BY <1>1, <1>2, <2>1, <2>2, <3>1, <3>2 DEF KindInv, ListInv, OwnChangesAreShown
  <2>4. SavingInv'
    BY <1>1, <2>1 DEF KindInv, SavingInv, serverVars
  <2> QED
    BY <1>1, <1>7, <2>1, <2>3, <2>4, AnswerTaken
<1>8. CASE h.op # "switch" /\ ~(kind = "driver" /\ h.from # dialog.id)
  <2> PICK ends \in BOOLEAN : ends = (kind # "driver")
    OBVIOUS
  <2> PICK l : l = Load(<<h.id, "answer">>, SearchSent, ends)
    OBVIOUS
  <2>1. /\ dialog' = Closed /\ saving' = (saving /\ kind # "driver") /\ told' = [told EXCEPT !.at = n]
        /\ Reload(h, ends)
    BY <1>8 DEF Answered, SaveDone
  <2>2. ListInv'
    BY <1>5, <2>1
  <2>3. loads' = loads \cup {l} /\ l.ends = ends
    BY <2>1 DEF Reload, LoadStarts, Load
  <2>4. Save(h)
    BY <1>3, <1>8 DEF Save
  <2>5. saving' \in BOOLEAN /\ (saving' <=> saving /\ kind # "driver") /\ (ends <=> kind # "driver")
    BY <2>1, Zenon
  <2>6. kind' = kind
    BY <1>1 DEF serverVars
  <2>7. ASSUME kind = "driver" PROVE SavingInv'
    <3>1. \A m \in loads' : ~m.ends
        BY <2>3, <2>5, <2>7 DEF KindInv, SavingInv
    <3>2. \A g \in reqs' : ~(Save(g) /\ g.from = dialog'.id)
        BY <2>1, ClosedIs DEF Save
    <3> QED
        BY <2>5, <2>6, <2>7, <3>1, <3>2 DEF SavingInv
  <2>8. ASSUME kind # "driver" PROVE SavingInv'
    <3>1. saving /\ (\A g \in reqs : Save(g) => g = h) /\ (\A m \in loads : ~m.ends)
        BY <2>4, <2>8 DEF KindInv, SavingInv
    <3>2. (\A g \in reqs' : ~Save(g)) /\ saving' /\ (\A m \in loads' : m.ends => m = l)
        BY <1>1, <2>3, <2>5, <2>8, <3>1
    <3> QED
        BY <2>5, <2>6, <2>8, <3>2 DEF SavingInv
  <2> QED
    BY <1>1, <2>1, <2>2, <2>7, <2>8, AnswerTaken
<1> QED
    BY <1>6, <1>7, <1>8

\* A failure: if the request had been served its operation is lost with it, so
\* that the dialog's next save counts as one more.
LEMMA FailedKeeps ==
    ASSUME KindInv, NEW h \in reqs, Failed(h)
    PROVE  KindInv'
<1>1. /\ UNCHANGED serverVars /\ Ticks /\ UNCHANGED <<list, loading, error, dialog, loads, told, formVars>>
      /\ reqs' = reqs \ {h} /\ h.from # 0 /\ ((h.ph = "refused" /\ ops' = ops) \/ ops' = ops + 1)
      /\ saving' = (saving /\ (h.op = "switch" \/ (kind = "driver" /\ h.from # dialog.id)))
    BY DEF Failed, Ticks, Does, shown
<1>2. /\ Grows /\ TableInv' /\ TableInv
      /\ ops \in Nat /\ ops' \in Nat /\ ops <= ops' /\ writes' = writes /\ writes \in Nat
    BY <1>1, ScreensStep
<1>3. ReqsInv'
    BY <1>1, <1>2, ReqsStay DEF KindInv
<1>4. DialogInv' /\ ListInv' /\ FormsInv'
    BY <1>1, <1>2, DialogStays, ListStays, FormsStay DEF KindInv
<1>5. WriteBound'
  <2>1. WaitingOf(reqs') \subseteq WaitingOf(reqs)
    BY <1>1 DEF WaitingOf
  <2>2. UndecidedOf(dialog', reqs') \subseteq UndecidedOf(dialog, reqs) \cup {Token(h)}
    BY <1>1 DEF UndecidedOf, Token
  <2>3. CASE h.ph = "refused" /\ ops' = ops
    <3>1. Token(h) \in WaitingOf(reqs)
        BY <2>3 DEF WaitingOf
    <3>2. Pending' \subseteq Pending
        BY <2>1, <2>2, <3>1 DEF Pending
    <3> QED
        BY <1>2, <3>2, BoundStays
  <2>4. CASE ops' = ops + 1
    <3>1. Pending' \subseteq Pending \cup {Token(h)}
        BY <2>1, <2>2 DEF Pending
    <3> QED
        BY <1>2, <2>4, <3>1, BoundOfOneMore
  <2> QED
    BY <1>1, <2>3, <2>4
<1>6. saving \in BOOLEAN
    BY DEF KindInv, SavingInv
<1>7. saving' \in BOOLEAN
      /\ (saving' <=> saving /\ (h.op = "switch" \/ (kind = "driver" /\ h.from # dialog.id)))
    BY <1>1, Zenon
<1>8. SavingInv'
  <2>1. kind' = kind
    BY <1>1 DEF serverVars
  <2>2. CASE kind = "driver"
    <3>1. ASSUME NEW g \in reqs', Save(g), g.from = dialog.id PROVE saving'
      <4>1. saving /\ g # h /\ g \in reqs
        BY <1>1, <2>2, <3>1 DEF KindInv, SavingInv
      <4>2. h.from # dialog.id
        BY <3>1, <4>1 DEF KindInv, ReqsInv, Token, Save
      <4> QED
        BY <1>7, <2>2, <4>1, <4>2
    <3> QED
        BY <1>1, <1>7, <2>1, <2>2, <3>1 DEF KindInv, SavingInv
  <2>3. CASE kind # "driver"
    <3>1. CASE h.op = "switch"
        BY <1>1, <1>6, <1>7, <2>1, <2>3, <3>1 DEF KindInv, SavingInv
    <3>2. CASE h.op # "switch"
      <4>1. (\A g \in reqs : Save(g) => g = h) /\ (\A m \in loads : ~m.ends)
        BY <1>1, <2>3, <3>2 DEF KindInv, SavingInv, Save
      <4> QED
        BY <1>1, <1>7, <2>1, <2>3, <4>1 DEF SavingInv
    <3> QED
        BY <3>1, <3>2
  <2> QED
    BY <2>2, <2>3
<1> QED
    BY <1>2, <1>3, <1>4, <1>5, <1>8 DEF KindInv

\* The closed dialog has no values.
LEMMA ClosedType ==
    Closed \in [st: {"closed"}, id: Nat, asset: Nat, typed: Nat \X Nat, rate: Rates, on: BOOLEAN]
<1>1. <<0, 0>> \in Nat \X Nat /\ 0 \in Nat /\ 0 \in Rates /\ FALSE \in BOOLEAN
    BY DEF Rates
<1> QED
    BY <1>1 DEF Closed

\* What the page opens dialogs about is in its list.
LEMMA DialogsAre ==
    ASSUME KindInv, NEW i \in Shown
    PROVE  /\ i \in DOMAIN table /\ i \in Nat /\ list.copy[i] \in Shows
           /\ Edit(i) \in [st: {"new", "edit", "confirm"}, id: Nat, asset: Nat, typed: Nat \X Nat, rate: Rates,
                           on: BOOLEAN]
           /\ Edit(i).st = "edit" /\ Edit(i).asset = i
<1>1. i \in DOMAIN list.copy
    BY DEF Shown, Matching
<1>2. i \in DOMAIN table /\ list.copy[i] \in Shows
    BY <1>1 DEF KindInv, ListInv, Readable
<1>3. i \in Nat
    BY <1>2 DEF KindInv, TableInv
<1> QED
    BY <1>2, <1>3 DEF Edit, Closed, Shows, Rates

\* toggleTruckStatus and its like ask about an asset in the list.
LEMMA ConfirmsKeeps ==
    ASSUME KindInv, NEW i \in Shown, Confirms(i)
    PROVE  KindInv'
<1> PICK b : b = ~list.copy[i].active
    OBVIOUS
<1>1. b \in BOOLEAN
    BY Zenon
<1> PICK d : d = [Closed EXCEPT !.st = "confirm", !.asset = i, !.on = b]
    OBVIOUS
<1>2. i \in DOMAIN table /\ i \in Nat
    BY DialogsAre
<1>3. d \in [st: {"new", "edit", "confirm"}, id: Nat, asset: Nat, typed: Nat \X Nat, rate: Rates, on: BOOLEAN]
      /\ d.st = "confirm" /\ d.asset = i
  <2>1. Closed \in [st: {"closed"}, id: Nat, asset: Nat, typed: Nat \X Nat, rate: Rates, on: BOOLEAN]
    BY ClosedType
  <2> QED
    BY <1>1, <1>2, <2>1
<1>4. Opens(d)
    BY DEF Confirms
<1> QED
    BY <1>2, <1>3, <1>4, OpensKeeps

\* editTruck, editTrailer, editUser: the dialog has the values of the list.
LEMMA EditKeeps ==
    ASSUME KindInv, NEW i \in Shown, Opens(Edit(i))
    PROVE  KindInv'
<1> PICK d : d = Edit(i)
    OBVIOUS
<1>1. d \in [st: {"new", "edit", "confirm"}, id: Nat, asset: Nat, typed: Nat \X Nat, rate: Rates, on: BOOLEAN]
      /\ d.asset \in DOMAIN table
    BY DialogsAre
<1> QED
    BY <1>1, OpensKeeps

\* openCreateTruckDialog, openCreateTrailerDialog: the dialog is empty.
LEMMA NewKeeps ==
    ASSUME KindInv, Opens(New)
    PROVE  KindInv'
<1> PICK d : d = New
    OBVIOUS
<1>1. d \in [st: {"new", "edit", "confirm"}, id: Nat, asset: Nat, typed: Nat \X Nat, rate: Rates, on: BOOLEAN]
      /\ d.st = "new"
    BY ClosedType DEF New
<1> QED
    BY <1>1, OpensKeeps

\* The steps of the Carrier's page.
LEMMA PageKeeps ==
    ASSUME KindInv, Page
    PROVE  KindInv'
<1>1. CASE loadAllAssets \/ loadTrucks \/ loadTrailers \/ loadUsers
    BY <1>1, AsksKeeps DEF loadAllAssets, loadTrucks, loadTrailers, loadUsers, onRetry
<1>2. CASE openCreateTruckDialog \/ openCreateTrailerDialog
    BY <1>2, NewKeeps DEF openCreateTruckDialog, openCreateTrailerDialog
<1>3. CASE \E i \in Shown : editTruck(i) \/ editTrailer(i) \/ editDriver(i) \/ editUser(i)
    BY <1>3, EditKeeps DEF editTruck, editTrailer, editDriver, editUser
<1>4. CASE TypesIn \/ CloseDialog
    BY <1>4, TypesInKeeps, CloseDialogKeeps
<1>5. CASE saveTruck \/ saveTrailer \/ saveUser \/ onSave
    BY <1>5, SavesKeeps DEF saveTruck, saveTrailer, saveUser, onSave
<1>6. CASE toggleTruckStatus \/ toggleTrailerStatus \/ toggleDriverStatus \/ toggleUserStatus
    BY <1>6, SwitchConfirmedKeeps, ConfirmsKeeps
       DEF toggleTruckStatus, toggleTrailerStatus, toggleDriverStatus, toggleUserStatus
<1>7. CASE \E s \in {None, 1} : onSearchChange(s)
    BY <1>7, onSearchChangeKeeps
<1>8. CASE \E l \in loads : ReadList(l) \/ ListArrives(l) \/ ListFails(l)
    BY <1>8, ReadListKeeps, ListArrivesKeeps, ListFailsKeeps
<1>9. CASE \E h \in reqs : Answered(h) \/ Failed(h)
    BY <1>9, AnsweredKeeps, FailedKeeps
<1> QED
    BY <1>1, <1>2, <1>3, <1>4, <1>5, <1>6, <1>7, <1>8, <1>9 DEF Page

-----------------------------------------------------------------------------
(* The create form *)

\* A step of the create form leaves the Carrier's side as it is.
LEMMA FormsStep ==
    ASSUME KindInv, UNCHANGED serverVars, UNCHANGED <<reqs, pageVars>>, Ticks, FormsInv'
    PROVE  KindInv'
<1>1. /\ Grows /\ TableInv' /\ TableInv
      /\ ops \in Nat /\ ops' \in Nat /\ ops <= ops' /\ writes' = writes /\ writes \in Nat
    BY ScreensStep
<1>2. UNCHANGED <<list, loading, error, dialog, saving, loads, told>> /\ kind' = kind
    BY DEF pageVars, shown, serverVars
<1>3. ReqsInv' /\ WriteBound'
    BY <1>2, OthersStay
<1>4. SavingInv'
    BY <1>2 DEF KindInv, SavingInv
<1>5. DialogInv' /\ ListInv'
    BY <1>1, <1>2, DialogStays, ListStays DEF KindInv
<1> QED
    BY <1>1, <1>3, <1>4, <1>5 DEF KindInv

\* A form, its lookups, its request and its order after a step.
LEMMA FormsBecome ==
    ASSUME KindInv, UNCHANGED serverVars, UNCHANGED <<reqs, pageVars>>, Ticks,
           form' = form \/ FormInv(form)',
           \A l \in lookups' : l \in lookups \/ LookupInv(l),
           sent' = sent \/ sent' = None, order' = order
    PROVE  KindInv'
<1>1. Grows /\ TableInv
    BY ScreensStep
<1>2. FormInv(form)'
    BY <1>1, FormStays DEF KindInv, FormsInv
<1>3. \A l \in lookups' : LookupInv(l)'
    BY <1>1, LookupStays DEF KindInv, FormsInv
<1>4. sent' # None => /\ sent' = [ph |-> sent'.ph, form |-> sent'.form] /\ sent'.ph \in {"asked", "done"}
                      /\ FormInv(sent.form)' /\ sent'.form.carrier # None /\ sent'.form.pick # None
    BY <1>1, FormStays DEF KindInv, FormsInv
<1>5. OrderInv' /\ OrdersFit'
    BY <1>1 DEF KindInv, FormsInv, OrderInv, OrdersFit, Grows
<1>6. FormsInv'
    BY <1>2, <1>3, <1>4, <1>5 DEF FormsInv
<1> QED
    BY <1>6, FormsStep

\* A form that is right now is right after a step that leaves the table alone.
LEMMA FormNow ==
    ASSUME UNCHANGED serverVars, NEW f, FormInv(f), form' = f
    PROVE  FormInv(form)'
BY DEF FormInv, IsOf, serverVars, Remembered

\* What the create form is made of.
LEMMA FormFields ==
    ASSUME KindInv
    PROVE  /\ FormInv(form)
           /\ form \in [carrier: Carriers \cup {None, Text}, offered: SUBSET Picks, crossed: BOOLEAN,
                        pick: Picks \cup {None}, rate: Rates]
           /\ \A i \in DOMAIN table : i \in Nat /\ table[i] \in Assets
BY DEF KindInv, FormsInv, FormInv, TableInv

\* onCarrierSelected: what was offered and chosen before is gone.
LEMMA onCarrierSelectedKeeps ==
    ASSUME KindInv, NEW c \in Carriers, onCarrierSelected(c)
    PROVE  KindInv'
<1> PICK f : f = [form EXCEPT !.carrier = c, !.offered = {}, !.crossed = FALSE, !.pick = None]
    OBVIOUS
<1> PICK l : l = [id |-> ops, carrier |-> c, ph |-> "asked", copy |-> {}]
    OBVIOUS
<1>1. form' = f /\ lookups' = lookups \cup {l} /\ sent' = sent /\ order' = order /\ Ticks
      /\ UNCHANGED serverVars /\ UNCHANGED <<reqs, pageVars>>
    BY DEF onCarrierSelected, Ticks
<1>2. FormInv(f)
  <2>1. f \in [carrier: Carriers \cup {None, Text}, offered: SUBSET Picks, crossed: BOOLEAN,
               pick: Picks \cup {None}, rate: Rates]
        /\ f.offered = {} /\ f.pick = None
    BY FormFields
  <2> QED
    BY <2>1 DEF FormInv
<1>3. ops \in Nat
    BY CastsAssumption DEF KindInv, TableInv
<1>4. LookupInv(l)
    BY <1>3 DEF LookupInv
<1>5. FormInv(form)'
    BY <1>1, <1>2, FormNow
<1> QED
    BY <1>1, <1>4, <1>5, FormsBecome

\* A lookup reads the assets of the carrier it is about.
LEMMA getCarrierAssetsKeeps ==
    ASSUME KindInv, NEW l \in lookups, getCarrierAssets(l)
    PROVE  KindInv'
<1> PICK c : c = { [id |-> i, rate |-> table[i].rate, active |-> table[i].active] :
                   i \in { j \in DOMAIN table : table[j].carrier = l.carrier } }
    OBVIOUS
<1> PICK k : k = [l EXCEPT !.ph = "read", !.copy = c]
    OBVIOUS
<1>1. UNCHANGED form /\ lookups' = (lookups \ {l}) \cup {k} /\ sent' = sent /\ order' = order /\ Ticks
      /\ UNCHANGED serverVars /\ UNCHANGED <<reqs, pageVars>>
    BY DEF getCarrierAssets, Ticks
<1>2. c \subseteq [id: Nat, rate: Rates, active: BOOLEAN]
  <2>1. \A i \in DOMAIN table : i \in Nat /\ table[i].rate \in Rates /\ table[i].active \in BOOLEAN
    BY FormFields DEF Assets
  <2> QED
    BY <2>1
<1>3. \A a \in c : a.id \in DOMAIN table /\ table[a.id].carrier = l.carrier
    OBVIOUS
<1>4. l \in [id: Nat, carrier: Carriers, ph: {"asked", "read"},
              copy: SUBSET [id: Nat, rate: Rates, active: BOOLEAN]]
    BY DEF KindInv, FormsInv, LookupInv
<1>5. k \in [id: Nat, carrier: Carriers, ph: {"asked", "read"},
              copy: SUBSET [id: Nat, rate: Rates, active: BOOLEAN]]
      /\ k.copy = c /\ k.carrier = l.carrier
    BY <1>2, <1>4
<1>6. LookupInv(k)
    BY <1>3, <1>5 DEF LookupInv
<1> QED
    BY <1>1, <1>6, FormsBecome

\* An answer for another carrier than the one chosen now is noted in the form.
LEMMA AssetsOfferedKeeps ==
    ASSUME KindInv, NEW l \in lookups, AssetsOffered(l)
    PROVE  KindInv'
<1>x. PICK x : x = (form.crossed \/ l.carrier # form.carrier)
    OBVIOUS
<1>bool. x \in BOOLEAN
    BY <1>x
<1>crossed. x <=> (form.crossed \/ l.carrier # form.carrier)
    BY <1>x, Zenon
<1> PICK o : o = { a \in l.copy : a.active }
    OBVIOUS
<1> PICK f : f = [form EXCEPT !.offered = o, !.crossed = x]
    OBVIOUS
<1>1. form' = f /\ lookups' \subseteq lookups /\ sent' = sent /\ order' = order /\ Ticks
      /\ UNCHANGED serverVars /\ UNCHANGED <<reqs, pageVars>>
    BY <1>x DEF AssetsOffered, Ticks
<1>2. LookupInv(l)
    BY DEF KindInv, FormsInv
<1>3. o \subseteq Picks
    BY <1>2 DEF LookupInv, Picks
<1>4. f \in [carrier: Carriers \cup {None, Text}, offered: SUBSET Picks, crossed: BOOLEAN,
             pick: Picks \cup {None}, rate: Rates]
      /\ f.carrier = form.carrier /\ f.offered = o /\ f.crossed = x /\ f.pick = form.pick /\ f.rate = form.rate
    BY <1>bool, <1>3, FormFields
<1>5. \A a \in o : IsOf(f, a.id)
    BY <1>2, <1>4, <1>crossed DEF LookupInv, IsOf
<1>6. f.pick # None /\ f.pick.id # 0 => IsOf(f, f.pick.id) /\ f.rate = Remembered(f.pick)
    BY <1>4, <1>crossed, FormFields DEF FormInv, IsOf
<1>7. FormInv(f)
    BY <1>4, <1>5, <1>6 DEF FormInv
<1>8. FormInv(form)'
    BY <1>1, <1>7, FormNow
<1> QED
    BY <1>1, <1>8, FormsBecome

\* onDriverSelected, onTruckSelected: one of those offered, with its rate.
LEMMA onSelectedKeeps ==
    ASSUME KindInv, NEW a \in form.offered, onSelected(a)
    PROVE  KindInv'
<1> PICK f : f = [form EXCEPT !.pick = a, !.rate = Remembered(a)]
    OBVIOUS
<1>1. form' = f /\ lookups' \subseteq lookups /\ sent' = sent /\ order' = order /\ Ticks
      /\ UNCHANGED serverVars /\ UNCHANGED <<reqs, pageVars>>
    BY DEF onSelected, Ticks
<1>2. a \in Picks /\ IsOf(form, a.id)
    BY FormFields DEF FormInv
<1>3. Remembered(a) \in Rates
    BY <1>2 DEF Picks, Remembered, Rates
<1>4. f \in [carrier: Carriers \cup {None, Text}, offered: SUBSET Picks, crossed: BOOLEAN,
             pick: Picks \cup {None}, rate: Rates]
      /\ f.carrier = form.carrier /\ f.offered = form.offered /\ f.crossed = form.crossed /\ f.pick = a
      /\ f.rate = Remembered(a)
    BY <1>2, <1>3, FormFields
<1>5. FormInv(f)
    BY <1>2, <1>4, FormFields DEF FormInv, IsOf
<1>6. FormInv(form)'
    BY <1>1, <1>5, FormNow
<1> QED
    BY <1>1, <1>6, FormsBecome

\* Text is no asset's id, and no carrier's.
LEMMA TypesTextKeeps ==
    ASSUME KindInv, TypesText
    PROVE  KindInv'
<1>1. lookups' \subseteq lookups /\ sent' = sent /\ order' = order /\ Ticks
      /\ UNCHANGED serverVars /\ UNCHANGED <<reqs, pageVars>>
    BY DEF TypesText, Ticks
<1>2. CASE form' = [form EXCEPT !.carrier = Text]
  <2> PICK f : f = [form EXCEPT !.carrier = Text]
    OBVIOUS
  <2>1. f \in [carrier: Carriers \cup {None, Text}, offered: SUBSET Picks, crossed: BOOLEAN,
               pick: Picks \cup {None}, rate: Rates]
        /\ f.carrier = Text /\ f.offered = form.offered /\ f.crossed = form.crossed /\ f.pick = form.pick
        /\ f.rate = form.rate
    BY FormFields
  <2>2. FormInv(f)
    BY <2>1, FormFields DEF FormInv, IsOf
  <2>3. FormInv(form)'
    BY <1>1, <1>2, <2>2, FormNow
  <2> QED
    BY <1>1, <2>3, FormsBecome
<1>3. CASE form' = [form EXCEPT !.pick = [id |-> 0, rate |-> 0, active |-> TRUE]]
  <2> PICK p : p = [id |-> 0, rate |-> 0, active |-> TRUE]
    OBVIOUS
  <2> PICK f : f = [form EXCEPT !.pick = p]
    OBVIOUS
  <2>1. p \in Picks /\ p.id = 0
    BY DEF Picks, Rates
  <2>2. f \in [carrier: Carriers \cup {None, Text}, offered: SUBSET Picks, crossed: BOOLEAN,
               pick: Picks \cup {None}, rate: Rates]
        /\ f.carrier = form.carrier /\ f.offered = form.offered /\ f.crossed = form.crossed /\ f.pick = p
    BY <2>1, FormFields
  <2>3. FormInv(f)
    BY <2>1, <2>2, FormFields DEF FormInv, IsOf
  <2>4. form' = f
    BY <1>3
  <2>5. FormInv(form)'
    BY <1>1, <2>3, <2>4, FormNow
  <2> QED
    BY <1>1, <2>5, FormsBecome
<1> QED
    BY <1>2, <1>3 DEF TypesText

\* onSubmit sends the form as it is.
LEMMA onSubmitKeeps ==
    ASSUME KindInv, onSubmit
    PROVE  KindInv'
<1>1. UNCHANGED <<form, lookups, order>> /\ sent' = [ph |-> "asked", form |-> form] /\ Ticks
      /\ UNCHANGED serverVars /\ UNCHANGED <<reqs, pageVars>> /\ form.carrier # None /\ form.pick # None
    BY DEF onSubmit, Ticks
<1>2. Grows /\ TableInv
    BY <1>1, ScreensStep
<1>3. FormInv(form)' /\ \A l \in lookups' : LookupInv(l)'
    BY <1>1, <1>2, FormStays, LookupStays DEF KindInv, FormsInv
<1>4. sent'.ph = "asked" /\ sent'.form = form
    BY <1>1
<1>5. FormInv(sent.form)'
    BY <1>1, <1>3, <1>4 DEF FormInv, IsOf, Remembered
<1>6. OrderInv' /\ OrdersFit'
    BY <1>1, <1>2 DEF KindInv, FormsInv, OrderInv, OrdersFit, Grows
<1>7. FormsInv'
    BY <1>1, <1>3, <1>4, <1>5, <1>6 DEF FormsInv
<1> QED
    BY <1>1, <1>7, FormsStep

\* createOrder: a rate that was not sent is the stored one.
LEMMA createOrderKeeps ==
    ASSUME KindInv, createOrder
    PROVE  KindInv'
<1> PICK f : f = sent.form
    OBVIOUS
<1>1. UNCHANGED <<form, lookups>> /\ sent' = [sent EXCEPT !.ph = "done"] /\ Ticks
      /\ UNCHANGED serverVars /\ UNCHANGED <<reqs, pageVars>> /\ sent # None
      /\ order' = [carrier |-> f.carrier, asset |-> f.pick.id,
                   rate |-> IF f.rate = 0 THEN LookedUp(f) ELSE f.rate,
                   pick |-> f.pick, now |-> LookedUp(f), crossed |-> f.crossed]
    BY DEF createOrder, Ticks
<1>2. Grows /\ TableInv
    BY <1>1, ScreensStep
<1>3. FormInv(form)' /\ \A l \in lookups' : LookupInv(l)'
    BY <1>1, <1>2, FormStays, LookupStays DEF KindInv, FormsInv
<1>4. sent = [ph |-> sent.ph, form |-> f] /\ FormInv(f) /\ f.carrier # None /\ f.pick # None
    BY <1>1 DEF KindInv, FormsInv
<1>5. sent' = [ph |-> "done", form |-> f] /\ sent'.ph = "done" /\ sent'.form = f
    BY <1>1, <1>4
<1>6. FormInv(sent.form)'
  <2>1. FormInv(f)'
    BY <1>2, <1>4, FormStays
  <2> QED
    BY <1>5, <2>1 DEF FormInv, IsOf, Remembered
<1>7. f.pick \in Picks /\ f.pick.active = TRUE
    BY <1>4 DEF FormInv, Picks
<1>8. f.pick.id # 0 => /\ f.pick.id \in DOMAIN table /\ f.rate = Remembered(f.pick)
                       /\ f.crossed \/ f.carrier = Text \/ table[f.pick.id].carrier = f.carrier
    BY <1>4 DEF FormInv, IsOf
<1>9. table' = table /\ kind' = kind
    BY <1>1 DEF serverVars
<1>10. OrderInv' /\ OrdersFit'
  <2>1. order'.carrier = f.carrier /\ order'.asset = f.pick.id /\ order'.pick = f.pick
        /\ order'.now = LookedUp(f) /\ order'.crossed = f.crossed /\ order'.rate = IF f.rate = 0 THEN LookedUp(f) ELSE f.rate
    BY <1>1
  <2>2. OrderInv'
    BY <1>8, <1>9, <2>1 DEF OrderInv
  <2>3. f.pick.id # 0 /\ kind = "trailer" => order'.rate = 0
    BY <1>8, <2>1 DEF Remembered, LookedUp
  <2>4. f.pick.id # 0 /\ kind # "trailer" =>
            order'.rate = IF order'.pick.rate = 0 THEN order'.now ELSE order'.pick.rate
    BY <1>8, <2>1 DEF Remembered
  <2> QED
    BY <1>7, <1>8, <1>9, <2>1, <2>2, <2>3, <2>4 DEF OrdersFit
<1>11. FormsInv'
    BY <1>3, <1>4, <1>5, <1>6, <1>10 DEF FormsInv
<1> QED
    BY <1>1, <1>11, FormsStep

\* After a success the form is a new one.
LEMMA OrderCreatedKeeps ==
    ASSUME KindInv, OrderCreated
    PROVE  KindInv'
<1>1. sent' = None /\ form' = Blank /\ lookups' = {} /\ order' = order /\ Ticks
      /\ UNCHANGED serverVars /\ UNCHANGED <<reqs, pageVars>>
    BY DEF OrderCreated, Ticks
<1>2. FormInv(Blank)
    BY DEF FormInv, Blank, Rates
<1>3. FormInv(form)'
    BY <1>1, <1>2, FormNow
<1> QED
    BY <1>1, <1>3, FormsBecome

\* The steps of the create form.
LEMMA CreateFormKeeps ==
    ASSUME KindInv, CreateForm
    PROVE  KindInv'
<1>1. CASE \E c \in Carriers : onCarrierSelected(c)
    BY <1>1, onCarrierSelectedKeeps
<1>2. ASSUME NEW l \in lookups, LookupFails(l) PROVE KindInv'
  <2>1. UNCHANGED <<form, sent, order>> /\ lookups' \subseteq lookups /\ Ticks
        /\ UNCHANGED serverVars /\ UNCHANGED <<reqs, pageVars>>
    BY <1>2 DEF LookupFails, Ticks
  <2> QED
    BY <2>1, FormsBecome
<1>3. CASE \E l \in lookups : getCarrierAssets(l) \/ AssetsOffered(l)
    BY <1>3, getCarrierAssetsKeeps, AssetsOfferedKeeps
<1>4. CASE \E a \in form.offered : onTruckSelected(a) \/ onTrailerSelected(a) \/ onDriverSelected(a)
    BY <1>4, onSelectedKeeps DEF onTruckSelected, onTrailerSelected, onDriverSelected
<1>5. CASE TypesText \/ onSubmit \/ createOrder \/ OrderCreated
    BY <1>5, TypesTextKeeps, onSubmitKeeps, createOrderKeeps, OrderCreatedKeeps
<1>6. CASE OrderFails
  <2>1. UNCHANGED <<form, lookups, order>> /\ sent' = None /\ Ticks
        /\ UNCHANGED serverVars /\ UNCHANGED <<reqs, pageVars>>
    BY <1>6 DEF OrderFails, Ticks
  <2> QED
    BY <2>1, FormsBecome
<1> QED
    BY <1>1, <1>2, <1>3, <1>4, <1>5, <1>6 DEF CreateForm

-----------------------------------------------------------------------------
(* The other tab of the page *)

\* Its requests stay right at a step that leaves them alone: either none of them
\* holds the saving flag, or the flag stays and nobody else claims it.
LEMMA BesideKept ==
    ASSUME TabInv, FlagInv, UNCHANGED <<beside, kind>>,
           \/ \A r \in beside : ~r.ends
           \/ /\ saving' = saving
              /\ \A l \in loads' : l.ends => \E m \in loads : m.ends
              /\ \A h \in reqs' : Save(h) => \E g \in reqs : Save(g)
    PROVE  TabInv' /\ FlagInv'
<1>1. TabInv'
    BY DEF TabInv
<1>2. ASSUME NEW r \in beside, r.ends
      PROVE  /\ saving' /\ \A q \in beside : q.ends => q = r
             /\ (\A l \in loads' : ~l.ends) /\ \A h \in reqs' : ~Save(h)
    BY <1>2 DEF FlagInv
<1> QED
    BY <1>1, <1>2 DEF FlagInv, Save

\* A step that leaves the page alone.
LEMMA BesideStays ==
    ASSUME BesideInv, UNCHANGED <<beside, kind, saving, loads, loading>>,
           \A h \in reqs' : Save(h) => \E g \in reqs : Save(g)
    PROVE  BesideInv'
<1>1. TabInv' /\ FlagInv'
    BY BesideKept DEF BesideInv
<1>2. AwaitedInv'
    BY DEF BesideInv, AwaitedInv
<1> QED
    BY <1>1, <1>2 DEF BesideInv

\* A handler's request stays a save, or none.
LEMMA ServeBeside ==
    ASSUME KindInv, BesideInv, NEW h \in reqs, Serve(h)
    PROVE  BesideInv'
<1>1. h \in RequestType
    BY RequestIs
<1>2. UNCHANGED pageVars
    BY DEF Serve, createTruck, createTrailer, updateTruck, updateTrailer, updateUser, setTruckActive,
           setTrailerActive, deactivateUser, reactivateUser, Creates, Changes
<1>3. kind' = kind
    BY DEF Serve, createTruck, createTrailer, updateTruck, updateTrailer, updateUser, setTruckActive,
           setTrailerActive, deactivateUser, reactivateUser, Creates, Changes, Writes, serverVars
<1>4. PICK k : (\A g \in reqs' : g \in reqs \/ g = k) /\ k.from = h.from /\ k.op = h.op
  <2>1. ASSUME NEW ph, Goes(h, ph)
        PROVE  \E k : (\A g \in reqs' : g \in reqs \/ g = k) /\ k.from = h.from /\ k.op = h.op
    <3> PICK k : k = [h EXCEPT !.ph = ph]
        OBVIOUS
    <3>1. k.from = h.from /\ k.op = h.op
        BY <1>1 DEF RequestType
    <3> QED
        BY <2>1, <3>1 DEF Goes
  <2>2. ASSUME NEW ph, NEW field \in {"vin", "plate"}, Checked(h, ph, field)
        PROVE  \E k : (\A g \in reqs' : g \in reqs \/ g = k) /\ k.from = h.from /\ k.op = h.op
    <3> PICK k : k = [h EXCEPT !.ph = ph, !.checked[field] = first]
        OBVIOUS
    <3>1. k.from = h.from /\ k.op = h.op
        BY <1>1 DEF RequestType
    <3> QED
        BY <2>2, <3>1 DEF Checked
  <2>3. ASSUME reqs' = (reqs \ {h}) \cup (IF h.from = 0 THEN {}
                                           ELSE {[h EXCEPT !.ph = "done", !.at = writes + 1]})
        PROVE  \E k : (\A g \in reqs' : g \in reqs \/ g = k) /\ k.from = h.from /\ k.op = h.op
    <3> PICK k : k = [h EXCEPT !.ph = "done", !.at = writes + 1]
        OBVIOUS
    <3>1. k.from = h.from /\ k.op = h.op
        BY <1>1 DEF RequestType
    <3> QED
        BY <2>3, <3>1
  <2>4. CASE Creates(h)
    BY <2>1, <2>2, <2>3, <2>4 DEF Creates, CheckVin, CheckPlate, Put
  <2>5. ASSUME NEW op, NEW a, Changes(h, op, a)
        PROVE  \E k : (\A g \in reqs' : g \in reqs \/ g = k) /\ k.from = h.from /\ k.op = h.op
    BY <2>1, <2>3, <2>5 DEF Changes, getById, Writes
  <2> QED
    BY <2>4, <2>5
       DEF Serve, createTruck, createTrailer, updateTruck, updateTrailer, updateUser, setTruckActive,
           setTrailerActive, deactivateUser, reactivateUser
<1>5. \A g \in reqs' : Save(g) => \E f \in reqs : Save(f)
    BY <1>4 DEF Save
<1> QED
    BY <1>2, <1>3, <1>5, BesideStays DEF pageVars, shown

\* Another session's request is no save of this page.
LEMMA OtherAsksBeside ==
    ASSUME BesideInv, OtherAsks
    PROVE  BesideInv'
<1>1. UNCHANGED <<serverVars, pageVars>>
    BY DEF OtherAsks
<1>2. \A g \in reqs' : g \in reqs \/ g.from = 0
    BY DEF OtherAsks, Request
<1> QED
    BY <1>1, <1>2, BesideStays DEF pageVars, shown, serverVars, Save

\* The create form knows nothing of the page.
LEMMA CreateFormBeside ==
    ASSUME BesideInv, CreateForm
    PROVE  BesideInv'
<1>1. UNCHANGED <<serverVars, reqs, pageVars>>
    BY DEF CreateForm, onCarrierSelected, getCarrierAssets, AssetsOffered, LookupFails, onTruckSelected,
           onTrailerSelected, onDriverSelected, onSelected, TypesText, onSubmit, createOrder, OrderCreated,
           OrderFails
<1> QED
    BY <1>1, BesideStays DEF pageVars, shown, serverVars

\* A load starts, for which no save waits, or whose save has just been answered.
LEMMA LoadStartsBeside ==
    ASSUME BesideInv, UNCHANGED <<beside, kind>>, NEW id, NEW under, NEW ends, LoadStarts(Load(id, under, ends)),
           \/ \A r \in beside : ~r.ends
           \/ saving' = saving /\ ends = FALSE /\ \A h \in reqs' : Save(h) => \E g \in reqs : Save(g)
    PROVE  BesideInv'
<1> PICK l : l = Load(id, under, ends)
    OBVIOUS
<1>1. loads' = loads \cup {l} /\ l.ends = ends /\ l.id = id
    BY DEF LoadStarts, Load
<1>2. TabInv' /\ FlagInv'
    BY <1>1, BesideKept DEF BesideInv
<1>3. AwaitedInv'
    BY <1>1 DEF BesideInv, AwaitedInv, LoadStarts
<1> QED
    BY <1>2, <1>3 DEF BesideInv

\* A load ends: if a save waited for it, then none of the other tab is under way.
LEMMA LoadEndsBeside ==
    ASSUME KindInv, BesideInv, UNCHANGED <<beside, kind, reqs>>, NEW l \in loads, NEW fails, LoadEnds(l, fails)
    PROVE  BesideInv'
<1>1. loads' = loads \ {l} /\ saving' = (saving /\ ~l.ends) /\ l.ends \in BOOLEAN /\ saving \in BOOLEAN
    BY DEF LoadEnds, KindInv, ListInv, LoadInv, SavingInv
<1>2. (\A r \in beside : ~r.ends) \/ saving' = saving
  <2>1. CASE l.ends
    BY <2>1 DEF BesideInv, FlagInv
  <2>2. CASE ~l.ends
    BY <1>1, <2>2
  <2> QED
    BY <2>1, <2>2
<1>3. TabInv' /\ FlagInv'
    BY <1>1, <1>2, BesideKept DEF BesideInv
<1>4. AwaitedInv'
    BY <1>1 DEF BesideInv, AwaitedInv, LoadEnds
<1> QED
    BY <1>3, <1>4 DEF BesideInv

\* An answer to a save, and a failure of one, find no save of the other tab.
LEMMA AnsweredBeside ==
    ASSUME KindInv, BesideInv, NEW h \in reqs, Answered(h)
    PROVE  BesideInv'
<1>1. UNCHANGED <<serverVars, beside>> /\ reqs' = reqs \ {h} /\ h.ph = "done"
    BY DEF Answered
<1>2. kind' = kind /\ h.from # 0
    BY <1>1 DEF serverVars, KindInv, ReqsInv, ReqInv
<1>3. CASE h.op = "switch"
  <2>1. LoadStarts(Load(<<h.id, "answer">>, SearchSent, FALSE)) /\ saving' = saving
    BY <1>3 DEF Answered, SwitchDone, Reload
  <2> QED
    BY <1>1, <1>2, <2>1, LoadStartsBeside
<1>4. CASE h.op # "switch"
  <2>1. \A r \in beside : ~r.ends
    BY <1>2, <1>4 DEF BesideInv, FlagInv, Save
  <2>2. CASE kind = "driver" /\ h.from # dialog.id
    <3>1. UNCHANGED <<saving, loads, loading>>
        BY <1>4, <2>2 DEF Answered, SaveDone
    <3> QED
        BY <1>1, <1>2, <3>1, BesideStays
  <2>3. CASE ~(kind = "driver" /\ h.from # dialog.id)
    <3>1. LoadStarts(Load(<<h.id, "answer">>, SearchSent, kind # "driver"))
        BY <1>4, <2>3 DEF Answered, SaveDone, Reload
    <3> QED
        BY <1>1, <1>2, <2>1, <3>1, LoadStartsBeside
  <2> QED
    BY <2>2, <2>3
<1> QED
    BY <1>3, <1>4
LEMMA FailedBeside ==
    ASSUME KindInv, BesideInv, NEW h \in reqs, Failed(h)
    PROVE  BesideInv'
<1>1. UNCHANGED <<serverVars, beside, loads, loading>> /\ reqs' = reqs \ {h} /\ h.from # 0
      /\ saving' = (saving /\ (h.op = "switch" \/ (kind = "driver" /\ h.from # dialog.id)))
    BY DEF Failed, shown
<1>2. kind' = kind /\ saving \in BOOLEAN
    BY <1>1 DEF serverVars, KindInv, SavingInv
<1>3. (\A r \in beside : ~r.ends) \/ saving' = saving
  <2>1. CASE h.op = "switch"
    BY <1>1, <1>2, <2>1
  <2>2. CASE h.op # "switch"
    BY <1>1, <2>2 DEF BesideInv, FlagInv, Save
  <2> QED
    BY <2>1, <2>2
<1>4. TabInv' /\ FlagInv'
    BY <1>1, <1>2, <1>3, BesideKept DEF BesideInv
<1>5. AwaitedInv'
    BY <1>1, <1>2 DEF BesideInv, AwaitedInv
<1> QED
    BY <1>4, <1>5 DEF BesideInv

\* The steps of this tab, or of the drivers' or the users' page.
LEMMA PageBeside ==
    ASSUME KindInv, BesideInv, Page
    PROVE  BesideInv'
<1>1. CASE loadAllAssets \/ loadTrucks \/ loadTrailers \/ loadUsers
  <2>1. Asks
    BY <1>1 DEF loadAllAssets, loadTrucks, loadTrailers, loadUsers, onRetry
  <2>2. UNCHANGED <<beside, kind, reqs, saving>> /\ LoadStarts(Load(<<ops, "page">>, SearchSent, FALSE))
    BY <2>1 DEF Asks, serverVars
  <2> QED
    BY <2>2, LoadStartsBeside
<1>2. ASSUME NEW d, Opens(d) PROVE BesideInv'
    BY <1>2, BesideStays DEF Opens, shown, serverVars
<1>3. CASE openCreateTruckDialog \/ openCreateTrailerDialog
    BY <1>2, <1>3 DEF openCreateTruckDialog, openCreateTrailerDialog
<1>4. CASE \E i \in Shown : editTruck(i) \/ editTrailer(i) \/ editDriver(i) \/ editUser(i)
    BY <1>2, <1>4 DEF editTruck, editTrailer, editDriver, editUser
<1>5. CASE TypesIn
    BY <1>5, BesideStays DEF TypesIn, shown, serverVars
<1>6. CASE CloseDialog
  <2>1. UNCHANGED <<beside, kind, reqs, loads, loading>> /\ saving' = (saving /\ kind # "driver") /\ saving \in BOOLEAN
    BY <1>6 DEF CloseDialog, shown, serverVars, KindInv, SavingInv
  <2>2. (\A r \in beside : ~r.ends) \/ saving' = saving
    <3>1. CASE kind = "driver"
        BY <3>1 DEF BesideInv, TabInv
    <3>2. CASE kind # "driver"
        BY <2>1, <3>2
    <3> QED
        BY <3>1, <3>2
  <2>3. TabInv' /\ FlagInv'
    BY <2>1, <2>2, BesideKept DEF BesideInv
  <2> QED
    BY <2>1, <2>3 DEF BesideInv, AwaitedInv
<1>7. CASE saveTruck \/ saveTrailer \/ saveUser \/ onSave
  <2>1. Saves
    BY <1>7 DEF saveTruck, saveTrailer, saveUser, onSave
  <2>2. UNCHANGED <<beside, kind, loads, loading>> /\ ~saving
    BY <2>1 DEF Saves, shown, serverVars
  <2>3. TabInv' /\ FlagInv'
    BY <2>2, BesideKept DEF BesideInv, FlagInv
  <2> QED
    BY <2>2, <2>3 DEF BesideInv, AwaitedInv
<1>8. CASE toggleTruckStatus \/ toggleTrailerStatus \/ toggleDriverStatus \/ toggleUserStatus
  <2>1. CASE \E i \in Shown : Confirms(i)
    BY <1>2, <2>1 DEF Confirms
  <2>2. CASE SwitchConfirmed
    <3>1. UNCHANGED <<beside, kind, saving, loads, loading>>
        BY <2>2 DEF SwitchConfirmed, shown, serverVars
    <3>2. \A g \in reqs' : g \in reqs \/ ~Save(g)
        BY <2>2 DEF SwitchConfirmed, Request, Save
    <3> QED
        BY <3>1, <3>2, BesideStays
  <2> QED
    BY <1>8, <2>1, <2>2 DEF toggleTruckStatus, toggleTrailerStatus, toggleDriverStatus, toggleUserStatus
<1>9. CASE \E s \in {None, 1} : onSearchChange(s)
    BY <1>9, BesideStays DEF onSearchChange, serverVars
<1>10. ASSUME NEW l \in loads, ReadList(l) PROVE BesideInv'
  <2> PICK copy : copy = [i \in Matching(Own, l.under) |-> Row(i)]
    OBVIOUS
  <2> PICK m : m = [l EXCEPT !.ph = "read", !.at = writes, !.copy = copy]
    OBVIOUS
  <2>1. m.ends = l.ends /\ m.id = l.id
    BY DEF KindInv, ListInv, LoadInv
  <2>2. UNCHANGED <<beside, kind, reqs, saving, loading>> /\ loads' = (loads \ {l}) \cup {m}
    BY <1>10 DEF ReadList, shown, serverVars
  <2>3. TabInv' /\ FlagInv'
    BY <2>1, <2>2, BesideKept DEF BesideInv
  <2> QED
    BY <2>1, <2>2, <2>3 DEF BesideInv, AwaitedInv
<1>11. ASSUME NEW l \in loads, ListArrives(l) \/ ListFails(l) PROVE BesideInv'
  <2>1. UNCHANGED <<beside, kind, reqs>> /\ (LoadEnds(l, FALSE) \/ LoadEnds(l, TRUE))
    BY <1>11 DEF ListArrives, ListFails, serverVars
  <2> QED
    BY <2>1, LoadEndsBeside
<1>12. CASE \E h \in reqs : Answered(h) \/ Failed(h)
    BY <1>12, AnsweredBeside, FailedBeside
<1> QED
    BY <1>1, <1>3, <1>4, <1>5, <1>6, <1>7, <1>8, <1>9, <1>10, <1>11, <1>12 DEF Page

\* A step of the other tab that leaves the saving flag right.
LEMMA TabStep ==
    ASSUME KindInv, UNCHANGED <<serverVars, reqs, list, search, dialog, loads, told, formVars>>, Ticks,
           loading' \in BOOLEAN \cup {None}, error' \in BOOLEAN, SavingInv'
    PROVE  KindInv'
<1>1. /\ Grows /\ TableInv' /\ TableInv
      /\ ops \in Nat /\ ops' \in Nat /\ ops <= ops' /\ writes' = writes /\ writes \in Nat
    BY ScreensStep
<1>2. ReqsInv' /\ WriteBound'
    BY OthersStay
<1>3. ListInv'
  <2>1. Readable(list.copy, list.at)' /\ (list = Unloaded \/ CopyIs(list.copy, list.at, list.under))'
    BY <1>1, CopyStays DEF KindInv, ListInv
  <2>2. \A l \in loads' : LoadInv(l)'
    BY <1>1, LoadStays DEF KindInv, ListInv
  <2>3. told' \in [at: 0..writes', excused: BOOLEAN] /\ OwnChangesAreShown'
    BY <1>1 DEF KindInv, ListInv, OwnChangesAreShown
  <2> QED
    BY <2>1, <2>2, <2>3 DEF KindInv, ListInv
<1>4. DialogInv' /\ FormsInv'
    BY <1>1, DialogStays, FormsStay DEF KindInv
<1> QED
    BY <1>1, <1>2, <1>3, <1>4 DEF KindInv

\* The end of one of its requests ends the loading, too, or another load goes on.
LEMMA TabsLoad ==
    ASSUME BesideInv, NEW r \in beside, NEW fails, TabEnds(r, fails)
    PROVE  AwaitedInv'
<1>1. kind' = kind /\ loads' = loads /\ beside' = beside \ {r} /\ kind # "driver"
    BY DEF TabEnds, serverVars, BesideInv, TabInv
<1>2. CASE r.ph = "load"
    BY <1>2 DEF TabEnds, AwaitedInv
<1>3. CASE r.ph # "load"
    BY <1>1, <1>3 DEF TabEnds, AwaitedInv, BesideInv
<1> QED
    BY <1>2, <1>3

\* The other tab's steps: it takes the flag only when it is free, and gives back its
\* own.
LEMMA TabsKeep ==
    ASSUME KindInv, BesideInv, Beside
    PROVE  KindInv' /\ BesideInv'
<1>1. error \in BOOLEAN /\ loading \in BOOLEAN \cup {None} /\ saving \in BOOLEAN
    BY DEF KindInv, ListInv, SavingInv
<1>2. ASSUME NEW r, r = TabRequest("load", FALSE) \/ r = TabRequest("asked", FALSE), r.ph = "load" \/ loading' = loading,
             beside' = beside \cup {r}, UNCHANGED <<kind, reqs, saving, loads>>, kind \in {"truck", "trailer"}
      PROVE  BesideInv'
  <2>1. r.ends = FALSE /\ r.ph \in {"load", "asked"} /\ r = [id |-> r.id, ph |-> r.ph, ends |-> r.ends]
    BY <1>2 DEF TabRequest
  <2> QED
    BY <1>2, <2>1 DEF BesideInv, TabInv, FlagInv, AwaitedInv, Save
<1>3. CASE TabRetries
  <2>1. UNCHANGED <<serverVars, reqs, list, search, dialog, saving, loads, told, formVars>> /\ Ticks
        /\ loading' = TRUE /\ error' = FALSE /\ kind \in {"truck", "trailer"}
        /\ beside' = beside \cup {TabRequest("load", FALSE)}
    BY <1>3 DEF TabRetries, OtherTab, Ticks
  <2>2. SavingInv'
    BY <2>1 DEF KindInv, SavingInv, serverVars
  <2>3. BesideInv'
    <3> PICK r : r = TabRequest("load", FALSE)
        OBVIOUS
    <3>1. r.ph = "load"
        BY DEF TabRequest
    <3> QED
        BY <1>2, <2>1, <3>1 DEF serverVars
  <2> QED
    BY <1>1, <2>1, <2>2, <2>3, TabStep
<1>4. CASE TabSwitches
  <2>1. UNCHANGED <<serverVars, reqs, shown, dialog, saving, loads, told, formVars>> /\ Ticks
        /\ kind \in {"truck", "trailer"} /\ beside' = beside \cup {TabRequest("asked", FALSE)}
    BY <1>4 DEF TabSwitches, OtherTab, Ticks
  <2>2. SavingInv'
    BY <2>1 DEF KindInv, SavingInv, serverVars
  <2>3. BesideInv'
    BY <1>2, <2>1 DEF serverVars, shown
  <2> QED
    BY <1>1, <2>1, <2>2, <2>3, TabStep DEF shown
<1>5. CASE TabSaves
  <2> PICK r : r = TabRequest("asked", TRUE)
    OBVIOUS
  <2>1. UNCHANGED <<serverVars, reqs, shown, dialog, loads, told, formVars>> /\ Ticks /\ ~saving /\ saving' = TRUE
        /\ kind \in {"truck", "trailer"} /\ beside' = beside \cup {r}
    BY <1>5 DEF TabSaves, OtherTab, Ticks
  <2>2. r.ends = TRUE /\ r.ph = "asked" /\ r = [id |-> r.id, ph |-> r.ph, ends |-> r.ends]
    BY DEF TabRequest
  <2>3. (\A h \in reqs : ~Save(h)) /\ (\A l \in loads : ~l.ends) /\ \A q \in beside : ~q.ends
    BY <2>1 DEF KindInv, SavingInv, BesideInv, FlagInv
  <2>4. SavingInv'
    BY <2>1, <2>3 DEF SavingInv, serverVars, Save
  <2>5. TabInv' /\ FlagInv'
    BY <2>1, <2>2, <2>3 DEF BesideInv, TabInv, FlagInv, serverVars, Save
  <2>6. AwaitedInv'
    BY <2>1 DEF BesideInv, AwaitedInv, serverVars, shown
  <2> QED
    BY <1>1, <2>1, <2>4, <2>5, <2>6, TabStep DEF shown, BesideInv
<1>6. ASSUME NEW r \in beside, TabAnswered(r) PROVE KindInv' /\ BesideInv'
  <2> PICK q : q = [r EXCEPT !.ph = "load"]
    OBVIOUS
  <2>1. UNCHANGED <<serverVars, reqs, list, search, dialog, saving, loads, told, formVars, ops>> /\ Ticks
        /\ loading' = TRUE /\ error' = FALSE /\ beside' = (beside \ {r}) \cup {q}
    BY <1>6 DEF TabAnswered, Ticks
  <2>2. q.ph = "load" /\ q.ends = r.ends /\ q = [id |-> q.id, ph |-> q.ph, ends |-> q.ends] /\ q.ends \in BOOLEAN
        /\ kind \in {"truck", "trailer"}
    BY DEF BesideInv, TabInv
  <2>3. SavingInv'
    BY <2>1 DEF KindInv, SavingInv, serverVars
  <2>4. TabInv'
    BY <2>1, <2>2 DEF BesideInv, TabInv, serverVars
  <2>5. FlagInv'
    BY <2>1, <2>2 DEF BesideInv, FlagInv, Save
  <2>6. AwaitedInv'
    BY <2>1, <2>2 DEF AwaitedInv, serverVars
  <2> QED
    BY <1>1, <2>1, <2>3, <2>4, <2>5, <2>6, TabStep DEF BesideInv
<1>7. ASSUME NEW r \in beside, NEW fails \in BOOLEAN, TabEnds(r, fails), Ticks PROVE KindInv' /\ BesideInv'
  <2>1. UNCHANGED <<serverVars, reqs, list, search, dialog, loads, told, formVars>>
        /\ beside' = beside \ {r} /\ saving' = (saving /\ ~r.ends) /\ kind' = kind
    BY <1>7 DEF TabEnds, serverVars
  <2>2. kind \in {"truck", "trailer"} /\ r.ends \in BOOLEAN /\ r.ph \in {"asked", "load"}
    BY DEF BesideInv, TabInv
  <2>3. loading' \in BOOLEAN \cup {None} /\ error' \in BOOLEAN
    BY <1>1, <1>7 DEF TabEnds
  <2>4. saving' \in BOOLEAN /\ (saving' <=> saving /\ ~r.ends)
    BY <2>1, Zenon
  <2>5. CASE r.ends
    <3>1. (\A h \in reqs : ~Save(h)) /\ (\A l \in loads : ~l.ends) /\ \A q \in beside' : ~q.ends
        BY <2>1, <2>5 DEF BesideInv, FlagInv
    <3>2. SavingInv'
        BY <2>1, <2>2, <2>4, <3>1 DEF SavingInv, Save
    <3>3. TabInv' /\ FlagInv'
        BY <2>1, <2>2, <3>1 DEF BesideInv, TabInv, FlagInv
    <3> QED
        BY <1>7, <2>1, <2>3, <3>2, <3>3, TabStep, TabsLoad DEF BesideInv
  <2>6. CASE ~r.ends
    <3>1. saving' = saving
        BY <1>1, <2>1, <2>6
    <3>2. SavingInv'
        BY <2>1, <3>1 DEF KindInv, SavingInv, Save
    <3>3. TabInv' /\ FlagInv'
        BY <2>1, <2>2, <3>1 DEF BesideInv, TabInv, FlagInv, Save
    <3> QED
        BY <1>7, <2>1, <2>3, <3>2, <3>3, TabStep, TabsLoad DEF BesideInv
  <2> QED
    BY <2>2, <2>5, <2>6
<1>8. ASSUME NEW r \in beside, TabLoaded(r) \/ TabFails(r) PROVE KindInv' /\ BesideInv'
  <2>1. Ticks /\ (TabEnds(r, FALSE) \/ TabEnds(r, TRUE))
    BY <1>8 DEF TabLoaded, TabFails, Ticks
  <2> QED
    BY <1>7, <2>1
<1> QED
    BY <1>3, <1>4, <1>5, <1>6, <1>8 DEF Beside

-----------------------------------------------------------------------------
(* The theorems *)

\* Before the first step there are two assets, one of each carrier, and no copy.
LEMMA FleetInitIsRight ==
    ASSUME FleetInit
    PROVE  FleetInv
<1> USE DEF FleetInit
<1>1. TableInv
  <2> PICK a : a = NewAsset(Mine, 1, 1, 1, Unchecked)
    OBVIOUS
  <2> PICK b : b = NewAsset(Theirs, 2, 2, 0, Unchecked)
    OBVIOUS
  <2>1. a \in Assets /\ b \in Assets /\ a.checked.vin = 0 /\ a.checked.plate = 0 /\ b.checked.vin = 0
        /\ b.checked.plate = 0
    BY DEF NewAsset, Unchecked, Assets, Carriers, Rates
  <2>2. table = <<a, b>>
    OBVIOUS
  <2>3. table \in Seq(Assets) /\ DOMAIN table = {1, 2} /\ table[1] = a /\ table[2] = b
    BY <2>1, <2>2
  <2>4. \A j \in DOMAIN table : Met(table[j].checked.vin, "vin", table[j].vin)
                                /\ Met(table[j].checked.plate, "plate", table[j].plate)
    BY <2>1, <2>3 DEF Met
  <2>5. ops \in 0..cast.ops
    BY CastsAssumption
  <2> QED
    BY <2>3, <2>4, <2>5 DEF TableInv
<1>2. ReqsInv
    BY DEF ReqsInv
<1>3. WriteBound
  <2>1. Pending = {}
    BY DEF Pending, WaitingOf, UndecidedOf, Closed
  <2>2. Cardinality({}) = 0
    BY FS_EmptySet
  <2>3. Cardinality(Pending) = 0
    BY <2>1, <2>2
  <2> QED
    BY <2>3 DEF WriteBound
<1>4. SavingInv
    BY DEF SavingInv
<1>5. DialogInv
  <2>1. dialog.st = "closed" /\ dialog.id = 0
        /\ dialog \in [st: {"closed"}, id: Nat, asset: Nat, typed: Nat \X Nat, rate: Rates, on: BOOLEAN]
    BY ClosedType DEF Closed
  <2> QED
    BY <2>1 DEF DialogInv
<1>6. ListInv
  <2>1. list.copy = <<>> /\ list.at = 0 /\ list.under = None
        /\ list = [copy |-> list.copy, at |-> list.at, under |-> list.under]
    BY DEF Unloaded
  <2>2. DOMAIN << >> = {}
    OBVIOUS
  <2>3. Readable(list.copy, list.at)
    BY <2>1, <2>2 DEF Readable
  <2>4. told \in [at: 0..writes, excused: BOOLEAN] /\ told.at = 0
    OBVIOUS
  <2>5. OwnChangesAreShown
    BY <2>1, <2>4 DEF OwnChangesAreShown
  <2>6. list = Unloaded /\ (\A l \in loads : LoadInv(l)) /\ loading \in BOOLEAN \cup {None} /\ error \in BOOLEAN
    OBVIOUS
  <2> HIDE DEF FleetInit
  <2> QED
    BY <2>1, <2>3, <2>4, <2>5, <2>6 DEF ListInv
<1>7. FormsInv
  <2>1. FormInv(Blank)
    BY DEF FormInv, Blank, Rates
  <2> QED
    BY <2>1 DEF FormsInv, OrderInv, OrdersFit
<1>8. BesideInv
    BY CarriersAssumption DEF BesideInv, TabInv, FlagInv, AwaitedInv
<1> QED
    BY <1>1, <1>2, <1>3, <1>4, <1>5, <1>6, <1>7, <1>8 DEF KindInv, FleetInv

\* A step of nobody.
LEMMA FleetStuttering ==
    ASSUME KindInv, UNCHANGED fleetVars
    PROVE  KindInv'
<1>1. UNCHANGED serverVars /\ UNCHANGED <<reqs, pageVars>> /\ UNCHANGED formVars /\ Ticks
    BY DEF fleetVars, Ticks
<1>2. UNCHANGED <<form, lookups, sent, order>>
    BY <1>1 DEF formVars
<1> QED
    BY <1>1, <1>2, FormsBecome

\* The invariant holds at first, and no step of a handler, of another session,
\* of the page, of its other tab or of the create form breaks it.
THEOREM FleetInductive == FleetSpec => []FleetInv
<1>1. FleetInit => FleetInv
    BY FleetInitIsRight
<1>2. FleetInv /\ [FleetNext]_fleetVars => FleetInv'
  <2> SUFFICES ASSUME KindInv, BesideInv, [FleetNext]_fleetVars PROVE KindInv' /\ BesideInv'
    BY DEF FleetInv
  <2>1. CASE \E h \in reqs : Serve(h)
    BY <2>1, ServeKeeps, ServeBeside
  <2>2. CASE OtherAsks
    BY <2>2, OtherAsksKeeps, OtherAsksBeside
  <2>3. CASE Page
    BY <2>3, PageKeeps, PageBeside
  <2>4. CASE CreateForm
    BY <2>4, CreateFormKeeps, CreateFormBeside
  <2>5. CASE Beside
    BY <2>5, TabsKeep
  <2>6. CASE UNCHANGED fleetVars
    BY <2>6, FleetStuttering, BesideStays DEF fleetVars, pageVars, shown, serverVars
  <2> QED
    BY <2>1, <2>2, <2>3, <2>4, <2>5, <2>6 DEF FleetNext
<1> QED
    BY <1>1, <1>2, PTL DEF FleetSpec

\* What the invariant says of the table, of the page's list and of the orders.
LEMMA RightFleet ==
    ASSUME FleetInv
    PROVE  FleetIsRight
<1> KindInv /\ BesideInv
    BY DEF FleetInv
<1>1. FleetTypeOK
  <2>1. Cardinality(Pending) \in Nat /\ ops \in Nat /\ writes \in Nat /\ Cardinality(Pending) + writes <= ops
    BY PendingFinite DEF KindInv, WriteBound
  <2>2. cast \in Casts /\ cast.ops \in Nat /\ ops \in 0..cast.ops
    BY CastsAssumption DEF KindInv, TableInv
  <2>3. writes \in 0..cast.ops
    BY <2>1, <2>2
  <2>4. \A i \in DOMAIN table : table[i].carrier \in Carriers /\ table[i].rate \in Rates
    BY FormFields DEF Assets
  <2>5. \A h \in reqs : h.ph \in {"vin", "plate", "put", "read", "write", "done", "refused"}
    BY DEF KindInv, ReqsInv, ReqInv, RequestType
  <2>6. dialog.st \in {"closed", "new", "edit", "confirm"} /\ saving \in BOOLEAN
        /\ loading \in BOOLEAN \cup {None}
    BY DEF KindInv, DialogInv, SavingInv, ListInv
  <2>7. form.carrier \in Carriers \cup {None, Text}
    BY FormFields
  <2>8. \A r \in beside : r.ph \in {"asked", "load"}
    BY DEF BesideInv, TabInv
  <2> QED
    BY <2>2, <2>3, <2>4, <2>5, <2>6, <2>7, <2>8 DEF FleetTypeOK, KindInv, TableInv
<1>2. DuplicatesAreExplained
  <2>1. SUFFICES ASSUME NEW i \in DOMAIN table, NEW j \in DOMAIN table, i < j, ~table[i].edited, ~table[j].edited
        PROVE  /\ table[i].vin = table[j].vin => table[j].checked.vin # i
               /\ table[i].plate = table[j].plate => table[j].checked.plate # i
    BY DEF DuplicatesAreExplained
  <2>2. Met(table[j].checked.vin, "vin", table[j].vin) /\ Met(table[j].checked.plate, "plate", table[j].plate)
    BY <2>1 DEF KindInv, TableInv
  <2>3. i # 0
    BY DEF KindInv, TableInv
  <2> QED
    BY <2>1, <2>2, <2>3 DEF Met
<1>3. OwnChangesAreShown /\ OrdersFit
    BY DEF KindInv, ListInv, FormsInv
<1>4. NobodyIsMissing
  <2>1. SUFFICES ASSUME list.at = writes, list # Unloaded, list.under \in {None, search}
        PROVE  Shown = Matching(Own, search)
    BY DEF NobodyIsMissing
  <2>2. list.copy = [i \in Matching(Own, list.under) |-> Row(i)]
    BY <2>1 DEF KindInv, ListInv, CopyIs
  <2>3. \A i \in DOMAIN Own : Matches(Own[i], search) <=> Matches(Row(i), search)
    BY DEF Matches, Own, Row
  <2>4. DOMAIN list.copy = Matching(Own, list.under) /\ \A i \in DOMAIN list.copy : list.copy[i] = Row(i)
    BY <2>2
  <2>5. Matching(Own, search) \subseteq Matching(Own, list.under)
    BY <2>1 DEF Matching, Matches
  <2>6. Shown = { i \in Matching(Own, list.under) : Matches(Row(i), search) }
    BY <2>4 DEF Shown, Matching
  <2> QED
    BY <2>3, <2>5, <2>6 DEF Matching
<1>5. LoadingIsAwaited
    BY DEF LoadingIsAwaited, BesideInv, AwaitedInv
<1> QED
    BY <1>1, <1>2, <1>3, <1>4, <1>5 DEF FleetIsRight

\* Unedited assets share a VIN or a plate only if the check of the younger one
\* did not meet the older; the page's list has the own changes it heard of, or it
\* is known why not, and one of the last write misses nobody; an order has an
\* active asset of its carrier with the rate that was offered or is stored, but
\* where text was typed or an answer for another carrier came in between.
THEOREM FleetStaysRight == FleetSpec => []FleetIsRight
<1>1. FleetInv => FleetIsRight
    BY RightFleet
<1> QED
    BY <1>1, FleetInductive, PTL

-----------------------------------------------------------------------------
\* Only a handler's write changes an asset, and its request is done with it.
LEMMA OwnChange ==
    ASSUME KindInv, NEW h \in reqs, Serve(h), NEW i \in DOMAIN table, table'[i] # table[i]
    PROVE  /\ table'[i].carrier = table[i].carrier
           /\ \E g \in reqs \ reqs' : g.asset = i /\ g.by = table[i].carrier
<1>1. CASE Creates(h)
  <2>1. CASE UNCHANGED serverVars
    BY <2>1 DEF serverVars
  <2>2. CASE Put(h)
    BY <2>2, RequestIs DEF Put
  <2> QED
    BY <1>1, <2>1, <2>2 DEF Creates
<1>2. ASSUME NEW op \in {"update", "switch"}, NEW a, Changes(h, op, a),
             h.asset \in DOMAIN table => a.carrier = table[h.asset].carrier
      PROVE  /\ table'[i].carrier = table[i].carrier
             /\ \E g \in reqs \ reqs' : g.asset = i /\ g.by = table[i].carrier
  <2>1. h.op = op /\ h.op # "create"
    BY <1>2 DEF Changes
  <2>2. CASE UNCHANGED serverVars
    BY <2>2 DEF serverVars
  <2>3. CASE h.ph = "write" /\ Writes(h, a)
    <3>1. h.asset \in DOMAIN table /\ table[h.asset].carrier = h.by
        BY <2>1, <2>3, RequestIs DEF ReqInv
    <3>2. table' = [table EXCEPT ![h.asset] = a]
        BY <2>3 DEF Writes
    <3>3. i = h.asset /\ table'[i] = a
        BY <3>1, <3>2
    <3> PICK n : n = writes + 1
        OBVIOUS
    <3> PICK k : k = [h EXCEPT !.ph = "done", !.at = n]
        OBVIOUS
    <3>4. reqs' \subseteq (reqs \ {h}) \cup {k}
        BY <2>3 DEF Writes
    <3>5. h \in RequestType
        BY RequestIs
    <3>6. k.ph = "done"
        BY <3>5 DEF RequestType
    <3>7. h \notin reqs'
        BY <2>3, <3>4, <3>6
    <3> QED
        BY <1>2, <3>1, <3>3, <3>7
  <2> QED
    BY <1>2, <2>2, <2>3 DEF Changes
<1>3. CASE Changes(h, "update", Renamed(h))
    BY <1>2, <1>3, ChangedIs
<1>4. CASE Changes(h, "switch", Switched(h))
    BY <1>2, <1>4, ChangedIs
<1>5. CASE Changes(h, "update", [table[h.asset] EXCEPT !.rate = h.rate])
    BY <1>2, <1>5, ChangedIs
<1> QED
    BY <1>1, <1>3, <1>4, <1>5
       DEF Serve, createTruck, createTrailer, updateTruck, updateTrailer, updateUser, setTruckActive,
           setTrailerActive, deactivateUser, reactivateUser

\* No other step writes.
LEMMA TableUntouched ==
    ASSUME FleetNext, ~\E h \in reqs : Serve(h)
    PROVE  UNCHANGED serverVars
<1>1. CASE OtherAsks
    BY <1>1 DEF OtherAsks
<1>2. CASE CreateForm
    BY <1>2 DEF CreateForm, onCarrierSelected, getCarrierAssets, AssetsOffered, LookupFails, onTruckSelected,
                onTrailerSelected, onDriverSelected, onSelected, TypesText, onSubmit, createOrder, OrderCreated,
                OrderFails
<1>3. CASE Page
    BY <1>3 DEF Page, loadAllAssets, loadTrucks, loadTrailers, loadUsers, onRetry, Asks, openCreateTruckDialog,
                openCreateTrailerDialog, editTruck, editTrailer, editDriver, editUser, Opens, TypesIn,
                CloseDialog, saveTruck, saveTrailer, saveUser, onSave, Saves, toggleTruckStatus,
                toggleTrailerStatus, toggleDriverStatus, toggleUserStatus, SwitchConfirmed, Confirms,
                onSearchChange, ReadList, ListArrives, ListFails, Answered, Failed
<1>4. CASE Beside
    BY <1>4 DEF Beside, TabRetries, TabSwitches, TabSaves, TabAnswered, TabLoaded, TabFails, TabEnds
<1> QED
    BY <1>1, <1>2, <1>3, <1>4 DEF FleetNext

\* Only a request of its own carrier changes an asset, which stays that
\* carrier's: between the check and the write of a handler nobody can take it over.
THEOREM OwnOnly == FleetSpec => OnlyOwnAreChanged
<1> DEFINE Step == \A i \in DOMAIN table : table'[i] # table[i] =>
          /\ table'[i].carrier = table[i].carrier
          /\ \E h \in reqs \ reqs' : h.asset = i /\ h.by = table[i].carrier
<1>1. FleetInv /\ [FleetNext]_fleetVars => [Step]_fleetVars
  <2> SUFFICES ASSUME KindInv, FleetNext PROVE Step
    BY DEF FleetInv
  <2>1. CASE \E h \in reqs : Serve(h)
    BY <2>1, OwnChange
  <2>2. CASE ~\E h \in reqs : Serve(h)
    BY <2>2, TableUntouched DEF serverVars
  <2> QED
    BY <2>1, <2>2
<1> QED
    BY <1>1, FleetInductive, PTL DEF FleetSpec, OnlyOwnAreChanged

\* The steps that may take a dialog away.
LEMMA DialogTaken ==
    ASSUME KindInv, FleetNext, dialog.st \in {"new", "edit"}, dialog'.id # dialog.id
    PROVE  \/ reqs' = reqs /\ beside' = beside
           \/ \E h \in reqs \ reqs' :
                 h.ph = "done" /\ h.op # "switch" /\ (kind = "driver" => h.from = dialog.id)
<1>1. CASE \E h \in reqs : Serve(h)
  <2>1. UNCHANGED pageVars
    BY <1>1 DEF Serve, createTruck, createTrailer, updateTruck, updateTrailer, updateUser, setTruckActive,
                setTrailerActive, deactivateUser, reactivateUser, Creates, Changes
  <2> QED
    BY <2>1 DEF pageVars
<1>2. CASE OtherAsks
    BY <1>2 DEF OtherAsks, pageVars
<1>3. CASE CreateForm
    BY <1>3 DEF CreateForm, onCarrierSelected, getCarrierAssets, AssetsOffered, LookupFails, onTruckSelected,
                onTrailerSelected, onDriverSelected, onSelected, TypesText, onSubmit, createOrder, OrderCreated,
                OrderFails, pageVars
<1>4. ASSUME NEW h \in reqs, Answered(h)
      PROVE  \E g \in reqs \ reqs' :
                 g.ph = "done" /\ g.op # "switch" /\ (kind = "driver" => g.from = dialog.id)
  <2>1. h.ph = "done" /\ h \notin reqs'
    BY <1>4 DEF Answered
  <2>2. h.op # "switch" /\ (kind = "driver" => h.from = dialog.id)
    BY <1>4 DEF Answered, SwitchDone, SaveDone
  <2> QED
    BY <2>1, <2>2
<1>5. CASE Page
  <2>1. CASE loadAllAssets \/ loadTrucks \/ loadTrailers \/ loadUsers
    BY <2>1 DEF loadAllAssets, loadTrucks, loadTrailers, loadUsers, onRetry, Asks
  <2>2. CASE openCreateTruckDialog \/ openCreateTrailerDialog
    BY <2>2 DEF openCreateTruckDialog, openCreateTrailerDialog, Opens
  <2>3. CASE \E i \in Shown : editTruck(i) \/ editTrailer(i) \/ editDriver(i) \/ editUser(i)
    BY <2>3 DEF editTruck, editTrailer, editDriver, editUser, Opens
  <2>4. CASE TypesIn
    BY <2>4, TypesInSame
  <2>5. CASE CloseDialog
    BY <2>5 DEF CloseDialog
  <2>6. CASE saveTruck \/ saveTrailer \/ saveUser \/ onSave
    BY <2>6 DEF saveTruck, saveTrailer, saveUser, onSave, Saves, shown
  <2>7. CASE toggleTruckStatus \/ toggleTrailerStatus \/ toggleDriverStatus \/ toggleUserStatus
    BY <2>7 DEF toggleTruckStatus, toggleTrailerStatus, toggleDriverStatus, toggleUserStatus, SwitchConfirmed,
                Confirms, Opens
  <2>8. CASE \E s \in {None, 1} : onSearchChange(s)
    BY <2>8 DEF onSearchChange
  <2>9. CASE \E l \in loads : ReadList(l) \/ ListArrives(l) \/ ListFails(l)
    BY <2>9 DEF ReadList, ListArrives, ListFails
  <2>10. CASE \E h \in reqs : Answered(h)
    BY <2>10, <1>4
  <2>11. CASE \E h \in reqs : Failed(h)
    BY <2>11 DEF Failed
  <2> QED
    BY <1>5, <2>1, <2>2, <2>3, <2>4, <2>5, <2>6, <2>7, <2>8, <2>9, <2>10, <2>11 DEF Page
<1>6. CASE Beside
    BY <1>6 DEF Beside, TabRetries, TabSwitches, TabSaves, TabAnswered, TabLoaded, TabFails, TabEnds, shown
<1> QED
    BY <1>1, <1>2, <1>3, <1>5, <1>6 DEF FleetNext

\* A dialog that was typed into goes only when its user closes it or the answer
\* to a save arrives; in the drivers' tab that is the answer to its own save.
THEOREM DialogsStay == FleetSpec => DialogsAreKept
<1> DEFINE Step == dialog.st \in {"new", "edit"} /\ dialog'.id # dialog.id =>
          \/ reqs' = reqs /\ beside' = beside
          \/ \E h \in reqs \ reqs' :
                h.ph = "done" /\ h.op # "switch" /\ (kind = "driver" => h.from = dialog.id)
<1>1. FleetInv /\ [FleetNext]_fleetVars => [Step]_fleetVars
  <2> SUFFICES ASSUME KindInv, FleetNext PROVE Step
    BY DEF FleetInv
  <2> QED
    BY DialogTaken
<1> QED
    BY <1>1, FleetInductive, PTL DEF FleetSpec, DialogsAreKept

\* Both of these: what a step may never do to an asset or to a dialog.
THEOREM FleetStepsAreRight == FleetSpec => StepsAreRight
BY OwnOnly, DialogsStay DEF StepsAreRight
=============================================================================
