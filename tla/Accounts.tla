------------------------------ MODULE Accounts ------------------------------
(***************************************************************************)
(* How one email address gets an account.  The account is a user in the    *)
(* Cognito pool and a profile in the users table, and three handlers make  *)
(* it: register (which claims a placeholder if there is one), the          *)
(* Dispatcher's createPlaceholder, and the Carrier's createUser.  None of  *)
(* them is a transaction: each is a sequence of awaited calls, and any     *)
(* number of them may run at once for the same address.  Meanwhile those   *)
(* who know the password log in.                                           *)
(***************************************************************************)
EXTENDS Naturals, Sequences

CONSTANTS
    Requests,   \* handlers that may be in flight at once; each is one person's,
                \* who uses the same password whenever the slot is used
    Roles,      \* the roles asked for
    MaxDeaths,  \* bound: handlers that die (crash, time-out, throttled call)
    Temp,       \* the placeholder's password, never sent to anybody
    Self,       \* the account itself, as its creator or its carrier
    NoUser, NoProfile, NoGroup, NoRole, Idle, NoOne, NoSession

\* Not Dispatcher: the profile of a new Dispatcher has two empty sets, which
\* the document client, configured as it is, refuses to marshal.
ASSUME RolesAssumption == Roles \subseteq {"Admin", "Carrier", "Driver"}
ASSUME DeathsAssumption == MaxDeaths \in Nat
ASSUME NamesAssumption ==
    /\ {Temp, Self, NoOne} \cap Requests = {} /\ Self # NoOne
    /\ {NoGroup, NoRole} \cap {"Admin", "Carrier", "Driver"} = {}

\* The calls of the handlers, in the order in which they are awaited.
register == <<"create", "setPassword", "group", "profile">>
claim == <<"claimPassword", "claimProfile">>
createPlaceholder == <<"create", "group", "profile">>
createPlaceholderUser == createPlaceholder \o <<"subscribe">>
\* Mutated form: the profile is stored before the user is created.
createUser_StoresFirst == <<"profile", "create", "setPassword", "group">>
createUser == <<"create", "setPassword", "group", "profile">>

VARIABLES
    cognito,    \* the address in the user pool, or NoUser
    profile,    \* the item USER#<sub> of the users table, or NoProfile
    subscribed, \* the creators in whose lists of subscriptions the account is
    req,        \* request slot -> handler in flight or Idle
    session,    \* person -> what the browser knows of the signed-in user
    succeeded,  \* history: whoever was told that the account is theirs
    deaths

stores == <<cognito, profile, subscribed>>
vars == <<stores, req, session, succeeded, deaths>>

Init ==
    /\ cognito = NoUser /\ profile = NoProfile /\ subscribed = {}
    /\ req = [r \in Requests |-> Idle]
    /\ session = [r \in Requests |-> NoSession]
    /\ succeeded = {}
    /\ deaths = 0

At(r, pc) == req[r] # Idle /\ Head(req[r].left) = pc
Start(r, kind, role, calls) ==
    /\ req[r] = Idle
    /\ req' = [req EXCEPT ![r] = [kind |-> kind, role |-> role, left |-> calls]]
    /\ UNCHANGED <<stores, session, succeeded, deaths>>
Stop(r) == req' = [req EXCEPT ![r] = Idle]

\* The call is done.  After the last one the handler answers; but for the
\* Dispatcher's, it answers somebody who has the password.
Done(r) ==
    /\ req' = [req EXCEPT ![r] =
          IF Len(req[r].left) = 1 THEN Idle ELSE [req[r] EXCEPT !.left = Tail(req[r].left)]]
    /\ succeeded' = IF Len(req[r].left) = 1 /\ req[r].kind # "placeholder"
                    THEN succeeded \cup {r} ELSE succeeded
    /\ UNCHANGED <<session, deaths>>

\* The three-way check of register.  A confirmed user is a conflict, and the
\* request ends where it began.
RegisterCheck(r, role) ==
    \/ cognito = NoUser /\ Start(r, "register", role, register)
    \/ cognito # NoUser /\ cognito.status = "FORCE_CHANGE_PASSWORD" /\ Start(r, "register", role, claim)

\* createPlaceholder goes on only if the address has no Cognito user.
PlaceholderCheck(r, role) ==
    cognito = NoUser /\ Start(r, "placeholder", role, createPlaceholderUser)

\* checkEmailExists asks an index that lags behind, and answers "no" on any
\* error: whatever it says, createUser may go on.  Its page offers no Carrier.
CreateUserCheck(r, role) == role = "Driver" /\ Start(r, "createUser", role, createUser)

\* Mutated form: the claimed password is a temporary one.
ClaimPassword_Temporary(r) ==
    /\ At(r, "claimPassword")
    /\ cognito' = [cognito EXCEPT !.password = r]
    /\ Done(r)
    /\ UNCHANGED <<profile, subscribed>>

\* AdminSetUserPassword, Permanent: true, on whatever user is there by now.
ClaimPassword(r) ==
    /\ At(r, "claimPassword")
    /\ cognito' = [cognito EXCEPT !.status = "CONFIRMED", !.password = r]
    /\ Done(r)
    /\ UNCHANGED <<profile, subscribed>>

\* The UpdateCommand of the claim has no condition: without a profile it makes
\* one that has neither role nor keys.
ClaimProfile(r) ==
    /\ At(r, "claimProfile")
    /\ profile' = IF profile = NoProfile
                  THEN [accountStatus |-> "active", role |-> NoRole, carrierId |-> NoOne, createdBy |-> NoOne]
                  ELSE [profile EXCEPT !.accountStatus = "active"]
    /\ Done(r)
    /\ UNCHANGED <<cognito, subscribed>>

\* The Carrier's answer has the password that the service made up.
generateTemporaryPassword(r) == r

\* What the new user is given.  custom:carrierId is set for the Carrier only.
NewUser(r) ==
    [status |-> "FORCE_CHANGE_PASSWORD", group |-> NoGroup,
     password |-> CASE req[r].kind = "register" -> r
                    [] req[r].kind = "placeholder" -> Temp
                    [] req[r].kind = "createUser" -> generateTemporaryPassword(r),
     carrierId |-> IF req[r].kind = "createUser" THEN r ELSE NoOne]

\* Mutated form: UsernameExistsException is taken for success.
CreateUser_ExistsIsFine(r) ==
    /\ At(r, "create")
    /\ cognito' = IF cognito = NoUser THEN NewUser(r) ELSE cognito
    /\ Done(r)
    /\ UNCHANGED <<profile, subscribed>>

\* AdminCreateUser; UsernameExistsException ends the request.
CreateUser(r) ==
    /\ At(r, "create")
    /\ IF cognito = NoUser
       THEN cognito' = NewUser(r) /\ Done(r)
       ELSE Stop(r) /\ UNCHANGED <<cognito, session, succeeded, deaths>>
    /\ UNCHANGED <<profile, subscribed>>

SetPassword(r) ==
    /\ At(r, "setPassword")
    /\ cognito' = [cognito EXCEPT !.status = "CONFIRMED", !.password = r]
    /\ Done(r)
    /\ UNCHANGED <<profile, subscribed>>

\* addUserToGroup swallows its errors.
AddToGroup(r) ==
    /\ At(r, "group") /\ req[r].kind # "createUser"
    /\ \/ UNCHANGED cognito
       \/ cognito' = [cognito EXCEPT !.group = req[r].role]
    /\ Done(r)
    /\ UNCHANGED <<profile, subscribed>>

\* So does the one of the Carrier's users, whose roles are upper-case: no group
\* of the pool has such a name, and it always fails.
AddToRoleGroup(r) ==
    /\ At(r, "group") /\ req[r].kind = "createUser"
    /\ Done(r)
    /\ UNCHANGED stores

\* The three items.
Item(status, role, carrier, creator) ==
    [accountStatus |-> status, role |-> role, carrierId |-> carrier, createdBy |-> creator]
OwnCarrier(role) == IF role = "Carrier" THEN Self ELSE NoOne
createUserProfileV2(r) == Item("active", req[r].role, OwnCarrier(req[r].role), Self)
PlaceholderItem(r) == Item("unclaimed", req[r].role, OwnCarrier(req[r].role), r)
storeUserInDynamoDB(r) == Item("none", req[r].role, r, NoOne)
NewItem(r) ==
    CASE req[r].kind = "register" -> createUserProfileV2(r)
      [] req[r].kind = "placeholder" -> PlaceholderItem(r)
      [] req[r].kind = "createUser" -> storeUserInDynamoDB(r)

\* Mutated form: the profile is not put over one that is there.
PutProfile_IfAbsent(r) ==
    /\ At(r, "profile")
    /\ profile' = IF profile # NoProfile THEN profile ELSE NewItem(r)
    /\ Done(r)
    /\ UNCHANGED <<cognito, subscribed>>

\* Mutated form: the role is read back from the user's group.
PutProfile_GroupAsRole(r) ==
    /\ At(r, "profile")
    /\ profile' = [NewItem(r) EXCEPT !.role = cognito.group]
    /\ Done(r)
    /\ UNCHANGED <<cognito, subscribed>>

\* The PutCommand, over whatever is there.
PutProfile(r) ==
    /\ At(r, "profile")
    /\ profile' = NewItem(r)
    /\ Done(r)
    /\ UNCHANGED <<cognito, subscribed>>

\* createPlaceholderUser adds the new carrier or admin to its creator's lists.
updateSubscriptions(r) ==
    /\ At(r, "subscribe")
    /\ subscribed' = IF req[r].role \in {"Carrier", "Admin"} THEN subscribed \cup {r} ELSE subscribed
    /\ Done(r)
    /\ UNCHANGED <<cognito, profile>>

\* A handler ends between two of its calls.
Die(r) ==
    /\ req[r] # Idle
    /\ deaths < MaxDeaths
    /\ deaths' = deaths + 1
    /\ Stop(r)
    /\ UNCHANGED <<stores, session, succeeded>>

-----------------------------------------------------------------------------
(* Logging in *)

\* Mutated form: a Carrier has the carrierId of its attribute.
getUserDetails_Attribute == [role |-> cognito.group, carrierId |-> cognito.carrierId]
\* What the answer says of the user: the role is the first group, and a Carrier
\* without a carrierId is its own.
getUserDetails ==
    [role |-> cognito.group,
     carrierId |-> IF cognito.group = "Carrier" /\ cognito.carrierId = NoOne THEN Self ELSE cognito.carrierId]

\* InitiateAuth: a user who must change the password gets a challenge instead of
\* tokens, which login takes for a failure.
Authenticated(r) == cognito # NoUser /\ cognito.status = "CONFIRMED" /\ cognito.password = r

\* Mutated form: the role is not asked for.
Accepts_NoRole(details) == TRUE
\* handleAuthResponse refuses an answer without a role.
Accepts(details) == details.role # NoGroup

login(r) ==
    /\ session[r] = NoSession
    /\ Authenticated(r) /\ Accepts(getUserDetails)
    /\ session' = [session EXCEPT ![r] = getUserDetails]
    /\ UNCHANGED <<stores, req, succeeded, deaths>>

\* What the guard of the server's routes makes of the token in a later request:
\* the role is in the token, the rest is asked of the pool again.
JwtAuthGuard(r) == [role |-> session[r].role, carrierId |-> getUserDetails.carrierId]
RolesGuard(r, roles) == JwtAuthGuard(r).role \in roles

\* GlobalSignOut, and the browser forgets the user.
logout(r) ==
    /\ session[r] # NoSession
    /\ session' = [session EXCEPT ![r] = NoSession]
    /\ UNCHANGED <<stores, req, succeeded, deaths>>

Next ==
    \E r \in Requests :
        \/ \E role \in Roles :
               RegisterCheck(r, role) \/ PlaceholderCheck(r, role) \/ CreateUserCheck(r, role)
        \/ ClaimPassword(r)
        \/ ClaimProfile(r)
        \/ CreateUser(r)
        \/ SetPassword(r)
        \/ AddToGroup(r)
        \/ AddToRoleGroup(r)
        \/ PutProfile(r)
        \/ updateSubscriptions(r)
        \/ Die(r)
        \/ login(r)
        \/ logout(r)

Spec == Init /\ [][Next]_vars

-----------------------------------------------------------------------------
Users == [status: {"FORCE_CHANGE_PASSWORD", "CONFIRMED"}, password: Requests \cup {Temp},
          group: Roles \cup {NoGroup}, carrierId: Requests \cup {NoOne}]
Profiles == [accountStatus: {"active", "unclaimed", "none"}, role: Roles \cup {NoRole},
             carrierId: Requests \cup {Self, NoOne}, createdBy: Requests \cup {Self, NoOne}]
Calls == {"claimPassword", "claimProfile", "create", "setPassword", "group", "profile", "subscribe"}
Handlers == [kind: {"register", "placeholder", "createUser"}, role: Roles, left: Seq(Calls) \ {<<>>}]
Sessions == [role: Roles \cup {NoGroup}, carrierId: Requests \cup {Self, NoOne}]

ASSUME NothingAssumption ==
    /\ NoUser \notin Users /\ NoProfile \notin Profiles
    /\ Idle \notin Handlers /\ NoSession \notin Sessions

\* User, profile, sessions and handlers are of their kinds.
TypeOK ==
    /\ cognito \in Users \cup {NoUser}
    /\ profile \in Profiles \cup {NoProfile}
    /\ subscribed \subseteq Requests
    /\ session \in [Requests -> Sessions \cup {NoSession}]
    /\ req \in [Requests -> Handlers \cup {Idle}]
    /\ succeeded \subseteq Requests
    /\ deaths \in 0..MaxDeaths

Quiet == deaths = 0 /\ \A r \in Requests : req[r] = Idle

\* When no handler is running and none died, the two stores agree: there is a
\* Cognito user exactly when there is a profile, and the profile is whole, even
\* if a claim made a partial one before the placeholder's own write came.
WholeWhenQuiet ==
    Quiet => /\ (cognito = NoUser) = (profile = NoProfile)
             /\ profile # NoProfile => profile.role # NoRole

\* At all times, the group the role guard reads and the role of the profile do
\* not disagree, whichever handler created the account, whoever claimed it with
\* whatever role and wherever handlers died.
RoleFollowsCreator ==
    (cognito # NoUser /\ profile # NoProfile)
        => (cognito.group = NoGroup \/ profile.role = NoRole \/ cognito.group = profile.role)

\* Nobody is subscribed to an account but the Dispatcher who made it, also
\* after it was claimed; and that Dispatcher is, once all is quiet, to a
\* carrier or an admin.
OnlyCreatorSubscribed ==
    /\ \A r \in subscribed : profile # NoProfile /\ profile.createdBy = r
    /\ Quiet /\ profile # NoProfile /\ profile.role \in {"Carrier", "Admin"} =>
          profile.createdBy \in subscribed \cup {Self}

\* Well typed, and pool, table and subscriptions agree on who exists, on what
\* role they have and on who made them.
StoresAgree == TypeOK /\ WholeWhenQuiet /\ RoleFollowsCreator /\ OnlyCreatorSubscribed

\* When no handler is running and none died, a confirmed account has the
\* password of somebody who was told that the account is theirs, and nobody was
\* told so of an account that still waits to be claimed.
PasswordIsTold ==
    Quiet => /\ (succeeded # {}) = (cognito # NoUser /\ cognito.status = "CONFIRMED")
             /\ succeeded # {} => cognito.password \in succeeded

\* Whoever is signed in was told so, or will be by a request that is under way.
\* The server takes them for who the browser does, for as long as they stay;
\* and once all is quiet for who the table does, on which the queries go by.
SessionsAreOwned ==
    \A r \in Requests : session[r] # NoSession =>
        /\ deaths = 0 => r \in succeeded \/ req[r] # Idle
        /\ JwtAuthGuard(r) = session[r]
        /\ Quiet => RolesGuard(r, {profile.role}) /\ JwtAuthGuard(r).carrierId = profile.carrierId

\* A confirmed account is of somebody who was told so, though two who raced may both
\* have been told, and whoever is signed in is who the table says.
AccountHasAnOwner == PasswordIsTold /\ SessionsAreOwned
=============================================================================
