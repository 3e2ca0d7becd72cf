------------------------------ MODULE Accounts ------------------------------
(***************************************************************************)
(* Users, their roles, API keys and refresh tokens, the first-time setup,  *)
(* and what a start of the server does to them.                            *)
(*                                                                         *)
(* A request is one step: between its check of the caller and its last     *)
(* write it waits for nothing but the synchronous database.  Passwords are *)
(* always given right, and no account needs a new one (no caller of        *)
(* register asks for it).                                                  *)
(***************************************************************************)
EXTENDS Settings, FiniteSets, Sequences, SequencesExt

CONSTANTS
    MaxUsers,      \* bound: users ever created
    MaxRoleRows,   \* bound: rows ever inserted in user_role
    MaxTokens,     \* bound: refresh tokens ever created
    MaxRenewals,   \* bound: renewals of a token without a limit
    MaxKeys,       \* bound: API keys at a time
    RoleLists,     \* the lists of roles requests name, each role once
    DemoRole,      \* the role the configuration gives the demo account
    KeyRoles,      \* the sets of roles API keys are given
    NewNames,      \* the names users are given: "demo" is the demo account's
    Registrations  \* the values they give to the setting "registration"

ASSUME AccountsAssumption ==
    /\ {MaxUsers, MaxRoleRows, MaxTokens, MaxRenewals, MaxKeys} \subseteq Nat
    /\ RoleLists \subseteq Seq({"ADMIN", "OTHER"})
    /\ \A list \in RoleLists : IsInjective(list)
    /\ DemoRole \in {"ADMIN", "OTHER"}
    /\ KeyRoles \subseteq SUBSET {"ADMIN", "OTHER"}
    /\ NewNames \subseteq {"demo", "own"} /\ Registrations \subseteq BOOLEAN

VARIABLES
    up,            \* the server listens
    demoMode,      \* it was started in demo mode
    users,         \* the table "user"
    userRoles,     \* the table "user_role"
    tokens,        \* the table "refresh_token"
    keys,          \* the table "api_key" with its roles
    lastId         \* AUTOINCREMENT of the three tables

accountVars == <<up, demoMode, users, userRoles, tokens, keys, lastId>>
vars == <<settingsVars, accountVars>>

\* OPERATOR and GUEST differ in nothing decided here
Roles == {"ADMIN", "OTHER"}

User == [demo : BOOLEAN, root : BOOLEAN, verified : BOOLEAN, name : {"demo", "own"}]

Token == [user : 1..MaxUsers, used : Nat, expired : BOOLEAN]

\* The tables are well formed, no row refers to a user that is gone, and
\* nobody has a role twice.
AccountsTypeOK ==
    /\ SettingsTypeOK
    /\ {up, demoMode} \subseteq BOOLEAN
    /\ up => Loaded
    /\ lastId \in [user : 0..MaxUsers, row : 0..MaxRoleRows, token : 0..MaxTokens]
    /\ DOMAIN users \subseteq 1..lastId.user
    /\ \A u \in DOMAIN users : users[u] \in User
    /\ DOMAIN userRoles \subseteq 1..lastId.row
    /\ \A r \in DOMAIN userRoles : userRoles[r] \in [user : DOMAIN users, role : Roles]
    /\ \A r, s \in DOMAIN userRoles : userRoles[r] = userRoles[s] => r = s
    /\ DOMAIN tokens \subseteq 1..lastId.token
    /\ \A t \in DOMAIN tokens : tokens[t] \in [user : DOMAIN users, used : Nat, expired : BOOLEAN]
    /\ \A k \in keys : k.by \in DOMAIN users /\ k.roles \in KeyRoles

AccountsInit ==
    /\ SettingsInit
    /\ up = FALSE /\ demoMode = FALSE
    /\ users = << >> /\ userRoles = << >> /\ tokens = << >>
    /\ keys = {}
    /\ lastId = [user |-> 0, row |-> 0, token |-> 0]

-----------------------------------------------------------------------------

RowsOf(u) == {r \in DOMAIN userRoles : userRoles[r].user = u}

RolesOf(u) == {userRoles[r].role : r \in RowsOf(u)}

Owners == {u \in DOMAIN users : users[u].root}

Verified == {u \in DOMAIN users : users[u].verified}

DemoUsers == {u \in DOMAIN users : users[u].demo}

TokensOf(u) == {t \in DOMAIN tokens : tokens[t].user = u}

\* A function without some of its points
Without(f, S) == [x \in DOMAIN f \ S |-> f[x]]

\* setUserRoles deletes the rows not named and inserts what is missing, in
\* the order of the list
WithRoles(u, list) ==
    LET kept == {r \in DOMAIN userRoles :
                    userRoles[r].user = u => userRoles[r].role \in ToSet(list)}
        missing == {i \in DOMAIN list : list[i] \notin RolesOf(u)}
        RowFor(i) == lastId.row + Cardinality({k \in missing : k <= i})
        added == {RowFor(i) : i \in missing}
    IN /\ lastId.row + Cardinality(missing) <= MaxRoleRows
       /\ userRoles' = [r \in kept \cup added |->
                           IF r \in kept THEN userRoles[r]
                           ELSE [user |-> u, role |-> list[CHOOSE i \in missing : RowFor(i) = r]]]
       /\ lastId' = [user |-> lastId.user, row |-> lastId.row + Cardinality(missing), token |-> lastId.token]

\* register
AddUser(user, list) ==
    LET u == lastId.user + 1
        rows == lastId.row + 1 .. lastId.row + Len(list)
    IN /\ u <= MaxUsers /\ lastId.row + Len(list) <= MaxRoleRows
       /\ users' = [x \in DOMAIN users \cup {u} |-> IF x = u THEN user ELSE users[x]]
       /\ userRoles' = [r \in DOMAIN userRoles \cup rows |->
                           IF r \in rows THEN [user |-> u, role |-> list[r - lastId.row]]
                           ELSE userRoles[r]]
       /\ lastId' = [user |-> u, row |-> lastId.row + Len(list), token |-> lastId.token]

EndSessions(S) == tokens' = Without(tokens, S)

-----------------------------------------------------------------------------
\* Who asks.  Without a user a request has id 0, and with an API key -1.

Principals ==
    {[id |-> u, roles |-> RolesOf(u)] : u \in Verified}
    \cup {[id |-> -1, roles |-> k.roles] : k \in keys}
    \cup (IF cache.server.loginRequired THEN {} ELSE {[id |-> 0, roles |-> {"ADMIN"}]})

\* validateWizardCompleted
Serving == up /\ (demoMode \/ cache.wizard)

IsAdmin(who) == "ADMIN" \in who.roles

\* demoUserNotAllowed
NotDemo(who) == demoMode => who.id \notin DemoUsers

\* UserController.create
Create(who, list) ==
    /\ IsAdmin(who)
    /\ AddUser([demo |-> FALSE, root |-> FALSE, verified |-> TRUE, name |-> "own"], list)
    /\ UNCHANGED <<settingsVars, up, demoMode, tokens, keys>>

\* AuthController.register, with the default role
Register ==
    /\ Serving
    /\ cache.server.registration
    /\ AddUser([demo |-> FALSE, root |-> FALSE, verified |-> FALSE, name |-> "own"],
               <<IF cache.server.loginRequired THEN "OTHER" ELSE "ADMIN">>)
    /\ UNCHANGED <<settingsVars, up, demoMode, tokens, keys>>

\* findUsersByRoleId looks the users up by the ids of the rows of user_role
FoundByAdminRole ==
    {u \in DOMAIN users : u \in DOMAIN userRoles /\ userRoles[u].role = "ADMIN"}

IsLastAdmin(u) == "ADMIN" \in RolesOf(u) /\ FoundByAdminRole = {u}

\* What deleting the row of a user takes along
Cascade(u) ==
    /\ users' = Without(users, {u})
    /\ userRoles' = Without(userRoles, RowsOf(u))
    /\ keys' = {k \in keys : k.by # u}
    /\ EndSessions(TokensOf(u))

\* UserController.delete with deleteUser, the cascades, and logoutUserId
DeleteUser(who, u) ==
    /\ IsAdmin(who) /\ NotDemo(who)
    /\ who.id # u
    /\ ~users[u].root
    /\ demoMode => u \notin DemoUsers
    /\ RolesOf(u) # {}
    /\ ~IsLastAdmin(u)
    /\ Cascade(u)
    /\ UNCHANGED <<settingsVars, up, demoMode, lastId>>

ChangeUsername(who, u, name) ==
    /\ NotDemo(who)
    /\ who.id = u \/ ~cache.server.loginRequired
    /\ users' = [users EXCEPT ![u].name = name]
    /\ UNCHANGED <<settingsVars, up, demoMode, userRoles, tokens, keys, lastId>>

SetUserRoles(who, u, list) ==
    /\ IsAdmin(who) /\ NotDemo(who)
    /\ who.id > 0
    /\ who.id = u => "ADMIN" \in ToSet(list)
    /\ WithRoles(u, list)
    /\ UNCHANGED <<settingsVars, up, demoMode, users, tokens, keys>>

SetVerified(who, u, b) ==
    /\ IsAdmin(who) /\ NotDemo(who)
    /\ who.id # u
    /\ ~users[u].root
    /\ ~b => Cardinality(Verified) # 1
    /\ users' = [users EXCEPT ![u].verified = b]
    /\ UNCHANGED <<settingsVars, up, demoMode, userRoles, tokens, keys, lastId>>

\* Fault: the number of owners not asked for
MayAlwaysBeRoot(u, b) == u \in DOMAIN users

\* setIsRootUserById refuses to take the last owner's ownership
MayBeRoot(u, b) == ~b => Owners # {u}

SetRootUser(who, u, b) ==
    /\ NotDemo(who)
    /\ who.id # 0 => who.id \in Owners
    /\ MayBeRoot(u, b)
    /\ users' = [users EXCEPT ![u].root = b]
    /\ UNCHANGED <<settingsVars, up, demoMode, userRoles, tokens, keys, lastId>>

CreateKey(who, roles) ==
    /\ IsAdmin(who) /\ NotDemo(who)
    /\ who.id > 0
    /\ Cardinality(keys) < MaxKeys
    /\ keys' = keys \cup {[by |-> who.id, roles |-> roles]}
    /\ UNCHANGED <<settingsVars, up, demoMode, users, userRoles, tokens, lastId>>

DeleteKey(who, k) ==
    /\ IsAdmin(who) /\ NotDemo(who)
    /\ keys' = keys \ {k}
    /\ UNCHANGED <<settingsVars, up, demoMode, users, userRoles, tokens, lastId>>

\* SettingsController: the setters an administrator reaches
ChangeSettings(who) ==
    /\ IsAdmin(who)
    /\ \/ NotDemo(who) /\ \E b \in BOOLEAN : SetLoginRequired(b)
       \/ NotDemo(who) /\ \E b \in Registrations : SetRegistration(b)
       \/ NotDemo(who) /\ \E c \in Options : SetExperimental(c) \/ SetSlicerKey(c)
       \/ NotDemo(who) /\ \E n \in Attempts : SetAttempts(n)
       \/ \E c \in Options : SetFrontend(c)
    /\ UNCHANGED accountVars

Request ==
    /\ Serving
    /\ \E who \in Principals :
          \/ ChangeSettings(who)
          \/ \E list \in RoleLists : Create(who, list)
          \/ \E roles \in KeyRoles : CreateKey(who, roles)
          \/ \E k \in keys : DeleteKey(who, k)
          \/ \E u \in DOMAIN users :
                \/ DeleteUser(who, u)
                \/ \E name \in NewNames : ChangeUsername(who, u, name)
                \/ \E list \in RoleLists : SetUserRoles(who, u, list)
                \/ \E b \in BOOLEAN : SetVerified(who, u, b) \/ SetRootUser(who, u, b)

-----------------------------------------------------------------------------
\* Sessions

\* loginUser: outdated tokens of the user go, one is added
Login(u) ==
    LET t == lastId.token + 1
        kept == DOMAIN tokens \ {x \in TokensOf(u) : tokens[x].expired}
    IN /\ Serving
       /\ users[u].verified
       /\ t <= MaxTokens
       /\ tokens' = [x \in kept \cup {t} |->
                        IF x = t THEN [user |-> u, used |-> 0, expired |-> FALSE] ELSE tokens[x]]
       /\ lastId' = [user |-> lastId.user, row |-> lastId.row, token |-> t]
       /\ UNCHANGED <<settingsVars, up, demoMode, users, userRoles, keys>>

\* increaseRefreshTokenAttemptsUsed
Exhausted(t) ==
    cache.credentials.attempts # -1 /\ tokens[t].used >= cache.credentials.attempts

\* Fault: a refusal ends one session only
RefusedAlone(t) == EndSessions({t})

\* A refusal ends every session of the token's user
Refused(t) == EndSessions(TokensOf(tokens[t].user))

\* Fault: every token of the user updated
CountedForUser(t) ==
    tokens' = [x \in DOMAIN tokens |->
                  IF x \in TokensOf(tokens[t].user)
                  THEN [tokens[x] EXCEPT !.used = tokens[t].used + 1] ELSE tokens[x]]

\* updateRefreshTokenAttempts
Counted(t) == tokens' = [tokens EXCEPT ![t].used = @ + 1]

\* renewLoginByRefreshToken; a token nobody has is refused without a change
Refresh(t) ==
    /\ Serving
    /\ \/ tokens[t].expired /\ Refused(t)
       \/ /\ ~tokens[t].expired
          /\ users[tokens[t].user].verified
          /\ \/ Exhausted(t) /\ Refused(t)
             \/ ~Exhausted(t) /\ tokens[t].used < MaxRenewals /\ Counted(t)
    /\ UNCHANGED <<settingsVars, up, demoMode, users, userRoles, keys, lastId>>

\* AuthController.logout by a user, which does nothing when no login is required
Logout(u) ==
    /\ Serving
    /\ users[u].verified
    /\ cache.server.loginRequired
    /\ EndSessions(TokensOf(u))
    /\ UNCHANGED <<settingsVars, up, demoMode, users, userRoles, keys, lastId>>

\* Time passes
Expire(t) ==
    /\ ~tokens[t].expired
    /\ tokens' = [tokens EXCEPT ![t].expired = TRUE]
    /\ UNCHANGED <<settingsVars, up, demoMode, users, userRoles, keys, lastId>>

-----------------------------------------------------------------------------
\* First-time setup, start and end of the server

Owner == [demo |-> FALSE, root |-> TRUE, verified |-> TRUE, name |-> "own"]

\* The settings after each of the three writes of completeWizard
WizardSettings(login, registration, n) ==
    LET required   == [row EXCEPT !.server.loginRequired = login]
        registered == [required EXCEPT !.server.registration = registration]
        completed  == [registered EXCEPT !.wizard = TRUE]
    IN  CASE n = 1 -> required [] n = 2 -> registered [] n = 3 -> completed

\* completeWizard, for a name nobody has
CompleteWizard(login, registration) ==
    /\ up
    /\ ~cache.wizard
    /\ AddUser(Owner, <<"ADMIN">>)
    /\ row' = WizardSettings(login, registration, 3)
    /\ cache' = row'
    /\ UNCHANGED <<up, demoMode, tokens, keys>>

Down == up' = FALSE /\ demoMode' = FALSE /\ cache' = Missing

\* The process ends within it: with the owner and perhaps its role, and with
\* the first of the writes of settings
WizardCutShort(login, registration) ==
    /\ up
    /\ ~cache.wizard
    /\ \/ \E list \in {<< >>, <<"ADMIN">>} : AddUser(Owner, list) /\ row' = row
       \/ /\ AddUser(Owner, <<"ADMIN">>)
          /\ \E n \in 1..2 : row' = WizardSettings(login, registration, n)
    /\ Down
    /\ UNCHANGED <<tokens, keys>>

Stop ==
    /\ up
    /\ Down
    /\ UNCHANGED <<row, users, userRoles, tokens, keys, lastId>>

\* createOrUpdateDemoAccount with its role.  It looks the account
\* up by flag, and sets its password by name.
DemoAccount ==
    \/ /\ DemoUsers = {}
       /\ AddUser([demo |-> TRUE, root |-> FALSE, verified |-> TRUE, name |-> "demo"], <<DemoRole>>)
    \/ \E d \in DemoUsers :
          /\ MayBeRoot(d, FALSE)
          /\ \E u \in DOMAIN users : users[u].name = "demo"
          /\ users' = [users EXCEPT ![d].verified = TRUE, ![d].root = FALSE]
          /\ WithRoles(d, <<DemoRole>>)

\* It throws on the last owner, or when nobody has the name
DemoAccountFails ==
    \E d \in DemoUsers :
        /\ \/ ~MayBeRoot(d, FALSE)
           \/ \A u \in DOMAIN users : users[u].name # "demo"
        /\ users' = [users EXCEPT ![d].verified = TRUE,
                                  ![d].root = @ /\ ~MayBeRoot(d, FALSE)]
        /\ UNCHANGED <<userRoles, lastId>>

\* The overrides of the configuration.  The secret goes to the row only; the
\* copy is read again when the secret's validity is configured too.
Configured(r, login, registration) ==
    \E secret \in Secrets, both \in BOOLEAN :
        LET copy == [r EXCEPT !.server.loginRequired = login,
                              !.server.registration = registration]
        IN /\ row' = [copy EXCEPT !.credentials.secret = secret]
           /\ cache' = IF both THEN row' ELSE copy

\* BootTask.run up to the settings; what is not configured stays as it was
Boot ==
    /\ ~up
    /\ \E r \in SettingsRecord :
          /\ IsLoaded(r)
          /\ \/ /\ \E login \in BOOLEAN, registration \in Registrations \cup {r.server.registration} :
                      Configured(r, login, registration)
                /\ demoMode' = FALSE
                /\ UNCHANGED <<users, userRoles, lastId>>
             \/ /\ DemoAccount
                /\ Configured(r, TRUE, FALSE)
                /\ demoMode' = TRUE
    /\ up' = TRUE
    /\ UNCHANGED <<tokens, keys>>

\* A demo account that cannot be made one ends the process
BootFails ==
    /\ ~up
    /\ DemoAccountFails
    /\ UNCHANGED <<settingsVars, up, demoMode, tokens, keys>>

AccountsNext ==
    \/ Request \/ Register
    \/ \E u \in DOMAIN users : Login(u) \/ Logout(u)
    \/ \E t \in DOMAIN tokens : Refresh(t) \/ Expire(t)
    \/ \E login \in BOOLEAN, registration \in Registrations :
          CompleteWizard(login, registration) \/ WizardCutShort(login, registration)
    \/ Stop \/ Boot \/ BootFails

AccountsSpec == AccountsInit /\ [][AccountsNext]_vars
-----------------------------------------------------------------------------
(* What an installation relies on                                          *)

\* Once the first-time setup is complete somebody owns the installation,
\* through every deletion, every change of owners, and every end of the
\* process in the middle of the setup (deleteUser, setIsRootUserById,
\* completeWizard).
SomebodyOwns == row # Missing /\ row.wizard => Owners # {}

\* A login that has not expired ends with every login of its user, on logout,
\* deletion, or the refusal of one of its tokens.
SessionsEndTogether ==
    [][\A t \in DOMAIN tokens \ DOMAIN tokens' :
          ~tokens[t].expired =>
              \A x \in DOMAIN tokens' : tokens'[x].user # tokens[t].user]_vars

\* What a client sees of the login a token stands for
Logins == [t \in 1..MaxTokens |->
    IF t > lastId.token THEN [state |-> "unused", user |-> 0, renewals |-> 0]
    ELSE IF t \notin DOMAIN tokens THEN [state |-> "ended", user |-> 0, renewals |-> 0]
    ELSE IF tokens[t].expired THEN [state |-> "ended", user |-> 0, renewals |-> 0]
    ELSE [state |-> "live", user |-> tokens[t].user, renewals |-> tokens[t].used]]

Contract == INSTANCE SessionContract WITH
    Sessions <- 1..MaxTokens, Users <- 1..MaxUsers, session <- Logins

\* The rows of refresh_token behave as the logins of SessionContract do: none
\* is renewed after its end, none comes back.
TokensAreSessions == Contract!Spec

\* The opposite of what deleteUser refuses: "Cannot delete the last user with
\* ADMIN role" (user.service.ts:82).
DeletionLeavesAdministrator ==
    [][/\ DOMAIN users' # DOMAIN users
       /\ \E u \in DOMAIN users : "ADMIN" \in RolesOf(u)
       => \E r \in DOMAIN userRoles' : userRoles'[r].role = "ADMIN"]_vars
=============================================================================
