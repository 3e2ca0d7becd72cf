---------------------------- MODULE ServerProofs -----------------------------
(***************************************************************************)
(* Proofs about the parts of the server that do not know printers.         *)
(*                                                                         *)
(* Accounts: an installation keeps an owner, the logins of a user end      *)
(* together, refresh tokens implement SessionContract, and no row refers   *)
(* to a user that is gone.                                                 *)
(*                                                                         *)
(* ServerBoot: tasks have the timers they should have, none runs before    *)
(* what it reads is loaded, and the client's files can be served.          *)
(***************************************************************************)
EXTENDS Accounts, ServerBoot, FiniteSetTheorems, TLAPS

-----------------------------------------------------------------------------
(* The inductive invariant.                                                *)

\* The settings are there while the server is up, in the row and in the copy.
SettingsAreThere ==
    /\ SettingsTypeOK
    /\ up \in BOOLEAN
    /\ up => row \in SettingsRecord /\ cache \in SettingsRecord

\* Ids are given once, so that no new user takes the place of an owner.
UsersAreTold ==
    /\ lastId.user \in 0..MaxUsers
    /\ DOMAIN users \subseteq 1..lastId.user
    /\ users \in [DOMAIN users -> User]

TokensAreTold ==
    /\ lastId.token \in 0..MaxTokens
    /\ DOMAIN tokens \subseteq 1..lastId.token
    /\ tokens \in [DOMAIN tokens -> Token]

AccountsInv ==
    /\ SettingsAreThere
    /\ UsersAreTold
    /\ TokensAreTold
    /\ SomebodyOwns

LEMMA AccountsInvInit == AccountsInit => AccountsInv
<1>. SUFFICES ASSUME AccountsInit PROVE AccountsInv
  OBVIOUS
<1>1. SettingsAreThere /\ SomebodyOwns
  BY DEF AccountsInit, SettingsInit, SettingsAreThere, SettingsTypeOK, SomebodyOwns
<1>2. lastId.user = 0 /\ lastId.token = 0 /\ DOMAIN users = {} /\ DOMAIN tokens = {}
  BY DEF AccountsInit
<1>3. 0 \in 0..MaxUsers /\ 0 \in 0..MaxTokens
  BY AccountsAssumption
<1>4. users = [u \in {} |-> {}] /\ tokens = [t \in {} |-> {}]
  BY DEF AccountsInit
<1>5. QED
  BY <1>1, <1>2, <1>3, <1>4 DEF AccountsInv, UsersAreTold, TokensAreTold

-----------------------------------------------------------------------------
(* What the operations keep.                                               *)

\* The row is as much completed as before, and the owners stay.
OwnersStay ==
    /\ row' # Missing /\ row'.wizard => row # Missing /\ row.wizard
    /\ Owners # {} => Owners' # {}

LEMMA OwnersStayOwned ==
    ASSUME SomebodyOwns, OwnersStay
    PROVE  SomebodyOwns'
  BY DEF SomebodyOwns, OwnersStay

LEMMA SameUsers ==
    ASSUME UsersAreTold, users' = users, lastId'.user = lastId.user
    PROVE  UsersAreTold' /\ Owners' = Owners
  BY DEF UsersAreTold, Owners

LEMMA SameTokens ==
    ASSUME TokensAreTold, tokens' = tokens, lastId'.token = lastId.token
    PROVE  TokensAreTold'
  BY DEF TokensAreTold

LEMMA EndSessionsTold ==
    ASSUME TokensAreTold, NEW S, EndSessions(S), lastId'.token = lastId.token
    PROVE  TokensAreTold'
  BY DEF TokensAreTold, EndSessions, Without

\* A new user takes nobody's place.
LEMMA AddUserKeeps ==
    ASSUME UsersAreTold, NEW user \in User, NEW list, AddUser(user, list)
    PROVE  /\ UsersAreTold' /\ lastId'.token = lastId.token
           /\ Owners \subseteq Owners'
           /\ user.root => Owners' # {}
<1>. DEFINE u == lastId.user + 1
<1>1. /\ lastId'.user = u /\ lastId'.token = lastId.token /\ u <= MaxUsers
      /\ users' = [x \in DOMAIN users \cup {u} |-> IF x = u THEN user ELSE users[x]]
  BY DEF AddUser
<1>2. u \notin DOMAIN users /\ u \in 0..MaxUsers /\ u \in 1..u /\ DOMAIN users \subseteq 1..u
  BY <1>1, AccountsAssumption DEF UsersAreTold
<1>. HIDE DEF u
<1>3. UsersAreTold'
  BY <1>1, <1>2 DEF UsersAreTold
<1>4. QED
  BY <1>1, <1>2, <1>3 DEF Owners

LEMMA WithRolesKeeps ==
    ASSUME NEW u, NEW list, WithRoles(u, list)
    PROVE  lastId'.user = lastId.user /\ lastId'.token = lastId.token
  BY DEF WithRoles

\* One user is written, with its ownership as it was, or taken only if it is
\* not the last.
LEMMA UserWritten ==
    ASSUME UsersAreTold, NEW u \in DOMAIN users, NEW user \in User,
           users' = [users EXCEPT ![u] = user], lastId'.user = lastId.user,
           user.root = users[u].root \/ MayBeRoot(u, user.root)
    PROVE  UsersAreTold' /\ (Owners # {} => Owners' # {})
<1>1. UsersAreTold' /\ DOMAIN users' = DOMAIN users
  BY DEF UsersAreTold
<1>2. users'[u] = user /\ \A x \in DOMAIN users \ {u} : users'[x] = users[x]
  BY DEF UsersAreTold
<1>3. user.root \in BOOLEAN /\ users[u].root \in BOOLEAN
  BY DEF User, UsersAreTold
<1>4. ASSUME Owners # {} PROVE Owners' # {}
  <2>1. CASE user.root
    BY <1>1, <1>2, <2>1 DEF Owners
  <2>2. CASE ~user.root /\ Owners # {u}
    <3>1. PICK o \in Owners : o # u
      BY <1>4, <2>2
    <3>2. QED
      BY <1>1, <1>2, <3>1 DEF Owners
  <2>3. CASE ~user.root /\ ~users[u].root
    BY <1>1, <1>2, <1>4, <2>3 DEF Owners
  <2>4. QED
    BY <1>3, <2>1, <2>2, <2>3 DEF MayBeRoot
<1>5. QED
  BY <1>1, <1>4

LEMMA UserFields ==
    ASSUME NEW user \in User, NEW b \in BOOLEAN, NEW c \in BOOLEAN, NEW n \in {"demo", "own"}
    PROVE  /\ [user EXCEPT !.name = n] \in User /\ [user EXCEPT !.name = n].root = user.root
           /\ [user EXCEPT !.verified = b] \in User /\ [user EXCEPT !.verified = b].root = user.root
           /\ [user EXCEPT !.root = b] \in User /\ [user EXCEPT !.root = b].root = b
           /\ [user EXCEPT !.verified = c, !.root = b] \in User
           /\ [user EXCEPT !.verified = c, !.root = b].root = b
  BY DEF User

\* The row a setter leaves is as much completed as before.
LEMMA SettingsWritten ==
    ASSUME row \in SettingsRecord, cache \in SettingsRecord, NEW who, ChangeSettings(who)
    PROVE  row' \in SettingsRecord /\ cache' = row' /\ row'.wizard = row.wizard
<1>1. ASSUME NEW b \in BOOLEAN, SetLoginRequired(b)
      PROVE  row' \in SettingsRecord /\ cache' = row' /\ row'.wizard = row.wizard
  BY <1>1 DEF SetLoginRequired, WriteServer, SettingsRecord, ServerSection
<1>2. ASSUME NEW b \in Registrations, SetRegistration(b)
      PROVE  row' \in SettingsRecord /\ cache' = row' /\ row'.wizard = row.wizard
  BY <1>2, AccountsAssumption DEF SetRegistration, WriteServer, SettingsRecord, ServerSection
<1>3. ASSUME NEW c \in Options, SetExperimental(c)
      PROVE  row' \in SettingsRecord /\ cache' = row' /\ row'.wizard = row.wizard
  BY <1>3 DEF SetExperimental, WriteServer, SettingsRecord, ServerSection
<1>4. ASSUME NEW c \in Options, SetSlicerKey(c)
      PROVE  row' \in SettingsRecord /\ cache' = row' /\ row'.wizard = row.wizard
  BY <1>4 DEF SetSlicerKey, SettingsRecord, CredentialSection
<1>5. ASSUME NEW n \in Attempts, SetAttempts(n)
      PROVE  row' \in SettingsRecord /\ cache' = row' /\ row'.wizard = row.wizard
  BY <1>5 DEF SetAttempts, WriteCore, SettingsRecord, CredentialSection
<1>6. ASSUME NEW c \in Options, SetFrontend(c)
      PROVE  row' \in SettingsRecord /\ cache' = row' /\ row'.wizard = row.wizard
  BY <1>6 DEF SetFrontend, SettingsRecord
<1>7. QED
  BY <1>1, <1>2, <1>3, <1>4, <1>5, <1>6 DEF ChangeSettings

-----------------------------------------------------------------------------
(* The steps.                                                              *)

\* With the settings as they are, the users told and the tokens told
LEMMA SettingsKept ==
    ASSUME AccountsInv, UNCHANGED <<settingsVars, up>>,
           UsersAreTold', TokensAreTold', Owners # {} => Owners' # {}
    PROVE  AccountsInv'
<1>1. row' = row /\ cache' = cache /\ up' = up
  BY DEF settingsVars
<1>2. SettingsAreThere'
  BY <1>1 DEF AccountsInv, SettingsAreThere, SettingsTypeOK
<1>3. SomebodyOwns'
  BY <1>1, OwnersStayOwned DEF AccountsInv, OwnersStay
<1>4. QED
  BY <1>2, <1>3 DEF AccountsInv

LEMMA RequestInv ==
    ASSUME AccountsInv, Request
    PROVE  AccountsInv'
<1>. USE DEF AccountsInv
<1>0. PICK who \in Principals :
         \/ ChangeSettings(who)
         \/ \E list \in RoleLists : Create(who, list)
         \/ \E roles \in KeyRoles : CreateKey(who, roles)
         \/ \E k \in keys : DeleteKey(who, k)
         \/ \E u \in DOMAIN users :
               \/ DeleteUser(who, u)
               \/ \E name \in NewNames : ChangeUsername(who, u, name)
               \/ \E list \in RoleLists : SetUserRoles(who, u, list)
               \/ \E b \in BOOLEAN : SetVerified(who, u, b) \/ SetRootUser(who, u, b)
  BY DEF Request
<1>1. CASE ChangeSettings(who)
  <2>1. row \in SettingsRecord /\ cache \in SettingsRecord /\ up
    BY DEF SettingsAreThere, Request, Serving
  <2>2. row' \in SettingsRecord /\ cache' = row' /\ row'.wizard = row.wizard
    BY <1>1, <2>1, SettingsWritten
  <2>3. UNCHANGED accountVars
    BY <1>1 DEF ChangeSettings
  <2>4. UsersAreTold' /\ TokensAreTold' /\ Owners' = Owners
    BY <2>3, SameUsers, SameTokens DEF accountVars
  <2>5. row # Missing
    BY <2>1, SettingsAssumption
  <2>6. SomebodyOwns'
    BY <2>2, <2>4, <2>5, OwnersStayOwned DEF OwnersStay
  <2>7. SettingsAreThere'
    BY <2>1, <2>2, <2>3 DEF SettingsAreThere, SettingsTypeOK, accountVars
  <2>8. QED
    BY <2>4, <2>6, <2>7
<1>2. ASSUME NEW list \in RoleLists, Create(who, list) PROVE AccountsInv'
  <2>. DEFINE user == [demo |-> FALSE, root |-> FALSE, verified |-> TRUE, name |-> "own"]
  <2>1. user \in User /\ AddUser(user, list)
    BY <1>2 DEF User, Create
  <2>. HIDE DEF user
  <2>2. UsersAreTold' /\ lastId'.token = lastId.token /\ Owners \subseteq Owners'
    BY <2>1, AddUserKeeps
  <2>3. TokensAreTold' /\ UNCHANGED <<settingsVars, up>>
    BY <1>2, <2>2, SameTokens DEF Create
  <2>4. QED
    BY <2>2, <2>3, SettingsKept
<1>3. CASE (\E roles \in KeyRoles : CreateKey(who, roles)) \/ (\E k \in keys : DeleteKey(who, k))
  <2>1. UNCHANGED <<settingsVars, up>> /\ users' = users /\ tokens' = tokens /\ lastId' = lastId
    BY <1>3 DEF CreateKey, DeleteKey
  <2>2. QED
    BY <2>1, SameUsers, SameTokens, SettingsKept
<1>4. ASSUME NEW u \in DOMAIN users, DeleteUser(who, u) PROVE AccountsInv'
  <2>1. /\ UNCHANGED <<settingsVars, up>> /\ lastId' = lastId
        /\ users' = [x \in DOMAIN users \ {u} |-> users[x]] /\ ~users[u].root
        /\ EndSessions(TokensOf(u))
    BY <1>4 DEF DeleteUser, Cascade, Without
  <2>2. UsersAreTold' /\ (Owners # {} => Owners' # {})
    BY <2>1 DEF UsersAreTold, Owners
  <2>3. TokensAreTold'
    BY <2>1, EndSessionsTold
  <2>4. QED
    BY <2>1, <2>2, <2>3, SettingsKept
<1>5. ASSUME NEW u \in DOMAIN users,
             \/ \E name \in NewNames : ChangeUsername(who, u, name)
             \/ \E b \in BOOLEAN : SetVerified(who, u, b) \/ SetRootUser(who, u, b)
      PROVE  AccountsInv'
  <2>1. UNCHANGED <<settingsVars, up>> /\ tokens' = tokens /\ lastId' = lastId
    BY <1>5 DEF ChangeUsername, SetVerified, SetRootUser
  <2>2. users[u] \in User
    BY DEF UsersAreTold
  <2>3. PICK user \in User : /\ users' = [users EXCEPT ![u] = user]
                             /\ user.root = users[u].root \/ MayBeRoot(u, user.root)
    <3>1. ASSUME NEW name \in NewNames, ChangeUsername(who, u, name)
          PROVE  LET user == [users[u] EXCEPT !.name = name]
                 IN  user \in User /\ user.root = users[u].root /\ users' = [users EXCEPT ![u] = user]
      BY <2>2, <3>1, UserFields, AccountsAssumption DEF ChangeUsername
    <3>2. ASSUME NEW b \in BOOLEAN, SetVerified(who, u, b)
          PROVE  LET user == [users[u] EXCEPT !.verified = b]
                 IN  user \in User /\ user.root = users[u].root /\ users' = [users EXCEPT ![u] = user]
      BY <2>2, <3>2 DEF SetVerified, User
    <3>3. ASSUME NEW b \in BOOLEAN, SetRootUser(who, u, b)
          PROVE  LET user == [users[u] EXCEPT !.root = b]
                 IN  user \in User /\ user.root = b /\ MayBeRoot(u, b)
                     /\ users' = [users EXCEPT ![u] = user]
      BY <2>2, <3>3, UserFields DEF SetRootUser
    <3>4. QED
      BY <1>5, <3>1, <3>2, <3>3
  <2>4. UsersAreTold' /\ (Owners # {} => Owners' # {})
    BY <2>1, <2>3, UserWritten
  <2>5. QED
    BY <2>1, <2>4, SameTokens, SettingsKept
<1>6. ASSUME NEW u \in DOMAIN users, NEW list \in RoleLists, SetUserRoles(who, u, list)
      PROVE  AccountsInv'
  <2>1. UNCHANGED <<settingsVars, up>> /\ tokens' = tokens /\ users' = users /\ WithRoles(u, list)
    BY <1>6 DEF SetUserRoles
  <2>2. lastId'.user = lastId.user /\ lastId'.token = lastId.token
    BY <2>1, WithRolesKeeps
  <2>3. QED
    BY <2>1, <2>2, SameUsers, SameTokens, SettingsKept
<1>7. QED
  BY <1>0, <1>1, <1>2, <1>3, <1>4, <1>5, <1>6

LEMMA RegisterInv ==
    ASSUME AccountsInv, Register
    PROVE  AccountsInv'
<1>. DEFINE user == [demo |-> FALSE, root |-> FALSE, verified |-> FALSE, name |-> "own"]
<1>1. user \in User
  BY DEF User
<1>. HIDE DEF user
<1>2. UNCHANGED <<settingsVars, up>> /\ tokens' = tokens /\ \E list : AddUser(user, list)
  BY DEF Register, user
<1>3. UsersAreTold' /\ lastId'.token = lastId.token /\ Owners \subseteq Owners'
  BY <1>1, <1>2, AddUserKeeps DEF AccountsInv
<1>4. QED
  BY <1>2, <1>3, SameTokens, SettingsKept DEF AccountsInv

LEMMA SessionInv ==
    ASSUME AccountsInv,
           \/ \E u \in DOMAIN users : Login(u) \/ Logout(u)
           \/ \E t \in DOMAIN tokens : Refresh(t) \/ Expire(t)
    PROVE  AccountsInv'
<1>. USE DEF AccountsInv
<1>1. UNCHANGED <<settingsVars, up>> /\ users' = users /\ lastId'.user = lastId.user
  <2>1. ASSUME NEW u \in DOMAIN users, Login(u)
        PROVE  UNCHANGED <<settingsVars, up>> /\ users' = users /\ lastId'.user = lastId.user
    BY <2>1 DEF Login
  <2>2. ASSUME NEW u \in DOMAIN users, Logout(u)
        PROVE  UNCHANGED <<settingsVars, up>> /\ users' = users /\ lastId'.user = lastId.user
    BY <2>2 DEF Logout
  <2>3. ASSUME NEW t \in DOMAIN tokens, Refresh(t) \/ Expire(t)
        PROVE  UNCHANGED <<settingsVars, up>> /\ users' = users /\ lastId'.user = lastId.user
    BY <2>3 DEF Refresh, Expire
  <2>4. QED
    BY <2>1, <2>2, <2>3
<1>2. ASSUME NEW u \in DOMAIN users, Login(u) PROVE TokensAreTold'
  <2>. DEFINE n   == lastId.token + 1
              new == [user |-> u, used |-> 0, expired |-> FALSE]
  <2>1. new \in Token
    BY AccountsAssumption DEF UsersAreTold, Token
  <2>2. /\ lastId'.token = n /\ n <= MaxTokens
        /\ DOMAIN tokens' \subseteq DOMAIN tokens \cup {n}
        /\ tokens' = [x \in DOMAIN tokens' |-> IF x = n THEN new ELSE tokens[x]]
    BY <1>2 DEF Login
  <2>. HIDE DEF new
  <2>3. QED
    BY <2>1, <2>2, AccountsAssumption DEF TokensAreTold
<1>3. ASSUME NEW u \in DOMAIN users, Logout(u) PROVE TokensAreTold'
  BY <1>3, EndSessionsTold DEF Logout
<1>4. ASSUME NEW t \in DOMAIN tokens, Refresh(t) PROVE TokensAreTold'
  <2>1. lastId' = lastId
    BY <1>4 DEF Refresh
  <2>2. CASE Refused(t)
    BY <2>1, <2>2, EndSessionsTold DEF Refused
  <2>3. CASE Counted(t)
    BY <2>1, <2>3 DEF Counted, TokensAreTold, Token
  <2>4. QED
    BY <1>4, <2>2, <2>3 DEF Refresh
<1>5. ASSUME NEW t \in DOMAIN tokens, Expire(t) PROVE TokensAreTold'
  BY <1>5 DEF Expire, TokensAreTold, Token
<1>6. QED
  BY <1>1, <1>2, <1>3, <1>4, <1>5, SameUsers, SettingsKept

\* The setup, whole or cut short by the end of the process
LEMMA WizardInv ==
    ASSUME AccountsInv, NEW login \in BOOLEAN, NEW registration \in Registrations,
           CompleteWizard(login, registration) \/ WizardCutShort(login, registration)
    PROVE  AccountsInv'
<1>. USE DEF AccountsInv
<1>0. up /\ row \in SettingsRecord /\ registration \in BOOLEAN
  BY AccountsAssumption DEF CompleteWizard, WizardCutShort, SettingsAreThere
<1>1. Owner \in User /\ Owner.root
  BY DEF Owner, User
<1>2. ASSUME NEW n \in 1..3
      PROVE  WizardSettings(login, registration, n) \in SettingsRecord
  <2>. DEFINE required   == [row EXCEPT !.server.loginRequired = login]
              registered == [required EXCEPT !.server.registration = registration]
              completed  == [registered EXCEPT !.wizard = TRUE]
  <2>1. required \in SettingsRecord
    BY <1>0 DEF SettingsRecord, ServerSection
  <2>2. registered \in SettingsRecord
    BY <1>0, <2>1 DEF SettingsRecord, ServerSection
  <2>3. completed \in SettingsRecord
    BY <2>2 DEF SettingsRecord
  <2>. HIDE DEF completed
  <2>4. CASE n = 1
    BY <2>1, <2>4 DEF WizardSettings
  <2>5. CASE n = 2
    BY <2>2, <2>5 DEF WizardSettings
  <2>6. CASE n = 3
    BY <2>3, <2>6 DEF WizardSettings, completed
  <2>7. QED
    BY <2>4, <2>5, <2>6
<1>3. /\ tokens' = tokens /\ \E list : AddUser(Owner, list)
      /\ row' \in SettingsRecord
  <2>1. CASE CompleteWizard(login, registration)
    BY <1>2, <2>1 DEF CompleteWizard
  <2>2. CASE WizardCutShort(login, registration)
    <3>1. tokens' = tokens /\ \E list : AddUser(Owner, list)
      BY <2>2 DEF WizardCutShort
    <3>2. row' = row \/ \E n \in 1..2 : row' = WizardSettings(login, registration, n)
      BY <2>2 DEF WizardCutShort
    <3>3. QED
      BY <1>0, <1>2, <3>1, <3>2
  <2>3. QED
    BY <2>1, <2>2
<1>4. UsersAreTold' /\ lastId'.token = lastId.token /\ Owners' # {}
  BY <1>1, <1>3, AddUserKeeps
<1>5. SettingsAreThere'
  BY <1>0, <1>3 DEF CompleteWizard, WizardCutShort, Down, SettingsAreThere, SettingsTypeOK
<1>6. QED
  BY <1>3, <1>4, <1>5, SameTokens DEF SomebodyOwns

\* The demo account is made, or made one again.
LEMMA DemoAccountKeeps ==
    ASSUME UsersAreTold, DemoAccount
    PROVE  /\ UsersAreTold' /\ lastId'.token = lastId.token
           /\ Owners # {} => Owners' # {}
<1>1. ASSUME NEW list, AddUser([demo |-> TRUE, root |-> FALSE, verified |-> TRUE, name |-> "demo"], list)
      PROVE  /\ UsersAreTold' /\ lastId'.token = lastId.token
             /\ Owners # {} => Owners' # {}
  <2>. DEFINE user == [demo |-> TRUE, root |-> FALSE, verified |-> TRUE, name |-> "demo"]
  <2>1. user \in User /\ AddUser(user, list)
    BY <1>1 DEF User
  <2>. HIDE DEF user
  <2>2. QED
    BY <2>1, AddUserKeeps
<1>2. ASSUME NEW d \in DemoUsers, MayBeRoot(d, FALSE),
             users' = [users EXCEPT ![d].verified = TRUE, ![d].root = FALSE],
             WithRoles(d, <<DemoRole>>)
      PROVE  /\ UsersAreTold' /\ lastId'.token = lastId.token
             /\ Owners # {} => Owners' # {}
  <2>. DEFINE user == [users[d] EXCEPT !.verified = TRUE, !.root = FALSE]
  <2>1. d \in DOMAIN users /\ users[d] \in User
    BY DEF DemoUsers, UsersAreTold
  <2>2. user \in User /\ user.root = FALSE
    BY <2>1 DEF User
  <2>3. users' = [users EXCEPT ![d] = user]
    BY <1>2, <2>1 DEF UsersAreTold, User
  <2>. HIDE DEF user
  <2>4. QED
    BY <1>2, <2>1, <2>2, <2>3, WithRolesKeeps, UserWritten
<1>3. QED
  BY <1>1, <1>2 DEF DemoAccount

LEMMA ConfiguredKeeps ==
    ASSUME NEW r \in SettingsRecord, NEW login \in BOOLEAN, NEW registration \in BOOLEAN,
           Configured(r, login, registration)
    PROVE  row' \in SettingsRecord /\ cache' \in SettingsRecord /\ row'.wizard = r.wizard
<1>. DEFINE copy == [r EXCEPT !.server.loginRequired = login, !.server.registration = registration]
<1>1. copy \in SettingsRecord /\ copy.wizard = r.wizard
  BY DEF SettingsRecord, ServerSection
<1>2. PICK secret \in Secrets, both \in BOOLEAN :
         /\ row' = [copy EXCEPT !.credentials.secret = secret]
         /\ cache' = IF both THEN row' ELSE copy
  BY DEF Configured
<1>. HIDE DEF copy
<1>3. row' \in SettingsRecord /\ row'.wizard = copy.wizard
  BY <1>1, <1>2 DEF SettingsRecord, CredentialSection
<1>4. QED
  BY <1>1, <1>2, <1>3

LEMMA BootInv ==
    ASSUME AccountsInv, Boot
    PROVE  AccountsInv'
<1>. USE DEF AccountsInv
<1>1. PICK r \in SettingsRecord :
         /\ IsLoaded(r)
         /\ \/ /\ \E login \in BOOLEAN, registration \in Registrations \cup {r.server.registration} :
                     Configured(r, login, registration)
               /\ UNCHANGED <<users, userRoles, lastId>>
            \/ DemoAccount /\ Configured(r, TRUE, FALSE)
  BY DEF Boot
<1>2. \E login \in BOOLEAN, registration \in BOOLEAN : Configured(r, login, registration)
  <2>1. r.server.registration \in BOOLEAN
    BY DEF SettingsRecord, ServerSection
  <2>2. QED
    BY <1>1, <2>1, AccountsAssumption
<1>3. row' \in SettingsRecord /\ cache' \in SettingsRecord /\ row'.wizard = r.wizard
  BY <1>2, ConfiguredKeeps
<1>4. r.wizard => row # Missing /\ row.wizard
  BY <1>1 DEF IsLoaded, Defaults
<1>5. UsersAreTold' /\ lastId'.token = lastId.token /\ (Owners # {} => Owners' # {})
  BY <1>1, SameUsers, DemoAccountKeeps
<1>6. up' = TRUE /\ tokens' = tokens
  BY DEF Boot
<1>7. SettingsAreThere'
  BY <1>3, <1>6 DEF SettingsAreThere, SettingsTypeOK
<1>8. SomebodyOwns'
  BY <1>3, <1>4, <1>5, OwnersStayOwned DEF OwnersStay
<1>9. QED
  BY <1>5, <1>6, <1>7, <1>8, SameTokens

LEMMA BootFailsInv ==
    ASSUME AccountsInv, BootFails
    PROVE  AccountsInv'
<1>. USE DEF AccountsInv
<1>1. PICK d \in DemoUsers :
         /\ users' = [users EXCEPT ![d].verified = TRUE, ![d].root = @ /\ ~MayBeRoot(d, FALSE)]
         /\ lastId' = lastId
  BY DEF BootFails, DemoAccountFails
<1>. DEFINE b    == users[d].root /\ ~MayBeRoot(d, FALSE)
            user == [users[d] EXCEPT !.verified = TRUE, !.root = b]
<1>2. d \in DOMAIN users /\ users[d] \in User
  BY DEF DemoUsers, UsersAreTold
<1>3. b \in BOOLEAN /\ (b = users[d].root \/ MayBeRoot(d, b))
  BY <1>2 DEF User, MayBeRoot
<1>4. users' = [users EXCEPT ![d] = user]
  BY <1>1, <1>2 DEF UsersAreTold, User
<1>. HIDE DEF b
<1>5. user \in User /\ user.root = b
  BY <1>2, <1>3 DEF User
<1>. HIDE DEF user
<1>6. UsersAreTold' /\ (Owners # {} => Owners' # {})
  BY <1>1, <1>2, <1>3, <1>4, <1>5, UserWritten
<1>7. UNCHANGED <<settingsVars, up>> /\ tokens' = tokens
  BY DEF BootFails
<1>8. QED
  BY <1>1, <1>6, <1>7, SameTokens, SettingsKept

LEMMA StopInv ==
    ASSUME AccountsInv, Stop
    PROVE  AccountsInv'
<1>1. row' = row /\ users' = users /\ tokens' = tokens /\ lastId' = lastId
      /\ up' = FALSE /\ cache' = Missing
  BY DEF Stop, Down
<1>2. UsersAreTold' /\ TokensAreTold' /\ Owners' = Owners
  BY <1>1, SameUsers, SameTokens DEF AccountsInv
<1>3. SettingsAreThere' /\ SomebodyOwns'
  BY <1>1, <1>2 DEF AccountsInv, SettingsAreThere, SettingsTypeOK, SomebodyOwns
<1>4. QED
  BY <1>2, <1>3 DEF AccountsInv

LEMMA AccountsInvNext ==
    ASSUME AccountsInv, [AccountsNext]_vars
    PROVE  AccountsInv'
<1>1. CASE UNCHANGED vars
  <2>1. UNCHANGED <<settingsVars, up>> /\ users' = users /\ tokens' = tokens /\ lastId' = lastId
    BY <1>1 DEF vars, accountVars
  <2>2. QED
    BY <2>1, SameUsers, SameTokens, SettingsKept DEF AccountsInv
<1>2. CASE AccountsNext
  BY <1>2, RequestInv, RegisterInv, SessionInv, WizardInv, StopInv, BootInv, BootFailsInv
     DEF AccountsNext
<1>3. QED
  BY <1>1, <1>2

LEMMA AccountsInvHolds == AccountsSpec => []AccountsInv
  BY AccountsInvInit, AccountsInvNext, PTL DEF AccountsSpec

\* Once the first-time setup is complete somebody owns the installation, for
\* any number of users and requests (user.service.ts:104).
THEOREM AccountsOwned == AccountsSpec => []SomebodyOwns
  BY AccountsInvHolds, PTL DEF AccountsInv

-----------------------------------------------------------------------------
(* What a step does to the tokens.                                         *)

\* Whatever the step, the tokens are left as they are, or all of a user end,
\* or one begins, is renewed or expires.
TokensStep ==
    \/ UNCHANGED <<tokens, lastId.token>>
    \/ \E u \in 1..MaxUsers : EndSessions(TokensOf(u)) /\ UNCHANGED lastId.token
    \/ \E u \in DOMAIN users : Login(u)
    \/ \E t \in DOMAIN tokens :
          /\ UNCHANGED lastId.token
          /\ \/ ~tokens[t].expired /\ Counted(t)
             \/ Expire(t)

LEMMA AddUserToken ==
    ASSUME NEW user, NEW list, AddUser(user, list)
    PROVE  UNCHANGED lastId.token
  BY DEF AddUser

LEMMA TokensStepTaken ==
    ASSUME AccountsInv, [AccountsNext]_vars
    PROVE  TokensStep
<1>1. CASE UNCHANGED vars
  BY <1>1 DEF vars, accountVars, TokensStep
<1>2. ASSUME NEW who \in Principals,
             \/ ChangeSettings(who)
             \/ \E roles \in KeyRoles : CreateKey(who, roles)
             \/ \E k \in keys : DeleteKey(who, k)
             \/ \E u \in DOMAIN users :
                   \/ \E name \in NewNames : ChangeUsername(who, u, name)
                   \/ \E b \in BOOLEAN : SetVerified(who, u, b) \/ SetRootUser(who, u, b)
      PROVE  TokensStep
  <2>1. UNCHANGED <<tokens, lastId>>
    BY <1>2 DEF ChangeSettings, CreateKey, DeleteKey, ChangeUsername, SetVerified, SetRootUser, accountVars
  <2>2. QED
    BY <2>1 DEF TokensStep
<1>3. ASSUME NEW who \in Principals, NEW list \in RoleLists, Create(who, list)
      PROVE  TokensStep
  BY <1>3, AddUserToken DEF Create, TokensStep
<1>4. ASSUME NEW who \in Principals, NEW u \in DOMAIN users, NEW list \in RoleLists, SetUserRoles(who, u, list)
      PROVE  TokensStep
  BY <1>4, WithRolesKeeps DEF SetUserRoles, TokensStep
<1>5. \A u \in DOMAIN users : u \in 1..MaxUsers
  BY AccountsAssumption DEF AccountsInv, UsersAreTold
<1>6. ASSUME NEW who \in Principals, NEW u \in DOMAIN users, DeleteUser(who, u)
      PROVE  TokensStep
  <2>1. EndSessions(TokensOf(u)) /\ UNCHANGED lastId
    BY <1>6 DEF DeleteUser, Cascade
  <2>2. QED
    BY <1>5, <2>1 DEF TokensStep
<1>7. CASE Request
  BY <1>2, <1>3, <1>4, <1>6, <1>7 DEF Request
<1>8. CASE Register
  BY <1>8, AddUserToken DEF Register, TokensStep
<1>9. ASSUME NEW u \in DOMAIN users, Login(u) \/ Logout(u) PROVE TokensStep
  <2>1. CASE Login(u)
    BY <2>1 DEF TokensStep
  <2>2. CASE Logout(u)
    BY <1>5, <2>2 DEF TokensStep, Logout
  <2>3. QED
    BY <1>9, <2>1, <2>2
<1>10. ASSUME NEW t \in DOMAIN tokens, Refresh(t) \/ Expire(t) PROVE TokensStep
  <2>1. UNCHANGED lastId
    BY <1>10 DEF Refresh, Expire
  <2>2. tokens[t].user \in 1..MaxUsers
    BY DEF AccountsInv, TokensAreTold, Token
  <2>3. CASE Refused(t)
    BY <2>1, <2>2, <2>3 DEF Refused, TokensStep
  <2>4. CASE ~tokens[t].expired /\ Counted(t)
    BY <2>1, <2>4 DEF TokensStep
  <2>5. CASE Expire(t)
    BY <2>1, <2>5 DEF TokensStep
  <2>6. QED
    BY <1>10, <2>3, <2>4, <2>5 DEF Refresh
<1>11. ASSUME NEW login \in BOOLEAN, NEW registration \in Registrations,
              CompleteWizard(login, registration) \/ WizardCutShort(login, registration)
       PROVE  TokensStep
  <2>1. UNCHANGED tokens /\ \E list : AddUser(Owner, list)
    BY <1>11 DEF CompleteWizard, WizardCutShort
  <2>2. QED
    BY <2>1, AddUserToken DEF TokensStep
<1>12. CASE Stop
  BY <1>12 DEF Stop, TokensStep
<1>13. CASE Boot
  <2>1. tokens' = tokens /\ (DemoAccount \/ UNCHANGED lastId)
    BY <1>13 DEF Boot
  <2>2. UNCHANGED lastId.token
    BY <2>1, DemoAccountKeeps DEF AccountsInv
  <2>3. QED
    BY <2>1, <2>2 DEF TokensStep
<1>14. CASE BootFails
  BY <1>14 DEF BootFails, DemoAccountFails, TokensStep
<1>15. QED
  BY <1>1, <1>7, <1>8, <1>9, <1>10, <1>11, <1>12, <1>13, <1>14 DEF AccountsNext

\* A login that has not expired ends with every login of its user, on logout,
\* deletion and refusal (auth.service.ts:53).
THEOREM AccountsSessions == AccountsSpec => SessionsEndTogether
<1>. DEFINE together == \A t \in DOMAIN tokens \ DOMAIN tokens' :
                           ~tokens[t].expired =>
                               \A x \in DOMAIN tokens' : tokens'[x].user # tokens[t].user
<1>1. ASSUME AccountsInv, [AccountsNext]_vars
      PROVE  together
  <2>1. CASE UNCHANGED <<tokens, lastId.token>>
    BY <2>1
  <2>2. ASSUME NEW u \in 1..MaxUsers, EndSessions(TokensOf(u)) PROVE together
    BY <2>2 DEF EndSessions, Without, TokensOf
  <2>3. ASSUME NEW u \in DOMAIN users, Login(u) PROVE together
    BY <2>3 DEF Login
  <2>4. ASSUME NEW t \in DOMAIN tokens, Counted(t) \/ Expire(t) PROVE together
    BY <2>4 DEF Counted, Expire
  <2>. HIDE DEF together
  <2>5. QED
    BY <1>1, <2>1, <2>2, <2>3, <2>4, TokensStepTaken DEF TokensStep
<1>2. QED
  BY <1>1, AccountsInvHolds, PTL DEF AccountsSpec, SessionsEndTogether

-----------------------------------------------------------------------------
(* The refinement: the tokens are the logins of SessionContract.           *)

LoginState == [state : {"unused", "live", "ended"}, user : 0..MaxUsers, renewals : Nat]

LEMMA LoginsTyped ==
    ASSUME TokensAreTold
    PROVE  Logins \in [1..MaxTokens -> LoginState]
<1>1. ASSUME NEW t \in 1..MaxTokens PROVE Logins[t] \in LoginState
  <2>1. 0 \in 0..MaxUsers /\ 0 \in Nat
    BY AccountsAssumption
  <2>2. CASE t > lastId.token \/ t \notin DOMAIN tokens
    BY <2>1, <2>2 DEF Logins, LoginState
  <2>3. CASE ~(t > lastId.token) /\ t \in DOMAIN tokens
    <3>1. /\ tokens[t].user \in 0..MaxUsers /\ tokens[t].used \in Nat
          /\ tokens[t].expired \in BOOLEAN
      BY <2>3 DEF TokensAreTold, Token
    <3>2. CASE tokens[t].expired
      BY <2>1, <2>3, <3>2 DEF Logins, LoginState
    <3>3. CASE ~tokens[t].expired
      BY <2>3, <3>1, <3>3 DEF Logins, LoginState
    <3>4. QED
      BY <3>1, <3>2, <3>3
  <2>4. QED
    BY <2>2, <2>3
<1>2. QED
  BY <1>1 DEF Logins

\* The login of a token that is there, of one that is gone, and of one to come
LEMMA LoginOf ==
    ASSUME TokensAreTold, NEW t \in 1..MaxTokens
    PROVE  /\ t > lastId.token => Logins[t] = Contract!Unused /\ t \notin DOMAIN tokens
           /\ t <= lastId.token /\ t \notin DOMAIN tokens => Logins[t] = Contract!Ended
           /\ t \in DOMAIN tokens => t <= lastId.token
           /\ t \in DOMAIN tokens /\ tokens[t].expired => Logins[t] = Contract!Ended
           /\ t \in DOMAIN tokens /\ ~tokens[t].expired =>
                 Logins[t] = [state |-> "live", user |-> tokens[t].user, renewals |-> tokens[t].used]
<1>1. lastId.token \in Nat /\ (t \in DOMAIN tokens => t <= lastId.token)
  BY DEF TokensAreTold
<1>2. QED
  BY <1>1 DEF Logins, Contract!Unused, Contract!Ended

\* All logins of a user end.
LEMMA EndIsSignOut ==
    ASSUME TokensAreTold, NEW u, EndSessions(TokensOf(u)), UNCHANGED lastId.token
    PROVE  Contract!SignOut(u)
<1>1. tokens' = [x \in DOMAIN tokens \ TokensOf(u) |-> tokens[x]]
  BY DEF EndSessions, Without
<1>2. ASSUME NEW t \in 1..MaxTokens
      PROVE  Logins'[t] = IF t \in Contract!LiveOf(u) THEN Contract!Ended ELSE Logins[t]
  <2>1. t \in Contract!LiveOf(u) <=> t \in TokensOf(u) /\ ~tokens[t].expired
    <3>1. CASE t \in DOMAIN tokens /\ ~tokens[t].expired
      <4>1. Logins[t] = [state |-> "live", user |-> tokens[t].user, renewals |-> tokens[t].used]
        BY <1>2, <3>1, LoginOf
      <4>2. QED
        BY <3>1, <4>1 DEF Contract!LiveOf, TokensOf
    <3>2. CASE ~(t \in DOMAIN tokens /\ ~tokens[t].expired)
      <4>1. lastId.token \in Nat
        BY DEF TokensAreTold
      <4>2. Logins[t] = Contract!Unused \/ Logins[t] = Contract!Ended
        <5>1. CASE t \notin DOMAIN tokens /\ t > lastId.token
          BY <5>1, LoginOf
        <5>2. CASE t \notin DOMAIN tokens /\ t <= lastId.token
          BY <5>2, LoginOf
        <5>3. CASE t \in DOMAIN tokens /\ tokens[t].expired
          BY <5>3, LoginOf
        <5>4. QED
          BY <3>2, <4>1, <5>1, <5>2, <5>3
      <4>3. Logins[t].state # "live"
        BY <4>2 DEF Contract!Unused, Contract!Ended
      <4>4. QED
        BY <3>2, <4>3 DEF Contract!LiveOf, TokensOf
    <3>3. QED
      BY <3>1, <3>2
  <2>2. CASE t \in TokensOf(u)
    <3>1. Logins'[t] = Contract!Ended
      BY <1>1, <2>2, LoginOf DEF Logins, Contract!Ended, TokensOf
    <3>2. QED
      BY <2>1, <2>2, <3>1, LoginOf DEF TokensOf
  <2>3. CASE t \notin TokensOf(u)
    <3>1. Logins'[t] = Logins[t]
      BY <1>1, <2>3 DEF Logins
    <3>2. QED
      BY <2>1, <2>3, <3>1
  <2>4. QED
    BY <2>2, <2>3
<1>3. Logins' = [t \in 1..MaxTokens |-> Logins'[t]]
  BY DEF Logins
<1>4. QED
  BY <1>2, <1>3 DEF Contract!SignOut

\* A token for a new login
LEMMA LoginIsOpen ==
    ASSUME AccountsInv, NEW u \in DOMAIN users, Login(u)
    PROVE  \E t \in 1..MaxTokens, v \in 1..MaxUsers : Contract!Open(t, v)
<1>. DEFINE n    == lastId.token + 1
            live == [state |-> "live", user |-> u, renewals |-> 0]
<1>1. n \in 1..MaxTokens /\ lastId.token \in Nat /\ n > lastId.token /\ u \in 1..MaxUsers
  BY AccountsAssumption DEF Login, AccountsInv, TokensAreTold, UsersAreTold
<1>2. Logins[n] = Contract!Unused /\ n \notin DOMAIN tokens
  BY <1>1, LoginOf DEF AccountsInv
<1>3. PICK kept : /\ kept = DOMAIN tokens \ {x \in TokensOf(u) : tokens[x].expired}
                  /\ tokens' = [x \in kept \cup {n} |->
                        IF x = n THEN [user |-> u, used |-> 0, expired |-> FALSE] ELSE tokens[x]]
                  /\ lastId'.token = n
  BY DEF Login
<1>4. Logins'[n] = live
  BY <1>1, <1>3 DEF Logins
<1>5. ASSUME NEW t \in 1..MaxTokens, t # n PROVE Logins'[t] = Logins[t]
  <2>1. t > lastId'.token <=> t > lastId.token
    BY <1>1, <1>3, <1>5
  <2>2. CASE t \in kept
    BY <1>3, <1>5, <2>1, <2>2 DEF Logins
  <2>3. CASE t \notin kept
    <3>1. t \notin DOMAIN tokens'
      BY <1>3, <1>5, <2>3
    <3>2. t \in DOMAIN tokens => tokens[t].expired
      BY <1>3, <2>3
    <3>3. QED
      BY <2>1, <3>1, <3>2 DEF Logins
  <2>4. QED
    BY <2>2, <2>3
<1>6. Logins' = [t \in 1..MaxTokens |-> IF t = n THEN live ELSE Logins[t]]
  BY <1>4, <1>5 DEF Logins
<1>7. Logins \in [1..MaxTokens -> LoginState]
  BY LoginsTyped DEF AccountsInv
<1>. HIDE DEF n, live
<1>8. Logins' = [Logins EXCEPT ![n] = live]
  BY <1>1, <1>6, <1>7
<1>9. Contract!Open(n, u)
  BY <1>2, <1>8 DEF Contract!Open, live
<1>10. QED
  BY <1>1, <1>9

\* A renewal, of a token that has not expired
LEMMA CountedIsRenew ==
    ASSUME TokensAreTold, NEW t \in DOMAIN tokens, UNCHANGED lastId.token,
           ~tokens[t].expired, Counted(t)
    PROVE  t \in 1..MaxTokens /\ Contract!Renew(t)
<1>1. t \in 1..MaxTokens /\ lastId.token \in Nat
  BY AccountsAssumption DEF TokensAreTold
<1>2. Logins[t] = [state |-> "live", user |-> tokens[t].user, renewals |-> tokens[t].used]
  BY <1>1, LoginOf
<1>3. /\ DOMAIN tokens' = DOMAIN tokens
      /\ tokens'[t].user = tokens[t].user /\ tokens'[t].used = tokens[t].used + 1 /\ ~tokens'[t].expired
      /\ \A x \in DOMAIN tokens \ {t} : tokens'[x] = tokens[x]
  BY DEF Counted, TokensAreTold, Token
<1>4. Logins'[t] = [state |-> "live", user |-> tokens[t].user, renewals |-> tokens[t].used + 1]
  <2>1. ~(t > lastId'.token)
    BY <1>1, LoginOf
  <2>2. QED
    BY <1>1, <1>3, <2>1 DEF Logins
<1>5. \A x \in 1..MaxTokens \ {t} : Logins'[x] = Logins[x]
  BY <1>3 DEF Logins
<1>6. Logins \in [1..MaxTokens -> LoginState]
  BY LoginsTyped
<1>7. Logins'[t] = [Logins[t] EXCEPT !.renewals = @ + 1]
  BY <1>1, <1>2, <1>4, <1>6 DEF LoginState
<1>8. Logins' = [x \in 1..MaxTokens |-> Logins'[x]]
  BY DEF Logins
<1>9. Logins' = [Logins EXCEPT ![t].renewals = @ + 1]
  BY <1>1, <1>5, <1>6, <1>7, <1>8
<1>10. QED
  BY <1>1, <1>2, <1>9 DEF Contract!Renew

\* Time passes for a token that has not expired.
LEMMA ExpireIsLapse ==
    ASSUME TokensAreTold, NEW t \in DOMAIN tokens, UNCHANGED lastId.token, Expire(t)
    PROVE  t \in 1..MaxTokens /\ Contract!Lapse(t)
<1>1. t \in 1..MaxTokens /\ lastId.token \in Nat
  BY AccountsAssumption DEF TokensAreTold
<1>2. Logins[t] = [state |-> "live", user |-> tokens[t].user, renewals |-> tokens[t].used]
  BY <1>1, LoginOf DEF Expire
<1>3. /\ DOMAIN tokens' = DOMAIN tokens /\ tokens'[t].expired
      /\ \A x \in DOMAIN tokens \ {t} : tokens'[x] = tokens[x]
  BY DEF Expire, TokensAreTold, Token
<1>4. Logins'[t] = Contract!Ended
  <2>1. ~(t > lastId'.token)
    BY <1>1, LoginOf
  <2>2. QED
    BY <1>1, <1>3, <2>1 DEF Logins, Contract!Ended
<1>5. \A x \in 1..MaxTokens \ {t} : Logins'[x] = Logins[x]
  BY <1>3 DEF Logins
<1>6. Logins \in [1..MaxTokens -> LoginState] /\ Logins' = [x \in 1..MaxTokens |-> Logins'[x]]
  BY LoginsTyped DEF Logins
<1>7. Logins' = [Logins EXCEPT ![t] = Contract!Ended]
  BY <1>1, <1>4, <1>5, <1>6
<1>8. QED
  BY <1>1, <1>2, <1>7 DEF Contract!Lapse

LEMMA StepRefines ==
    ASSUME AccountsInv, TokensStep
    PROVE  [Contract!Next]_Logins
<1>0. TokensAreTold
  BY DEF AccountsInv
<1>1. CASE UNCHANGED <<tokens, lastId.token>>
  BY <1>1 DEF Logins
<1>2. ASSUME NEW u \in 1..MaxUsers, EndSessions(TokensOf(u)), UNCHANGED lastId.token
      PROVE  Contract!Next
  BY <1>0, <1>2, EndIsSignOut DEF Contract!Next
<1>3. ASSUME NEW u \in DOMAIN users, Login(u) PROVE Contract!Next
  BY <1>3, LoginIsOpen DEF Contract!Next
<1>4. ASSUME NEW t \in DOMAIN tokens, UNCHANGED lastId.token, ~tokens[t].expired, Counted(t)
      PROVE  Contract!Next
  BY <1>0, <1>4, CountedIsRenew DEF Contract!Next
<1>5. ASSUME NEW t \in DOMAIN tokens, UNCHANGED lastId.token, Expire(t)
      PROVE  Contract!Next
  BY <1>0, <1>5, ExpireIsLapse DEF Contract!Next
<1>6. QED
  BY <1>1, <1>2, <1>3, <1>4, <1>5 DEF TokensStep

\* The rows of refresh_token implement SessionContract: a login begins once,
\* is renewed only while it lasts, and never comes back
\* (auth.service.ts:83).
THEOREM AccountsRefine == AccountsSpec => TokensAreSessions
<1>1. AccountsInit => Contract!Init
  BY DEF AccountsInit, Contract!Init, Contract!Unused, Logins
<1>2. AccountsInv /\ [AccountsNext]_vars => [Contract!Next]_Logins
  BY TokensStepTaken, StepRefines
<1>3. QED
  BY <1>1, <1>2, AccountsInvHolds, PTL DEF AccountsSpec, TokensAreSessions, Contract!Spec

-----------------------------------------------------------------------------
(* The rows that refer to users, and types.                                *)

RoleRow == [user : DOMAIN users, role : Roles]

RowsAreTold ==
    /\ lastId \in [user : Nat, row : 0..MaxRoleRows, token : Nat]
    /\ demoMode \in BOOLEAN
    /\ DOMAIN userRoles \subseteq 1..lastId.row
    /\ \A r \in DOMAIN userRoles : userRoles[r] \in RoleRow
    /\ \A r, s \in DOMAIN userRoles : userRoles[r] = userRoles[s] => r = s

ReferencesHold ==
    /\ \A t \in DOMAIN tokens : tokens[t].user \in DOMAIN users
    /\ \A k \in keys : k.by \in DOMAIN users /\ k.roles \in KeyRoles

LEMMA RowsStay ==
    ASSUME RowsAreTold, UNCHANGED <<userRoles, lastId>>, DOMAIN users \subseteq DOMAIN users', demoMode' \in BOOLEAN
    PROVE  RowsAreTold'
BY DEF RowsAreTold, RoleRow

RoleList(list) == list \in Seq(Roles) /\ \A i, k \in DOMAIN list : list[i] = list[k] => i = k

LEMMA RoleListsAre == \A list \in RoleLists : RoleList(list)
BY AccountsAssumption DEF RoleList, Roles, IsInjective

LEMMA ShortRoleLists == \A role \in Roles : RoleList(<<role>>) /\ RoleList(<< >>)
BY DEF RoleList

\* A new user's roles are rows of its own.
LEMMA AddUserRows ==
    ASSUME UsersAreTold, RowsAreTold, demoMode' \in BOOLEAN, NEW user, NEW list, RoleList(list), AddUser(user, list)
    PROVE  RowsAreTold' /\ DOMAIN users \subseteq DOMAIN users'
<1>. DEFINE u == lastId.user + 1
            a == lastId.row
            n == Len(list)
            rows == a + 1 .. a + n
<1>1. /\ a \in 0..MaxRoleRows /\ MaxRoleRows \in Nat /\ n \in Nat /\ DOMAIN list = 1..n
      /\ u \in Nat /\ u \notin DOMAIN users
  BY AccountsAssumption DEF RowsAreTold, UsersAreTold, RoleList
<1>2. /\ u <= MaxUsers /\ a + n <= MaxRoleRows
      /\ DOMAIN users' = DOMAIN users \cup {u}
      /\ userRoles' = [r \in DOMAIN userRoles \cup rows |->
                          IF r \in rows THEN [user |-> u, role |-> list[r - a]] ELSE userRoles[r]]
      /\ lastId' = [user |-> u, row |-> a + n, token |-> lastId.token]
  BY DEF AddUser
<1>3. lastId.token \in Nat /\ lastId'.row = a + n
  BY <1>2 DEF RowsAreTold
<1>4. lastId' \in [user : Nat, row : 0..MaxRoleRows, token : Nat]
  <2>1. a + n \in 0..MaxRoleRows
    BY <1>1, <1>2
  <2>2. QED
    BY <1>1, <1>2, <1>3, <2>1
<1>5. DOMAIN userRoles \subseteq 1..a /\ \A r \in DOMAIN userRoles : r \notin rows /\ userRoles[r] \in RoleRow
  BY <1>1 DEF RowsAreTold
<1>6. \A r \in rows : r - a \in DOMAIN list /\ list[r - a] \in Roles
  BY <1>1 DEF RoleList
<1>7. DOMAIN userRoles' = DOMAIN userRoles \cup rows
      /\ (\A r \in rows : userRoles'[r] = [user |-> u, role |-> list[r - a]])
      /\ (\A r \in DOMAIN userRoles : userRoles'[r] = userRoles[r])
  BY <1>2, <1>5
<1>8. DOMAIN userRoles' \subseteq 1..(a + n)
  BY <1>1, <1>5, <1>7
<1>9. ASSUME NEW r \in DOMAIN userRoles' PROVE userRoles'[r] \in RoleRow'
  <2>1. CASE r \in rows
    BY <1>2, <1>6, <1>7, <2>1 DEF RoleRow
  <2>2. CASE r \in DOMAIN userRoles
    BY <1>2, <1>5, <1>7, <2>2 DEF RoleRow
  <2>3. QED
    BY <1>7, <2>1, <2>2
<1>10. ASSUME NEW r \in DOMAIN userRoles', NEW s \in DOMAIN userRoles', userRoles'[r] = userRoles'[s]
       PROVE  r = s
  <2>1. \A x \in rows : userRoles'[x].user = u /\ userRoles'[x].role = list[x - a]
    <3>. HIDE DEF rows
    <3>1. QED
      BY <1>7
  <2>2. \A x \in DOMAIN userRoles : userRoles'[x].user # u
    BY <1>1, <1>5, <1>7 DEF RoleRow
  <2>3. CASE r \in rows /\ s \in rows
    <3>1. r - a = s - a
      BY <1>6, <1>10, <2>1, <2>3 DEF RoleList
    <3>2. QED
      BY <1>1, <2>3, <3>1
  <2>4. CASE r \in DOMAIN userRoles /\ s \in DOMAIN userRoles
    BY <1>7, <1>10, <2>4 DEF RowsAreTold
  <2>5. QED
    BY <1>7, <1>10, <2>1, <2>2, <2>3, <2>4
<1>11. QED
  BY <1>2, <1>3, <1>4, <1>8, <1>9, <1>10 DEF RowsAreTold

\* The places of the roles that are missing are told apart.
LEMMA MissingCounted ==
    ASSUME NEW n \in Nat, NEW M, M \subseteq 1..n
    PROVE  /\ Cardinality(M) \in Nat
           /\ \A i \in M : Cardinality({k \in M : k <= i}) \in 1..Cardinality(M)
<1>1. IsFiniteSet(1..n)
  BY FS_Interval
<1>2. IsFiniteSet(M) /\ Cardinality(M) \in Nat
  BY <1>1, FS_Subset, FS_CardinalityType
<1>3. ASSUME NEW i \in M PROVE Cardinality({k \in M : k <= i}) \in 1..Cardinality(M)
  <2>. DEFINE T == {k \in M : k <= i}
  <2>1. T \subseteq M /\ i \in T
    OBVIOUS
  <2>. HIDE DEF T
  <2>2. IsFiniteSet(T) /\ Cardinality(T) <= Cardinality(M) /\ Cardinality(T) \in Nat
    BY <1>2, <2>1, FS_Subset, FS_CardinalityType
  <2>3. Cardinality(T) # 0
    BY <2>1, <2>2, FS_EmptySet
  <2>4. Cardinality(T) \in 1..Cardinality(M)
    BY <1>2, <2>2, <2>3
  <2>5. QED
    BY <2>4 DEF T
<1>4. QED
  BY <1>2, <1>3

LEMMA WithRolesRows ==
    ASSUME RowsAreTold, DOMAIN users' = DOMAIN users, demoMode' \in BOOLEAN,
           NEW u \in DOMAIN users, NEW list, RoleList(list), WithRoles(u, list)
    PROVE  RowsAreTold'
<1>. DEFINE kept == {r \in DOMAIN userRoles : userRoles[r].user = u => userRoles[r].role \in ToSet(list)}
            M == {i \in DOMAIN list : list[i] \notin RolesOf(u)}
            RowFor(i) == lastId.row + Cardinality({k \in M : k <= i})
            added == {RowFor(i) : i \in M}
            Of(r) == CHOOSE i \in M : RowFor(i) = r
            a == lastId.row
            n == Cardinality(M)
<1>1. /\ a + n <= MaxRoleRows
      /\ userRoles' = [r \in kept \cup added |->
                          IF r \in kept THEN userRoles[r] ELSE [user |-> u, role |-> list[Of(r)]]]
      /\ lastId' = [user |-> lastId.user, row |-> a + n, token |-> lastId.token]
  BY Zenon DEF WithRoles
<1>2. M \subseteq 1..Len(list) /\ Len(list) \in Nat /\ \A i \in M : list[i] \in Roles
  BY DEF RoleList
<1>3. n \in Nat /\ \A i \in M : RowFor(i) \in (a + 1)..(a + n)
  <2>1. n \in Nat /\ \A i \in M : Cardinality({k \in M : k <= i}) \in 1..n
    <3>. HIDE DEF M
    <3>1. QED
      BY <1>2, MissingCounted
  <2>2. a \in Nat
    BY DEF RowsAreTold
  <2>3. QED
    BY <2>1, <2>2
<1>4. a \in 0..MaxRoleRows /\ MaxRoleRows \in Nat /\ lastId.user \in Nat /\ lastId.token \in Nat
  BY AccountsAssumption DEF RowsAreTold
<1>5. kept \subseteq DOMAIN userRoles /\ DOMAIN userRoles \subseteq 1..a
  BY DEF RowsAreTold
<1>6. \A r \in kept : userRoles[r] \in RoleRow
  BY DEF RowsAreTold
<1>7. \A r \in kept : userRoles[r].user = u => userRoles[r].role \in RolesOf(u)
  BY DEF RolesOf, RowsOf
<1>8. \A r \in added : Of(r) \in M /\ RowFor(Of(r)) = r
  <2>. HIDE DEF M, RowFor
  <2>1. QED
    OBVIOUS
<1>. HIDE DEF kept, RowFor
<1>9. added \subseteq (a + 1)..(a + n)
  BY <1>3
<1>10. \A r \in added : r \notin kept
  BY <1>3, <1>4, <1>5, <1>9
<1>11. \A i \in M : list[i] \notin RolesOf(u)
  OBVIOUS
<1>. HIDE DEF added, M, Of, n
<1>12. DOMAIN userRoles' = kept \cup added
       /\ (\A r \in kept : userRoles'[r] = userRoles[r])
       /\ (\A r \in added : userRoles'[r] = [user |-> u, role |-> list[Of(r)]])
  BY <1>1, <1>10
<1>13. DOMAIN userRoles' \subseteq 1..(a + n)
  <2>1. kept \subseteq 1..a /\ added \subseteq (a + 1)..(a + n) /\ a \in Nat
    BY <1>4, <1>5, <1>9
  <2>2. 1..a \subseteq 1..(a + n) /\ (a + 1)..(a + n) \subseteq 1..(a + n)
    BY <1>3, <2>1
  <2>3. QED
    BY <1>12, <2>1, <2>2
<1>14. lastId' \in [user : Nat, row : 0..MaxRoleRows, token : Nat] /\ lastId'.row = a + n
  <2>1. a + n \in 0..MaxRoleRows
    BY <1>1, <1>3, <1>4
  <2>2. QED
    BY <1>1, <1>4, <2>1
<1>15. ASSUME NEW r \in DOMAIN userRoles' PROVE userRoles'[r] \in RoleRow'
  <2>1. CASE r \in kept
    BY <1>6, <1>12, <2>1 DEF RoleRow
  <2>2. CASE r \in added
    <3>1. list[Of(r)] \in Roles
      BY <1>2, <1>8, <2>2, Zenon
    <3>2. userRoles'[r] = [user |-> u, role |-> list[Of(r)]]
      BY <1>12, <2>2, Zenon
    <3>3. QED
      BY <3>1, <3>2 DEF RoleRow
  <2>3. QED
    BY <1>12, <2>1, <2>2
<1>16. ASSUME NEW r \in DOMAIN userRoles', NEW s \in DOMAIN userRoles', userRoles'[r] = userRoles'[s]
       PROVE  r = s
  <2>1. \A x \in added : /\ userRoles'[x].user = u /\ userRoles'[x].role = list[Of(x)]
                         /\ userRoles'[x].role \notin RolesOf(u)
    BY <1>8, <1>11, <1>12
  <2>2. \A x \in kept : userRoles'[x].user = u => userRoles'[x].role \in RolesOf(u)
    BY <1>7, <1>12
  <2>3. CASE r \in kept /\ s \in kept
    BY <1>5, <1>12, <1>16, <2>3 DEF RowsAreTold
  <2>4. CASE r \in added /\ s \in added
    <3>1. list[Of(r)] = list[Of(s)] /\ Of(r) \in M /\ Of(s) \in M
      BY <1>8, <1>16, <2>1, <2>4
    <3>2. Of(r) = Of(s)
      <4>1. DOMAIN list = 1..Len(list) /\ \A i, k \in DOMAIN list : list[i] = list[k] => i = k
        BY DEF RoleList
      <4>2. Of(r) \in DOMAIN list /\ Of(s) \in DOMAIN list
        BY <1>2, <3>1, <4>1
      <4>3. QED
        BY <3>1, <4>1, <4>2, Zenon
    <3>3. QED
      BY <1>8, <2>4, <3>2
  <2>5. QED
    BY <1>12, <1>16, <2>1, <2>2, <2>3, <2>4
<1>17. QED
  BY <1>13, <1>14, <1>15, <1>16 DEF RowsAreTold

LEMMA DeleteUserRows ==
    ASSUME RowsAreTold, ReferencesHold, NEW u \in DOMAIN users, Cascade(u), UNCHANGED <<lastId, demoMode>>
    PROVE  RowsAreTold' /\ ReferencesHold'
<1>1. /\ users' = Without(users, {u}) /\ userRoles' = Without(userRoles, RowsOf(u))
      /\ tokens' = Without(tokens, TokensOf(u)) /\ keys' = {k \in keys : k.by # u}
  BY DEF Cascade, EndSessions
<1>2. DOMAIN users' = DOMAIN users \ {u}
  BY <1>1 DEF Without
<1>3. DOMAIN userRoles' = DOMAIN userRoles \ RowsOf(u) /\ \A r \in DOMAIN userRoles' : userRoles'[r] = userRoles[r]
  BY <1>1 DEF Without
<1>4. DOMAIN tokens' = DOMAIN tokens \ TokensOf(u) /\ \A t \in DOMAIN tokens' : tokens'[t] = tokens[t]
  BY <1>1 DEF Without
<1>5. RowsAreTold'
  <2>1. \A r \in DOMAIN userRoles' : userRoles'[r] \in RoleRow'
    BY <1>2, <1>3 DEF RowsAreTold, RowsOf, RoleRow
  <2>2. QED
    BY <1>3, <2>1 DEF RowsAreTold
<1>6. ReferencesHold'
  BY <1>1, <1>2, <1>4 DEF ReferencesHold, TokensOf
<1>7. QED
  BY <1>5, <1>6

LEMMA ReferencesStay ==
    ASSUME ReferencesHold, DOMAIN users \subseteq DOMAIN users', UNCHANGED <<tokens, keys>>
    PROVE  ReferencesHold'
BY DEF ReferencesHold

LEMMA RequestRows ==
    ASSUME AccountsInv, RowsAreTold, ReferencesHold, Request
    PROVE  RowsAreTold' /\ ReferencesHold'
<1>. USE DEF AccountsInv
<1>0. PICK who \in Principals :
         \/ ChangeSettings(who)
         \/ \E list \in RoleLists : Create(who, list)
         \/ \E roles \in KeyRoles : CreateKey(who, roles)
         \/ \E k \in keys : DeleteKey(who, k)
         \/ \E u \in DOMAIN users :
               \/ DeleteUser(who, u)
               \/ \E name \in NewNames : ChangeUsername(who, u, name)
               \/ \E list \in RoleLists : SetUserRoles(who, u, list)
               \/ \E b \in BOOLEAN : SetVerified(who, u, b) \/ SetRootUser(who, u, b)
  BY DEF Request
<1>1. CASE ChangeSettings(who)
  <2>1. UNCHANGED <<users, userRoles, tokens, keys, lastId, demoMode>>
    BY <1>1 DEF ChangeSettings, accountVars
  <2>2. DOMAIN users \subseteq DOMAIN users' /\ demoMode' \in BOOLEAN
    BY <2>1 DEF RowsAreTold
  <2>3. QED
    BY <2>1, <2>2, RowsStay, ReferencesStay
<1>2. ASSUME NEW list \in RoleLists, Create(who, list) PROVE RowsAreTold' /\ ReferencesHold'
  <2>. DEFINE user == [demo |-> FALSE, root |-> FALSE, verified |-> TRUE, name |-> "own"]
  <2>1. AddUser(user, list) /\ UNCHANGED <<demoMode, tokens, keys>>
    BY <1>2 DEF Create
  <2>. HIDE DEF user
  <2>2. RoleList(list) /\ demoMode' \in BOOLEAN
    BY <2>1, RoleListsAre DEF RowsAreTold
  <2>3. QED
    BY <2>1, <2>2, AddUserRows, ReferencesStay
<1>3. ASSUME NEW roles \in KeyRoles, CreateKey(who, roles) PROVE RowsAreTold' /\ ReferencesHold'
  <2>1. UNCHANGED <<users, userRoles, tokens, lastId, demoMode>>
        /\ keys' = keys \cup {[by |-> who.id, roles |-> roles]} /\ who.id > 0
    BY <1>3 DEF CreateKey
  <2>2. who.id \in DOMAIN users
    <3>1. CASE who \in {[id |-> u, roles |-> RolesOf(u)] : u \in Verified}
      BY <3>1 DEF Verified
    <3>2. CASE who \in {[id |-> -1, roles |-> k.roles] : k \in keys}
      BY <2>1, <3>2
    <3>3. CASE who = [id |-> 0, roles |-> {"ADMIN"}]
      BY <2>1, <3>3
    <3>4. QED
      BY <3>1, <3>2, <3>3 DEF Principals
  <2>3. ReferencesHold'
    BY <2>1, <2>2 DEF ReferencesHold
  <2>4. QED
    BY <2>1, <2>3, RowsStay DEF RowsAreTold
<1>4. ASSUME NEW k \in keys, DeleteKey(who, k) PROVE RowsAreTold' /\ ReferencesHold'
  <2>1. UNCHANGED <<users, userRoles, tokens, lastId, demoMode>> /\ keys' = keys \ {k}
    BY <1>4 DEF DeleteKey
  <2>2. ReferencesHold'
    BY <2>1 DEF ReferencesHold
  <2>3. QED
    BY <2>1, <2>2, RowsStay DEF RowsAreTold
<1>5. ASSUME NEW u \in DOMAIN users, DeleteUser(who, u) PROVE RowsAreTold' /\ ReferencesHold'
  <2>1. Cascade(u) /\ UNCHANGED <<lastId, demoMode>>
    BY <1>5 DEF DeleteUser
  <2>2. QED
    BY <2>1, DeleteUserRows
<1>6. ASSUME NEW u \in DOMAIN users,
             \/ \E name \in NewNames : ChangeUsername(who, u, name)
             \/ \E b \in BOOLEAN : SetVerified(who, u, b) \/ SetRootUser(who, u, b)
      PROVE  RowsAreTold' /\ ReferencesHold'
  <2>1. UNCHANGED <<userRoles, tokens, keys, lastId, demoMode>> /\ DOMAIN users' = DOMAIN users
    BY <1>6 DEF ChangeUsername, SetVerified, SetRootUser
  <2>2. DOMAIN users \subseteq DOMAIN users' /\ demoMode' \in BOOLEAN
    BY <2>1 DEF RowsAreTold
  <2>3. QED
    BY <2>1, <2>2, RowsStay, ReferencesStay
<1>7. ASSUME NEW u \in DOMAIN users, NEW list \in RoleLists, SetUserRoles(who, u, list)
      PROVE  RowsAreTold' /\ ReferencesHold'
  <2>1. UNCHANGED <<users, tokens, keys, demoMode>> /\ WithRoles(u, list)
    BY <1>7 DEF SetUserRoles
  <2>2. RoleList(list) /\ demoMode' \in BOOLEAN /\ DOMAIN users' = DOMAIN users
    BY <2>1, RoleListsAre DEF RowsAreTold
  <2>3. QED
    BY <2>1, <2>2, WithRolesRows, ReferencesStay
<1>8. QED
  BY <1>0, <1>1, <1>2, <1>3, <1>4, <1>5, <1>6, <1>7

LEMMA SessionRows ==
    ASSUME AccountsInv, RowsAreTold, ReferencesHold,
           \/ \E u \in DOMAIN users : Login(u) \/ Logout(u)
           \/ \E t \in DOMAIN tokens : Refresh(t) \/ Expire(t)
    PROVE  RowsAreTold' /\ ReferencesHold'
<1>1. ASSUME NEW u \in DOMAIN users, Login(u) PROVE RowsAreTold' /\ ReferencesHold'
  <2>. DEFINE n == lastId.token + 1
  <2>1. /\ UNCHANGED <<users, userRoles, keys, demoMode>>
        /\ lastId' = [user |-> lastId.user, row |-> lastId.row, token |-> n]
        /\ DOMAIN tokens' \subseteq DOMAIN tokens \cup {n}
        /\ tokens' = [x \in DOMAIN tokens' |-> IF x = n THEN [user |-> u, used |-> 0, expired |-> FALSE] ELSE tokens[x]]
    BY <1>1 DEF Login
  <2>2. ReferencesHold'
    <3>1. ASSUME NEW t \in DOMAIN tokens' PROVE tokens'[t].user \in DOMAIN users
      <4>1. CASE t = n
        BY <2>1, <4>1
      <4>2. CASE t # n
        BY <2>1, <4>2 DEF ReferencesHold
      <4>3. QED
        BY <4>1, <4>2
    <3>2. QED
      BY <2>1, <3>1 DEF ReferencesHold
  <2>3. RowsAreTold'
    BY <2>1 DEF RowsAreTold, RoleRow
  <2>4. QED
    BY <2>2, <2>3
<1>2. ASSUME NEW S, EndSessions(S), UNCHANGED <<users, userRoles, keys, demoMode, lastId>>
      PROVE  RowsAreTold' /\ ReferencesHold'
  <2>1. ReferencesHold'
    BY <1>2 DEF ReferencesHold, EndSessions, Without
  <2>2. QED
    BY <1>2, <2>1, RowsStay DEF RowsAreTold
<1>3. ASSUME NEW u \in DOMAIN users, Logout(u) PROVE RowsAreTold' /\ ReferencesHold'
  BY <1>2, <1>3 DEF Logout
<1>4. ASSUME NEW t \in DOMAIN tokens, Refresh(t) PROVE RowsAreTold' /\ ReferencesHold'
  <2>1. UNCHANGED <<users, userRoles, keys, demoMode, lastId>>
    BY <1>4 DEF Refresh
  <2>2. CASE Refused(t)
    BY <1>2, <2>1, <2>2 DEF Refused
  <2>3. CASE Counted(t)
    <3>1. ReferencesHold'
      BY <2>1, <2>3 DEF Counted, ReferencesHold, AccountsInv, TokensAreTold, Token
    <3>2. QED
      BY <2>1, <3>1, RowsStay DEF RowsAreTold
  <2>4. QED
    BY <1>4, <2>2, <2>3 DEF Refresh
<1>5. ASSUME NEW t \in DOMAIN tokens, Expire(t) PROVE RowsAreTold' /\ ReferencesHold'
  <2>1. UNCHANGED <<users, userRoles, keys, demoMode, lastId>>
    BY <1>5 DEF Expire
  <2>2. ReferencesHold'
    BY <1>5, <2>1 DEF Expire, ReferencesHold, AccountsInv, TokensAreTold, Token
  <2>3. QED
    BY <2>1, <2>2, RowsStay DEF RowsAreTold
<1>6. QED
  BY <1>1, <1>3, <1>4, <1>5

LEMMA AddedRows ==
    ASSUME AccountsInv, RowsAreTold, ReferencesHold, demoMode' \in BOOLEAN, UNCHANGED <<tokens, keys>>,
           NEW user, NEW list, RoleList(list), AddUser(user, list)
    PROVE  RowsAreTold' /\ ReferencesHold'
BY AddUserRows, ReferencesStay DEF AccountsInv

LEMMA SetupRows ==
    ASSUME AccountsInv, RowsAreTold, ReferencesHold,
           \/ Register
           \/ \E login \in BOOLEAN, registration \in Registrations :
                 CompleteWizard(login, registration) \/ WizardCutShort(login, registration)
    PROVE  RowsAreTold' /\ ReferencesHold'
<1>1. demoMode \in BOOLEAN /\ RoleList(<<"ADMIN">>) /\ RoleList(<<"OTHER">>) /\ RoleList(<< >>)
  BY ShortRoleLists DEF RowsAreTold, Roles
<1>2. CASE Register
  <2>1. \E user : AddUser(user, <<IF cache.server.loginRequired THEN "OTHER" ELSE "ADMIN">>)
    BY <1>2 DEF Register
  <2>2. demoMode' = demoMode /\ UNCHANGED <<tokens, keys>>
    BY <1>2 DEF Register
  <2>3. QED
    BY <1>1, <2>1, <2>2, AddedRows
<1>3. ASSUME NEW login \in BOOLEAN, NEW registration \in Registrations,
             CompleteWizard(login, registration) \/ WizardCutShort(login, registration)
      PROVE  RowsAreTold' /\ ReferencesHold'
  <2>1. \E list \in {<< >>, <<"ADMIN">>} : AddUser(Owner, list)
    BY <1>3 DEF CompleteWizard, WizardCutShort
  <2>2. demoMode' \in BOOLEAN /\ UNCHANGED <<tokens, keys>>
    BY <1>1, <1>3 DEF CompleteWizard, WizardCutShort, Down
  <2>3. QED
    BY <1>1, <2>1, <2>2, AddedRows
<1>4. QED
  BY <1>2, <1>3

LEMMA BootRows ==
    ASSUME AccountsInv, RowsAreTold, ReferencesHold, Boot \/ BootFails \/ Stop
    PROVE  RowsAreTold' /\ ReferencesHold'
<1>1. UNCHANGED <<tokens, keys>> /\ demoMode' \in BOOLEAN
  BY DEF Boot, BootFails, Stop, Down, RowsAreTold
<1>2. CASE UNCHANGED <<userRoles, lastId>> /\ DOMAIN users' = DOMAIN users
  BY <1>1, <1>2, RowsStay, ReferencesStay
<1>3. CASE DemoAccount
  <2>1. DemoRole \in Roles /\ RoleList(<<DemoRole>>)
    BY AccountsAssumption, ShortRoleLists DEF Roles
  <2>2. CASE \E user : AddUser(user, <<DemoRole>>)
    BY <1>1, <2>1, <2>2, AddedRows
  <2>3. ASSUME NEW d \in DemoUsers, DOMAIN users' = DOMAIN users, WithRoles(d, <<DemoRole>>)
        PROVE  RowsAreTold' /\ ReferencesHold'
    <3>1. d \in DOMAIN users
      BY DEF DemoUsers
    <3>2. QED
      BY <1>1, <2>1, <2>3, <3>1, WithRolesRows, ReferencesStay
  <2>4. QED
    BY <1>3, <2>2, <2>3 DEF DemoAccount
<1>4. QED
  BY <1>2, <1>3 DEF Boot, BootFails, DemoAccountFails, Stop

RowsInv == AccountsInv /\ RowsAreTold /\ ReferencesHold

LEMMA RowsInvInit == AccountsInit => RowsInv
<1>. SUFFICES ASSUME AccountsInit PROVE RowsInv
  OBVIOUS
<1>1. /\ demoMode = FALSE /\ DOMAIN userRoles = {} /\ DOMAIN tokens = {} /\ keys = {}
      /\ lastId = [user |-> 0, row |-> 0, token |-> 0]
  BY DEF AccountsInit
<1>2. AccountsInv
  BY AccountsInvInit
<1>3. lastId \in [user : Nat, row : 0..MaxRoleRows, token : Nat]
  <2>1. 0 \in Nat /\ 0 \in 0..MaxRoleRows
    BY AccountsAssumption
  <2>2. QED
    BY <1>1, <2>1
<1>4. RowsAreTold
  BY <1>1, <1>3 DEF RowsAreTold
<1>5. ReferencesHold
  BY <1>1 DEF ReferencesHold
<1>6. QED
  BY <1>2, <1>4, <1>5 DEF RowsInv

LEMMA RowsInvNext ==
    ASSUME RowsInv, [AccountsNext]_vars
    PROVE  RowsInv'
<1>1. AccountsInv'
  BY AccountsInvNext DEF RowsInv
<1>2. CASE UNCHANGED vars
  <2>1. UNCHANGED <<users, userRoles, tokens, keys, lastId, demoMode>>
    BY <1>2 DEF vars, accountVars
  <2>2. QED
    BY <1>1, <2>1, RowsStay, ReferencesStay DEF RowsInv, RowsAreTold
<1>3. CASE AccountsNext
  BY <1>1, <1>3, RequestRows, SessionRows, SetupRows, BootRows DEF RowsInv, AccountsNext
<1>4. QED
  BY <1>2, <1>3

LEMMA TypesHold == ASSUME RowsInv PROVE AccountsTypeOK
<1>1. SettingsTypeOK /\ {up, demoMode} \subseteq BOOLEAN /\ (up => Loaded)
  BY SettingsAssumption DEF RowsInv, AccountsInv, SettingsAreThere, RowsAreTold, Loaded
<1>2. lastId \in [user : 0..MaxUsers, row : 0..MaxRoleRows, token : 0..MaxTokens]
  BY DEF RowsInv, AccountsInv, UsersAreTold, TokensAreTold, RowsAreTold
<1>3. DOMAIN users \subseteq 1..lastId.user /\ \A u \in DOMAIN users : users[u] \in User
  BY DEF RowsInv, AccountsInv, UsersAreTold
<1>4. /\ DOMAIN tokens \subseteq 1..lastId.token
      /\ \A t \in DOMAIN tokens : tokens[t] \in [user : DOMAIN users, used : Nat, expired : BOOLEAN]
  BY DEF RowsInv, AccountsInv, TokensAreTold, Token, ReferencesHold
<1>5. /\ DOMAIN userRoles \subseteq 1..lastId.row
      /\ \A r \in DOMAIN userRoles : userRoles[r] \in [user : DOMAIN users, role : Roles]
      /\ \A r, s \in DOMAIN userRoles : userRoles[r] = userRoles[s] => r = s
  BY DEF RowsInv, RowsAreTold, RoleRow
<1>6. \A k \in keys : k.by \in DOMAIN users /\ k.roles \in KeyRoles
  BY DEF RowsInv, ReferencesHold
<1>7. QED
  BY <1>1, <1>2, <1>3, <1>4, <1>5, <1>6, Zenon DEF AccountsTypeOK

\* The tables of users, roles, tokens and keys are well formed: no row refers
\* to a user that was deleted, whatever cascades, and no user is given a role
\* twice (user-role.service.ts:16).
THEOREM AccountsType == AccountsSpec => []AccountsTypeOK
<1>1. AccountsSpec => []RowsInv
  BY RowsInvInit, RowsInvNext, PTL DEF AccountsSpec
<1>2. RowsInv => AccountsTypeOK
  BY TypesHold
<1>3. QED
  BY <1>1, <1>2, PTL

-----------------------------------------------------------------------------
(* TaskManager: the timers and runs of one task.                           *)

\* The state s of task t is one that its registration and its timer leave: a
\* task that waits for its delay has not run, and only an interval has a timer.
Kept(t, s) ==
    /\ s \in TaskState
    /\ s.timers = IF Periodic(t) /\ ~s.disabled THEN 1 ELSE 0
    /\ s.runs = IF s.executing THEN 1 ELSE 0
    /\ s.delayed => Preset[t] = "delayed" /\ ~s.executing

TasksKept ==
    /\ DOMAIN tasks \subseteq Tasks
    /\ tasks = [t \in DOMAIN tasks |-> tasks[t]]
    /\ \A t \in DOMAIN tasks : Kept(t, tasks[t])

\* What TasksKept says of types and timers
LEMMA KeptTasks == TasksKept => TaskTypeOK /\ TimersFollow
BY DEF TasksKept, Kept, TaskTypeOK, TimersFollow

\* A run that begins or ends, and an interval that is stopped, change the
\* counts and flags of a state.
LEMMA Changes ==
    ASSUME NEW s \in TaskState
    PROVE  /\ s.runs = 0 => Executed(s) = [s EXCEPT !.executing = TRUE, !.runs = 1]
           /\ s.runs = 1 => Ended(s) = [s EXCEPT !.executing = FALSE, !.runs = 0]
           /\ s.timers = 1 => Disabled(s) = [s EXCEPT !.disabled = TRUE, !.timers = 0]
<1>1. ASSUME s.runs = 0
      PROVE  Executed(s) = [s EXCEPT !.executing = TRUE, !.runs = 1]
  <2>1. s.runs + 1 = 1
    BY <1>1
  <2>2. QED
    BY <2>1 DEF Executed
<1>2. ASSUME s.runs = 1
      PROVE  Ended(s) = [s EXCEPT !.executing = FALSE, !.runs = 0]
  <2>1. s.runs - 1 = 0
    BY <1>2
  <2>2. QED
    BY <2>1 DEF Ended
<1>3. ASSUME s.timers = 1
      PROVE  Disabled(s) = [s EXCEPT !.disabled = TRUE, !.timers = 0]
  <2>1. (IF s.timers = 0 THEN 0 ELSE s.timers - 1) = 0
    BY <1>3
  <2>2. QED
    BY <2>1 DEF Disabled
<1>4. QED
  BY <1>1, <1>2, <1>3

LEMMA StateAgain ==
    ASSUME NEW s \in TaskState
    PROVE  /\ [s EXCEPT !.executing = TRUE, !.runs = 1] \in TaskState
           /\ [s EXCEPT !.executing = FALSE, !.runs = 0] \in TaskState
           /\ [s EXCEPT !.disabled = TRUE, !.timers = 0] \in TaskState
<1>1. ASSUME NEW b \in BOOLEAN, NEW n \in 0..2
      PROVE  [s EXCEPT !.executing = b, !.runs = n] \in TaskState
  BY DEF TaskState
<1>2. ASSUME NEW b \in BOOLEAN, NEW m \in 0..1
      PROVE  [s EXCEPT !.disabled = b, !.timers = m] \in TaskState
  BY DEF TaskState
<1>3. {0, 1} \subseteq 0..2 /\ 0 \in 0..1
  OBVIOUS
<1>4. QED
  BY <1>1, <1>2, <1>3, Zenon

\* A task runs when its interval or its delay elapses, one run at a time.
LEMMA ExecutedKept ==
    ASSUME NEW t, NEW s, Kept(t, s), ~s.executing, ~s.delayed
    PROVE  Kept(t, Executed(s))
<1> DEFINE r == [s EXCEPT !.executing = TRUE, !.runs = 1]
<1>1. s \in TaskState /\ s.runs = 0
  BY DEF Kept
<1>2. Executed(s) = r
  BY <1>1, Changes
<1>3. r \in TaskState
  BY <1>1, StateAgain
<1>4. r.executing /\ r.runs = 1 /\ r.timers = s.timers /\ r.disabled = s.disabled /\ ~r.delayed
  BY <1>1 DEF TaskState
<1>5. Kept(t, r)
  BY <1>3, <1>4 DEF Kept
<1>6. QED
  BY <1>2, <1>5

LEMMA EndedKept ==
    ASSUME NEW t, NEW s, Kept(t, s), s.runs > 0
    PROVE  Kept(t, Ended(s))
<1> DEFINE r == [s EXCEPT !.executing = FALSE, !.runs = 0]
<1>1. s \in TaskState /\ s.runs = 1
  BY DEF Kept
<1>2. Ended(s) = r
  BY <1>1, Changes
<1>3. r \in TaskState
  BY <1>1, StateAgain
<1>4. ~r.executing /\ r.runs = 0 /\ r.timers = s.timers /\ r.disabled = s.disabled /\ ~r.delayed
  BY <1>1 DEF TaskState, Kept
<1>5. Kept(t, r)
  BY <1>3, <1>4 DEF Kept
<1>6. QED
  BY <1>2, <1>5

LEMMA DisabledKept ==
    ASSUME NEW t, NEW s, Kept(t, s), Periodic(t), ~s.disabled
    PROVE  Kept(t, Disabled(s))
<1> DEFINE r == [s EXCEPT !.disabled = TRUE, !.timers = 0]
<1>1. s \in TaskState /\ s.timers = 1
  BY DEF Kept
<1>2. Disabled(s) = r
  BY <1>1, Changes
<1>3. r \in TaskState
  BY <1>1, StateAgain
<1>4. r.executing = s.executing /\ r.runs = s.runs /\ r.timers = 0 /\ r.disabled /\ r.delayed = s.delayed
  BY <1>1 DEF TaskState
<1>5. Kept(t, r)
  BY <1>3, <1>4 DEF Kept
<1>6. QED
  BY <1>2, <1>5

LEMMA FiredKept ==
    ASSUME NEW t, NEW s, Kept(t, s), Periodic(t)
    PROVE  Kept(t, Fired(s))
<1>1. ~s.delayed
  BY DEF Kept, Periodic
<1>2. QED
  BY <1>1, ExecutedKept DEF Fired

\* An interval is scheduled for a task that has none.
LEMMA ScheduledKept ==
    ASSUME NEW t, Periodic(t), NEW s \in TaskState, s.timers = 0, ~s.delayed,
           s.runs = IF s.executing THEN 1 ELSE 0
    PROVE  Kept(t, Scheduled(t, s))
<1>1. CASE s.disabled
  BY <1>1 DEF Scheduled, Kept
<1>2. CASE ~s.disabled
  <2> DEFINE r == [s EXCEPT !.timers = @ + 1]
  <2>1. Kept(t, r)
    BY <1>2 DEF Kept, TaskState
  <2>2. Scheduled(t, s) \in {r, Fired(r)}
    BY <1>2 DEF Scheduled
  <2>3. QED
    BY <2>1, <2>2, FiredKept
<1>3. QED
  BY <1>1, <1>2

LEMMA RegisteredKept ==
    ASSUME NEW t \in Tasks
    PROVE  Kept(t, Registered(t))
<1> DEFINE s == [disabled |-> Preset[t] = "disabled", timers |-> 0, delayed |-> Preset[t] = "delayed",
                 executing |-> FALSE, runs |-> 0]
<1>1. s \in TaskState
  BY DEF TaskState
<1>2. CASE Preset[t] = "once"
  <2>1. Kept(t, s)
    BY <1>1, <1>2 DEF Kept, Periodic
  <2>2. Registered(t) = Executed(s)
    BY <1>2 DEF Registered
  <2>3. QED
    BY <2>1, <2>2, <1>2, ExecutedKept
<1>3. CASE Preset[t] = "delayed"
  <2>1. Registered(t) = s
    BY <1>3 DEF Registered
  <2>2. QED
    BY <2>1, <1>1, <1>3 DEF Kept, Periodic
<1>4. CASE Preset[t] \in {"periodic", "disabled"}
  <2>1. Registered(t) = Scheduled(t, s)
    BY <1>4 DEF Registered
  <2>2. Periodic(t) /\ ~s.delayed
    BY <1>4 DEF Periodic
  <2>3. QED
    BY <1>1, <2>1, <2>2, ScheduledKept
<1>5. QED
  BY <1>2, <1>3, <1>4, TaskAssumption

\* One task moves on.
LEMMA OneTaskKept ==
    ASSUME TasksKept, NEW t \in DOMAIN tasks, NEW s, Kept(t, s),
           tasks' = [tasks EXCEPT ![t] = s]
    PROVE  TasksKept' /\ DOMAIN tasks' = DOMAIN tasks /\ \A u \in DOMAIN tasks : u # t => tasks'[u] = tasks[u]
BY DEF TasksKept, Kept, Periodic

LEMMA RunEndsKept ==
    ASSUME TasksKept, NEW t, RunCompletes(t) \/ RunFails(t)
    PROVE  TasksKept' /\ DOMAIN tasks' = DOMAIN tasks /\ \A u \in DOMAIN tasks : u # t => tasks'[u] = tasks[u]
<1>1. t \in DOMAIN tasks /\ tasks[t].runs > 0 /\ tasks' = [tasks EXCEPT ![t] = Ended(tasks[t])]
  BY DEF RunCompletes, RunFails, Running
<1>2. Kept(t, tasks[t])
  BY <1>1 DEF TasksKept
<1>3. Kept(t, Ended(tasks[t]))
  BY <1>1, <1>2, EndedKept
<1>4. QED
  BY <1>1, <1>3, OneTaskKept

LEMMA TimersNextKept ==
    ASSUME TasksKept, TimersNext
    PROVE  /\ TasksKept' /\ DOMAIN tasks' = DOMAIN tasks
           /\ "bootTask" \in DOMAIN tasks /\ tasks["bootTask"].disabled => UNCHANGED tasks["bootTask"]
<1>1. PICK t \in Tasks : DisableJob(t) \/ ScheduleDisabledJob(t) \/ TimerFires(t) \/ DelayElapses(t)
  BY DEF TimersNext
<1>2. t \in DOMAIN tasks
  BY <1>1 DEF DisableJob, ScheduleDisabledJob, TimerFires, DelayElapses
<1>3. Kept(t, tasks[t])
  BY <1>2 DEF TasksKept
<1>4. t \in Switched => Periodic(t)
  BY TaskAssumption DEF Periodic
<1>5. CASE DisableJob(t)
  <2>1. Kept(t, Disabled(tasks[t]))
    BY <1>3, <1>4, <1>5, DisabledKept DEF DisableJob
  <2>2. tasks' = [tasks EXCEPT ![t] = Disabled(tasks[t])] /\ t # "bootTask"
    BY <1>5, BootAssumption DEF DisableJob
  <2>5. QED
    BY <1>2, <2>1, <2>2, OneTaskKept
<1>6. CASE ScheduleDisabledJob(t)
  <2> DEFINE s == [tasks[t] EXCEPT !.disabled = FALSE]
  <2>1. Periodic(t) /\ s \in TaskState /\ s.timers = 0 /\ ~s.delayed /\ s.runs = IF s.executing THEN 1 ELSE 0
    BY <1>3, <1>4, <1>6 DEF ScheduleDisabledJob, Kept, TaskState, Periodic
  <2>2. Kept(t, Enabled(t, tasks[t]))
    BY <2>1, ScheduledKept DEF Enabled
  <2>3. tasks' = [tasks EXCEPT ![t] = Enabled(t, tasks[t])] /\ t # "bootTask"
    BY <1>6, BootAssumption DEF ScheduleDisabledJob
  <2>4. QED
    BY <1>2, <2>2, <2>3, OneTaskKept
<1>7. CASE TimerFires(t)
  <2>1. Periodic(t) /\ ~tasks[t].disabled
    BY <1>3, <1>7 DEF TimerFires, Kept
  <2>2. Kept(t, Fired(tasks[t])) /\ tasks' = [tasks EXCEPT ![t] = Fired(tasks[t])]
    BY <1>3, <1>7, <2>1, FiredKept DEF TimerFires
  <2>3. QED
    BY <1>2, <2>1, <2>2, OneTaskKept
<1>8. CASE DelayElapses(t)
  <2> DEFINE s == [tasks[t] EXCEPT !.delayed = FALSE]
  <2>1. Kept(t, s) /\ ~s.executing /\ ~s.delayed
    BY <1>3, <1>8 DEF DelayElapses, Kept, TaskState
  <2>2. Kept(t, Executed(s)) /\ tasks' = [tasks EXCEPT ![t] = Executed(s)]
    BY <1>8, <2>1, ExecutedKept DEF DelayElapses
  <2>3. t # "bootTask"
    BY <1>3, <1>8, BootAssumption DEF DelayElapses, Kept
  <2>4. QED
    BY <1>2, <2>2, <2>3, OneTaskKept
<1>9. QED
  BY <1>1, <1>5, <1>6, <1>7, <1>8

-----------------------------------------------------------------------------
(* ServerBoot: the boot and the tasks.                                     *)

\* The steps done are those before the one that is due; the boot's tasks come
\* with the last, and the boot task itself has neither timer nor run.
BootIsTold ==
    /\ boot \in 0..(Len(BootOrder) + 1)
    /\ loaded = {BootOrder[i] : i \in 1..(boot - 1)}
    /\ boot <= Len(BootOrder) => DOMAIN tasks \subseteq {"bootTask"}
    /\ "bootTask" \in DOMAIN tasks => tasks["bootTask"].disabled /\ tasks["bootTask"].runs = 0

LEMMA OrderOfBoot ==
    /\ Len(BootOrder) = 11 /\ DOMAIN BootOrder = 1..11
    /\ \A i \in 1..11 : BootOrder[i] = "tasks" <=> i = 11
    /\ \A x \in {"connection", "settings", "sockets", "floors", "thumbnails"} :
          \E i \in 1..11 : BootOrder[i] = x
BY DEF BootOrder

LEMMA RegisteredBoot ==
    LET s == Registered("bootTask") IN Kept("bootTask", s) /\ s.disabled /\ s.runs = 0
<1>1. Kept("bootTask", Registered("bootTask"))
  BY RegisteredKept, BootAssumption
<1>2. Registered("bootTask").disabled /\ Registered("bootTask").runs = 0
  BY BootAssumption DEF Registered, Scheduled
<1>3. QED
  BY <1>1, <1>2

TasksInv == TasksKept /\ BootIsTold

LEMMA TasksInvInit == BootInit => TasksInv
<1> SUFFICES ASSUME BootInit PROVE TasksInv
  OBVIOUS
<1>1. tasks = BootTaskAlone /\ boot = 1 /\ loaded = {}
  BY DEF BootInit
<1>2. TasksKept
  BY <1>1, RegisteredBoot, BootAssumption DEF BootTaskAlone, TasksKept
<1>3. BootIsTold
  BY <1>1, RegisteredBoot, OrderOfBoot DEF BootTaskAlone, BootIsTold
<1>4. QED
  BY <1>2, <1>3 DEF TasksInv

LEMMA BootStepInv == TasksInv /\ BootStep => TasksInv'
<1> SUFFICES ASSUME TasksInv, BootStep PROVE TasksInv'
  OBVIOUS
<1>1. boot \in 1..11 /\ boot' = boot + 1 /\ loaded' = loaded \cup {BootOrder[boot]}
  BY OrderOfBoot DEF BootStep
<1>2. \/ UNCHANGED tasks
      \/ boot = 11 /\ tasks' = WithTasks(BootTasks)
  BY <1>1, OrderOfBoot DEF BootStep
<1>3. loaded' = {BootOrder[i] : i \in 1..(boot' - 1)}
  <2>1. 1..(boot' - 1) = 1..(boot - 1) \cup {boot}
    BY <1>1
  <2>2. QED
    BY <1>1, <2>1 DEF TasksInv, BootIsTold
<1>4. CASE UNCHANGED tasks
  BY <1>1, <1>3, <1>4, OrderOfBoot DEF TasksInv, TasksKept, BootIsTold
<1>5. CASE boot = 11 /\ tasks' = WithTasks(BootTasks)
  <2>1. /\ DOMAIN tasks' = DOMAIN tasks \cup BootTasks
        /\ tasks' = [t \in DOMAIN tasks' |-> tasks'[t]]
        /\ \A t \in DOMAIN tasks' :
              tasks'[t] = IF t \in DOMAIN tasks THEN tasks[t] ELSE Registered(t)
    BY <1>5 DEF WithTasks
  <2>2. TasksKept'
    BY <2>1, RegisteredKept DEF TasksInv, TasksKept, BootTasks, Kept, Periodic
  <2>3. BootIsTold'
    BY <1>1, <1>3, <1>5, <2>1, OrderOfBoot DEF TasksInv, BootIsTold, BootTasks
  <2>4. QED
    BY <2>2, <2>3 DEF TasksInv
<1>6. QED
  BY <1>2, <1>4, <1>5

LEMMA TasksInvNext == TasksInv /\ [BootNext]_serverVars => TasksInv'
<1> SUFFICES ASSUME TasksInv, [BootNext]_serverVars PROVE TasksInv'
  OBVIOUS
<1>1. CASE BootStep
  BY <1>1, BootStepInv
<1>2. CASE ProcessEnds
  <2>1. tasks' = << >> /\ boot' = 0 /\ loaded' = {}
    BY <1>2 DEF ProcessEnds
  <2>2. QED
    BY <2>1, OrderOfBoot DEF TasksInv, TasksKept, BootIsTold
<1>3. CASE ProcessStarts
  <2>1. tasks' = BootTaskAlone /\ boot = 0 /\ boot' = 1 /\ UNCHANGED loaded
    BY <1>3 DEF ProcessStarts
  <2>2. TasksKept'
    BY <2>1, RegisteredBoot, BootAssumption DEF BootTaskAlone, TasksKept, Kept, Periodic
  <2>3. BootIsTold'
    BY <2>1, RegisteredBoot, OrderOfBoot DEF BootTaskAlone, TasksInv, BootIsTold
  <2>4. QED
    BY <2>2, <2>3 DEF TasksInv
<1>4. ASSUME NEW t, RunCompletes(t) \/ RunFails(t), UNCHANGED <<boot, loaded>>
      PROVE  TasksInv'
  <2>1. TasksKept' /\ DOMAIN tasks' = DOMAIN tasks /\ \A u \in DOMAIN tasks : u # t => tasks'[u] = tasks[u]
    BY <1>4, RunEndsKept DEF TasksInv
  <2>2. "bootTask" \in DOMAIN tasks => t # "bootTask"
    BY <1>4 DEF RunCompletes, RunFails, Running, TasksInv, BootIsTold
  <2>3. QED
    BY <1>4, <2>1, <2>2 DEF TasksInv, BootIsTold
<1>5. ASSUME UNCHANGED <<tasks, boot, loaded>>
      PROVE  TasksInv'
  BY <1>5 DEF TasksInv, TasksKept, BootIsTold, Kept, Periodic
<1>6. CASE BundleTaskChecks
  BY <1>4, <1>5, <1>6 DEF BundleTaskChecks, taskVars
<1>7. CASE BundleTaskEnds
  BY <1>4, <1>7 DEF BundleTaskEnds
<1>8. CASE SocketIoTaskEnds
  BY <1>4, <1>8 DEF SocketIoTaskEnds
<1>9. CASE OtherTaskEnds
  BY <1>4, <1>9 DEF OtherTaskEnds, bootVars
<1>10. CASE TimersStep
  <2>1. TimersNext /\ UNCHANGED <<boot, loaded>>
    BY <1>10 DEF TimersStep, bootVars
  <2>2. QED
    BY <2>1, TimersNextKept DEF TasksInv, BootIsTold
<1>11. CASE BundleStep \/ BrowserConnects \/ BrowserLeaves \/ CachesChange \/ UNCHANGED serverVars
  BY <1>5, <1>11
  DEF BundleStep, BrowserConnects, BrowserLeaves, CachesChange, serverVars, taskVars, bootVars
<1>12. QED
  BY <1>1, <1>2, <1>3, <1>6, <1>7, <1>8, <1>9, <1>10, <1>11 DEF BootNext

LEMMA TasksInvHolds == FairBootSpec => []TasksInv
BY TasksInvInit, TasksInvNext, PTL DEF FairBootSpec

\* TimersFollow: for any number of tasks of any presets, registered, disabled,
\* enabled and run in any order, each has the timer it should have, and one
\* run at a time.
THEOREM BootTimers == FairBootSpec => []TimersFollow
<1>1. TasksInv => TimersFollow
  BY KeptTasks DEF TasksInv
<1>2. QED
  BY <1>1, TasksInvHolds, PTL

\* TasksFindTheirStores: whichever steps of the boot fail, and however often
\* the process is started again, no task runs before what it reads is loaded.
THEOREM BootStores == FairBootSpec => []TasksFindTheirStores
<1>1. TasksInv => TasksFindTheirStores
  <2> SUFFICES ASSUME TasksInv, NEW t \in DOMAIN tasks, tasks[t].runs > 0
               PROVE  {"connection", "settings", "sockets", "floors", "thumbnails"} \subseteq loaded
    BY DEF TasksFindTheirStores
  <2>1. boot = 12
    BY OrderOfBoot DEF TasksInv, BootIsTold
  <2>2. loaded = {BootOrder[i] : i \in 1..11}
    BY <2>1 DEF TasksInv, BootIsTold
  <2>3. QED
    BY <2>2, OrderOfBoot
<1>2. QED
  BY <1>1, TasksInvHolds, PTL

-----------------------------------------------------------------------------
(* ClientBundle: what the files in the folder are of.                      *)

\* A release that is served, and a file that is gone or of such a release
Fresh(v) == v >= Minimum
FreshOrGone(v) == v = 0 \/ Fresh(v)

\* An update is to a release that is served.  One that could remove what it
\* had to leaves no old file behind, whatever another does beside it; one
\* without another beside it leaves none at all.
UpdatersAreTold ==
    \A u \in UpdaterIds :
        /\ updaters[u].at # "idle" => Fresh(updaters[u].version)
        /\ updaters[u].at = "clear" /\ ~updaters[u].kept =>
              \A f \in Files \ updaters[u].doomed :
                  FreshOrGone(disk[f]) /\ (~overlapped => disk[f] = 0)

\* What crashed updates leave does not pass for a client: an old index beside
\* a served package is left only by an update that could not replace it.
LeftoversAreSeen ==
    ~spoiled /\ Fresh(disk["package"]) => FreshOrGone(disk["index"])

OneRelease ==
    ~overlapped =>
        /\ \A u, w \in UpdaterIds : updaters[u].at # "idle" /\ updaters[w].at # "idle" => u = w
        /\ ~spoiled => disk["package"] = 0 \/ disk["index"] = 0 \/ disk["package"] = disk["index"]

\* After the repair only an update under way takes files away.
RepairLasts ==
    repaired /\ ~spoiled =>
        \A f \in Files :
            Fresh(disk[f]) \/ (disk[f] = 0 /\ \E u \in UpdaterIds : updaters[u].at = "clear")

BundleInv == BundleTypeOK /\ UpdatersAreTold /\ LeftoversAreSeen /\ OneRelease /\ RepairLasts

LEMMA BundleInvInit == BootInit => BundleInv
<1> SUFFICES ASSUME BootInit PROVE BundleInv
  OBVIOUS
<1>1. PICK v \in 0..Newest : disk = [f \in Files |-> v]
  BY DEF BootInit, BundleInit
<1>2. updaters = [u \in UpdaterIds |-> Idle] /\ ~spoiled /\ ~overlapped /\ ~repaired
  BY DEF BootInit, BundleInit
<1>3. spoiled \in BOOLEAN /\ overlapped \in BOOLEAN
  BY DEF BootInit, BundleInit
<1>4. Idle \in Updater /\ Idle.at = "idle"
  BY BundleAssumption DEF Updater, Idle
<1>5. disk["package"] = v /\ disk["index"] = v
  BY <1>1 DEF Files
<1>6. BundleTypeOK
  BY <1>1, <1>2, <1>3, <1>4 DEF BundleTypeOK
<1>7. QED
  BY <1>2, <1>4, <1>5, <1>6
  DEF BundleInv, UpdatersAreTold, LeftoversAreSeen, OneRelease, RepairLasts, FreshOrGone

LEMMA TargetIsFresh ==
    ASSUME BundleTypeOK, NEW requested \in 0..Newest, NEW allowDowngrade \in BOOLEAN,
           Target(requested, allowDowngrade) # 0
    PROVE  /\ Target(requested, allowDowngrade) \in 1..Newest
           /\ Fresh(Target(requested, allowDowngrade))
BY BundleAssumption DEF Target, Evaluated, Greater, Fresh

LEMMA BeginsInv ==
    ASSUME BundleInv, UNCHANGED repaired, NEW u \in UpdaterIds, NEW v \in 1..Newest, Fresh(v),
           UpdateBegins(u, v)
    PROVE  BundleInv'
<1> DEFINE r == [Idle EXCEPT !.at = "fetch", !.version = v]
<1>1. r \in Updater /\ r.at = "fetch" /\ r.version = v
  <2>1. Idle \in Updater /\ v \in 0..Newest
    BY BundleAssumption DEF Idle, Updater
  <2>2. ASSUME NEW i \in Updater, NEW a \in {"idle", "fetch", "clear"}, NEW w \in 0..Newest
        PROVE  LET x == [i EXCEPT !.at = a, !.version = w] IN x \in Updater /\ x.at = a /\ x.version = w
    BY DEF Updater
  <2>3. QED
    BY <2>1, <2>2
<1> HIDE DEF r
<1>2. /\ updaters' = [updaters EXCEPT ![u] = r] /\ UNCHANGED <<disk, spoiled>>
      /\ updaters[u].at = "idle" /\ overlapped' = (overlapped \/ ~NobodyUpdates)
  BY DEF UpdateBegins, r
<1>3. BundleTypeOK'
  BY <1>1, <1>2 DEF BundleInv, BundleTypeOK
<1>4. updaters'[u] = r /\ \A w \in UpdaterIds \ {u} : updaters'[w] = updaters[w]
  BY <1>2 DEF BundleInv, BundleTypeOK
<1>5. UpdatersAreTold'
  BY <1>1, <1>2, <1>4 DEF BundleInv, UpdatersAreTold, FreshOrGone, Fresh
<1>13. disk' = disk /\ (spoiled' <=> spoiled)
  BY <1>2, Zenon
<1>6. LeftoversAreSeen'
  BY <1>13, Zenon DEF BundleInv, LeftoversAreSeen, FreshOrGone, Fresh
<1>7. OneRelease'
  <2>1. ~overlapped' => ~overlapped /\ \A w \in UpdaterIds : updaters[w].at = "idle"
    BY <1>2, Zenon DEF NobodyUpdates
  <2>2. QED
    BY <2>1, <1>4, <1>13 DEF BundleInv, OneRelease
<1>8. RepairLasts'
  BY <1>2, <1>4 DEF BundleInv, RepairLasts, Fresh
<1>9. QED
  BY <1>3, <1>5, <1>6, <1>7, <1>8 DEF BundleInv

LEMMA ListedInv ==
    ASSUME BundleInv, UNCHANGED repaired, NEW u \in UpdaterIds, FolderListed(u)
    PROVE  BundleInv'
<1> DEFINE there == {f \in Files : disk[f] # 0}
           r == [updaters[u] EXCEPT !.at = "clear", !.doomed = there]
<1>1. updaters' = [updaters EXCEPT ![u] = r] /\ UNCHANGED <<disk, spoiled, overlapped>>
  BY DEF FolderListed, BundleInv, BundleTypeOK
<1>2. updaters[u] \in Updater /\ there \in SUBSET Files
  BY DEF BundleInv, BundleTypeOK
<1>3. /\ r \in Updater /\ r.at = "clear" /\ r.doomed = there
      /\ r.version = updaters[u].version /\ r.kept = updaters[u].kept
  BY <1>2 DEF Updater
<1> HIDE DEF r
<1>4. BundleTypeOK'
  BY <1>1, <1>3 DEF BundleInv, BundleTypeOK
<1>5. updaters'[u] = r /\ \A w \in UpdaterIds \ {u} : updaters'[w] = updaters[w]
  BY <1>1 DEF BundleInv, BundleTypeOK
<1>11. disk' = disk /\ (spoiled' <=> spoiled) /\ (overlapped' <=> overlapped)
  BY <1>1, Zenon
<1>12. updaters[u].at = "fetch" /\ \A f \in Files \ r.doomed : disk[f] = 0
  BY <1>3 DEF FolderListed
<1>6. UpdatersAreTold'
  BY <1>3, <1>5, <1>11, <1>12 DEF BundleInv, UpdatersAreTold, FreshOrGone, Fresh
<1>7. LeftoversAreSeen'
  BY <1>11, Zenon DEF BundleInv, LeftoversAreSeen, FreshOrGone, Fresh
<1>8. OneRelease'
  <2>1. \A w \in UpdaterIds : updaters'[w].at = "idle" <=> updaters[w].at = "idle"
    BY <1>3, <1>5, <1>12
  <2>2. QED
    BY <2>1, <1>11 DEF BundleInv, OneRelease
<1>9. RepairLasts'
  BY <1>1, <1>3, <1>5 DEF BundleInv, RepairLasts, Fresh
<1>10. QED
  BY <1>4, <1>6, <1>7, <1>8, <1>9 DEF BundleInv

LEMMA RemovedInv ==
    ASSUME BundleInv, UNCHANGED repaired, NEW u \in UpdaterIds, NEW f \in Files, FileRemoved(u, f)
    PROVE  BundleInv'
<1>1. PICK ok \in BOOLEAN :
         /\ disk' = IF ok THEN [disk EXCEPT ![f] = 0] ELSE disk
         /\ updaters' = [updaters EXCEPT ![u].doomed = @ \ {f}, ![u].kept = @ \/ ~ok]
         /\ spoiled' = (spoiled \/ ~ok)
  BY DEF FileRemoved
<1> DEFINE r == [updaters[u] EXCEPT !.doomed = updaters[u].doomed \ {f}, !.kept = updaters[u].kept \/ ~ok]
<1>2. updaters' = [updaters EXCEPT ![u] = r]
  BY <1>1 DEF BundleInv, BundleTypeOK
<1>3. updaters[u] \in Updater /\ updaters[u].doomed \ {f} \in SUBSET Files /\ (updaters[u].kept \/ ~ok) \in BOOLEAN
  BY DEF BundleInv, BundleTypeOK, Updater
<1>4. /\ r \in Updater /\ r.at = "clear" /\ r.doomed = updaters[u].doomed \ {f}
      /\ r.version = updaters[u].version /\ r.kept = (updaters[u].kept \/ ~ok)
  BY <1>3 DEF Updater, FileRemoved
<1> HIDE DEF r
<1>5. /\ updaters'[u] = r /\ \A w \in UpdaterIds \ {u} : updaters'[w] = updaters[w]
      /\ UNCHANGED overlapped /\ updaters[u].at = "clear"
  BY <1>2 DEF BundleInv, BundleTypeOK, FileRemoved
<1>6. \A g \in Files : disk'[g] = IF g = f /\ ok THEN 0 ELSE disk[g]
  BY <1>1 DEF BundleInv, BundleTypeOK
<1>7. BundleTypeOK'
  BY <1>1, <1>2, <1>4, <1>5, BundleAssumption DEF BundleInv, BundleTypeOK
<1>8. UpdatersAreTold'
  <2> SUFFICES ASSUME NEW w \in UpdaterIds
               PROVE  /\ updaters'[w].at # "idle" => Fresh(updaters'[w].version)
                      /\ updaters'[w].at = "clear" /\ ~updaters'[w].kept =>
                            \A g \in Files \ updaters'[w].doomed :
                                FreshOrGone(disk'[g]) /\ (~overlapped' => disk'[g] = 0)
    BY DEF UpdatersAreTold, FreshOrGone, Fresh
  <2>1. CASE w = u
    BY <2>1, <1>4, <1>5, <1>6 DEF BundleInv, UpdatersAreTold, FreshOrGone, Fresh
  <2>2. CASE w # u
    BY <2>2, <1>5, <1>6 DEF BundleInv, UpdatersAreTold, FreshOrGone, Fresh
  <2>3. QED
    BY <2>1, <2>2
<1>13. spoiled' <=> spoiled \/ ~ok
  BY <1>1, Zenon
<1>9. LeftoversAreSeen'
  BY <1>6, <1>13, BundleAssumption DEF BundleInv, LeftoversAreSeen, FreshOrGone, Fresh, Files
<1>10. OneRelease'
  BY <1>1, <1>4, <1>5, <1>6 DEF BundleInv, OneRelease, Files
<1>11. RepairLasts'
  BY <1>1, <1>4, <1>5, <1>6 DEF BundleInv, RepairLasts, Fresh
<1>12. QED
  BY <1>7, <1>8, <1>9, <1>10, <1>11 DEF BundleInv

\* The end of an update that replaced everything repairs the folder.
LEMMA EndsInv ==
    ASSUME BundleInv, NEW u \in UpdaterIds, UpdateEnds(u)
    PROVE  BundleInv'
<1>1. /\ disk' = Extracted(updaters[u].version) /\ spoiled' = updaters[u].kept
      /\ updaters' = [updaters EXCEPT ![u] = Idle] /\ UNCHANGED overlapped
      /\ updaters[u].at = "clear" /\ updaters[u].doomed = {}
  BY DEF UpdateEnds, ReadyToExtract
<1>2. /\ updaters[u] \in Updater /\ Idle \in Updater /\ Idle.at = "idle"
      /\ updaters[u].version \in 0..Newest /\ Fresh(updaters[u].version)
  BY <1>1, BundleAssumption DEF BundleInv, BundleTypeOK, UpdatersAreTold, Updater, Idle
<1>3. \A f \in Files : disk'[f] = IF disk[f] = 0 THEN updaters[u].version ELSE disk[f]
  BY <1>1 DEF Extracted
<1>4. updaters'[u] = Idle /\ \A w \in UpdaterIds \ {u} : updaters'[w] = updaters[w]
  BY <1>1 DEF BundleInv, BundleTypeOK
<1>5. BundleTypeOK'
  BY <1>1, <1>2, <1>3 DEF BundleInv, BundleTypeOK, Extracted, Updater
<1>6. ~updaters[u].kept => \A f \in Files : Fresh(disk'[f]) /\ (~overlapped => disk'[f] = updaters[u].version)
  BY <1>1, <1>2, <1>3 DEF BundleInv, UpdatersAreTold, FreshOrGone
<1>7. UpdatersAreTold'
  <2> SUFFICES ASSUME NEW w \in UpdaterIds
               PROVE  /\ updaters'[w].at # "idle" => Fresh(updaters'[w].version)
                      /\ updaters'[w].at = "clear" /\ ~updaters'[w].kept =>
                            \A g \in Files \ updaters'[w].doomed :
                                FreshOrGone(disk'[g]) /\ (~overlapped' => disk'[g] = 0)
    BY DEF UpdatersAreTold, FreshOrGone, Fresh
  <2>1. CASE w = u
    BY <2>1, <1>2, <1>4
  <2>2. CASE w # u
    <3>1. updaters[w].at # "idle" => overlapped
      BY <1>1, <2>2 DEF BundleInv, OneRelease
    <3>2. QED
      BY <2>2, <3>1, <1>1, <1>2, <1>3, <1>4 DEF BundleInv, UpdatersAreTold, FreshOrGone
  <2>3. QED
    BY <2>1, <2>2
<1>8. LeftoversAreSeen'
  BY <1>1, <1>6 DEF LeftoversAreSeen, FreshOrGone, Fresh, Files
<1>9. OneRelease'
  BY <1>1, <1>2, <1>4, <1>6 DEF BundleInv, OneRelease, Files
<1>10. RepairLasts'
  BY <1>1, <1>6 DEF RepairLasts, Fresh
<1>11. QED
  BY <1>5, <1>7, <1>8, <1>9, <1>10 DEF BundleInv

LEMMA UpdateFailsInv ==
    ASSUME BundleInv, UNCHANGED repaired, NEW u \in UpdaterIds, UpdateFails(u)
    PROVE  BundleInv'
<1>1. /\ spoiled' = (spoiled \/ updaters[u].at # "fetch")
      /\ updaters' = [updaters EXCEPT ![u] = Idle] /\ UNCHANGED <<disk, overlapped>>
  BY DEF UpdateFails
<1>2. Idle \in Updater /\ Idle.at = "idle"
  BY BundleAssumption DEF Updater, Idle
<1>3. updaters'[u] = Idle /\ \A w \in UpdaterIds \ {u} : updaters'[w] = updaters[w]
  BY <1>1 DEF BundleInv, BundleTypeOK
<1>4. BundleTypeOK'
  BY <1>1, <1>2 DEF BundleInv, BundleTypeOK
<1>5. UpdatersAreTold'
  BY <1>1, <1>2, <1>3 DEF BundleInv, UpdatersAreTold, FreshOrGone, Fresh
<1>6. LeftoversAreSeen'
  BY <1>1 DEF BundleInv, LeftoversAreSeen, FreshOrGone, Fresh
<1>7. OneRelease'
  BY <1>1, <1>2, <1>3 DEF BundleInv, OneRelease
<1>8. RepairLasts'
  BY <1>1, <1>2, <1>3 DEF BundleInv, RepairLasts, Fresh
<1>9. QED
  BY <1>4, <1>5, <1>6, <1>7, <1>8 DEF BundleInv

\* The process ends, and the next one has to look again.
LEMMA CrashInv ==
    ASSUME BundleInv, BundleCrashes, repaired' = FALSE
    PROVE  BundleInv'
<1>1. updaters' = [u \in UpdaterIds |-> Idle] /\ UNCHANGED <<disk, spoiled, overlapped>>
  BY DEF BundleCrashes
<1>2. Idle \in Updater /\ Idle.at = "idle"
  BY BundleAssumption DEF Updater, Idle
<1>3. BundleTypeOK'
  BY <1>1, <1>2 DEF BundleInv, BundleTypeOK
<1>4. UpdatersAreTold' /\ OneRelease'
  BY <1>1, <1>2 DEF BundleInv, UpdatersAreTold, OneRelease
<1>5. LeftoversAreSeen' /\ RepairLasts'
  BY <1>1 DEF BundleInv, LeftoversAreSeen, RepairLasts, FreshOrGone, Fresh
<1>6. QED
  BY <1>3, <1>4, <1>5 DEF BundleInv

\* What the boot's task finds in order is.
LEMMA ChecksInv == BundleInv /\ BundleTaskChecks => BundleInv'
<1> SUFFICES ASSUME BundleInv, BundleTaskChecks PROVE BundleInv'
  OBVIOUS
<1>1. CASE Target(0, FALSE) = 0
  <2>1. repaired' = TRUE /\ UNCHANGED <<disk, updaters, spoiled, overlapped>>
    BY <1>1 DEF BundleTaskChecks, bundleVars
  <2>2. disk["package"] # 0 /\ disk["index"] # 0 /\ Fresh(disk["package"])
    BY <1>1, BundleAssumption DEF Target, ClientIsThere, Greater, Fresh, BundleInv, BundleTypeOK, Files
  <2>3. ~spoiled => \A f \in Files : Fresh(disk[f])
    BY <2>2 DEF BundleInv, LeftoversAreSeen, FreshOrGone, Files
  <2>4. RepairLasts'
    BY <2>1, <2>3 DEF RepairLasts, Fresh
  <2>5. QED
    BY <2>1, <2>4
    DEF BundleInv, BundleTypeOK, UpdatersAreTold, LeftoversAreSeen, OneRelease, FreshOrGone, Fresh
<1>2. CASE Target(0, FALSE) # 0
  <2>1. UpdateBegins("task", Minimum) /\ UNCHANGED repaired
    BY <1>2 DEF BundleTaskChecks
  <2>2. Fresh(Minimum) /\ Minimum \in 1..Newest /\ "task" \in UpdaterIds
    BY BundleAssumption DEF Fresh, UpdaterIds
  <2>3. QED
    BY <2>1, <2>2, BeginsInv
<1>3. QED
  BY <1>1, <1>2

LEMMA BundleStepInv == BundleInv /\ BundleStep => BundleInv'
<1> SUFFICES ASSUME BundleInv, BundleStep PROVE BundleInv'
  OBVIOUS
<1>1. UNCHANGED repaired /\ "request" \in UpdaterIds
  BY DEF BundleStep, bootVars, UpdaterIds
<1>2. ASSUME NEW u \in UpdaterIds, UpdateGoesOn(u) PROVE BundleInv'
  BY <1>1, <1>2, ListedInv, RemovedInv DEF UpdateGoesOn
<1>3. ASSUME UpdateEnds("request") PROVE BundleInv'
  BY <1>1, <1>3, EndsInv
<1>4. ASSUME UpdateFails("request") PROVE BundleInv'
  BY <1>1, <1>4, UpdateFailsInv
<1>5. ASSUME UpdateRequested PROVE BundleInv'
  <2>1. PICK requested \in 1..Newest, allowDowngrade \in BOOLEAN :
           /\ Target(requested, allowDowngrade) # 0
           /\ UpdateBegins("request", Target(requested, allowDowngrade))
    BY <1>5 DEF UpdateRequested
  <2>2. requested \in 0..Newest
    BY <2>1, BundleAssumption
  <2>3. QED
    BY <2>1, <2>2, <1>1, TargetIsFresh, BeginsInv DEF BundleInv
<1>6. QED
  BY <1>2, <1>3, <1>4, <1>5 DEF BundleStep

LEMMA BundleInvNext == BundleInv /\ [BootNext]_serverVars => BundleInv'
<1> SUFFICES ASSUME BundleInv, [BootNext]_serverVars PROVE BundleInv'
  OBVIOUS
<1>1. CASE ProcessEnds
  BY <1>1, CrashInv DEF ProcessEnds
<1>2. CASE BundleTaskChecks
  BY <1>2, ChecksInv
<1>3. CASE BundleTaskEnds
  <2>1. "task" \in UpdaterIds
    BY DEF UpdaterIds
  <2>2. CASE UpdateEnds("task") /\ repaired' = TRUE
    BY <2>1, <2>2, EndsInv
  <2>3. CASE UpdateFails("task") /\ UNCHANGED repaired
    BY <2>1, <2>3, UpdateFailsInv
  <2>4. QED
    BY <1>3, <2>2, <2>3 DEF BundleTaskEnds
<1>4. CASE BundleStep
  BY <1>4, BundleStepInv
<1>5. ASSUME UNCHANGED <<disk, updaters, spoiled, overlapped, repaired>>
      PROVE  BundleInv'
  BY <1>5
  DEF BundleInv, BundleTypeOK, UpdatersAreTold, LeftoversAreSeen, OneRelease, RepairLasts,
      FreshOrGone, Fresh
<1>6. CASE BootStep \/ ProcessStarts \/ SocketIoTaskEnds \/ OtherTaskEnds \/ TimersStep
  BY <1>5, <1>6
  DEF BootStep, ProcessStarts, SocketIoTaskEnds, OtherTaskEnds, TimersStep, bundleVars, bootVars
<1>7. CASE BrowserConnects \/ BrowserLeaves \/ CachesChange \/ UNCHANGED serverVars
  BY <1>5, <1>7 DEF BrowserConnects, BrowserLeaves, CachesChange, serverVars, bundleVars, bootVars
<1>8. QED
  BY <1>1, <1>2, <1>3, <1>4, <1>6, <1>7 DEF BootNext

LEMMA BundleInvHolds == FairBootSpec => []BundleInv
BY BundleInvInit, BundleInvNext, PTL DEF FairBootSpec

\* BundleIsServable: whatever updates were interrupted, failed or overlapped
\* before, once the boot's task has ended well there is a client to serve, of
\* the minimum at least, and of one release if no two updates overlapped.
THEOREM BootServes == FairBootSpec => []BundleIsServable
<1>1. BundleInv => BundleIsServable
  <2> SUFFICES ASSUME BundleInv, repaired, NobodyUpdates, ~spoiled
               PROVE  /\ disk["package"] >= Minimum /\ disk["index"] >= Minimum
                      /\ ~overlapped => disk["index"] = disk["package"]
    BY DEF BundleIsServable
  <2>1. \A f \in Files : Fresh(disk[f])
    BY DEF BundleInv, RepairLasts, NobodyUpdates
  <2>2. QED
    BY <2>1, BundleAssumption DEF Fresh, Files, BundleInv, OneRelease
<1>2. QED
  BY <1>1, BundleInvHolds, PTL

=============================================================================
