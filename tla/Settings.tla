------------------------------ MODULE Settings ------------------------------
(***************************************************************************)
(* SettingsStore and SettingsService: the settings are one row of the      *)
(* database, in sections, and a copy of it in memory that every reader     *)
(* uses.  A setter changes one field of its section in the copy and writes *)
(* the section to the row; the copy becomes what the row was read as.      *)
(*                                                                         *)
(* All of it is synchronous (the database driver is), so that a setter is  *)
(* one step, cut only by the end of the process.                           *)
(***************************************************************************)
EXTENDS Integers

CONSTANTS
    Options,       \* values of the settings nothing here depends on
    Attempts,      \* values of refreshTokenAttempts, -1 if unlimited
    Secrets,       \* values of jwtSecret
    Missing        \* no row, no copy

VARIABLES
    row,           \* the row of the table "settings"
    cache          \* SettingsStore.settings

settingsVars == <<row, cache>>

\* experimental stands for the three switches of experimental support;
\* frontend for the two sections only clients read.  The wizard's version is
\* the current one whenever it was completed.
ServerSection == [loginRequired : BOOLEAN, registration : BOOLEAN, experimental : Options]
CredentialSection == [secret : Secrets, attempts : Attempts, slicerKey : Options]
SettingsRecord == [server : ServerSection, credentials : CredentialSection,
                   wizard : BOOLEAN, frontend : Options]

ASSUME SettingsAssumption ==
    /\ Options # {} /\ Secrets # {}
    /\ Attempts \subseteq Nat \cup {-1}
    /\ Missing \notin SettingsRecord

SettingsTypeOK ==
    /\ row \in SettingsRecord \cup {Missing}
    /\ cache \in SettingsRecord \cup {Missing}

SettingsInit == row = Missing /\ cache = Missing

\* throwIfSettingsUnset
Loaded == cache # Missing

\* getDefaultSettings: a new installation requires a login, and draws a secret
Defaults(s, n, c) ==
    [server |-> [loginRequired |-> TRUE, registration |-> FALSE, experimental |-> c],
     credentials |-> [secret |-> s, attempts |-> n, slicerKey |-> c],
     wizard |-> FALSE, frontend |-> c]

\* getOrCreate; its migration of older rows fills in what is absent
IsLoaded(r) ==
    \/ row # Missing /\ r = row
    \/ /\ row = Missing
       /\ \E s \in Secrets, n \in Attempts, c \in Options : r = Defaults(s, n, c)

\* The row after its section has been replaced, and its copy in memory
WriteServer(section) ==
    /\ row' = [row EXCEPT !.server = section]
    /\ cache' = row'

WriteCore(core) ==
    /\ row' = [row EXCEPT !.credentials.attempts = core.attempts]
    /\ cache' = row'

SetLoginRequired(b) == WriteServer([cache.server EXCEPT !.loginRequired = b])

SetRegistration(b) == WriteServer([cache.server EXCEPT !.registration = b])

SetExperimental(c) == WriteServer([cache.server EXCEPT !.experimental = c])

\* Of setRefreshTokenSettings and the credential request
SetAttempts(n) == WriteCore([cache.credentials EXCEPT !.attempts = n])

SetSlicerKey(c) ==
    /\ row' = [row EXCEPT !.credentials.slicerKey = c]
    /\ cache' = row'

SetFrontend(c) ==
    /\ row' = [row EXCEPT !.frontend = c]
    /\ cache' = row'
=============================================================================
