SPECIFICATION AccountsSpec
CONSTANTS
    Options = {0}
    Attempts = {1}
    Secrets = {s1}
    Missing = Missing
    MaxUsers = 2
    MaxRoleRows = 2
    MaxTokens = 2
    MaxRenewals = 1
    MaxKeys = 1
    RoleLists <- NoneOrAdmin
    DemoRole = "OTHER"
    KeyRoles = {{"ADMIN"}}
    NewNames = {"own"}
    Registrations = {TRUE}
CHECK_DEADLOCK FALSE
INVARIANTS SomebodyOwns
PROPERTIES SessionsEndTogether TokensAreSessions
