SPECIFICATION FairWebsocketSpec
CONSTANTS
    Printers = {p1}
    Faulty = {}
    MaxFaults = 1
    MaxRequests = 2
    MaxAdapters = 2
    MaxSessions = 2
    MaxConns = 2
    MaxSetups = 2
    MaxMoonConns = 2
    MaxMoonFaults = 2
    MaxResets = 2
CHECK_DEADLOCK FALSE
INVARIANTS DeletedStaysOut RequestsAreTimed
PROPERTIES NoneLeftBehind
