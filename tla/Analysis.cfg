SPECIFICATION FairFileSpec
CONSTANTS
    Printers = {p1}
    NoPrinter = NoPrinter
    Files = {f1}
    MaxJobs = 1
    MaxClock = 1
    MaxPosition = 0
    ReorderRequests = {}
    Workers = {w1}
    MaxRestarts = 1
CHECK_DEADLOCK FALSE
PROPERTIES StuckAnalysisEnds
