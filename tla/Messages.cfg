SPECIFICATION MessageSpec
CONSTANTS
    Printers = {p1}
    NoPrinter = NoPrinter
    Files = {f1, f2}
    MaxJobs = 2
    MaxClock = 2
    MaxPosition = 0
    Handlers = {h1, h2}
SYMMETRY Symmetry
CHECK_DEADLOCK FALSE
INVARIANTS  UnreadPrintIsAskedFor
PROPERTIES MessagesLeaveFinishedAlone AnalysisKept
