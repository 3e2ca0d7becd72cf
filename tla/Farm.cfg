SPECIFICATION FarmSpec
CONSTANTS
    Printers = {p1}
    NoPrinter = NoPrinter
    Files = {f1, f2}
    MaxJobs = 2
    MaxClock = 2
    MaxPosition = 1
    ReorderRequests <- AllReorders
SYMMETRY Symmetry
CHECK_DEADLOCK FALSE
INVARIANTS QueueTypeOK 
