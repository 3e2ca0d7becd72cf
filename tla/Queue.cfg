SPECIFICATION QueueSpec
CONSTANTS
    Printers = {p1, p2}
    NoPrinter = NoPrinter
    Files = {f1}
    MaxJobs = 3
    MaxClock = 1
    MaxPosition = 2
    ReorderRequests <- AllReorders
SYMMETRY Symmetry
CHECK_DEADLOCK FALSE
INVARIANTS UploadKeepsPrinter
PROPERTIES PlacesStayDistinct QueueOrderKept RemovalClosesGap
