SPECIFICATION YamlSpec
CONSTANTS
    Names = {n1, n2}
    PrinterTypes = {octoprint}
    MaxPrinters = 2
    FloorNames = {ground, first}
    Cells = {c1, c2}
    MaxFloors = 2
SYMMETRY Symmetry
CHECK_DEADLOCK FALSE
INVARIANTS PlacesAreShown 
