SPECIFICATION MaintenanceSpec
CONSTANTS
    Names = {n1}
    PrinterTypes = {octoprint, moonraker}
    MaxPrinters = 2
    MaxLogs = 2
    MaxTags = 1
CHECK_DEADLOCK FALSE
INVARIANTS CacheFollowsTable PrinterDiffsTell OneOpenLog
 
