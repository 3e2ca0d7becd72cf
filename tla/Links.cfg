SPECIFICATION FairLinkSpec
CONSTANTS
    MaxClients = 2
    MaxBambuFaults = 2
    MaxBambuResets = 1
    MaxPolls = 2
    MaxPrusaResets = 2
    MaxUploads = 2
    MaxFtpRequests = 3
    MaxMillis = 1
    MaxRequests = 2
    MaxNonce = 1
    MaxPrints = 1
    MaxTests = 3
CHECK_DEADLOCK FALSE
INVARIANTS  CopiesAreInHand RefusedOnlyWhenRenewed 
 
