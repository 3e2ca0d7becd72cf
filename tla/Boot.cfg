SPECIFICATION FairBootSpec
CONSTANTS
    Tasks <- MCTasks
    Preset <- MCPreset
    Immediate = {}
    Switched = {"socketIoTask"}
    MaxTaskFaults = 1
    MaxToggles = 1
    Newest = 3
    Minimum = 2
    MaxCrashes = 1
    MaxChanges = 1
CHECK_DEADLOCK FALSE
INVARIANTS TimersFollow TasksFindTheirStores 
PROPERTIES BrowsersAreTold
