SPECIFICATION MCSpec
CONSTANTS
    Lines <- MCLines
    Numbers <- MCNumbers
    Batch = 2
    Steps = {0, 100, 300}
    Delays = {0, 100}
    Sets <- MCSets
    Starts = {0, 500}
    ClockRange = 600
INVARIANTS
    LockedAfterFourGood
    TornNeedsTwoLosses
    NumberTyped
    StartsLoaded
PROPERTIES
    SelectionHandshake
    ServiceReceived
    
CHECK_DEADLOCK FALSE
