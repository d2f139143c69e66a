SPECIFICATION Spec
CONSTANTS
    Browsers = {stream, socket}
    Resuming = {stream}
    Capacity = 1
    Limit = 1
    MaxEvents = 3
    MaxBreaks = 1
    MaxOutages = 1
INVARIANTS GapIsExplained
PROPERTIES EveryEventArrives
CHECK_DEADLOCK FALSE
