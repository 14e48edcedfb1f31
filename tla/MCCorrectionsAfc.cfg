SPECIFICATION CSpec
CONSTANTS
    Steps = {78, 117}
    Delays = {}
    Sets = {}
    Starts = {468}
    ClockRange = 975
PROPERTY
    AfcSent
