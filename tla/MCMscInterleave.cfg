SPECIFICATION Spec
CONSTANTS
    Depth = 16
    Map <- MapMode1
    Cifs = 4
    CUSPERSYM = 48
    SYMSPERCIF = 18
    MSCSTART = 5
    Subchannels <- InnerSubchannels
    FrameNumbers = 256
    MaxFrames = 5
    MaxLost = 0
INVARIANTS
    SingleLogicalFrame
CHECK_DEADLOCK FALSE
