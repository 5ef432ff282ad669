SPECIFICATION FairSpec
CONSTANTS
    RingSize = 2
    IdxMod = 4
    HdrLen = 2
    BodyLens = {0, 1}
    MaxOutstanding = 1
    MaxQueue = 0
INVARIANTS NoLostWakeup
PROPERTIES RequestsAnswered
CHECK_DEADLOCK FALSE
