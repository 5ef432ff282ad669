SPECIFICATION Spec
CONSTANTS
    RingSize = 2
    IdxMod = 4
    HdrLen = 1
    BodyLens = {2}
    MaxOutstanding = 1
    MaxQueue = 1
VIEW View
INVARIANTS TypeOK BytesInOrder InterestExact DiesOnce AckReturns
CHECK_DEADLOCK FALSE
