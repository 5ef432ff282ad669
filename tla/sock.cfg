SPECIFICATION FairSpec
CONSTANTS
    HdrLen = 2
    PayloadMax = 1
    RequestLens = {0, 1}
    AnswerLens = {0, 2}
    ErrorLen = 1
    Id = {i1, i2}
    NoId = none
    SockBuf = 2
    MaxQueue = 1
INVARIANTS TypeOK BytesInOrder RequestsAccounted InterestExact DiesOnce
PROPERTIES RequestsAnswered
CHECK_DEADLOCK FALSE
