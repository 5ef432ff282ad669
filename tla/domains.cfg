SPECIFICATION FairSpec
CONSTANTS
    Domid = {1, 2}
    MaxObjects = 2
INVARIANTS TypeOK NothingMissed BrokenWillGo ShutdownToldOnce
PROPERTIES RemovedForCause EndsAreNoticed
CHECK_DEADLOCK FALSE
