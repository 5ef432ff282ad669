SPECIFICATION RunningSpec
CONSTANTS
    Path <- TreePath
    Socket = {"c1"}
    Domain = {"d1"}
    DomPath <- Elsewhere
    Watch = {1}
    Tid = {1}
    MaxEvents = 5
    MaxChanges = 1
INVARIANTS TypeOK WatchesHaveClients DeathQueued OnlyOpenTransactionsFire ToldOfChanges
CHECK_DEADLOCK FALSE
