SPECIFICATION BoundedTreeSpec
CONSTANTS
    Name <- MCName
    Path <- MCPath
    Value = {"v"}
    EmptyValue = "v"
    Cid = {0}
    PermLists <- NoPerms
    TidMod = 2
    MaxStamps = 16
VIEW TreeView
INVARIANTS TypeOK ListedChildrenExist NoClosedTransactionInRecords TreeConsistent DeletedRecordsReclaimed
CHECK_DEADLOCK FALSE
PROPERTIES UncommittedIsInvisible
