SPECIFICATION Spec
CONSTANTS
    Name <- MCName
    Path <- RootPath
    Value = {"v"}
    EmptyValue = "v"
    Cid = {0, 1}
    PermLists <- GuestPerms
    TidMod = 3
    MaxStamps = 0
VIEW View
INVARIANTS CommittableReadsAreCurrent RecordsSound
PROPERTIES RepeatableReads DoomedStaysDoomed
CHECK_DEADLOCK FALSE
