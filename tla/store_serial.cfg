SPECIFICATION BoundedSerialSpec
CONSTANTS
    Name <- MCName
    Path <- ShortPath
    Value = {"v", "w"}
    EmptyValue = "v"
    Cid = {0}
    PermLists <- NoPerms
    TidMod = 3
    MaxStamps = 11
    World <- MCWorld
VIEW SerialView
PROPERTIES Serializable DoomedOnlyByConflict
CHECK_DEADLOCK FALSE
