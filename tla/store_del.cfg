SPECIFICATION Spec
CONSTANTS
    Name <- MCName
    Path <- ShortPath
    Value = {"v"}
    EmptyValue = "v"
    Cid = {0}
    PermLists <- NoPerms
    TidMod = 2
    MaxStamps = 0
VIEW View
PROPERTIES CommittedDeleteRemoves
CHECK_DEADLOCK FALSE
