SPECIFICATION Spec
CONSTANTS
    Path <- LocalPath
    Socket = {"c1"}
    Domain = {"d1"}
    DomPath <- Local
    Watch = {1, 2}
    Tid = {}
    MaxEvents = 4
    MaxChanges = 0
INVARIANTS RelativePathsHaveDomPath
CHECK_DEADLOCK FALSE
