SPECIFICATION FreshSpec
CONSTANTS
    Path <- EdgePath
    Socket = {"c1"}
    Domain = {}
    DomPath <- Elsewhere
    Watch = {1, 2}
    Tid = {1}
    MaxEvents = 4
    MaxChanges = 1
INVARIANTS RegistrationsExact ToldExactlyOnce
PROPERTIES ChangesAreTold
CHECK_DEADLOCK FALSE
