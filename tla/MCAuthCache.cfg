CONSTANTS
    Requests = {1, 2}
    Writers = {1, 2}
    Users = {"u"}
    Groups = {"g", "h"}
    Roles = {"read", "write", "super"}
    Super = "super"
    LoggedOut = "loggedout"
    Blank = Blank
    None = None
    UserOf <- MCUserOf
    Needed <- MCNeeded
    Plans <- MCPlans
    Databases <- MCDatabases
SPECIFICATION Spec
CONSTRAINT OneRejects
INVARIANTS StaleEntryHasCause AllowedWasEntitled HangsHaveCause
PROPERTIES RequestsEnd
CHECK_DEADLOCK FALSE
