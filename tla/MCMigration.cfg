CONSTANTS
    Migrators = {1, 2}
    Names = {"Post", "Tag", "Feed", "Relation"}
    Letters = {"en", "fr"}
    Mandatory <- MCMandatory
    Plans <- MCPlans
    Databases <- MCDatabases
    None = None
SPECIFICATION Spec
INVARIANT DeclaredIsLoaded
PROPERTIES NothingIsDropped ColumnsArePresent 
CHECK_DEADLOCK FALSE
