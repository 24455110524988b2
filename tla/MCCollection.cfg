CONSTANTS
    Writers <- MCWriters
    Finders <- MCFinders
    Colls = {"Post", "Tag"}
    Ids = {1, 2}
    Titles = {"a", "b"}
    Targets = {"x", "y"}
    Locales <- MCLocales
    Plans <- MCPlans
    Asks <- MCAsks
    Databases <- MCDatabases
    None = None
SPECIFICATION Spec
INVARIANTS RelationsAreOwn EventsTellOfCommits
PROPERTIES FoundIsRight RejectedWithCause CallsSettle
CHECK_DEADLOCK FALSE
