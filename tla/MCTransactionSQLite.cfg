SPECIFICATION Spec
CONSTANTS
    post = post
    event = event
    id = id
    title = title
    locale = locale
    Stored = Stored
    None = None
    Trxs = {x1, x2}
    Tables <- MCTables
    Columns <- MCColumns
    Programs <- MCPrograms
    Databases <- MCDatabases
INVARIANTS SeparateCallsAreCommitted
PROPERTIES RowsSurvive
CHECK_DEADLOCK FALSE
