SPECIFICATION FairRemoteSpec
CONSTANTS
    Token = Token
    NoToken = NoToken
    Leases = {c1, c2, c3}
    Kinds = {"released", "awaited", "forgotten", "stream"}
    Subsystem = TRUE
    MaxClients = 3
INVARIANTS TokenLostWithCause
PROPERTIES OneConnection CallsSettle
CHECK_DEADLOCK FALSE
