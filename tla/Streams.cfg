SPECIFICATION Spec
CONSTANTS
    Kinds = {"ws", "sse", "gql"}
    Services = {g1, g2}
    NoService = none
INVARIANTS
    TypeOK
    LiveIsWanted
    ConnectedIsLive
    TimersMatch
PROPERTIES
    ServerEndReconnects
CHECK_DEADLOCK FALSE
