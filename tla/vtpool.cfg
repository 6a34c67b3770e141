SPECIFICATION Spec
CONSTANTS
    Workers = {w1, w2}
    EventOf <- PoolEvents
    Arrays <- NoArrays
    Configs <- PoolConfigs
SYMMETRY Symmetry
INVARIANTS
    OneOwner
    PooledClean
    PublishedExact
    
CHECK_DEADLOCK FALSE
