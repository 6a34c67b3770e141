SPECIFICATION Spec
CONSTANTS
    Workers = {w1}
    EventOf <- ManyEvents
    Arrays <- ManyArrays
    Configs <- ManyConfigs
INVARIANT
    PublishedExact
CHECK_DEADLOCK FALSE
