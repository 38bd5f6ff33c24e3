CONSTANTS
    MaxPosition = 1
    gbsm_config <- Shipped
SPECIFICATION Spec
INVARIANTS TypeOK CyclesOnConfigured UnderControl HandlerStops
PROPERTIES StartsAtRest ComesToRest
