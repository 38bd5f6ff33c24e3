SPECIFICATION Spec
CONSTANTS
    MaxPosition = 1
    gbsm_config <- Shipped
PROPERTIES ResetsOnlyStopped
