CONSTANTS
    NumChips = 2
    Registers = {GENERAL_CONF, XACTUAL}
    Values = {0, 1}
    GENERAL_CONF = GENERAL_CONF
    LiveRegister = XACTUAL
SPECIFICATION Spec
PROPERTIES WrittenWhereRead
