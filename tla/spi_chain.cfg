CONSTANTS
    NumChips = 3
    Registers = {GENERAL_CONF, XACTUAL}
    Values = {0, 1}
    GENERAL_CONF = GENERAL_CONF
    LiveRegister = XACTUAL
SPECIFICATION Spec
INVARIANTS TypeOK
PROPERTIES IsRegisterBank
