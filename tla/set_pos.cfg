CONSTANTS
    NumDrives = 2
    Positions = {0, 1, 2}
SPECIFICATION Spec
INVARIANTS TypeOK RestsAtSetPos
PROPERTIES HeadsForSetPos StandsStill
