SPECIFICATION Spec
CONSTANTS
    Size = 7
    Lengths = {2, 3, 8}
    Junk = {0, 2}
    MaxTraces = 5
INVARIANTS ReadsWhole Intact
CHECK_DEADLOCK FALSE
