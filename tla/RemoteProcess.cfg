SPECIFICATION FairSpec
CONSTANTS
    Children = {c1, c2}
    Strangers = {}
    Tracers = {t1}
    None = none
INVARIANTS Counted ObserversAgree ActiveHasInterface
PROPERTIES NoProcessLeft LossDeactivates
CHECK_DEADLOCK FALSE
