SPECIFICATION FairSpec
CONSTANTS
    Threads = {t1, t2, t3}
    Timed = {t1, t2}
    States = {A, B, C}
    MaxInterest = 4
    NoThread = none
    Goals <- MCGoals
INVARIANTS InterestCovers NoLostWakeup
PROPERTIES UntimedSetStateReturns
CHECK_DEADLOCK FALSE
