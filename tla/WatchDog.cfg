SPECIFICATION FairDogSpec
CONSTANTS
    MaxDelay = 3
    MaxArms = 4
PROPERTIES NeverEarly Barks
CHECK_DEADLOCK FALSE
