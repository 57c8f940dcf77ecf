CONSTANT MaxEvents = 5
SPECIFICATION FairSpec
CHECK_DEADLOCK FALSE
INVARIANTS CalledInOrder DrainIsHonest
PROPERTIES EveryEventCalled
