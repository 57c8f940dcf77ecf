SPECIFICATION FairSpec
CHECK_DEADLOCK FALSE
INVARIANTS SafeWrites WholeAnnouncement NoClientLeft
PROPERTIES NoSilentStall
