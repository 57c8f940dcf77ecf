CONSTANTS
    Topics <- MCTopics
    PullLimit = 3
    Lifetime = 1
    MaxSubs = 1
    MaxQueue = 6
SPECIFICATION Spec
PROPERTIES AbandonedNeverGrows
