SPECIFICATION FairSpec
CONSTANTS
    Jobs = {j1, j2, j3}
    MaxActive = 2
    MaxStored = 2
    Soft = 1
    Hard = 2
    Stall = 1
CHECK_DEADLOCK FALSE
INVARIANTS
    JobsSound
    CancelKept
PROPERTY
    KeepsBoard
