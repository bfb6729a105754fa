SPECIFICATION Spec
CHECK_DEADLOCK FALSE
CONSTANTS
    a1 = a1  a2 = a2  s1 = s1  s2 = s2  s3 = s3
    NoSession = NoSession
    Agents = {a1}
    Sessions = {s1, s2, s3}
    AgentOf <- OneAgent
    HardQueueDepth = 2
    MergeMax = 1
    MaxTurns = 3
    MaxJobs = 0
    MaxRemovals = 2
SYMMETRY SessionSymmetry
INVARIANTS
    TurnsAccounted
    WakeUpsKept
