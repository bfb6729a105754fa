SPECIFICATION FairSpec
CONSTANTS
    a1 = a1  a2 = a2  s1 = s1  s2 = s2  s3 = s3
    NoSession = NoSession
    Agents = {a1, a2}
    Sessions = {s1, s2, s3}
    AgentOf <- TwoAgents
    HardQueueDepth = 2
    MergeMax = 1
    MaxTurns = 2
    MaxJobs = 0
    MaxRemovals = 0
PROPERTIES
    EveryTurnEnds
