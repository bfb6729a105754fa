SPECIFICATION Spec
CONSTANTS
    a1 = a1  a2 = a2  s1 = s1  s2 = s2  s3 = s3
    NoSession = NoSession
    Agents = {a1}
    Sessions = {s1, s2}
    AgentOf <- OneAgent
    HardQueueDepth = 2
    MergeMax = 2
    MaxTurns = 3
    MaxJobs = 1
    MaxRemovals = 0
SYMMETRY SessionSymmetry
INVARIANTS
    TypeOK
    OneTurnPerAgent
    ActiveTurnInFlight
    StartedInOrder
    IdleSessionSettled
