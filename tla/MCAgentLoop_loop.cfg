SPECIFICATION PartFairSpec
CHECK_DEADLOCK FALSE
CONSTANTS
    NoRequest = NoRequest  Mcp = Mcp
    a1 = a1  n1 = n1  n2 = n2  g1 = g1  v1 = v1  v2 = v2
    c1 = c1  c2 = c2  c3 = c3  c4 = c4
    Calls = {c1, c2, c3, c4}
    MaxTurns = 2
    RoundMax = 2
    MaxToolCalls = 3
    MaxFailed = 2
    Retries = 1
    ToolNames = {n1, n2}  ToolAgents = {a1}  ToolPlugins = {g1}  ToolServers = {v1, v2}
    PluginTools <- ToolsOfPlugins
    ServerTools <- ToolsOfServers
    AsyncServers = {v2}
    Configurations <- SomeConfigurations
    ToolEdits = 1  CallsPerAgent = 1  ToolDepth = 2
    LspCalls = {c1, c2, c3}  LspRequests = 4
    Approvals = {c1, c2}  MaxTyped = 3
    CommandCalls = {c1, c2}  CommandRound = 2
    MaxLines = 2  MaxStarts = 2
    GuardCalls <- SomeCalls  GuardOutcomes <- SomeOutcomes  GuardPolicies <- SomePolicies
    GuardDefaults <- SomeDefaults  GuardLowest <- SomeLowest  GuardHighest <- SomeHighest
    GuardRound = 2  GuardRecent = 2
INVARIANTS
    TypeOK
    ResultsOfThisTurn
    RoundOver
    TurnAdvances
    GuardsTrue
    CallsTrue
    FrontsTrue
PROPERTIES
    TurnEnds
    WaitsEnd
