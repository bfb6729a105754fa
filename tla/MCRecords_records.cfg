SPECIFICATION PartSpec
CHECK_DEADLOCK FALSE
CONSTANTS
    None = None  Env = Env  Absent = Absent  Bad = Bad
    p1 = p1  p2 = p2
    a1 = a1  a2 = a2  user = user
    s1 = s1  s2 = s2
    ask = ask  fact = fact  name = name
    i1 = i1  i2 = i2  m1 = m1  m2 = m2
    q1 = q1  q2 = q2  q3 = q3  d1 = d1  d2 = d2  d3 = d3
    t1 = t1  t2 = t2  k1 = k1
    v1 = v1  j1 = j1
    Writers = {p1}
    MayFail = {"write", "snapshot", "packet"}
    Programs = {p1}  Owners = {a1, a2}  Manifests = {"none", "old", "current"}
    ProviderIds = {i1, i2}  Models = {m1, m2}  MaxModelEdits = 3
    SettingJobs = {j1}  SettingValues = {v1}  MaxSettingEdits = 2
    ShellPrograms = {p1, p2}  MaxSaves = 3
    Commands <- SomeCommands
    Default <- DefaultPolicy
    Edits <- EditedPolicies
    BaseProcesses = {p1, p2}  BaseTurns = {t1, t2}  OldVersions = {0, 1, 2, 3}
    TurnLists <- SomeTurnLists
    ShownTabs <- SomeTabs
    FormerTabs <- OldTabs
    Delegated = {j1}  MaxTasks = 2  MaxMishaps = 1
    FormerTasks <- SomeTasks
    ViewSessions = {s1, s2}  ViewAgents = {a1, a2}  OpenedViews = {user, a1}
    SessionAgent <- AgentOfSession
    MaxPosts = 2  MaxPieces = 1  MaxQueued = 1  HistoryLimit = 1
SYMMETRY Alike
CONSTRAINT FewBubbles
INVARIANTS
    MemoryTrue
    StoredTrue
    ExchangeTrue
    WritesTrue
    ViewsTrue
    ViewsOnce
PROPERTIES
    NothingLost
