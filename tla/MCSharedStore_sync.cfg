SPECIFICATION FairSpec
CONSTANTS
    gui = gui
    cli = cli
    s1 = s1
    s2 = s2
    Procs = {gui, cli}
    Gui = {gui}
    Sessions = {s1}
    Initial = {s1}
    Made = {"notice"}
    MaxIssued = 4
    MaxCrashes = 1
    MaxFailures = 0
    MaxRemovals = 0
INVARIANT
    SeenInOrder
PROPERTY
    Delivered
