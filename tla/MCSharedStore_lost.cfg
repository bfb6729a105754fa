SPECIFICATION Spec
CONSTANTS
    gui = gui
    cli = cli
    s1 = s1
    s2 = s2
    Procs = {gui, cli}
    Gui = {gui}
    Sessions = {s1, s2}
    Initial = {s1}
    Made = {"user", "merged", "reply", "teammate", "notice"}
    MaxIssued = 3
    MaxCrashes = 0
    MaxFailures = 0
    MaxRemovals = 0
PROPERTY
    NothingLost
