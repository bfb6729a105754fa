SPECIFICATION FairSpec
CONSTANTS
    c1 = c1  c2 = c2  t1 = t1
    Mates = {c1, c2, t1}
    Codex = {c1, c2}
    Temporary = {c1, t1}
    MaxSends = 2
    MaxStarts = 2
    MaxIds = 3
CONSTRAINT OneBeside
\* Once every mate is gone the teammates are at rest.
CHECK_DEADLOCK FALSE
INVARIANT
    NoSilentMate
PROPERTY
    BusyEnds
