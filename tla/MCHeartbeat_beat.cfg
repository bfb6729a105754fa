SPECIFICATION FairSpec
CONSTANTS
    sum1 = sum1  sum2 = sum2
    Summaries = {sum1, sum2}
    NoSummary = NoSummary
    MaxStates = 2
INVARIANTS
    CyclesSound
    NoRepeat
PROPERTIES
    TicketKept
    BeatsGoOn
\* Once freed memory was used nothing is known of the process.
CHECK_DEADLOCK FALSE
