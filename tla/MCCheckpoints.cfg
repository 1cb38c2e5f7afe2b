SPECIFICATION Spec
CONSTANTS
    Pages = {0, 1}
    Lists <- MCLists
    DumpIcnts = {2}
    MaxInsns = {2, 9}
    Unlimited = 9
    MaxCalls = 4
    MaxSessions = 2
INVARIANTS TypeOK CheckpointsAreStates ListedAreTaken IntervalsAreTaken BudgetKept
\* the process ends
CHECK_DEADLOCK FALSE
