SPECIFICATION SimPointSpec
CONSTANTS
    Interval = 2
    Starts = {0, 1}
    MaxCalls = 6
INVARIANT LocationsAreVectors
\* the run ends
CHECK_DEADLOCK FALSE
