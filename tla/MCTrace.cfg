SPECIFICATION Spec
CONSTANTS
    BUFLEN = 2
    BLOCK = 3
    Lines = {l1, l2}
    None = None
    MaxIcnt = 3
    MaxRecords = 3
INVARIANTS TypeOK NothingLostButTheBuffer SimulatesPrefix
PROPERTY RunsEnd
\* both programs end
CHECK_DEADLOCK FALSE
