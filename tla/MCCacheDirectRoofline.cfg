SPECIFICATION SweepSpec
CONSTANTS
    Ways = 3
    FewWays = 2
    Sets = 2
    Lines = {0, 1, 2, 4, 6, 8}
    MaxAccesses = 7
INVARIANT DirectRoofline
\* a trace ends
CHECK_DEADLOCK FALSE
