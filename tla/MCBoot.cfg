SPECIFICATION BootSpec
CONSTANTS
    Options <- MCOptions
    \* within TLC's integers, so that an address of 1 GB has a high word
    WordSize = 1073741824
INVARIANTS TypeOK HandedOver TreeReadBack ReferencesResolve
\* the guest takes over
CHECK_DEADLOCK FALSE
