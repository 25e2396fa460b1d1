\* Three schema versions.
\* At rest the newest build runs and every bound is used up.
CONSTANTS
    MaxVersion = 3
    Keep = 2
    Downgrades = FALSE
    MaxWrites = 2
    MaxSetbacks = 2
SPECIFICATION Spec
INVARIANT NoDataIsLost
CHECK_DEADLOCK FALSE
