\* Three schema versions, two backups kept, and five setbacks.
\* At rest the newest build runs and every bound is used up.
CONSTANTS
    MaxVersion = 3
    Keep = 2
    Downgrades = FALSE
    MaxWrites = 2
    MaxSetbacks = 5
SPECIFICATION FairSpec
INVARIANTS TypeOK InterruptedIsRecoverable SchemaMatchesBuild
PROPERTY UpgradeCompletes
CHECK_DEADLOCK FALSE
