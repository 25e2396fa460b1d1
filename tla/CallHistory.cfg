\* Two requests of two accounts, each retried once; a queue of one.  Requests
\* stop coming, so the system may come to rest.
CONSTANTS
    r1 = r1  r2 = r2  a1 = a1  a2 = a2
    Requests = {r1, r2}
    Account <- MCAccount
    QueueSize = 1
    BatchSize = 2
    MaxCalls = 2
    MaxSetbacks = 1
SPECIFICATION FairSpec
INVARIANTS TypeOK OncePerCall
PROPERTY EveryCallIsSettled
CHECK_DEADLOCK FALSE
