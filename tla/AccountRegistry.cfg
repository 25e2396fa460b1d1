\* Three concurrent syncs of one account, which comes and goes.
CONSTANTS
    a1 = a1  a2 = a2
    s1 = s1  s2 = s2  s3 = s3
    Accounts = {a1}
    Switched = {a1}
    Syncs = {s1, s2, s3}
    NoAccount = NoAccount
SPECIFICATION FairSpec
INVARIANTS TypeOK OrphansAreExplained
PROPERTY ViewConverges
