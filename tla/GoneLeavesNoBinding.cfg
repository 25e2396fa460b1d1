\* Two accounts and one sync at a time.
CONSTANTS
    a1 = a1  a2 = a2
    s1 = s1  s2 = s2  s3 = s3
    Accounts = {a1, a2}
    Switched = {}
    Syncs = {s1}
    NoAccount = NoAccount
SPECIFICATION Spec
INVARIANT GoneLeavesNoBinding
