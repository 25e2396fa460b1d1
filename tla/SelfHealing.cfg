\* Three concurrent requests for one pair beside its probe; two 5xx are a run.
CONSTANTS
    r1 = r1  r2 = r2  r3 = r3
    v1 = v1  v2 = v2  bad = bad
    p1 = p1
    Pairs = {p1}
    Requests = {r1, r2, r3}
    Values = {v1, v2, bad}
    Targets = {v1, v2}
    Limit = 2
    NoValue = NoValue  NoPair = NoPair  NoRecord = NoRecord
SPECIFICATION Spec
SYMMETRY Symmetry

INVARIANTS TypeOK StrikesAreEarned OnlyCarriersHeal RunsAreActedUpon
