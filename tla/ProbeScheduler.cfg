\* The operator moves the limit between one and two.
CONSTANTS
    p1 = p1  p2 = p2  p3 = p3
    t1 = t1  t2 = t2  t3 = t3
    Pairs = {p1, p2}
    Rank <- MCRank
    Tasks = {t1, t2, t3}
    Sizes = {1, 2}
    Delays = {1}
    NoPair = NoPair
SPECIFICATION Spec
SYMMETRY Symmetry
INVARIANTS TypeOK OneProbePerPair SlotsMatch
PROPERTY NeverOverLimit
