\* One slot more than pairs, so that a goroutine may release late.
CONSTANTS
    p1 = p1  p2 = p2  p3 = p3
    t1 = t1  t2 = t2  t3 = t3
    Pairs = {p1, p2}
    Rank <- MCRank
    Tasks = {t1, t2, t3}
    Sizes = {3}
    Delays = {1}
    NoPair = NoPair
SPECIFICATION FairSpec
PROPERTY EveryPairIsProbed
