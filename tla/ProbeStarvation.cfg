\* One slot for three pairs; a probe outlasts a scan and is retried after two.
CONSTANTS
    p1 = p1  p2 = p2  p3 = p3
    t1 = t1  t2 = t2  t3 = t3
    Pairs = {p1, p2, p3}
    Rank <- MCRank
    Tasks = {t1}
    Sizes = {1}
    Delays = {3}
    NoPair = NoPair
SPECIFICATION QuietSpec
PROPERTY EveryPairIsProbed
