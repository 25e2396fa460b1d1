\* Probing is switched off, and on again, while probes run.
CONSTANTS
    p1 = p1  p2 = p2  p3 = p3
    t1 = t1  t2 = t2  t3 = t3
    Pairs = {p1}
    Rank <- MCRank
    Tasks = {t1, t2}
    Sizes = {2}
    Delays = {1}
    NoPair = NoPair
SPECIFICATION Spec
PROPERTY OffDiscardsInFlight
