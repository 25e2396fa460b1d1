\* Two walks of one account over two nodes.
CONSTANTS
    w1 = w1  w2 = w2  a1 = a1  a2 = a2
    Nodes = {1, 2}
    Accounts = {a1}
    Workers = {w1, w2}
    Top = 2
    MaxProxies = 0
    MaxUnusable = 1
    MaxSetbacks = 1
SPECIFICATION Spec
SYMMETRY Symmetry
INVARIANTS TypeOK StrikesBounded BenchesAreEarned
