\* Two requests at a time among three accounts, one of a lower priority.  The
\* clock shows ":00Z" and ":00.3Z" of each second, whose texts are in reverse order.
CONSTANTS
    d1 = d1  d2 = d2
    Accounts = {1, 2, 3}
    Priority <- MCPriority
    Deciders = {d1, d2}
    Readings = 2
    TextOrder <- MCTextOrder
    MaxSecond = 2
    MaxSetbacks = 1
SPECIFICATION Spec
SYMMETRY Symmetry
INVARIANTS TypeOK NoOutranking Rotates
