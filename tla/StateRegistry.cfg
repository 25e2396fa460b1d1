\* Every interleaving of one writer at a time with readers, clock, settings,
\* failed transactions and restarts.
CONSTANTS
    p1 = p1  p2 = p2
    old = old  opaque = opaque
    Pairs = {p1, p2}
    Values = {old, opaque}
    Readable = {old}
    Issued <- MCIssued
    Policies <- MCPolicies
    Sources = {"probe"}
    MaxClock = 2
    NoBinding = NoBinding  NoRow = NoRow  NoOp = NoOp
SPECIFICATION Spec
SYMMETRY Symmetry
INVARIANTS TypeOK Coherent AuditTrail UsableWithinLife
PROPERTY ImplementsMap
