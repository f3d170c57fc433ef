SPECIFICATION Spec
CONSTANTS
    None = None
    Plans = {p1, p2}
    MaxActions = 2
    Keys = {k1, k2}
    Requests = {r1, r2}
    Operations = {"decide", "execute", "plan"}
SYMMETRY Symmetry
INVARIANTS
    ExecutedOnce
    PartialIsNotCompleted
    ExecutedInOrder
PROPERTIES
    KeepsApprovalGate
    SettledUnlessDeciding
