SPECIFICATION Spec
CONSTANTS
    None = None
    Plans = {p1}
    MaxActions = 2
    Keys = {k1, k2}
    Requests = {r1, r2}
    Operations = {"decide", "execute", "plan"}
SYMMETRY Symmetry
PROPERTIES
    NeverApprovedAgain
