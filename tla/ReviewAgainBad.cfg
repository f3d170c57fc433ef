SPECIFICATION Spec
CONSTANTS
    None = None
    Documents = {d1}
    Requests = {r1}
    Numbers = {n1}
    Operations = {"reject"}
    Extracts = {"ambiguous"}
    Corrections = {}
    MaxRuns = 2
    MaxCandidates = 2
SYMMETRY Symmetry
INVARIANTS
    ReviewRequiredIsOpen
