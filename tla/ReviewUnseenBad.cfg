SPECIFICATION Spec
CONSTANTS
    None = None
    Documents = {d1}
    Requests = {r1}
    Numbers = {n1}
    Operations = {"approve", "promote"}
    Extracts = {"clean", "failed"}
    Corrections = {}
    MaxRuns = 2
    MaxCandidates = 2
SYMMETRY Symmetry
INVARIANTS
    OnlyReviewedIsPromoted
