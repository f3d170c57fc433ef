SPECIFICATION Spec
CONSTANTS
    None = None
    Documents = {d1}
    Requests = {r1, r2}
    Numbers = {n1, n2}
    Operations = {"approve", "correct", "reject", "promote", "llm"}
    Extracts = {"clean", "ambiguous", "failed", "aborted"}
    Corrections = {"sound", "malformed"}
    MaxRuns = 2
    MaxCandidates = 3
SYMMETRY Symmetry
INVARIANTS
    ReviewedUnlessBlank
    ReviewRequiredHasTask
PROPERTIES
    KeepsTrustBoundary
    DecisionStands
    PromotionStands
