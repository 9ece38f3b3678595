CONSTANTS
    d1 = d1
    d2 = d2
    Drafts = {d1, d2}
    MaxClicks = 3
    MaxWork = 2
    MaxSurprises = 1
SPECIFICATION Spec
SYMMETRY DraftSymmetry
INVARIANTS
    DecisionsAreTrue
    PatientReviewerIsTold
CHECK_DEADLOCK FALSE
