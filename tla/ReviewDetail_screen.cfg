CONSTANTS
    a = a
    b = b
    junior = junior
    senior = senior
    nowhere = nowhere
    p1 = p1
    v0 = v0
    v1 = v1
    d1 = d1
    d2 = d2
    check1 = check1
    check2 = check2
    Null = Null
    Absent = Absent
    Criteria = {"ageMax"}
    Scalars = {"maxAmountKRW"}
    Values = {v0, v1}
    Items = {check1, check2}
    Policy = p1
    Letters <- MCLetters
    Text <- MCText
    Seeded <- MCSeeded
    Drafts = {d1, d2}
    Answers <- MCAnswers
    Profiles = {junior, senior, nowhere}
    Judge <- MCJudge
    MaxMishaps = 1
SPECIFICATION Spec
SYMMETRY DraftSymmetry
INVARIANTS
    EvidenceIsReal
    HighlightIsExact
    OnlyAnExplicitNullErases
    ScreenTellsTheTruth
CHECK_DEADLOCK FALSE
