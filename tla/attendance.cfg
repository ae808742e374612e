SPECIFICATION Spec
CONSTANTS
    Req = {r1, r2}
    Trainee = {t1}
    Session = {s1, s2, s3}
    None = None
    Marked <- PresentAbsent
    Total = 2
    Freeze = 1
    MaxSubs = 2
    MaxTicks = 2
    Apart = TRUE
    FixesRetakes = FALSE
INVARIANTS
    CountersFollowMarks
    ExpiredIsOver
    CancelledCostsNothing
CHECK_DEADLOCK FALSE
SYMMETRY Symmetry
