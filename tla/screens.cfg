SPECIFICATION WebSpec
CONSTANTS
    Subject <- Everyone
    Moves <- Revoked
    MaxAsked = 2
    MaxWork = 2
    MaxVersion = 3
    InOrder = TRUE
    Patient = TRUE
    Straddle = FALSE
    Excused <- Known
    Nothing = Nothing
INVARIANTS
    ShownIsServed
    SettledView
    SaysWhatHappened
    CreatesOnce
    RevokedAtOnce
