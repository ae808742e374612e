SPECIFICATION Spec
CONSTANTS
    Req = {r1, r2}
    Trainee = {t1, t2}
    Group = {g1, g2}
    Plan = {p1}
    Price <- PriceOf
    Amounts = {1}
    Capacities = {1, 2}
    Ops <- SeatOps
    MaxSubs = 3
    MaxReceipts = 3
    None = None
SYMMETRY SymmetryAll
INVARIANTS
    TypeOK
    OneActivePerTrainee
    ReceiptNumbersGapFree
    OneGroupPerTrainee
PROPERTIES
    NoOverbooking
