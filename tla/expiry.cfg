SPECIFICATION FairSpec
CONSTANTS
    Req = {r1, r2}
    Trainee = {t1}
    Group = {g1}
    Plan = {p1}
    Price <- PriceOf
    Amounts = {1}
    Capacities = {1}
    Ops <- ExpiryOps
    MaxSubs = 2
    MaxReceipts = 2
    None = None
PROPERTIES
    LapsedSeatsReleased
