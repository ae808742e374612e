SPECIFICATION Spec
CONSTANTS
    Worker = {w1, w2}
    Req = {q1}
    good = good
    bad = bad
    Tenant = {good, bad}
    Broken = {bad}
    Group = {g1}
    TenantOf <- InGood
    MaxDate = 2
    MaxFaults = 1
    Apart = TRUE
    Shift = 0
    None = None
INVARIANTS
    TypeOK
    SessionsFollowSchedule
PROPERTIES
    OneRunner
    Backfilled
