SPECIFICATION Spec
CONSTANTS
    Req = {r1, r2}
    Trainee = {t1}
    Group = {g1, g2}
    Plan = {p1}
    Price <- PriceOf
    Amounts = {1, 3}
    Capacities = {1}
    Ops <- MoneyOps
    MaxSubs = 2
    MaxReceipts = 3
    None = None
SYMMETRY SymmetryAll
INVARIANTS
    BalanceAddsUp
    NoDeadlock
PROPERTIES
    PaymentsNeverOverdraw
    KeepsTheBook
