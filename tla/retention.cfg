SPECIFICATION Spec
CONSTANTS
    Req = {r1, r2}
    Sub = {s1, s2}
    Price = 2
    Amounts = {1, 3}
    Batch = 1
    MaxReceipts = 3
    None = None
SYMMETRY Symmetry
INVARIANTS
    ReceiptsKeepTheirOwn
    ArchivedAsLeft
    FollowsInTheSameRun
