SPECIFICATION Spec
CONSTANTS
    Req = {r1, r2}
    Expense = {e1}
    Payroll = {p1}
    Slot <- SameSlot
    Amounts = {1, 2}
    Batch = 1
    MaxEntries = 3
    None = None
SYMMETRY Symmetry
INVARIANTS
    TypeOK
    SourcesMirrored
    NoSplitPair
