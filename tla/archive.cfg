SPECIFICATION FairSpec
CONSTANTS
    Req = {r1}
    Expense = {e1}
    Payroll = {p1, p2}
    Slot <- OwnSlot
    Amounts = {1}
    Batch = 1
    MaxEntries = 3
    None = None
PROPERTIES
    RowsLeaveOnlyToArchive
    PayrollsLeave
