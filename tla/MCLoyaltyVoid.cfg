SPECIFICATION Spec
CONSTANTS
    None = None
    a = a
    b = b
    samosa = samosa
    tea = tea
    cash = cash
    upi = upi
    Bills <- MCBills
    Lines <- MCLines
    BillOf <- MCBillOf
    Qty <- MCQty
    Fields = {"taxable", "rounding"}
    Billed <- MCBilled
    Modes = {cash, upi}
    EarnChoices = {2}
    RedeemChoices = {0, 2}
    AdjustChoices <- MCAdjusts
    MaxTime = 1
    Months = {0, 1}
    MaxAdjusts = 1
SYMMETRY MCSymmetry
CHECK_DEADLOCK FALSE
INVARIANT NotChargedTwice
