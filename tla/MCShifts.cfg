SPECIFICATION ShiftsSpec
CONSTANTS
    b1 = b1
    b2 = b2
    Cashiers = {asha, ravi}
    Bills = {b1, b2}
    Total <- MCTotal
    Parts = {1, 2}
    Amounts <- MCAmounts
    MaxShifts = 2
    DayLength = 2
    MaxClock = 3
    MaxMoved = 1
    Never = Never
    Nobody = Nobody
VIEW MCView
SYMMETRY MCSymmetry
CHECK_DEADLOCK FALSE
INVARIANTS DrawerAddsUp ClosedDayStands
