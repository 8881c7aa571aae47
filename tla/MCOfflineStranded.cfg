SPECIFICATION Spec
CONSTANTS
    None = None
    w1 = w1
    w2 = w2
    sa = sa
    sb = sb
    oa = oa
    Windows <- MCOneWindow
    Staff <- MCStaff
    Lanes <- MCLanes
    MaxEntries = 2
    MaxRestores = 0
CHECK_DEADLOCK FALSE
PROPERTIES RetriedCanGo
