SPECIFICATION MCSpec
CONSTANTS
    None = None
    w1 = w1
    w2 = w2
    sa = sa
    sb = sb
    oa = oa
    Windows <- MCWindows
    Staff <- MCStaff
    Lanes <- MCLanes
    MaxEntries = 2
    MaxRestores = 1
SYMMETRY MCSymmetry
CHECK_DEADLOCK FALSE
INVARIANTS LaneInOrder PaymentFollowsBill NothingLost DiscardHolds
PROPERTIES RestoredNeverReceivesOlder
