SPECIFICATION MCSpec
CONSTANTS
    None = None
    a = a
    b = b
    n = n
    r = r
    t = t
    Counters = {a, b}
    Sales = {n, r, t}
    Kind <- MCKind
    Term <- MCTerm
    Outlets <- MCOutlets
    Price <- MCPrice
    GraceDays = 1
    Slots = {1, 2}
    MaxNow = 1
    MaxRevision = 2
    MaxTroubles = 2
    Amounts = {1}
    Days = {1, 2}
    MaxMoney = 1
CHECK_DEADLOCK FALSE
INVARIANT SoldOnce
PROPERTIES LinkMoneyCounts NewestReachesCounter
