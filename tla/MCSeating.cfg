SPECIFICATION Spec
CONSTANTS
    None = None
    Tables = {t1, t2}
    Orders = {o1, o2, o3}
    Reservations = {r1, r2}
    Requests = {q1}
    Tiers = {"ac", "non_ac"}
    MaxSplits = 2
    MaxPending = 1
    Early = 1
    Lifetime = 2
    MaxTime = 2
VIEW MCView
SYMMETRY MCSymmetry
CHECK_DEADLOCK FALSE
INVARIANTS SlotsDisjoint TablesInUse
