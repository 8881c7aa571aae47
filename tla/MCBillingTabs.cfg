SPECIFICATION BillingSpec
CONSTANTS
    None = None
    oa = oa
    ob = ob
    dal = dal
    cola = cola
    tandoor = tandoor
    r1 = r1
    c1 = c1
    c2 = c2
    r2 = r2
    OrderIds <- MCOrders
    Rows <- MCRows
    Stations <- MCStations
    OrderType <- MCType
    Parent <- MCParent
    PerCombo <- MCPerCombo
    StationChoices <- MCChoices
    Price <- MCPrice
    Recipes = {3}
    MaxQty = 1
    MaxSends = 1
    Discounts = {0, 200}
    Limit = 20
    MaxAmount = 1000
    Refs = {r1, r2}
    Calls = {c1, c2}
SYMMETRY MCSymmetry
CHECK_DEADLOCK FALSE
INVARIANTS OrderFollowsBill MoneyFollowsBill BilledAsReviewed
PROPERTIES ImplementsTabs
