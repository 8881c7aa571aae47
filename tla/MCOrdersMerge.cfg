SPECIFICATION Spec
CONSTANTS
    None = None
    oa = oa
    ob = ob
    oc = oc
    naan = naan
    dal = dal
    tandoor = tandoor
    OrderIds <- MCOrders
    Rows <- MCRows
    Stations <- MCStations
    OrderType <- MCType
    Parent <- MCParent
    PerCombo <- MCPerCombo
    StationChoices <- MCChoices
    Recipes = {3, 5}
    MaxQty = 3
    MaxSends = 2
SYMMETRY MCSymmetry
CHECK_DEADLOCK FALSE
INVARIANTS RowsFollowMerges StockFollowsItems
