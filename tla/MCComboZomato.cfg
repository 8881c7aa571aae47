SPECIFICATION BillingSpec
CONSTANTS
    None = None
    z = z
    meal = meal
    burger = burger
    drink = drink
    rice = rice
    grill = grill
    bar = bar
    r1 = r1
    OrderIds <- MCOrders
    Rows <- MCRows
    Stations <- MCStations
    OrderType <- MCType
    Parent <- MCParent
    PerCombo <- MCPerCombo
    StationChoices <- MCChoices
    Price <- MCPrice
    Recipes = {0, 3}
    MaxQty = 2
    MaxSends = 3
    Discounts = {50}
    Limit = 30
    MaxAmount = 1000
    Refs = {r1}
    Calls = {}
CHECK_DEADLOCK FALSE
INVARIANTS ComboTogether SentIsOnTicket BillFreezesOrder
PROPERTIES SentIsFinal ZomatoAdvances
