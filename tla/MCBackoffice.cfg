INIT MCInit
NEXT MCNext
CONSTANTS
    k1 = k1
    k2 = k2
    a1 = a1
    a2 = a2
    c1 = c1
    c2 = c2
    c3 = c3
    x1 = x1
    y1 = y1
    Plans = {p1}
    Subscriptions = {s1}
    SubCalls = {c1, c2, c3}
    MaxPeriod = 3
    CompanyIds = {p1}
    Members = {u1}
    Quotes = {q1}
    CompanyCarts = {x1}
    B2bOrders = {a1, a2}
    B2bCalls = {k1, k2}
    MaxCompanyEdits = 3
    Categories = {c1, c2, c3}
    Slugs = {a1, a2}
    Stores = {s1}
    Labels = {k1, k2}
    TaxonomyCalls = {k1, k2}
    MaxTaxonomyEdits = 4
    ProductIds = {a1, a2}
    Skus = {x1}
    Attributes = {q1}
    ProductCalls = {k1, k2}
    MaxProductEdits = 4
    Users = {u1}
    Roles = {adm, r1}
    Admin = adm
    DefaultPermissions = {a1, a2}
    ApiKeys = {x1}
    Tokens = {t1, t2}
    AccountCalls = {k1, k2}
    MaxAccountEdits = 4
    Suppliers = {s1}
    PurchaseOrders = {a1, a2}
    VariantCount = 2
    PoCalls = {k1, k2}
    MaxSupplyEdits = 6
    StoreIds = {s1}
    WarehouseIds = {w1, w2}
    DefaultWarehouse = w1
    Codes = {a1, a2}
    LocationCalls = {k1, k2}
    MaxLocationEdits = 4
    Listeners = {c1, c2, c3}
    Publications = {k1, k2}
    MaxBusEdits = 6
    PluginIds = {p1}
    LifecycleCalls = {k1, k2}
    JobUpdates = {a1, a2}
    MaxPluginEdits = 3
    RuleRows <- SomeRules
    CouponRows <- SomeCoupons
    Rates <- SomeRates
    Subtotal = 3
    ShippingPrices = {2}
    TaxAnswers = {1}
    GiftBalances = {2}
    PointsWorth = {1}
    MaxPriceEdits = 3
    DigitalLines = {x1, y1}
    UnitsOf <- SomeUnits
    GiftCards = {g1}
    GiftOrders = {o1}
    MaxBalance = 2
    GrantCalls = {k1, k2}
    MaxGrants = 3
CONSTRAINTS
    B2bBound
    TaxonomyBound
    PricingBound
    ProductsBound
SYMMETRY Symmetry
INVARIANTS
    PaidPeriods
    ConvertedSourcesAreOrdered
    
    CyclesNeedTwoMoves
    SearchFindsWhatIsSold
    SeedLeavesTheDefaults
    StockIsExplained
    DefaultIsKept
    EachListenerOnce
    DisabledPluginsAreSilent
    CronFollowsRegistry
    QuotesAddUp
    GrantsAreExplained
CHECK_DEADLOCK FALSE
