SPECIFICATION TxSpec
CONSTANTS
    v1 = v1
    v2 = v2
    w1 = w1
    w2 = w2
    t1 = t1
    Variants <- MCVariants
    Warehouses <- MCWarehouses
    VariantId <- MCVariantId
    Requests <- MCRequests
    ReservationIds = {r1}
    TransferIds = {t1}
    Calls = {c1, c2}
    NoCall = NoCall
    MaxInt = 1
INVARIANTS
    OnlyShipmentsCloseCircles
PROPERTIES
    ImplementsInventory
    CallsEnd
