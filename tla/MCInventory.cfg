SPECIFICATION Spec
CONSTANTS
    Variants = {v1}
    Warehouses = {w1, w2}
    ReservationIds = {r1, r2}
    TransferIds = {t1, t2}
    MaxInt = 2
SYMMETRY RowSymmetry
INVARIANTS
    TypeOK
    ReservedIsSumOfActive
    ReservedStockIsOnHand
    OnHandReconciles
    TransfersConserveStock
PROPERTIES
    SettledOnce
