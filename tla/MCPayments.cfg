SPECIFICATION Spec
CONSTANTS
    Payments = {p1}
    Orders = {o1}
    OrderOf <- MCOrderOf
    PointsFor <- MCPointsFor
    Redemptions = {1}
    Calls = {c1, c2, c3, c4}
    Requests <- RequestType
SYMMETRY CallSymmetry
INVARIANTS
    AuthorizedOnce
    PointsAreForCaptures
PROPERTIES
    ImplementsLedger
CHECK_DEADLOCK FALSE
