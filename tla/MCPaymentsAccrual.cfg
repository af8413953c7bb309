SPECIFICATION Spec
CONSTANTS
    Payments = {p1}
    Orders = {o1}
    OrderOf <- MCOrderOf
    PointsFor <- MCPointsFor
    Redemptions = {1}
    Calls = {c1, c2, c3}
    Requests <- RequestType
SYMMETRY CallSymmetry
INVARIANT
    AccruedOncePerOrder
CHECK_DEADLOCK FALSE
