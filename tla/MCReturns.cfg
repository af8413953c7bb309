SPECIFICATION Spec
CONSTANTS
    l1 = l1
    Lines = {l1}
    Ordered <- MCOrdered
    FulfillmentIds = {f1, f2}
    ReturnIds = {r1, r2}
    MaxLabels = 1
    Calls = {c1, c2}
CONSTRAINT TwoDocuments
SYMMETRY Symmetry
INVARIANTS
    RestockedOnce
    ExchangedOnce
    RefundedMeansPaidBack
    ShippedOrdersAreFulfilled
CHECK_DEADLOCK FALSE
