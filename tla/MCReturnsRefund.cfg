SPECIFICATION Spec
CONSTANTS
    l1 = l1
    Lines = {l1}
    Ordered <- MCOrdered
    FulfillmentIds = {f1, f2}
    ReturnIds = {r1, r2}
    MaxLabels = 1
    Calls = {c1, c2}
CONSTRAINT TwoDocuments
SYMMETRY Symmetry
INVARIANT
    RefundsReachTheCustomer
CHECK_DEADLOCK FALSE
