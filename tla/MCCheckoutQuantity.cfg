SPECIFICATION CheckoutSpec
CHECK_DEADLOCK FALSE
CONSTANTS
    shirt = shirt
    mug = mug
    ebook = ebook
    main = main
    annex = annex
    l1 = l1
    l2 = l2
    l3 = l3
    None = None
    Variants <- ShirtVariants
    Warehouses <- MCWarehouses
    ReservationIds <- MCReservationIds
    TransferIds = {}
    MaxInt = 2
    LineIds = {l1}
    CreatedAt <- ShirtCreatedAt
    VariantOf <- ShirtVariantOf
    Physical = {shirt}
    AllowList <- TwoWarehouses
    InitialCart <- NothingSelected
    InitialLines <- ShirtLines
    InitialStock <- ShirtStock
    MaxQuantity = 2
    Prepares = {prepare1}
    Places = {place1}
    Edits = {edit1}
    Selections = {}
    Admins = {}
    ZeroPaid = {}
    GiftCredit = 0
    Points = 0
    PointsAsked = {0}
INVARIANTS
    OrderedQuantityDeducted
