SPECIFICATION CheckoutSpec
CHECK_DEADLOCK FALSE
CONSTANTS
    shirt = shirt
    mug = mug
    ebook = ebook
    main = main
    annex = annex
    l1 = l1
    l2 = l2
    l3 = l3
    None = None
    Variants <- MixedVariants
    Warehouses = {main}
    ReservationIds <- MCReservationIds
    TransferIds = {}
    MaxInt = 3
    LineIds = {l1, l2, l3}
    CreatedAt <- MixedCreatedAt
    VariantOf <- MixedVariantOf
    Physical = {shirt, mug}
    AllowList <- OneWarehouse
    InitialCart <- NothingSelected
    InitialLines <- MixedLines
    InitialStock <- MixedStock
    MaxQuantity = 2
    Prepares = {prepare1, prepare2}
    Places = {place1}
    Edits = {edit1}
    Selections = {}
    Admins = {admin1}
    ZeroPaid = {}
    GiftCredit = 0
    Points = 0
    PointsAsked = {0}
SYMMETRY PrepareSymmetry
INVARIANTS
    CompletedOrdersArePaid
