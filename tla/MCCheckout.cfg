SPECIFICATION CheckoutSpec
CHECK_DEADLOCK FALSE
CONSTANTS
    shirt = shirt
    mug = mug
    ebook = ebook
    main = main
    annex = annex
    l1 = l1
    l2 = l2
    l3 = l3
    None = None
    Variants <- ShirtVariants
    Warehouses <- MCWarehouses
    ReservationIds <- MCReservationIds
    TransferIds = {}
    MaxInt = 2
    LineIds = {l1}
    CreatedAt <- ShirtCreatedAt
    VariantOf <- ShirtVariantOf
    Physical = {shirt}
    AllowList <- TwoWarehouses
    InitialCart <- GiftAndPoints
    InitialLines <- ShirtLines
    InitialStock <- ShirtStock
    MaxQuantity = 2
    Prepares = {prepare1, prepare2}
    Places = {place1, place2}
    Edits = {}
    Selections = {select1}
    Admins = {}
    ZeroPaid = {place2}
    GiftCredit = 3
    Points = 2
    PointsAsked = {0, 3}
SYMMETRY PrepareSymmetry
INVARIANTS
    OrdersNeverShareStock
    WalletsBalance
    CompletedOrdersArePaid
    OnlyPaidOrdersTakeStock
    ConvertedCartsAreOrdered
    OrderedQuantityDeducted
