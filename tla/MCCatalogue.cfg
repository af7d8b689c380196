CONSTANTS
    p1 = p1
    p2 = p2
    p3 = p3
    px = px
    c1 = c1
    cx = cx
    Never = Never
    NoCursor = NoCursor
    ProductIds <- MCProductIds
    CategoryIds <- MCCategoryIds
    Money = {1, 2}
    Names = {"old", "new"}
    Times = {0, 1}
    Clock = {1}
    Counts = {1, 2}
    MaxReviews = 3
    Seed <- MCSeed
    Inherited = {}
    Volatile = TRUE
    Listing <- MCListing
    Filters <- MCFilters
    PageSizes = {2}
SPECIFICATION PagesSpec
INVARIANTS
    TypeOK
    StockNeverNegative
    ReviewIdsUnique
    ChangesAreStamped
    FeedsAgree
    PagesShowAllOnce
