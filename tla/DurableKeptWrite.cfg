CONSTANTS
    p1 = p1
    p2 = p2
    px = px
    c1 = c1
    cx = cx
    Never = Never
    ProductIds <- MCProductIds
    CategoryIds <- MCCategoryIds
    ProductOrder <- MCProductOrder
    CategoryOrder <- MCCategoryOrder
    Money = {1, 2}
    Names = {"old", "new"}
    Times = {0, 1}
    Clock = {1}
    Counts = {0, 1}
    MaxReviews = 3
    Seeds <- OneSeed
    Legacy <- MCLegacy
    FailingOps = {"setPrice"}
SPECIFICATION Spec
PROPERTY
    ResetLeavesTheSeed
