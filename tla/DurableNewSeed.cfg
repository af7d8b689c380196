CONSTANTS
    p1 = p1
    p2 = p2
    px = px
    c1 = c1
    cx = cx
    Never = Never
    ProductIds <- MCProductIds
    CategoryIds <- MCCategoryIds
    ProductOrder <- MCProductOrder
    CategoryOrder <- MCCategoryOrder
    Money = {1, 2}
    Names = {"old", "new"}
    Times = {0, 1}
    Clock = {1}
    Counts = {0, 1}
    MaxReviews = 3
    Seeds <- TwoSeeds
    Legacy <- MCLegacy
    FailingOps = {}
SPECIFICATION Spec
PROPERTY
    ResetLeavesTheSeed
