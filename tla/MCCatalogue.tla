----------------------------- MODULE MCCatalogue -----------------------------
(* A small catalogue for TLC: three products held, of which one has a       *)
(* stock entry, and one that is not, one category held and one that is not, *)
(* a seeded review; lists of all products and of some.                      *)
EXTENDS ProductPages

CONSTANTS p1, p2, p3, px, c1, cx

MCProductIds  == {p1, p2, p3, px}
MCCategoryIds == {c1, cx}

MCListing == <<p1, p2, p3>>
MCFilters == {MCProductIds, {p1, p3}}

MCSeed ==
    [products   |-> [id \in {p1, p2, p3} |-> [price |-> 1, updatedAt |-> 0]],
     categories |-> [id \in {c1} |-> "old"],
     reviews    |-> <<[id |-> <<"seeded", 1, p1>>, productId |-> p1]>>,
     inventory  |-> [id \in {p2} |-> [available |-> 2, reservedAt |-> Never]]]
=============================================================================
