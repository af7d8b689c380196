-------------------------- MODULE MCDurableCatalogue --------------------------
(* The Durable Object's catalogue for TLC: two products held and one that is *)
(* not, one category held and one that is not, one seeded review; a second   *)
(* seed that differs in one price; the tables of an object older than        *)
(* catalogue_state, changed before the release that brought it.              *)
EXTENDS DurableCatalogue, TLC

CONSTANTS p1, p2, px, c1, cx

MCProductIds    == {p1, p2, px}
MCCategoryIds   == {c1, cx}
MCProductOrder  == <<p1, p2>>
MCCategoryOrder == <<c1>>

SeedPricing(price) ==
    [products   |-> p1 :> [price |-> price, updatedAt |-> 0]
                    @@ p2 :> [price |-> 1, updatedAt |-> 0],
     categories |-> c1 :> "old",
     reviews    |-> <<[id |-> <<"seeded", 1, p1>>, productId |-> p1]>>,
     inventory  |-> p1 :> [available |-> 1, reservedAt |-> Never]
                    @@ p2 :> [available |-> 0, reservedAt |-> Never]]

OneSeed  == {SeedPricing(1)}
TwoSeeds == {SeedPricing(1), SeedPricing(2)}

MCLegacy == {[SeedPricing(1) EXCEPT !.products[p2] = [price |-> 2, updatedAt |-> 1],
                                    !.reviews = Append(@, AddedReview(2, p2))]}
=============================================================================
